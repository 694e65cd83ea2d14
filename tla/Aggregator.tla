----------------------------- MODULE Aggregator -----------------------------
(***************************************************************************)
(* The aggregation of a broadcast's results into the Task that a blocking  *)
(* send returns (hub/aggregator.py).  The results arrive one agent at a    *)
(* time, in the order the fan-out calls them, and are then aggregated by   *)
(* the strategy the message or the channel asks for.                       *)
(*                                                                         *)
(* A text or an error that is None or empty is Nothing: the code tests     *)
(* both by their truth value only.                                         *)
(***************************************************************************)
EXTENDS Naturals, Sequences, FiniteSets, SequencesExt

CONSTANTS
    Agents,
    Texts,       \* non-empty answers
    Ballots,     \* answers stripped and in lower case
    Normal,      \* the ballot an answer is
    Errors,      \* non-empty error texts
    Nothing

(* An error is shown behind a label of its own, so no answer reads like it. *)
ASSUME AggregatorAssumption ==
    /\ Normal \in [Texts -> Ballots]
    /\ Nothing \notin Texts \cup Errors \cup Ballots
    /\ Texts \cap Errors = {}

Strategies == {"all", "first", "consensus", "voting", "best_of_n"}

(* What calling an agent leaves: a text, an error, or nothing of either.   *)
Result == {[agent |-> a, text |-> t, error |-> Nothing] :
              a \in Agents, t \in Texts \cup {Nothing}}
          \cup
          {[agent |-> a, text |-> Nothing, error |-> e] :
              a \in Agents, e \in Errors}

VARIABLES
    results,     \* the results collected so far
    task         \* the aggregated Task, or NoTask

vars == <<results, task>>

NoTask == [strategy |-> "none"]

(* An artifact is the agent it is from and what it shows: the error before *)
(* the text, Nothing where the code writes "[No response]".                *)
Shown(r) == IF r.error # Nothing THEN r.error ELSE r.text

Artifact(r) == [agent |-> r.agent, content |-> Shown(r)]

Valid(r) == r.text # Nothing /\ r.error = Nothing

StrategyAll(rs) == [i \in DOMAIN rs |-> Artifact(rs[i])]

(* mutant *)
StrategyFirstFastest(rs) ==
    IF rs = <<>> THEN <<>> ELSE <<Artifact(rs[1])>>

(* The first valid answer or, failing one, the first result whatever it is *)
StrategyFirst(rs) ==
    LET i == SelectInSeq(rs, Valid)
    IN CASE rs = <<>> -> <<>>
         [] i # 0 -> <<Artifact(rs[i])>>
         [] OTHER -> <<Artifact(rs[1])>>

(* The Counter of ballots, in the order each was first cast.               *)
Count(counter, r) ==
    LET b == Normal[r.text]
        i == SelectInSeq(counter, LAMBDA e : e.ballot = b)
    IN IF i = 0 THEN Append(counter, [ballot |-> b, n |-> 1])
       ELSE [counter EXCEPT ![i].n = @ + 1]

Counter(rs) ==
    LET Votes[i \in 0 .. Len(rs)] ==
          IF i = 0 THEN <<>>
          ELSE IF Valid(rs[i]) THEN Count(Votes[i - 1], rs[i])
          ELSE Votes[i - 1]
    IN Votes[Len(rs)]

Total(counter) ==
    LET Sum[i \in 0 .. Len(counter)] ==
          IF i = 0 THEN 0 ELSE Sum[i - 1] + counter[i].n
    IN Sum[Len(counter)]

(* mutant *)
MostCommonLast(counter) ==
    CHOOSE i \in DOMAIN counter :
       /\ \A j \in DOMAIN counter : counter[j].n <= counter[i].n
       /\ \A j \in DOMAIN counter : j > i => counter[j].n < counter[i].n

(* most_common(1): of the ballots with most votes, the one cast first.     *)
MostCommon(counter) ==
    CHOOSE i \in DOMAIN counter :
       /\ \A j \in DOMAIN counter : counter[j].n <= counter[i].n
       /\ \A j \in DOMAIN counter : j < i => counter[j].n < counter[i].n

StrategyVoting(rs) ==
    LET counter == Counter(rs)
        w == counter[MostCommon(counter)]
    IN IF counter = <<>> THEN <<[winner |-> Nothing, n |-> 0, total |-> 0]>>
       ELSE <<[winner |-> w.ballot, n |-> w.n, total |-> Total(counter)]>>

(* mutant *)
SuccessCountTexts(rs) == Cardinality({i \in DOMAIN rs : rs[i].text # Nothing})

SuccessCount(rs) == Cardinality({i \in DOMAIN rs : rs[i].error = Nothing})

(* Two strategies would need an LLM and fall back to "all".                *)
Actual(s) == IF s \in {"consensus", "best_of_n"} THEN "all" ELSE s

Aggregated(rs, s) ==
    [requested |-> s, strategy |-> Actual(s),
     artifacts |-> CASE Actual(s) = "first" -> StrategyFirst(rs)
                     [] Actual(s) = "voting" -> StrategyVoting(rs)
                     [] OTHER -> StrategyAll(rs),
     peers |-> Len(rs), success |-> SuccessCount(rs),
     errors |-> Len(rs) - SuccessCount(rs)]

-----------------------------------------------------------------------------
Init == results = <<>> /\ task = NoTask

(* fan_out appends the result of the next agent. *)
Collect(r) ==
    /\ task = NoTask
    /\ \A i \in DOMAIN results : results[i].agent # r.agent
    /\ results' = Append(results, r)
    /\ UNCHANGED task

Aggregate(s) ==
    /\ task = NoTask
    /\ task' = Aggregated(results, s)
    /\ UNCHANGED results

Next == \/ \E r \in Result : Collect(r)
        \/ \E s \in Strategies : Aggregate(s)

Spec == Init /\ [][Next]_vars

-----------------------------------------------------------------------------
Voters(b) == {i \in DOMAIN results : Valid(results[i]) /\ Normal[results[i].text] = b}
FirstVote(b) == CHOOSE i \in Voters(b) : \A j \in Voters(b) : i <= j

(* The voting result is a plurality of the valid answers compared without  *)
(* case and outer blanks; a tie goes to the ballot an agent cast first,    *)
(* and the two numbers shown are its votes and all valid votes             *)
(* (_strategy_voting).                                                     *)
VotingIsPlurality ==
    task.strategy = "voting" =>
       LET v == task.artifacts[1]
           cast == {b \in Ballots : Voters(b) # {}}
       IN /\ v.total = Cardinality({i \in DOMAIN results : Valid(results[i])})
          /\ v.winner = Nothing <=> cast = {}
          /\ cast # {} =>
               /\ v.n = Cardinality(Voters(v.winner))
               /\ \A b \in cast \ {v.winner} :
                     \/ Cardinality(Voters(b)) < v.n
                     \/ /\ Cardinality(Voters(b)) = v.n
                        /\ FirstVote(v.winner) < FirstVote(b)

(* "first" answers with a text whenever some agent gave one, and with that *)
(* of the earliest agent called that did; it never mixes one agent's name  *)
(* with another's answer (_strategy_first).                                *)
FirstAnswers ==
    task.strategy = "first" =>
       /\ Len(task.artifacts) = IF results = <<>> THEN 0 ELSE 1
       /\ \A i \in DOMAIN results :
             Valid(results[i]) /\ (\A j \in 1 .. i - 1 : ~Valid(results[j]))
               => task.artifacts[1] = [agent |-> results[i].agent,
                                       content |-> results[i].text]

(* Under "all" (and the two strategies that fall back to it) the counts    *)
(* next to the artifacts agree with what they show: every agent has one    *)
(* artifact, in call order, and error_count of them show an error          *)
(* (aggregate and _strategy_all).                                          *)
CountsMatchArtifacts ==
    task.strategy = "all" =>
       /\ Len(task.artifacts) = task.peers
       /\ \A i \in DOMAIN results : task.artifacts[i].agent = results[i].agent
       /\ task.errors = Cardinality({i \in DOMAIN task.artifacts :
                                        task.artifacts[i].content \in Errors})

=============================================================================
