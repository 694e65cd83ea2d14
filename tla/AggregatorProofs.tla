--------------------------- MODULE AggregatorProofs ---------------------------
(***************************************************************************)
(* What the strategies "first", "all" and "voting" return, for any number  *)
(* of agents, answers and errors.  The count of votes is a loop over the   *)
(* results: what it holds is proved by induction over them.                *)
(***************************************************************************)
EXTENDS Aggregator, FiniteSetTheorems, SequenceLemmas

(* The Task, once it is there, is that of the results collected.           *)
TaskInv ==
    /\ results \in Seq(Result)
    /\ task = NoTask \/ \E s \in Strategies : task = Aggregated(results, s)

LEMMA TaskInvariant == Spec => []TaskInv
<1>1. Init => TaskInv
  BY DEF Init, TaskInv
<1>2. TaskInv /\ [Next]_vars => TaskInv'
  <2> SUFFICES ASSUME TaskInv, [Next]_vars PROVE TaskInv'
    OBVIOUS
  <2>1. ASSUME NEW r \in Result, Collect(r) PROVE TaskInv'
    <3>1. task' = NoTask /\ results' = Append(results, r)
      BY <2>1 DEF Collect
    <3>2. results' \in Seq(Result)
      BY <3>1 DEF TaskInv
    <3> QED
      BY <3>1, <3>2 DEF TaskInv, NoTask
  <2>2. ASSUME NEW s \in Strategies, Aggregate(s) PROVE TaskInv'
    <3>1. task' = Aggregated(results, s) /\ results' = results
      BY <2>2 DEF Aggregate
    <3> QED
      BY <3>1 DEF TaskInv
  <2>3. CASE UNCHANGED vars
    BY <2>3 DEF vars, TaskInv, NoTask
  <2> QED
    BY <2>1, <2>2, <2>3 DEF Next
<1> QED
  BY <1>1, <1>2, PTL DEF Spec

(* A result shows an error, or a text, or nothing; never two of them.      *)
LEMMA Results ==
    ASSUME NEW r \in Result
    PROVE  /\ r.error = Nothing <=> Shown(r) \notin Errors
           /\ Valid(r) => Shown(r) = r.text
<1>1. CASE \E a \in Agents, t \in Texts \cup {Nothing} :
             r = [agent |-> a, text |-> t, error |-> Nothing]
  BY <1>1, AggregatorAssumption DEF Shown, Valid
<1>2. CASE \E a \in Agents, e \in Errors :
             r = [agent |-> a, text |-> Nothing, error |-> e]
  BY <1>2, AggregatorAssumption DEF Shown, Valid
<1> QED
  BY <1>1, <1>2 DEF Result

(* The task of a strategy, field by field. *)
LEMMA TaskOf ==
    ASSUME TaskInv, task # NoTask
    PROVE  \E s \in Strategies :
             /\ task = Aggregated(results, s)
             /\ task.strategy = Actual(s)
BY DEF TaskInv, Aggregated

-----------------------------------------------------------------------------
LEMMA FirstValid ==
    ASSUME NEW rs \in Seq(Result)
    PROVE  /\ Len(StrategyFirst(rs)) = IF rs = <<>> THEN 0 ELSE 1
           /\ \A i \in DOMAIN rs :
                Valid(rs[i]) /\ (\A j \in 1 .. i - 1 : ~Valid(rs[j]))
                  => StrategyFirst(rs)[1] = [agent |-> rs[i].agent,
                                             content |-> rs[i].text]
<1> DEFINE I == {i \in 1 .. Len(rs) : Valid(rs[i])}
           k == SelectInSeq(rs, Valid)
<1>1. k = IF I # {} THEN Min(I) ELSE 0
  BY DEF SelectInSeq
<1>2. ASSUME NEW i \in DOMAIN rs, Valid(rs[i]), \A j \in 1 .. i - 1 : ~Valid(rs[j])
      PROVE  k = i
  <2>1. i \in I /\ \A j \in I : i <= j
    BY <1>2
  <2>2. \A m \in I : (\A j \in I : m <= j) => m = i
    BY <2>1
  <2>3. Min(I) = i
    BY <2>1, <2>2 DEF Min
  <2> QED
    BY <1>1, <2>1, <2>3
<1> HIDE DEF k
<1>3. StrategyFirst(rs) = CASE rs = <<>> -> <<>>
                            [] k # 0 -> <<Artifact(rs[k])>>
                            [] OTHER -> <<Artifact(rs[1])>>
  BY DEF StrategyFirst, k
<1>4. CASE rs = <<>>
  <2>1. k = 0
    BY <1>1, <1>4
  <2> QED
    BY <1>3, <1>4, <2>1
<1>5. CASE rs # <<>>
  <2>1. StrategyFirst(rs) = IF k # 0 THEN <<Artifact(rs[k])>> ELSE <<Artifact(rs[1])>>
    BY <1>3, <1>5
  <2>2. Len(StrategyFirst(rs)) = 1
    BY <2>1
  <2>3. ASSUME NEW i \in DOMAIN rs, Valid(rs[i]), \A j \in 1 .. i - 1 : ~Valid(rs[j])
        PROVE  StrategyFirst(rs)[1] = [agent |-> rs[i].agent, content |-> rs[i].text]
    <3>1. k = i /\ i # 0
      BY <1>2, <2>3
    <3>2. StrategyFirst(rs)[1] = Artifact(rs[i])
      BY <2>1, <3>1
    <3>3. Shown(rs[i]) = rs[i].text
      BY <2>3, Results
    <3> QED
      BY <3>2, <3>3 DEF Artifact
  <2> QED
    BY <1>5, <2>2, <2>3
<1> QED
  BY <1>4, <1>5

(* "first" answers with a text whenever some agent gave one, and with that *)
(* of the earliest agent called that did (aggregator.py, _strategy_first). *)
THEOREM FirstIsTheEarliest == Spec => []FirstAnswers
<1>1. TaskInv => FirstAnswers
  <2> SUFFICES ASSUME TaskInv, task.strategy = "first" PROVE FirstAnswers
    BY DEF FirstAnswers
  <2>1. task # NoTask
    BY DEF NoTask
  <2>2. PICK s \in Strategies : task = Aggregated(results, s) /\ task.strategy = Actual(s)
    BY <2>1, TaskOf
  <2>3. task.artifacts = StrategyFirst(results)
    BY <2>2 DEF Aggregated
  <2> QED
    BY <2>3, FirstValid DEF FirstAnswers, TaskInv
<1> QED
  BY <1>1, TaskInvariant, PTL

-----------------------------------------------------------------------------
LEMMA ErrorsAreShown ==
    ASSUME NEW rs \in Seq(Result)
    PROVE  Len(rs) - SuccessCount(rs) =
             Cardinality({i \in DOMAIN rs : Shown(rs[i]) \in Errors})
<1> DEFINE All == 1 .. Len(rs)
           Good == {i \in All : rs[i].error = Nothing}
           Bad == {i \in All : Shown(rs[i]) \in Errors}
<1>1. Bad = All \ Good
  BY Results
<1>2. IsFiniteSet(All) /\ Cardinality(All) = Len(rs)
  <2>1. Len(rs) \in Nat /\ 1 \in Int /\ Len(rs) \in Int
    OBVIOUS
  <2>2. /\ IsFiniteSet(All)
        /\ Cardinality(All) = IF 1 > Len(rs) THEN 0 ELSE Len(rs) - 1 + 1
    BY <2>1, FS_Interval
  <2> HIDE DEF All
  <2> QED
    BY <2>1, <2>2
<1>3. Cardinality(All \ Good) = Cardinality(All) - Cardinality(All \cap Good)
  BY <1>2, FS_Difference
<1>4. All \cap Good = Good
  OBVIOUS
<1>5. Cardinality(Good) \in Nat
  BY <1>2, FS_Subset, FS_CardinalityType
<1>6. DOMAIN rs = All
  OBVIOUS
<1>7. SuccessCount(rs) = Cardinality(Good)
  BY <1>6 DEF SuccessCount
<1>8. {i \in DOMAIN rs : Shown(rs[i]) \in Errors} = Bad
  BY <1>6
<1>9. Len(rs) \in Nat
  OBVIOUS
<1> HIDE DEF All, Good, Bad
<1> QED
  BY <1>1, <1>2, <1>3, <1>4, <1>5, <1>7, <1>8, <1>9

(* Under "all" every agent has one artifact, in call order, and            *)
(* error_count of them show an error (aggregator.py, aggregate).           *)
THEOREM AllCountsItsArtifacts == Spec => []CountsMatchArtifacts
<1>1. TaskInv => CountsMatchArtifacts
  <2> SUFFICES ASSUME TaskInv, task.strategy = "all" PROVE CountsMatchArtifacts
    BY DEF CountsMatchArtifacts
  <2>1. task # NoTask
    BY DEF NoTask
  <2>2. PICK s \in Strategies : task = Aggregated(results, s) /\ task.strategy = Actual(s)
    BY <2>1, TaskOf
  <2>3. /\ task.artifacts = StrategyAll(results)
        /\ task.peers = Len(results)
        /\ task.errors = Len(results) - SuccessCount(results)
    BY <2>2 DEF Aggregated
  <2>4. PICK rs \in Seq(Result) : rs = results
    BY DEF TaskInv
  <2>5. /\ DOMAIN StrategyAll(rs) = DOMAIN rs
        /\ \A i \in DOMAIN rs : /\ StrategyAll(rs)[i].agent = rs[i].agent
                                /\ StrategyAll(rs)[i].content = Shown(rs[i])
    BY DEF StrategyAll, Artifact
  <2>6. Len(StrategyAll(rs)) = Len(rs)
    BY DEF StrategyAll
  <2>7. {i \in DOMAIN rs : StrategyAll(rs)[i].content \in Errors} =
          {i \in DOMAIN rs : Shown(rs[i]) \in Errors}
    BY <2>5
  <2> QED
    BY <2>3, <2>4, <2>5, <2>6, <2>7, ErrorsAreShown DEF CountsMatchArtifacts
<1> QED
  BY <1>1, TaskInvariant, PTL

-----------------------------------------------------------------------------
(* The counter of "voting" is built by loops; what a loop leaves is stated *)
(* of a sequence with one element more.                                    *)
Entry == [ballot : Ballots, n : Nat]

CountsVotes(F, rs) ==
    F = [i \in 0 .. Len(rs) |->
           IF i = 0 THEN <<>>
           ELSE IF Valid(rs[i]) THEN Count(F[i - 1], rs[i]) ELSE F[i - 1]]

LEMMA BallotOf ==
    ASSUME NEW r \in Result, Valid(r)
    PROVE  Normal[r.text] \in Ballots
<1>1. CASE \E a \in Agents, t \in Texts \cup {Nothing} :
             r = [agent |-> a, text |-> t, error |-> Nothing]
  BY <1>1, AggregatorAssumption DEF Valid
<1>2. CASE \E a \in Agents, e \in Errors :
             r = [agent |-> a, text |-> Nothing, error |-> e]
  BY <1>2, AggregatorAssumption DEF Valid
<1> QED
  BY <1>1, <1>2 DEF Result

LEMMA Entries ==
    ASSUME NEW q \in Seq(Entry)
    PROVE  /\ Len(q) \in Nat
           /\ \A i \in 1 .. Len(q) :
                q[i] \in Entry /\ q[i].ballot \in Ballots /\ q[i].n \in Nat
<1>1. \A i \in 1 .. Len(q) : q[i] \in Entry
  OBVIOUS
<1>2. \A e \in Entry : e.ballot \in Ballots /\ e.n \in Nat
  BY DEF Entry
<1> QED
  BY <1>1, <1>2

(* A vote opens a new entry, or goes to the one its ballot has.            *)
Opens(q, b, s) ==
    /\ \A i \in 1 .. Len(q) : q[i].ballot # b
    /\ s = Append(q, [ballot |-> b, n |-> 1])
Raises(q, b, i, s) ==
    /\ q[i].ballot = b
    /\ s = [q EXCEPT ![i] = [ballot |-> b, n |-> q[i].n + 1]]

LEMMA CountIs ==
    ASSUME NEW q \in Seq(Entry), NEW r
    PROVE  \/ Opens(q, Normal[r.text], Count(q, r))
           \/ \E i \in 1 .. Len(q) : Raises(q, Normal[r.text], i, Count(q, r))
<1> DEFINE b == Normal[r.text]
           I == {i \in 1 .. Len(q) : q[i].ballot = b}
           k == SelectInSeq(q, LAMBDA e : e.ballot = b)
<1>1. k = IF I # {} THEN Min(I) ELSE 0
  BY DEF SelectInSeq
<1>2. Count(q, r) = IF k = 0 THEN Append(q, [ballot |-> b, n |-> 1])
                    ELSE [q EXCEPT ![k].n = @ + 1]
  BY DEF Count
<1> HIDE DEF k
<1>3. CASE I = {}
  <2>1. \A i \in 1 .. Len(q) : q[i].ballot # b
    BY <1>3
  <2>2. Count(q, r) = Append(q, [ballot |-> b, n |-> 1])
    BY <1>1, <1>2, <1>3
  <2>3. Opens(q, b, Count(q, r))
    BY <2>1, <2>2 DEF Opens
  <2> QED
    BY <2>3
<1>4. CASE I # {}
  <2>1. I \in SUBSET Nat
    OBVIOUS
  <2> HIDE DEF I
  <2>2. \E m \in I : \A n \in I : m <= n
    BY <1>4, <2>1, LeastElement
  <2>3. Min(I) \in I
    BY <2>2 DEF Min
  <2>4. k \in I
    BY <1>1, <1>4, <2>3
  <2>5. k \in 1 .. Len(q) /\ q[k].ballot = b
    BY <2>4 DEF I
  <2>6. k # 0
    BY <2>5
  <2>7. Count(q, r) = [q EXCEPT ![k] = [q[k] EXCEPT !.n = @ + 1]]
    BY <1>2, <2>6
  <2>8. q[k] \in Entry
    BY <2>5
  <2>9. [q[k] EXCEPT !.n = @ + 1] = [ballot |-> b, n |-> q[k].n + 1]
    BY <2>5, <2>8 DEF Entry
  <2>10. Raises(q, b, k, Count(q, r))
    BY <2>5, <2>7, <2>9 DEF Raises
  <2> QED
    BY <2>5, <2>10
<1> QED
  BY <1>3, <1>4

LEMMA CountType ==
    ASSUME NEW q \in Seq(Entry), NEW r \in Result, Valid(r)
    PROVE  Count(q, r) \in Seq(Entry)
<1> DEFINE b == Normal[r.text]
           s == Count(q, r)
<1>1. b \in Ballots
  BY BallotOf
<1>2. Opens(q, b, s) \/ \E i \in 1 .. Len(q) : Raises(q, b, i, s)
  BY CountIs
<1> HIDE DEF b, s
<1>3. CASE Opens(q, b, s)
  <2>1. [ballot |-> b, n |-> 1] \in Entry
    BY <1>1 DEF Entry
  <2> QED
    BY <1>3, <2>1 DEF Opens, s
<1>4. ASSUME NEW i \in 1 .. Len(q), Raises(q, b, i, s) PROVE s \in Seq(Entry)
  <2>1. q[i].n \in Nat
    BY Entries
  <2>2. [ballot |-> b, n |-> q[i].n + 1] \in Entry
    BY <1>1, <2>1 DEF Entry
  <2> QED
    BY <1>4, <2>2 DEF Raises
<1> QED
  BY <1>2, <1>3, <1>4 DEF s

LEMMA CounterExists ==
    ASSUME NEW rs \in Seq(Result)
    PROVE  \E F : CountsVotes(F, rs)
<1> DEFINE n == Len(rs)
           D == Seq(Entry)
           base == <<>>
           step == [i \in 1 .. n |->
                      [q \in D |-> IF Valid(rs[i]) THEN Count(q, rs[i]) ELSE q]]
<1>1. n \in Nat /\ base \in D
  OBVIOUS
<1>2. step \in [1 .. n -> [D -> D]]
  <2>1. ASSUME NEW i \in 1 .. n, NEW q \in Seq(Entry)
        PROVE  (IF Valid(rs[i]) THEN Count(q, rs[i]) ELSE q) \in Seq(Entry)
    <3>1. rs[i] \in Result
      OBVIOUS
    <3> QED
      BY <3>1, CountType
  <2>2. ASSUME NEW i \in 1 .. n
        PROVE  [q \in D |-> IF Valid(rs[i]) THEN Count(q, rs[i]) ELSE q] \in [D -> D]
    BY <2>1
  <2> HIDE DEF D
  <2> QED
    BY <2>2
<1> HIDE DEF n, D, base, step
<1>3. PICK F : Loop(F, n, D, base, step)
  BY <1>1, <1>2, LoopExists
<1>4. ASSUME NEW i \in 1 .. n
      PROVE  F[i] = IF Valid(rs[i]) THEN Count(F[i - 1], rs[i]) ELSE F[i - 1]
  <2>1. F[i - 1] \in D /\ F[i] = step[i][F[i - 1]]
    BY <1>1, <1>3 DEF Loop
  <2> QED
    BY <2>1 DEF step, D
<1>5. F = [i \in 0 .. n |-> F[i]] /\ F[0] = <<>>
  BY <1>3 DEF Loop, base
<1>6. ASSUME NEW i \in 0 .. n
      PROVE  F[i] = IF i = 0 THEN <<>>
                    ELSE IF Valid(rs[i]) THEN Count(F[i - 1], rs[i]) ELSE F[i - 1]
  <2>1. i = 0 \/ i \in 1 .. n
    BY <1>1
  <2> QED
    BY <1>4, <1>5, <2>1
<1>7. CountsVotes(F, rs)
  BY <1>5, <1>6 DEF CountsVotes, n
<1> QED
  BY <1>7

LEMMA CountsFrom ==
    ASSUME NEW rs \in Seq(Result), NEW F, CountsVotes(F, rs)
    PROVE  /\ F[0] = <<>>
           /\ \A i \in 1 .. Len(rs) :
                F[i] = IF Valid(rs[i]) THEN Count(F[i - 1], rs[i]) ELSE F[i - 1]
<1>1. 0 \in 0 .. Len(rs) /\ \A i \in 1 .. Len(rs) : i \in 0 .. Len(rs) /\ i # 0
  OBVIOUS
<1>2. F[0] = <<>>
  BY <1>1 DEF CountsVotes
<1>3. ASSUME NEW i \in 1 .. Len(rs)
      PROVE  F[i] = IF Valid(rs[i]) THEN Count(F[i - 1], rs[i]) ELSE F[i - 1]
  BY <1>1 DEF CountsVotes
<1> QED
  BY <1>2, <1>3

LEMMA CounterLoop ==
    ASSUME NEW rs \in Seq(Result)
    PROVE  \E F : CountsVotes(F, rs) /\ Counter(rs) = F[Len(rs)]
<1> DEFINE F == CHOOSE G : CountsVotes(G, rs)
<1>1. CountsVotes(F, rs)
  BY CounterExists
<1>2. Counter(rs) = F[Len(rs)]
  BY DEF Counter, CountsVotes
<1> QED
  BY <1>1, <1>2

LEMMA CounterEmpty == Counter(<<>>) = <<>>
<1> DEFINE e == <<>>
<1>1. e \in Seq(Result) /\ Len(e) = 0
  OBVIOUS
<1> HIDE DEF e
<1>2. PICK F : CountsVotes(F, e) /\ Counter(e) = F[Len(e)]
  BY <1>1, CounterLoop
<1>3. F[0] = <<>>
  BY <1>1, <1>2, CountsFrom
<1> QED
  BY <1>1, <1>2, <1>3 DEF e

LEMMA CounterAppend ==
    ASSUME NEW rs \in Seq(Result), NEW r \in Result
    PROVE  Counter(Append(rs, r)) = IF Valid(r) THEN Count(Counter(rs), r) ELSE Counter(rs)
<1> DEFINE t == Append(rs, r)
           n == Len(rs)
<1>1. /\ t \in Seq(Result) /\ Len(t) = n + 1 /\ t[n + 1] = r /\ n \in Nat
      /\ \A i \in 1 .. n : t[i] = rs[i]
  OBVIOUS
<1> HIDE DEF t
<1>2. PICK F : CountsVotes(F, rs) /\ Counter(rs) = F[n]
  BY CounterLoop
<1>3. PICK G : CountsVotes(G, t) /\ Counter(t) = G[n + 1]
  BY <1>1, CounterLoop
<1> DEFINE P == {i \in 0 .. n : F[i] = G[i]}
<1>4. 0 \in P
  BY <1>1, <1>2, <1>3, CountsFrom
<1>5. ASSUME NEW i \in 1 .. n, i - 1 \in P PROVE i \in P
  <2>1. F[i] = IF Valid(rs[i]) THEN Count(F[i - 1], rs[i]) ELSE F[i - 1]
    BY <1>2, CountsFrom
  <2>2. i \in 1 .. Len(t)
    BY <1>1
  <2>3. G[i] = IF Valid(t[i]) THEN Count(G[i - 1], t[i]) ELSE G[i - 1]
    <3> HIDE DEF n
    <3> QED
      BY <1>1, <1>3, <2>2, CountsFrom
  <2>4. t[i] = rs[i] /\ F[i - 1] = G[i - 1]
    BY <1>1, <1>5
  <2>5. F[i] = G[i]
    BY <2>1, <2>3, <2>4
  <2> QED
    BY <2>5
<1>6. n \in P
  <2> HIDE DEF P, n
  <2>1. \A i \in 0 .. n : i \in P
    BY <1>1, <1>4, <1>5, Induct
  <2> QED
    BY <1>1, <2>1
<1>7. G[n + 1] = IF Valid(t[n + 1]) THEN Count(G[n + 1 - 1], t[n + 1]) ELSE G[n + 1 - 1]
  <2>1. n + 1 \in 1 .. Len(t)
    BY <1>1
  <2> HIDE DEF n
  <2> QED
    BY <1>1, <1>3, <2>1, CountsFrom
<1>8. n + 1 - 1 = n
  BY <1>1
<1> QED
  BY <1>1, <1>2, <1>3, <1>6, <1>7, <1>8 DEF t

Sums(F, c) ==
    F = [i \in 0 .. Len(c) |-> IF i = 0 THEN 0 ELSE F[i - 1] + c[i].n]

LEMMA SumsFrom ==
    ASSUME NEW c \in Seq(Entry), NEW F, Sums(F, c)
    PROVE  F[0] = 0 /\ \A i \in 1 .. Len(c) : F[i] = F[i - 1] + c[i].n
<1>1. 0 \in 0 .. Len(c) /\ \A i \in 1 .. Len(c) : i \in 0 .. Len(c) /\ i # 0
  OBVIOUS
<1>2. F[0] = 0
  BY <1>1 DEF Sums
<1>3. ASSUME NEW i \in 1 .. Len(c) PROVE F[i] = F[i - 1] + c[i].n
  BY <1>1 DEF Sums
<1> QED
  BY <1>2, <1>3

LEMMA TotalLoop ==
    ASSUME NEW c \in Seq(Entry)
    PROVE  \E F : Sums(F, c) /\ Total(c) = F[Len(c)] /\ F \in [0 .. Len(c) -> Nat]
<1> DEFINE n == Len(c)
           base == 0
           step == [i \in 1 .. n |-> [x \in Nat |-> x + c[i].n]]
<1>1. n \in Nat /\ base \in Nat
  OBVIOUS
<1>2. step \in [1 .. n -> [Nat -> Nat]]
  <2>1. \A i \in 1 .. n : c[i].n \in Nat
    BY Entries
  <2> QED
    BY <2>1
<1> HIDE DEF n, base, step
<1>3. PICK F : Loop(F, n, Nat, base, step)
  BY <1>1, <1>2, LoopExists
<1>4. ASSUME NEW i \in 1 .. n PROVE F[i] = F[i - 1] + c[i].n
  <2>1. F[i - 1] \in Nat /\ F[i] = step[i][F[i - 1]]
    BY <1>1, <1>3 DEF Loop
  <2> QED
    BY <2>1 DEF step
<1>5. F = [i \in 0 .. n |-> F[i]] /\ F[0] = 0
  BY <1>3 DEF Loop, base
<1>6. ASSUME NEW i \in 0 .. n PROVE F[i] = IF i = 0 THEN 0 ELSE F[i - 1] + c[i].n
  <2>1. i = 0 \/ i \in 1 .. n
    BY <1>1
  <2> QED
    BY <1>4, <1>5, <2>1
<1>7. Sums(F, c)
  BY <1>5, <1>6 DEF Sums, n
<1> DEFINE G == CHOOSE H : Sums(H, c)
<1>8. Total(c) = G[n]
  BY DEF Total, Sums, n
<1>9. Sums(G, c)
  BY <1>7
<1> HIDE DEF G
<1> DEFINE P == {i \in 0 .. n : G[i] = F[i] /\ G[i] \in Nat}
<1>10. 0 \in P
  BY <1>1, <1>5, <1>9, SumsFrom
<1>11. ASSUME NEW i \in 1 .. n, i - 1 \in P PROVE i \in P
  <2>1. G[i] = G[i - 1] + c[i].n
    BY <1>9, SumsFrom DEF n
  <2>2. F[i] = F[i - 1] + c[i].n
    BY <1>4
  <2>3. G[i - 1] = F[i - 1] /\ G[i - 1] \in Nat
    BY <1>11
  <2>4. c[i].n \in Nat
    BY Entries DEF n
  <2>5. G[i] = F[i] /\ G[i] \in Nat
    BY <2>1, <2>2, <2>3, <2>4
  <2> QED
    BY <2>5
<1>12. \A i \in 0 .. n : i \in P
  <2> HIDE DEF P
  <2> QED
    BY <1>1, <1>10, <1>11, Induct
<1>13. \A i \in 0 .. n : G[i] \in Nat
  BY <1>12
<1>14. G = [i \in 0 .. n |-> G[i]]
  <2>1. G = [i \in 0 .. n |-> IF i = 0 THEN 0 ELSE G[i - 1] + c[i].n]
    BY <1>9 DEF Sums, n
  <2>2. \A D : \A f : (\E g : f = [i \in D |-> g[i]]) => f = [i \in D |-> f[i]]
    OBVIOUS
  <2>3. DOMAIN G = 0 .. n
    BY <2>1
  <2>4. ASSUME NEW i \in 0 .. n PROVE G[i] = IF i = 0 THEN 0 ELSE G[i - 1] + c[i].n
    BY <2>1
  <2> QED
    BY <2>1, <2>4
<1>15. G \in [0 .. n -> Nat]
  BY <1>13, <1>14
<1> QED
  BY <1>8, <1>9, <1>15 DEF n

LEMMA TotalEmpty == Total(<<>>) = 0
<1> DEFINE e == <<>>
<1>1. e \in Seq(Entry) /\ Len(e) = 0
  OBVIOUS
<1> HIDE DEF e
<1>2. PICK F : Sums(F, e) /\ Total(e) = F[Len(e)]
  BY <1>1, TotalLoop
<1>3. F[0] = 0
  BY <1>1, <1>2, SumsFrom
<1> QED
  BY <1>1, <1>2, <1>3 DEF e

(* An entry that opens, or gains a vote, adds as much to the total.        *)
LEMMA TotalGains ==
    ASSUME NEW c \in Seq(Entry), NEW d \in Seq(Entry), NEW k \in 1 .. Len(d),
           Len(d) = Len(c) \/ (Len(d) = Len(c) + 1 /\ k = Len(d)),
           \A i \in 1 .. Len(d) : i # k => i \in 1 .. Len(c) /\ d[i] = c[i],
           d[k].n = IF k \in 1 .. Len(c) THEN c[k].n + 1 ELSE 1
    PROVE  Total(d) = Total(c) + 1 /\ Total(c) \in Nat
<1> DEFINE n == Len(d)
           m == Len(c)
<1>1. n \in Nat /\ m \in Nat /\ m <= n /\ k \in 1 .. n /\ k - 1 \in 0 .. m /\ (n = m \/ (n = m + 1 /\ k = n))
  OBVIOUS
<1>2. PICK F : Sums(F, c) /\ Total(c) = F[m] /\ F \in [0 .. m -> Nat]
  BY TotalLoop
<1>3. PICK G : Sums(G, d) /\ Total(d) = G[n]
  BY TotalLoop
<1>4. F[0] = 0 /\ \A i \in 1 .. m : F[i] = F[i - 1] + c[i].n
  BY <1>2, SumsFrom
<1>5. G[0] = 0 /\ \A i \in 1 .. n : G[i] = G[i - 1] + d[i].n
  BY <1>3, SumsFrom
<1>6. /\ \A i \in 1 .. n : i # k => i \in 1 .. m /\ d[i] = c[i]
      /\ d[k].n = IF k \in 1 .. m THEN c[k].n + 1 ELSE 1
      /\ \A i \in 1 .. m : c[i].n \in Nat
  BY Entries
<1> HIDE DEF n, m
<1> DEFINE last(i) == IF i <= m THEN F[i] ELSE F[m]
           P == {i \in 0 .. n : G[i] = IF i < k THEN F[i] ELSE last(i) + 1}
<1>7. 0 \in P
  BY <1>1, <1>4, <1>5
<1>8. ASSUME NEW i \in 1 .. n, i - 1 \in P PROVE i \in P
  <2>1. G[i] = G[i - 1] + d[i].n
    BY <1>5
  <2>2. CASE i < k
    <3>1. i \in 1 .. m /\ d[i] = c[i] /\ G[i - 1] = F[i - 1]
      BY <1>1, <1>6, <1>8, <2>2
    <3>2. G[i] = F[i]
      BY <1>4, <2>1, <3>1
    <3> QED
      BY <2>2, <3>2
  <2>3. CASE i = k
    <3>1. G[i - 1] = F[i - 1]
      BY <1>1, <1>8, <2>3
    <3>2. CASE i \in 1 .. m
      <4>1. F[i] = F[i - 1] + c[i].n /\ d[i].n = c[i].n + 1 /\ F[i - 1] \in Nat /\ c[i].n \in Nat
        BY <1>1, <1>2, <1>4, <1>6, <2>3, <3>2
      <4>2. G[i] = F[i] + 1
        BY <2>1, <3>1, <4>1
      <4>3. last(i) = F[i] /\ ~(i < k)
        BY <1>1, <2>3, <3>2
      <4> QED
        BY <4>2, <4>3
    <3>3. CASE i \notin 1 .. m
      <4>1. i = m + 1 /\ d[i].n = 1
        BY <1>1, <1>6, <2>3, <3>3
      <4>2. i - 1 = m /\ F[m] \in Nat
        BY <1>1, <1>2, <4>1
      <4>3. G[i] = F[m] + 1
        BY <2>1, <3>1, <4>1, <4>2
      <4>4. last(i) = F[m] /\ ~(i < k)
        BY <1>1, <2>3, <4>1
      <4> QED
        BY <4>3, <4>4
    <3> QED
      BY <3>2, <3>3
  <2>4. CASE i > k
    <3>1. i \in 1 .. m /\ d[i] = c[i] /\ i - 1 <= m /\ i - 1 \in 0 .. m
      BY <1>1, <1>6, <2>4
    <3>2. G[i - 1] = F[i - 1] + 1
      BY <1>1, <1>8, <2>4, <3>1
    <3>3. F[i] = F[i - 1] + c[i].n /\ F[i - 1] \in Nat /\ c[i].n \in Nat
      BY <1>2, <1>4, <1>6, <3>1
    <3>4. G[i] = F[i] + 1
      <4>1. F[i - 1] \in Nat /\ c[i].n \in Nat /\ d[i].n = c[i].n
        BY <3>1, <3>3
      <4>2. G[i] = (F[i - 1] + 1) + c[i].n
        BY <2>1, <3>2, <4>1
      <4>3. \A a, b \in Nat : (a + 1) + b = (a + b) + 1
        OBVIOUS
      <4> HIDE DEF P, last
      <4> QED
        BY <3>3, <4>1, <4>2, <4>3
    <3>5. last(i) = F[i] /\ ~(i < k)
      BY <1>1, <2>4, <3>1
    <3> QED
      BY <3>4, <3>5
  <2> QED
    BY <1>1, <2>2, <2>3, <2>4
<1>9. n \in P
  <2> HIDE DEF P
  <2>1. \A i \in 0 .. n : i \in P
    BY <1>1, <1>7, <1>8, Induct
  <2> QED
    BY <1>1, <2>1
<1>10. last(n) = F[m] /\ ~(n < k) /\ F[m] \in Nat
  BY <1>1, <1>2
<1>11. G[n] = F[m] + 1
  BY <1>9, <1>10
<1> QED
  BY <1>2, <1>3, <1>10, <1>11

-----------------------------------------------------------------------------
(* The votes a ballot has, and all votes, by the position of the result.   *)
Cast(rs, b) == {i \in 1 .. Len(rs) : Valid(rs[i]) /\ Normal[rs[i].text] = b}
AllCast(rs) == {i \in 1 .. Len(rs) : Valid(rs[i])}

(* a was first cast before b ever was. *)
Before(rs, a, b) == \E m \in Cast(rs, a) : \A l \in Cast(rs, b) : m < l

(* The counter has every ballot cast, in the order each was first cast,    *)
(* with its number of votes.                                               *)
CounterInv(rs, c) ==
    /\ c \in Seq(Entry)
    /\ \A i \in 1 .. Len(c) :
         /\ Cast(rs, c[i].ballot) # {}
         /\ c[i].n = Cardinality(Cast(rs, c[i].ballot))
    /\ \A b : Cast(rs, b) # {} => \E i \in 1 .. Len(c) : c[i].ballot = b
    /\ \A i, j \in 1 .. Len(c) : i < j => Before(rs, c[i].ballot, c[j].ballot)
    /\ Total(c) = Cardinality(AllCast(rs))

LEMMA CastFinite ==
    ASSUME NEW rs \in Seq(Result)
    PROVE  /\ \A b : /\ IsFiniteSet(Cast(rs, b)) /\ Cardinality(Cast(rs, b)) \in Nat
                     /\ Cardinality(Cast(rs, b)) <= Len(rs)
           /\ IsFiniteSet(AllCast(rs)) /\ Cardinality(AllCast(rs)) \in Nat
<1> DEFINE n == Len(rs)
           All == 1 .. n
<1>1. n \in Nat
  OBVIOUS
<1> HIDE DEF n
<1>2. IsFiniteSet(All) /\ Cardinality(All) = n
  <2>1. 1 \in Int /\ n \in Int
    BY <1>1
  <2>2. IsFiniteSet(All) /\ Cardinality(All) = IF 1 > n THEN 0 ELSE n - 1 + 1
    BY <2>1, FS_Interval
  <2> HIDE DEF All
  <2> QED
    BY <1>1, <2>2
<1>3. AllCast(rs) \in SUBSET All /\ \A b : Cast(rs, b) \in SUBSET All
  BY DEF AllCast, Cast, n
<1> HIDE DEF All
<1>4. \A T \in SUBSET All : IsFiniteSet(T) /\ Cardinality(T) \in Nat /\ Cardinality(T) <= n
  BY <1>2, FS_Subset, FS_CardinalityType
<1> QED
  BY <1>3, <1>4 DEF n

LEMMA OneMore ==
    ASSUME NEW A, NEW B, NEW N, NEW k, k \notin N, A \subseteq N \cup {k}, B \subseteq N,
           \A i \in N : i \in A <=> i \in B
    PROVE  A = IF k \in A THEN B \cup {k} ELSE B
<1>1. CASE k \in A
  <2>1. \A i : i \in A <=> i \in B \cup {k}
    BY <1>1
  <2>2. A = B \cup {k}
    BY <2>1
  <2> QED
    BY <1>1, <2>2
<1>2. CASE k \notin A
  <2>1. \A i : i \in A <=> i \in B
    BY <1>2
  <2>2. A = B
    BY <2>1
  <2> QED
    BY <1>2, <2>2
<1> QED
  BY <1>1, <1>2

LEMMA CastAppend ==
    ASSUME NEW rs \in Seq(Result), NEW r \in Result
    PROVE  LET t == Append(rs, r)
               k == Len(rs) + 1
           IN /\ \A b : Cast(t, b) = IF Valid(r) /\ Normal[r.text] = b
                                     THEN Cast(rs, b) \cup {k} ELSE Cast(rs, b)
              /\ AllCast(t) = IF Valid(r) THEN AllCast(rs) \cup {k} ELSE AllCast(rs)
              /\ \A b, i : i \in Cast(rs, b) => i \in Nat /\ i < k
              /\ k \in Nat /\ k \notin AllCast(rs)
              /\ \A b : k \notin Cast(rs, b)
<1> DEFINE t == Append(rs, r)
           n == Len(rs)
<1>1. /\ t \in Seq(Result) /\ Len(t) = n + 1 /\ t[n + 1] = r /\ n \in Nat
      /\ \A i \in 1 .. n : t[i] = rs[i]
  OBVIOUS
<1> HIDE DEF t
<1>2. 1 .. n + 1 = (1 .. n) \cup {n + 1} /\ n + 1 \notin 1 .. n
  BY <1>1
<1>3. ASSUME NEW b
      PROVE  Cast(t, b) = IF Valid(r) /\ Normal[r.text] = b
                          THEN Cast(rs, b) \cup {n + 1} ELSE Cast(rs, b)
  <2>1. \A i \in 1 .. n : i \in Cast(t, b) <=> i \in Cast(rs, b)
    BY <1>1, <1>2 DEF Cast
  <2>2. n + 1 \in Cast(t, b) <=> Valid(r) /\ Normal[r.text] = b
    BY <1>1, <1>2 DEF Cast
  <2>3. Cast(t, b) \subseteq (1 .. n) \cup {n + 1} /\ Cast(rs, b) \subseteq 1 .. n
    BY <1>1, <1>2 DEF Cast
  <2> QED
    BY <1>2, <2>1, <2>2, <2>3, OneMore
<1>4. AllCast(t) = IF Valid(r) THEN AllCast(rs) \cup {n + 1} ELSE AllCast(rs)
  <2>1. \A i \in 1 .. n : i \in AllCast(t) <=> i \in AllCast(rs)
    BY <1>1, <1>2 DEF AllCast
  <2>2. n + 1 \in AllCast(t) <=> Valid(r)
    BY <1>1, <1>2 DEF AllCast
  <2>3. AllCast(t) \subseteq (1 .. n) \cup {n + 1} /\ AllCast(rs) \subseteq 1 .. n
    BY <1>1, <1>2 DEF AllCast
  <2> QED
    BY <1>2, <2>1, <2>2, <2>3, OneMore
<1>5. \A b, i : i \in Cast(rs, b) => i \in Nat /\ i < n + 1
  BY <1>1 DEF Cast
<1>6. n + 1 \in Nat /\ n + 1 \notin AllCast(rs) /\ \A b : n + 1 \notin Cast(rs, b)
  BY <1>1, <1>2 DEF Cast, AllCast
<1> QED
  BY <1>3, <1>4, <1>5, <1>6 DEF t

LEMMA CounterInvAppend ==
    ASSUME NEW rs \in Seq(Result), NEW r \in Result, CounterInv(rs, Counter(rs))
    PROVE  CounterInv(Append(rs, r), Counter(Append(rs, r)))
<1> DEFINE t == Append(rs, r)
           k == Len(rs) + 1
           c == Counter(rs)
           d == Counter(t)
           v == Normal[r.text]
<1>1. /\ \A b : Cast(t, b) = IF Valid(r) /\ v = b THEN Cast(rs, b) \cup {k} ELSE Cast(rs, b)
      /\ AllCast(t) = IF Valid(r) THEN AllCast(rs) \cup {k} ELSE AllCast(rs)
      /\ \A b, i : i \in Cast(rs, b) => i \in Nat /\ i < k
      /\ k \in Nat /\ k \notin AllCast(rs)
      /\ \A b : k \notin Cast(rs, b)
  BY CastAppend
<1>2. d = IF Valid(r) THEN Count(c, r) ELSE c
  BY CounterAppend
<1>3. /\ c \in Seq(Entry)
      /\ \A i \in 1 .. Len(c) :
           /\ Cast(rs, c[i].ballot) # {}
           /\ c[i].n = Cardinality(Cast(rs, c[i].ballot))
      /\ \A b : Cast(rs, b) # {} => \E i \in 1 .. Len(c) : c[i].ballot = b
      /\ \A i, j \in 1 .. Len(c) : i < j => Before(rs, c[i].ballot, c[j].ballot)
      /\ Total(c) = Cardinality(AllCast(rs))
  BY DEF CounterInv
<1>4. t \in Seq(Result)
  OBVIOUS
<1> HIDE DEF t, k, c, d, v
<1>5. CASE ~Valid(r)
  <2>1. d = c /\ AllCast(t) = AllCast(rs) /\ \A b : Cast(t, b) = Cast(rs, b)
    BY <1>1, <1>2, <1>5
  <2>2. \A a, b : Before(rs, a, b) => Before(t, a, b)
    BY <2>1 DEF Before
  <2>3. CounterInv(t, d)
    BY <1>3, <2>1, <2>2 DEF CounterInv
  <2> QED
    BY <2>3 DEF t, d
<1>6. CASE Valid(r)
  <2>1. /\ Cast(t, v) = Cast(rs, v) \cup {k}
        /\ \A b : b # v => Cast(t, b) = Cast(rs, b)
        /\ \A b : Cast(rs, b) \subseteq Cast(t, b)
    BY <1>1, <1>6
  <2>2. /\ Cardinality(Cast(t, v)) = Cardinality(Cast(rs, v)) + 1
        /\ Cardinality(AllCast(t)) = Cardinality(AllCast(rs)) + 1
    <3>1. IsFiniteSet(Cast(rs, v)) /\ IsFiniteSet(AllCast(rs))
      BY CastFinite
    <3>2. Cardinality(Cast(rs, v) \cup {k}) = Cardinality(Cast(rs, v)) + 1
      BY <1>1, <3>1, FS_AddElement
    <3>3. Cardinality(AllCast(rs) \cup {k}) = Cardinality(AllCast(rs)) + 1
      BY <1>1, <3>1, FS_AddElement
    <3> QED
      BY <1>1, <1>6, <2>1, <3>2, <3>3
  <2>3. \A a, b : Before(rs, a, b) => Before(t, a, b)
    <3> SUFFICES ASSUME NEW a, NEW b, Before(rs, a, b) PROVE Before(t, a, b)
      OBVIOUS
    <3>1. PICK m \in Cast(rs, a) : \A l \in Cast(rs, b) : m < l
      BY DEF Before
    <3>2. m \in Cast(t, a) /\ m < k
      BY <1>1, <2>1
    <3>3. \A l \in Cast(t, b) : l \in Cast(rs, b) \/ l = k
      BY <2>1
    <3> QED
      BY <3>1, <3>2, <3>3 DEF Before
  <2>4. d \in Seq(Entry)
    BY <1>2, <1>3, <1>6, CountType
  <2>5. Opens(c, v, d) \/ \E i \in 1 .. Len(c) : Raises(c, v, i, d)
    BY <1>2, <1>3, <1>6, CountIs DEF v
  <2>6. Len(c) \in Nat
    BY <1>3
  <2>7. CASE Opens(c, v, d)
    <3> DEFINE n == Len(c)
    <3>1. /\ Len(d) = n + 1 /\ d[n + 1].ballot = v /\ d[n + 1].n = 1
          /\ \A i \in 1 .. n : d[i] = c[i]
      <4> DEFINE e == [ballot |-> v, n |-> 1]
      <4>1. e.ballot = v /\ e.n = 1 /\ d = Append(c, e)
        BY <2>7 DEF Opens
      <4> HIDE DEF e
      <4> QED
        BY <1>3, <4>1
    <3>2. Cast(rs, v) = {}
      BY <1>3, <2>7 DEF Opens
    <3>3. Cast(t, v) = {k} /\ Cardinality(Cast(t, v)) = 1
      <4>1. Cardinality(Cast(rs, v)) = 0
        BY <3>2, FS_EmptySet
      <4> QED
        BY <2>1, <2>2, <3>2, <4>1
    <3>4. \A i \in 1 .. n : d[i].ballot # v
      BY <2>7, <3>1 DEF Opens
    <3> HIDE DEF n
    <3>5. \A i \in 1 .. n + 1 : i \in 1 .. n \/ i = n + 1
      BY <2>6 DEF n
    <3>6. ASSUME NEW i \in 1 .. n + 1
          PROVE  Cast(t, d[i].ballot) # {} /\ d[i].n = Cardinality(Cast(t, d[i].ballot))
      <4>1. CASE i = n + 1
        BY <3>1, <3>3, <4>1
      <4>2. CASE i \in 1 .. n
        BY <1>3, <2>1, <3>1, <3>4, <4>2 DEF n
      <4> QED
        BY <3>5, <4>1, <4>2
    <3>7. ASSUME NEW b, Cast(t, b) # {} PROVE \E i \in 1 .. n + 1 : d[i].ballot = b
      <4>1. CASE b = v
        BY <2>6, <3>1, <4>1 DEF n
      <4>2. CASE b # v
        <5>1. PICK i \in 1 .. n : c[i].ballot = b
          BY <1>3, <2>1, <3>7, <4>2 DEF n
        <5>2. i \in 1 .. n + 1 /\ d[i].ballot = b
          BY <2>6, <3>1, <5>1 DEF n
        <5> QED
          BY <5>2
      <4> QED
        BY <4>1, <4>2
    <3>8. ASSUME NEW i \in 1 .. n + 1, NEW j \in 1 .. n + 1, i < j
          PROVE  Before(t, d[i].ballot, d[j].ballot)
      <4>1. i \in 1 .. n
        BY <2>6, <3>8 DEF n
      <4>2. CASE j \in 1 .. n
        BY <1>3, <2>3, <3>1, <3>8, <4>1, <4>2 DEF n
      <4>3. CASE j = n + 1
        <5>1. PICK m : m \in Cast(rs, d[i].ballot)
          BY <1>3, <3>1, <4>1 DEF n
        <5>2. m \in Cast(t, d[i].ballot) /\ m < k
          BY <1>1, <2>1, <5>1
        <5> QED
          BY <3>1, <3>3, <4>3, <5>2 DEF Before
      <4> QED
        BY <3>5, <4>2, <4>3
    <3>9. Total(d) = Total(c) + 1
      <4>1. n + 1 \in 1 .. Len(d) /\ Len(d) = Len(c) + 1
        BY <2>6, <3>1 DEF n
      <4>2. \A i \in 1 .. Len(d) : i # n + 1 => i \in 1 .. Len(c) /\ d[i] = c[i]
        BY <3>1, <3>5 DEF n
      <4>3. n + 1 \notin 1 .. Len(c)
        BY <2>6 DEF n
      <4>4. n + 1 = Len(d)
        BY <3>1
      <4> DEFINE last == n + 1
      <4>5. d[last].n = IF last \in 1 .. Len(c) THEN c[last].n + 1 ELSE 1
        BY <3>1, <4>3
      <4> HIDE DEF last
      <4> QED
        BY <1>3, <2>4, <4>1, <4>2, <4>4, <4>5, TotalGains DEF last
    <3>10. CounterInv(t, d)
      BY <1>3, <2>2, <2>4, <3>1, <3>6, <3>7, <3>8, <3>9 DEF CounterInv, n
    <3> QED
      BY <3>10 DEF t, d
  <2>8. ASSUME NEW p \in 1 .. Len(c), Raises(c, v, p, d)
        PROVE  CounterInv(t, d)
    <3>1. /\ Len(d) = Len(c) /\ \A i \in 1 .. Len(c) : i # p => d[i] = c[i]
          /\ d[p].ballot = v /\ d[p].n = c[p].n + 1 /\ c[p].ballot = v
      BY <1>3, <2>8 DEF Raises
    <3>2. \A i \in 1 .. Len(c) : d[i].ballot = c[i].ballot
      BY <3>1
    <3>3. \A i \in 1 .. Len(c) : i # p => c[i].ballot # v
      <4> SUFFICES ASSUME NEW i \in 1 .. Len(c), i # p, c[i].ballot = v PROVE FALSE
        OBVIOUS
      <4>1. Before(rs, v, v)
        <5>1. i < p \/ p < i
          BY <2>6
        <5> QED
          BY <1>3, <3>1, <5>1
      <4>2. PICK m \in Cast(rs, v) : m < m
        BY <4>1 DEF Before
      <4>3. m \in Nat
        BY <1>1
      <4> QED
        BY <4>2, <4>3
    <3>4. ASSUME NEW i \in 1 .. Len(c)
          PROVE  Cast(t, d[i].ballot) # {} /\ d[i].n = Cardinality(Cast(t, d[i].ballot))
      <4>1. CASE i = p
        BY <1>3, <2>1, <2>2, <3>1, <4>1
      <4>2. CASE i # p
        <5>1. d[i] = c[i] /\ c[i].ballot # v
          BY <3>1, <3>3, <4>2
        <5>2. Cast(t, c[i].ballot) = Cast(rs, c[i].ballot)
          BY <2>1, <5>1
        <5>3. Cast(rs, c[i].ballot) # {} /\ c[i].n = Cardinality(Cast(rs, c[i].ballot))
          BY <1>3
        <5> QED
          BY <5>1, <5>2, <5>3
      <4> QED
        BY <4>1, <4>2
    <3>5. ASSUME NEW b, Cast(t, b) # {} PROVE \E i \in 1 .. Len(c) : d[i].ballot = b
      <4>1. CASE b = v
        BY <3>1, <4>1
      <4>2. CASE b # v
        BY <1>3, <2>1, <3>2, <3>5, <4>2
      <4> QED
        BY <4>1, <4>2
    <3>6. \A i, j \in 1 .. Len(c) : i < j => Before(t, d[i].ballot, d[j].ballot)
      BY <1>3, <2>3, <3>2
    <3>7. Total(d) = Total(c) + 1
      <4>1. p \in 1 .. Len(d) /\ Len(d) = Len(c)
        BY <3>1
      <4>2. \A i \in 1 .. Len(d) : i # p => i \in 1 .. Len(c) /\ d[i] = c[i]
        BY <3>1
      <4>3. d[p].n = IF p \in 1 .. Len(c) THEN c[p].n + 1 ELSE 1
        BY <3>1
      <4> QED
        BY <1>3, <2>4, <4>1, <4>2, <4>3, TotalGains
    <3> QED
      BY <1>3, <2>2, <2>4, <3>1, <3>4, <3>5, <3>6, <3>7 DEF CounterInv
  <2> QED
    BY <2>5, <2>7, <2>8 DEF t, d
<1> QED
  BY <1>5, <1>6

LEMMA CounterIsExact ==
    ASSUME NEW rs \in Seq(Result)
    PROVE  CounterInv(rs, Counter(rs))
<1> DEFINE P == {s \in Seq(Result) : CounterInv(s, Counter(s))}
<1>1. <<>> \in P
  <2> DEFINE e == <<>>
  <2>1. e \in Seq(Result) /\ e \in Seq(Entry) /\ Len(e) = 0 /\ 1 .. Len(e) = {}
    OBVIOUS
  <2>2. Counter(e) = e /\ Total(e) = 0
    BY CounterEmpty, TotalEmpty
  <2> HIDE DEF e
  <2>3. AllCast(e) = {} /\ \A b : Cast(e, b) = {}
    BY <2>1 DEF AllCast, Cast
  <2>4. Cardinality(AllCast(e)) = 0
    BY <2>3, FS_EmptySet
  <2>5. CounterInv(e, Counter(e))
    BY <2>1, <2>2, <2>3, <2>4 DEF CounterInv
  <2> QED
    BY <2>1, <2>5 DEF e
<1>2. ASSUME NEW s \in Seq(Result), NEW r \in Result, s \in P PROVE Append(s, r) \in P
  <2>1. CounterInv(s, Counter(s)) /\ Append(s, r) \in Seq(Result)
    BY <1>2
  <2>2. CounterInv(Append(s, r), Counter(Append(s, r)))
    BY <2>1, CounterInvAppend
  <2> QED
    BY <2>1, <2>2
<1> HIDE DEF P
<1>3. \A s \in Seq(Result) : s \in P
  BY <1>1, <1>2, SequenceInduct
<1> QED
  BY <1>3 DEF P

(* Some entry has most votes, and of those one comes first: most_common(1) *)
(* finds it.                                                               *)
LEMMA MostCommonIs ==
    ASSUME NEW c \in Seq(Entry), c # <<>>, NEW top \in Nat,
           \A j \in 1 .. Len(c) : c[j].n <= top
    PROVE  /\ MostCommon(c) \in 1 .. Len(c)
           /\ \A j \in 1 .. Len(c) : c[j].n <= c[MostCommon(c)].n
           /\ \A j \in 1 .. Len(c) : j < MostCommon(c) => c[j].n < c[MostCommon(c)].n
<1> DEFINE D == 1 .. Len(c)
           Bounds == {x \in Nat : \A j \in D : c[j].n <= x}
<1>1. Len(c) \in Nat /\ 1 \in D /\ D \in SUBSET Nat
  OBVIOUS
<1>2. \A j \in D : c[j].n \in Nat
  BY Entries
<1>3. DOMAIN c = D
  OBVIOUS
<1> HIDE DEF D
<1>4. PICK m \in Bounds : \A x \in Bounds : m <= x
  <2>1. top \in Bounds /\ Bounds \in SUBSET Nat
    BY DEF D
  <2> HIDE DEF Bounds
  <2> QED
    BY <2>1, LeastElement
<1>5. m \in Nat /\ \A j \in D : c[j].n <= m
  BY <1>4
<1> DEFINE Best == {j \in D : c[j].n = m}
<1>6. Best # {}
  <2> SUFFICES ASSUME \A j \in D : c[j].n # m PROVE FALSE
    OBVIOUS
  <2>1. \A j \in D : c[j].n <= m - 1
    BY <1>2, <1>5
  <2>2. m - 1 \in Nat
    BY <1>1, <1>2, <1>5, <2>1
  <2>3. m - 1 \in Bounds
    BY <2>1, <2>2
  <2>4. m <= m - 1
    BY <1>4, <2>3
  <2> QED
    BY <1>5, <2>4
<1>7. PICK i \in Best : \A j \in Best : i <= j
  <2>1. Best \in SUBSET Nat
    BY <1>1
  <2> HIDE DEF Best
  <2> QED
    BY <1>6, <2>1, LeastElement
<1>8. i \in D /\ c[i].n = m
  BY <1>7
<1>9. \A j \in D : j < i => c[j].n < c[i].n
  <2> SUFFICES ASSUME NEW j \in D, j < i PROVE c[j].n < c[i].n
    OBVIOUS
  <2>1. j \in Nat /\ i \in Nat /\ c[j].n \in Nat /\ c[j].n <= m
    BY <1>1, <1>2, <1>5, <1>8
  <2>2. c[j].n # m
    BY <1>7, <2>1
  <2> QED
    BY <1>5, <1>8, <2>1, <2>2
<1> DEFINE IsMostCommon(k) ==
             /\ \A j \in D : c[j].n <= c[k].n
             /\ \A j \in D : j < k => c[j].n < c[k].n
<1>10. IsMostCommon(i)
  BY <1>5, <1>8, <1>9
<1>11. MostCommon(c) = CHOOSE k \in D : IsMostCommon(k)
  BY <1>3 DEF MostCommon
<1>12. MostCommon(c) \in D /\ IsMostCommon(MostCommon(c))
  <2> HIDE DEF IsMostCommon
  <2> QED
    BY <1>8, <1>10, <1>11
<1> QED
  BY <1>12 DEF D

(* The first vote for a ballot that has one. *)
LEMMA FirstVoteIs ==
    ASSUME NEW b, Voters(b) \in SUBSET Nat, Voters(b) # {}
    PROVE  FirstVote(b) \in Voters(b) /\ \A j \in Voters(b) : FirstVote(b) <= j
<1>1. \E i \in Voters(b) : \A j \in Voters(b) : i <= j
  BY LeastElement
<1> QED
  BY <1>1 DEF FirstVote

(* The voting result is a plurality of the valid answers; a tie goes to    *)
(* the ballot cast first, and the numbers shown are its votes and all      *)
(* valid votes (aggregator.py, _strategy_voting).                          *)
THEOREM VotingFindsAPlurality == Spec => []VotingIsPlurality
<1>1. TaskInv => VotingIsPlurality
  <2> SUFFICES ASSUME TaskInv, task.strategy = "voting"
               PROVE  LET v == task.artifacts[1]
                          cast == {b \in Ballots : Voters(b) # {}}
                      IN /\ v.total = Cardinality({i \in DOMAIN results : Valid(results[i])})
                         /\ v.winner = Nothing <=> cast = {}
                         /\ cast # {} =>
                              /\ v.n = Cardinality(Voters(v.winner))
                              /\ \A b \in cast \ {v.winner} :
                                    \/ Cardinality(Voters(b)) < v.n
                                    \/ /\ Cardinality(Voters(b)) = v.n
                                       /\ FirstVote(v.winner) < FirstVote(b)
    BY DEF VotingIsPlurality
  <2> DEFINE v == task.artifacts[1]
             cast == {b \in Ballots : Voters(b) # {}}
             c == Counter(results)
             w == c[MostCommon(c)]
  <2>1. results \in Seq(Result)
    BY DEF TaskInv
  <2>2. task # NoTask
    BY DEF NoTask
  <2>3. PICK s \in Strategies : task = Aggregated(results, s) /\ task.strategy = Actual(s)
    BY <2>2, TaskOf
  <2>4. task.artifacts = StrategyVoting(results)
    BY <2>3 DEF Aggregated
  <2>5. v = IF c = <<>> THEN [winner |-> Nothing, n |-> 0, total |-> 0]
            ELSE [winner |-> w.ballot, n |-> w.n, total |-> Total(c)]
    BY <2>4 DEF StrategyVoting
  <2>6. DOMAIN results = 1 .. Len(results)
    BY <2>1
  <2>7. \A b : Voters(b) = Cast(results, b)
    BY <2>6 DEF Voters, Cast
  <2>8. {i \in DOMAIN results : Valid(results[i])} = AllCast(results)
    BY <2>6 DEF AllCast
  <2>9. CounterInv(results, c)
    BY <2>1, CounterIsExact
  <2> HIDE DEF v, c, w
  <2>10. /\ c \in Seq(Entry)
         /\ \A i \in 1 .. Len(c) :
              /\ Cast(results, c[i].ballot) # {}
              /\ c[i].n = Cardinality(Cast(results, c[i].ballot))
         /\ \A b : Cast(results, b) # {} => \E i \in 1 .. Len(c) : c[i].ballot = b
         /\ \A i, j \in 1 .. Len(c) : i < j => Before(results, c[i].ballot, c[j].ballot)
         /\ Total(c) = Cardinality(AllCast(results))
    BY <2>9 DEF CounterInv
  <2>11. v.total = Total(c)
    BY <2>5, TotalEmpty
  <2>12. CASE c = <<>>
    <3>1. \A b : Voters(b) = {}
      BY <2>7, <2>10, <2>12
    <3>2. cast = {}
      BY <3>1
    <3>3. v.winner = Nothing
      BY <2>5, <2>12
    <3> QED
      BY <2>8, <2>10, <2>11, <3>2, <3>3 DEF v
  <2>13. CASE c # <<>>
    <3> DEFINE best == MostCommon(c)
    <3>1. Len(results) \in Nat /\ \A j \in 1 .. Len(c) : c[j].n <= Len(results)
      BY <2>1, <2>10, CastFinite
    <3>2. /\ best \in 1 .. Len(c)
          /\ \A j \in 1 .. Len(c) : c[j].n <= c[best].n
          /\ \A j \in 1 .. Len(c) : j < best => c[j].n < c[best].n
      BY <2>10, <2>13, <3>1, MostCommonIs
    <3>3. v.winner = c[best].ballot /\ v.n = c[best].n
      BY <2>5, <2>13 DEF w
    <3> HIDE DEF best
    <3>4. v.winner \in Ballots /\ v.n = Cardinality(Voters(v.winner)) /\ Voters(v.winner) # {}
      BY <2>7, <2>10, <3>2, <3>3, Entries
    <3>5. v.winner # Nothing /\ cast # {}
      BY <3>4, AggregatorAssumption
    <3>6. ASSUME NEW b \in cast \ {v.winner}
          PROVE  \/ Cardinality(Voters(b)) < v.n
                 \/ /\ Cardinality(Voters(b)) = v.n
                    /\ FirstVote(v.winner) < FirstVote(b)
      <4>1. PICK j \in 1 .. Len(c) : c[j].ballot = b
        BY <2>7, <2>10
      <4>2. c[j].n = Cardinality(Voters(b)) /\ Voters(b) # {}
        BY <2>7, <2>10, <4>1
      <4>3. c[j].n \in Nat /\ c[best].n \in Nat /\ c[j].n <= c[best].n /\ j # best
        BY <2>10, <3>2, <3>3, <4>1, Entries
      <4>4. CASE c[j].n < c[best].n
        BY <3>3, <4>2, <4>4
      <4>5. CASE c[j].n = c[best].n
        <5>1. best < j
          BY <3>2, <4>3, <4>5
        <5>2. Before(results, v.winner, b)
          BY <2>10, <3>2, <3>3, <4>1, <5>1
        <5>3. PICK m \in Voters(v.winner) : \A l \in Voters(b) : m < l
          BY <2>7, <5>2 DEF Before
        <5>4. Voters(v.winner) \in SUBSET Nat /\ Voters(b) \in SUBSET Nat
          BY <2>7 DEF Cast
        <5>5. FirstVote(v.winner) \in Nat /\ FirstVote(v.winner) <= m
          BY <3>4, <5>4, FirstVoteIs
        <5>6. FirstVote(b) \in Voters(b)
          BY <4>2, <5>4, FirstVoteIs
        <5>7. m < FirstVote(b) /\ FirstVote(b) \in Nat /\ m \in Nat
          BY <5>3, <5>4, <5>6
        <5>8. FirstVote(v.winner) < FirstVote(b)
          BY <5>5, <5>7
        <5> QED
          BY <3>3, <4>2, <4>5, <5>8
      <4> QED
        BY <4>3, <4>4, <4>5
    <3> QED
      BY <2>8, <2>10, <2>11, <3>4, <3>5, <3>6 DEF v
  <2> QED
    BY <2>12, <2>13
<1> QED
  BY <1>1, TaskInvariant, PTL
=============================================================================
