---------------------------- MODULE LlmAgentProofs ----------------------------
(***************************************************************************)
(* What LlmAgent promises of an agent's histories, for every cap, any      *)
(* number of contexts and any overlap of executions.                       *)
(***************************************************************************)
EXTENDS LlmAgent, TLAPS

Turn == {"user", "assistant"}

AgentTypeOK ==
    /\ hasClient \in BOOLEAN
    /\ maxHistory \in Caps
    /\ history \in [Contexts -> Seq(Turn)]
    /\ awaiting \in [Contexts -> Nat]
    /\ calm \in [Contexts -> Nat \cup {-1}]

(* The turn j before the newest one of turns that alternate. *)
Due(newest, j) ==
    IF j % 2 = 0 THEN newest ELSE CHOOSE t \in Turn : t # newest

(* The newest k turns alternate, and end with `newest'. *)
Alternate(turns, k, newest) ==
    \A i \in 1 .. Len(turns) :
       Len(turns) - i < k => turns[i] = Due(newest, Len(turns) - i)

(* While executions do not overlap, two more turns alternate for each that *)
(* has gone by, and one for the question under way.                        *)
CalmTurns(c) ==
    /\ awaiting[c] <= 1
    /\ Alternate(history[c], 2 * calm[c] + awaiting[c],
                 IF awaiting[c] = 0 THEN "assistant" ELSE "user")

Paired(n, w) == (n + w) % 2 = 0

(* A question is added with its answer to come, and a cap that is even     *)
(* removes whole pairs, unless executions overlap on a full history.       *)
WholePairs(c) ==
    maxHistory % 2 = 0 =>
      \/ Paired(Len(history[c]), awaiting[c])
      \/ calm[c] = -1 /\ Len(history[c]) >= maxHistory

AgentInv ==
    /\ AgentTypeOK
    /\ HistoryBounded
    /\ \A c \in Contexts :
         /\ ~hasClient => awaiting[c] = 0
         /\ calm[c] >= 0 => CalmTurns(c)
         /\ WholePairs(c)

-----------------------------------------------------------------------------
(* The turns of a history after the cap: the newest of those before.       *)
LEMMA CapKeepsNewest ==
    ASSUME maxHistory \in Nat \ {0}, NEW turns \in Seq(Turn),
           NEW cut, cut = IF Len(turns) > maxHistory
                          THEN Len(turns) - maxHistory ELSE 0
    PROVE  /\ Cap(turns) \in Seq(Turn)
           /\ cut \in Nat
           /\ Len(Cap(turns)) = Len(turns) - cut
           /\ \A i \in 1 .. Len(Cap(turns)) : Cap(turns)[i] = turns[i + cut]
<1>1. CASE Len(turns) > maxHistory
  <2>1. Cap(turns) = SubSeq(turns, cut + 1, Len(turns))
    BY <1>1 DEF Cap
  <2>2. /\ Len(turns) \in Nat
        /\ cut \in Nat
        /\ cut + 1 \in 1 .. Len(turns)
    BY <1>1
  <2>3. \A i \in 1 .. Len(turns) - cut : Cap(turns)[i] = turns[i + cut]
    BY <2>1, <2>2
  <2>4. Cap(turns) \in Seq(Turn) /\ Len(Cap(turns)) = Len(turns) - cut
    BY <1>1, <2>1, <2>2, SMTT(30)
  <2> QED
    BY <2>2, <2>3, <2>4
<1>2. CASE ~(Len(turns) > maxHistory)
  BY <1>2 DEF Cap
<1> QED
  BY <1>1, <1>2

(* Going back one turn changes the turn that is due.                       *)
LEMMA DueAlternates ==
    ASSUME NEW newest \in Turn, NEW j \in Nat
    PROVE  /\ Due(newest, 0) = newest
           /\ Due(newest, j + 1) # Due(newest, j)
           /\ \A next \in Turn \ {newest} : Due(next, j + 1) = Due(newest, j)
<1>1. \A t \in Turn : /\ (CHOOSE u \in Turn : u # t) \in Turn
                       /\ (CHOOSE u \in Turn : u # t) # t
  BY DEF Turn
<1>2. CASE j % 2 = 0
  <2>1. (j + 1) % 2 # 0 /\ 0 % 2 = 0
    BY <1>2
  <2> QED
    BY <1>1, <1>2, <2>1 DEF Due, Turn
<1>3. CASE j % 2 # 0
  <2>1. (j + 1) % 2 = 0 /\ 0 % 2 = 0
    BY <1>3
  <2> QED
    BY <1>1, <1>3, <2>1 DEF Due, Turn
<1> QED
  BY <1>2, <1>3

(* A turn that differs from the newest one extends the alternation.        *)
LEMMA AppendAlternates ==
    ASSUME NEW turns \in Seq(Turn), NEW k \in Nat, NEW newest \in Turn,
           NEW next \in Turn, next # newest, Alternate(turns, k, newest)
    PROVE  Alternate(Append(turns, next), k + 1, next)
<1> DEFINE longer == Append(turns, next)
<1>1. /\ Len(longer) = Len(turns) + 1
      /\ longer[Len(turns) + 1] = next
      /\ \A i \in 1 .. Len(turns) : longer[i] = turns[i]
      /\ Len(turns) \in Nat
  OBVIOUS
<1> SUFFICES ASSUME NEW i \in 1 .. Len(longer), Len(longer) - i < k + 1
             PROVE  longer[i] = Due(next, Len(longer) - i)
  BY DEF Alternate
<1> HIDE DEF longer
<1>2. CASE i = Len(longer)
  <2>1. Len(longer) - i = 0
    BY <1>1, <1>2
  <2> QED
    BY <1>1, <1>2, <2>1, DueAlternates
<1>3. CASE i < Len(longer)
  <2>1. /\ i \in 1 .. Len(turns)
        /\ Len(turns) - i \in Nat
        /\ Len(turns) - i < k
        /\ Len(longer) - i = (Len(turns) - i) + 1
    BY <1>1, <1>3
  <2>2. longer[i] = Due(newest, Len(turns) - i)
    BY <1>1, <2>1 DEF Alternate
  <2> QED
    BY <2>1, <2>2, DueAlternates
<1> QED
  BY <1>1, <1>2, <1>3

(* The cap leaves the newest turns, so also their alternation.             *)
LEMMA CapAlternates ==
    ASSUME maxHistory \in Nat \ {0}, NEW turns \in Seq(Turn), NEW k \in Nat,
           NEW newest \in Turn, Alternate(turns, k, newest)
    PROVE  Alternate(Cap(turns), k, newest)
<1> DEFINE cut == IF Len(turns) > maxHistory THEN Len(turns) - maxHistory ELSE 0
           capped == Cap(turns)
<1>1. /\ capped \in Seq(Turn)
      /\ cut \in Nat
      /\ Len(capped) = Len(turns) - cut
      /\ \A i \in 1 .. Len(capped) : capped[i] = turns[i + cut]
  BY CapKeepsNewest
<1> SUFFICES ASSUME NEW i \in 1 .. Len(capped), Len(capped) - i < k
             PROVE  capped[i] = Due(newest, Len(capped) - i)
  BY DEF Alternate
<1> HIDE DEF cut, capped
<1>2. i + cut \in 1 .. Len(turns) /\ Len(turns) - (i + cut) = Len(capped) - i
  BY <1>1
<1> QED
  BY <1>1, <1>2 DEF Alternate

(* Turns that all alternate, alternate however far one looks back.         *)
LEMMA AllAlternate ==
    ASSUME NEW turns \in Seq(Turn), NEW k \in Nat, NEW newest \in Turn,
           Alternate(turns, k, newest), Len(turns) <= k, NEW more
    PROVE  Alternate(turns, more, newest)
BY DEF Alternate
-----------------------------------------------------------------------------
(* A question or an answer leaves whole pairs whole, and so does a full    *)
(* history of even length with nothing to come.                            *)
LEMMA ExchangeKeepsPairs ==
    ASSUME NEW n \in Nat, NEW w \in Nat
    PROVE  /\ Paired(n, w) => Paired(n + 1, w + 1)
           /\ Paired(n, w) => Paired(n + 1, w - 1)
           /\ Paired(n, w) => Paired(n + 2, w)
           /\ n % 2 = 0 => Paired(n, 0)
BY DEF Paired

(* In whole pairs the oldest turn is a question.                           *)
LEMMA PairsBeginWithAQuestion ==
    ASSUME NEW n \in Nat, n > 0
    PROVE  /\ Paired(n, 0) => (n - 1) % 2 # 0
           /\ Paired(n, 1) => (n - 1) % 2 = 0
BY DEF Paired

LEMMA InitAgentInv == Init => AgentInv
<1> SUFFICES ASSUME Init PROVE AgentInv
  OBVIOUS
<1>1. maxHistory \in Nat \ {0}
  BY AgentAssumption DEF Init
<1>2. AgentTypeOK
  BY <1>1 DEF Init, AgentTypeOK
<1>3. HistoryBounded
  <2> SUFFICES ASSUME NEW c \in Contexts
               PROVE  Len(history[c]) <= maxHistory + awaiting[c]
    BY DEF HistoryBounded
  <2>1. history[c] = <<>> /\ awaiting[c] = 0
    BY DEF Init
  <2> QED
    BY <1>1, <2>1
<1>4. ASSUME NEW c \in Contexts
      PROVE  CalmTurns(c) /\ WholePairs(c) /\ awaiting[c] = 0
  BY <1>1, <1>4 DEF Init, CalmTurns, Alternate, WholePairs, Paired
<1> QED
  BY <1>2, <1>3, <1>4 DEF AgentInv

(* A message that arrives adds its question; if another one of the context *)
(* awaits the model the two overlap.                                       *)
LEMMA ExecuteAgentInv ==
    ASSUME AgentInv, NEW c \in Contexts, Execute(c)
    PROVE  AgentInv'
<1> USE DEF AgentTypeOK
<1>1. maxHistory \in Nat \ {0} /\ AgentTypeOK
  BY AgentAssumption DEF AgentInv
<1>2. /\ history' = [history EXCEPT ![c] = Append(@, "user")]
      /\ awaiting' = [awaiting EXCEPT ![c] = @ + 1]
      /\ calm' = IF awaiting[c] > 0 THEN [calm EXCEPT ![c] = -1] ELSE calm
      /\ hasClient /\ UNCHANGED <<hasClient, maxHistory>>
  BY DEF Execute
<1>3. "user" \in Turn /\ "assistant" \in Turn
  BY DEF Turn
<1>4. AgentTypeOK'
  BY <1>1, <1>2, <1>3
<1>5. Len(history'[c]) = Len(history[c]) + 1 /\ Len(history[c]) \in Nat
  BY <1>1, <1>2, <1>3
<1>6. HistoryBounded'
  BY <1>1, <1>2, <1>5 DEF AgentInv, HistoryBounded
<1>7. ASSUME NEW d \in Contexts
      PROVE  /\ (~hasClient => awaiting[d] = 0)'
             /\ (calm[d] >= 0 => CalmTurns(d))'
             /\ WholePairs(d)'
  <2>1. CASE d # c
    <3>1. UNCHANGED <<history[d], awaiting[d], calm[d], maxHistory>>
      BY <1>1, <1>2, <2>1
    <3> QED
      BY <1>2, <3>1, SMTT(30) DEF AgentInv, CalmTurns, Alternate, WholePairs
  <2>2. CASE d = c /\ awaiting[c] > 0
    <3>1. calm'[c] = -1 /\ awaiting'[c] = awaiting[c] + 1
      BY <1>1, <1>2, <2>2
    <3>2. WholePairs(c) /\ awaiting[c] \in Nat
      BY <1>1 DEF AgentInv
    <3>3. WholePairs(c)'
      BY <1>1, <1>2, <1>5, <3>1, <3>2, ExchangeKeepsPairs DEF WholePairs
    <3> QED
      BY <1>2, <2>2, <3>1, <3>3
  <2>3. CASE d = c /\ awaiting[c] = 0
    <3>1. calm'[c] = calm[c] /\ awaiting'[c] = 1 /\ maxHistory' = maxHistory
      BY <1>1, <1>2, <2>3
    <3>2. WholePairs(c)'
      BY <1>1, <1>5, <2>3, <3>1, ExchangeKeepsPairs DEF AgentInv, WholePairs
    <3>3. ASSUME calm[c] >= 0 PROVE CalmTurns(c)'
      <4>0. calm[c] \in Nat /\ 2 * calm[c] \in Nat
        BY <1>1, <3>3
      <4>1. Alternate(history[c], 2 * calm[c], "assistant")
        <5>1. 2 * calm[c] + awaiting[c] = 2 * calm[c]
          BY <2>3, <4>0
        <5> QED
          BY <2>3, <3>3, <5>1 DEF AgentInv, CalmTurns
      <4>2. Alternate(Append(history[c], "user"), 2 * calm[c] + 1, "user")
        BY <1>1, <1>3, <4>0, <4>1, AppendAlternates
      <4>3. Alternate(history[c], 2 * calm[c] + 1, "user")'
        BY <1>1, <1>2, <3>1, <4>2 DEF Alternate
      <4> QED
        BY <3>1, <4>3 DEF CalmTurns
    <3> QED
      BY <1>2, <2>3, <3>1, <3>2, <3>3
  <2> QED
    BY <1>1, <2>1, <2>2, <2>3
<1> QED
  BY <1>4, <1>6, <1>7 DEF AgentInv

(* An answer is the turn that is due, unless executions overlapped.        *)
LEMMA ModelAnswersAgentInv ==
    ASSUME AgentInv, NEW c \in Contexts, ModelAnswers(c)
    PROVE  AgentInv'
<1> USE DEF AgentTypeOK
<1>1. maxHistory \in Nat \ {0} /\ AgentTypeOK
  BY AgentAssumption DEF AgentInv
<1> DEFINE longer == Append(history[c], "assistant")
           cut == IF Len(longer) > maxHistory THEN Len(longer) - maxHistory ELSE 0
<1>2. /\ awaiting[c] > 0
      /\ history' = [history EXCEPT ![c] = Cap(longer)]
      /\ awaiting' = [awaiting EXCEPT ![c] = @ - 1]
      /\ calm' = IF awaiting[c] = 1 THEN [calm EXCEPT ![c] = Executed(c)]
                 ELSE calm
      /\ UNCHANGED <<hasClient, maxHistory>>
  BY DEF ModelAnswers, Answered
<1>3. "user" \in Turn /\ "assistant" \in Turn
  BY DEF Turn
<1>4. longer \in Seq(Turn) /\ Len(longer) = Len(history[c]) + 1
        /\ Len(history[c]) \in Nat
  BY <1>1, <1>3
<1>5. /\ Cap(longer) \in Seq(Turn)
      /\ cut \in Nat
      /\ Len(Cap(longer)) = Len(longer) - cut
  BY <1>1, <1>4, CapKeepsNewest
<1>6. Executed(c) \in Nat \cup {-1} /\ Executed(c) >= 0
  BY <1>1 DEF Executed
<1>7. AgentTypeOK'
  BY <1>1, <1>2, <1>5, <1>6
<1> HIDE DEF longer
<1>8. history'[c] = Cap(longer) /\ awaiting'[c] = awaiting[c] - 1
  BY <1>1, <1>2
<1>9. Len(history[c]) <= maxHistory + awaiting[c]
  BY DEF AgentInv, HistoryBounded
<1>10. Len(history'[c]) <= maxHistory
  BY <1>1, <1>4, <1>5, <1>8
<1>11. HistoryBounded'
  BY <1>1, <1>2, <1>7, <1>8, <1>10 DEF AgentInv, HistoryBounded
<1>12. ASSUME NEW d \in Contexts
       PROVE  /\ (~hasClient => awaiting[d] = 0)'
              /\ (calm[d] >= 0 => CalmTurns(d))'
              /\ WholePairs(d)'
  <2>1. CASE d # c
    <3>1. UNCHANGED <<history[d], awaiting[d], calm[d], maxHistory>>
      BY <1>1, <1>2, <2>1
    <3> QED
      BY <1>2, <3>1 DEF AgentInv, CalmTurns, Alternate, WholePairs
  <2>2. CASE d = c
    <3>1. hasClient' /\ maxHistory' = maxHistory
      BY <1>1, <1>2 DEF AgentInv
    <3>2. CASE awaiting[c] # 1
      <4>1. calm'[c] = calm[c] /\ awaiting[c] > 1 /\ calm[c] = -1
        BY <1>1, <1>2, <3>2 DEF AgentInv, CalmTurns
      <4>2. WholePairs(c)
        BY DEF AgentInv
      <4>3. ASSUME cut = 0 PROVE WholePairs(c)'
        <5>1. Len(history'[c]) = Len(history[c]) + 1
          BY <1>4, <1>5, <1>8, <4>3
        <5>2. Paired(Len(history[c]), awaiting[c])
                => Paired(Len(history'[c]), awaiting'[c])
          BY <1>1, <1>4, <1>8, <5>1, ExchangeKeepsPairs
        <5>3. Len(history[c]) >= maxHistory => Len(history'[c]) >= maxHistory
          BY <1>1, <1>4, <5>1
        <5> QED
          BY <3>1, <4>1, <4>2, <5>2, <5>3 DEF WholePairs
      <4>4. ASSUME cut # 0 PROVE WholePairs(c)'
        BY <1>1, <1>4, <1>5, <1>8, <3>1, <4>1, <4>4 DEF WholePairs
      <4> QED
        BY <2>2, <3>1, <4>1, <4>3, <4>4
    <3>3. CASE awaiting[c] = 1
      <4>1. calm'[c] = Executed(c) /\ awaiting'[c] = 0
        BY <1>1, <1>2, <3>3
      <4>2. WholePairs(c)'
        <5>1. WholePairs(c)
          BY DEF AgentInv
        <5>2. ASSUME cut = 0, ~(calm[c] = -1 /\ Len(history[c]) >= maxHistory)
              PROVE WholePairs(c)'
          <6>1. Len(history'[c]) = Len(history[c]) + 1
            BY <1>4, <1>5, <1>8, <5>2
          <6>2. Paired(Len(history[c]), awaiting[c])
                  => Paired(Len(history'[c]), awaiting'[c])
            BY <1>1, <1>4, <1>8, <6>1, ExchangeKeepsPairs
          <6> QED
            BY <3>1, <5>1, <5>2, <6>2 DEF WholePairs
        <5>3. ASSUME cut # 0 \/ Len(history[c]) >= maxHistory
              PROVE  WholePairs(c)'
          <6>1. Len(history'[c]) = maxHistory
            BY <1>1, <1>4, <1>5, <1>8, <5>3
          <6> QED
            BY <1>1, <3>1, <4>1, <6>1, ExchangeKeepsPairs DEF WholePairs
        <5> QED
          BY <5>2, <5>3
      <4>3. CASE calm[c] = -1
        <5>1. Executed(c) = 0
          BY <1>1, <4>3 DEF Executed
        <5> QED
          BY <2>2, <3>1, <4>1, <4>2, <5>1 DEF CalmTurns, Alternate
      <4>4. CASE calm[c] >= 0
        <5>0. /\ calm[c] \in Nat
              /\ 2 * calm[c] + 1 \in Nat
              /\ (2 * calm[c] + 1) + 1 = 2 * calm[c] + 2
              /\ 2 * calm[c] + 2 \in Nat
          BY <1>1, <4>4
        <5>1. Alternate(history[c], 2 * calm[c] + 1, "user")
          <6>1. CalmTurns(c)
            BY <4>4 DEF AgentInv
          <6>2. /\ 2 * calm[c] + awaiting[c] = 2 * calm[c] + 1
                /\ (IF awaiting[c] = 0 THEN "assistant" ELSE "user") = "user"
            BY <3>3
          <6> QED
            BY <6>1, <6>2 DEF CalmTurns
        <5>2. Alternate(longer, 2 * calm[c] + 2, "assistant")
          BY <1>1, <1>3, <5>0, <5>1, AppendAlternates DEF longer
        <5>3. Alternate(Cap(longer), 2 * calm[c] + 2, "assistant")
          BY <1>1, <1>3, <1>4, <5>0, <5>2, CapAlternates
        <5>4. Alternate(Cap(longer), 2 * Executed(c), "assistant")
          <6>1. CASE calm[c] < maxHistory
            <7>1. Executed(c) = calm[c] + 1
              BY <6>1 DEF Executed
            <7>2. 2 * Executed(c) = 2 * calm[c] + 2
              BY <5>0, <7>1
            <7> QED
              BY <5>3, <7>2
          <6>2. CASE ~(calm[c] < maxHistory)
            <7>1. Len(Cap(longer)) <= 2 * calm[c] + 2
              <8>1. Len(Cap(longer)) \in Nat /\ Len(Cap(longer)) <= maxHistory
                BY <1>5, <1>8, <1>10
              <8>2. maxHistory \in Nat /\ calm[c] \in Nat /\ calm[c] >= maxHistory
                BY <1>1, <5>0, <6>2
              <8> HIDE DEF AgentTypeOK
              <8> QED
                BY <8>1, <8>2
            <7> QED
              BY <1>3, <1>5, <5>0, <5>3, <7>1, AllAlternate
          <6> QED
            BY <6>1, <6>2
        <5>5. Alternate(history[c], 2 * calm[c] + awaiting[c], "assistant")'
          BY <1>6, <1>8, <4>1, <5>4 DEF Alternate
        <5> QED
          BY <2>2, <3>1, <4>1, <4>2, <5>5 DEF CalmTurns
      <4> QED
        BY <1>1, <4>3, <4>4
    <3> QED
      BY <3>2, <3>3
  <2> QED
    BY <2>1, <2>2
<1> QED
  BY <1>7, <1>11, <1>12 DEF AgentInv
(* An echo adds a question and its answer at once; without a client        *)
(* nothing overlaps.                                                       *)
LEMMA ExecuteEchoAgentInv ==
    ASSUME AgentInv, NEW c \in Contexts, ExecuteEcho(c)
    PROVE  AgentInv'
<1> USE DEF AgentTypeOK
<1>1. maxHistory \in Nat \ {0} /\ AgentTypeOK
  BY AgentAssumption DEF AgentInv
<1> DEFINE asked == Append(history[c], "user")
           longer == Append(asked, "assistant")
           cut == IF Len(longer) > maxHistory THEN Len(longer) - maxHistory ELSE 0
<1>2. /\ ~hasClient
      /\ history' = [history EXCEPT ![c] = Cap(longer)]
      /\ calm' = [calm EXCEPT ![c] = Executed(c)]
      /\ UNCHANGED <<hasClient, maxHistory, awaiting>>
  BY DEF ExecuteEcho, Answered
<1>3. "user" \in Turn /\ "assistant" \in Turn
  BY DEF Turn
<1>4. /\ asked \in Seq(Turn)
      /\ Len(asked) = Len(history[c]) + 1
      /\ longer \in Seq(Turn)
      /\ Len(longer) = Len(history[c]) + 2
      /\ Len(history[c]) \in Nat
  <2>1. Len(history[c]) \in Nat /\ asked \in Seq(Turn)
          /\ Len(asked) = Len(history[c]) + 1
    BY <1>1, <1>3
  <2> HIDE DEF asked
  <2>2. longer \in Seq(Turn) /\ Len(longer) = Len(asked) + 1
    BY <1>3, <2>1
  <2> QED
    BY <2>1, <2>2
<1>5. /\ Cap(longer) \in Seq(Turn)
      /\ cut \in Nat
      /\ Len(Cap(longer)) = Len(longer) - cut
  BY <1>1, <1>4, CapKeepsNewest
<1>6. Executed(c) \in Nat \cup {-1} /\ Executed(c) >= 0
  BY <1>1 DEF Executed
<1>7. AgentTypeOK'
  BY <1>1, <1>2, <1>5, <1>6
<1> HIDE DEF asked, longer
<1>8. /\ history'[c] = Cap(longer)
      /\ calm'[c] = Executed(c)
      /\ awaiting[c] = 0 /\ awaiting'[c] = 0
  BY <1>1, <1>2 DEF AgentInv
<1>9. Len(history'[c]) <= maxHistory
  BY <1>1, <1>4, <1>5, <1>8
<1>10. HistoryBounded'
  BY <1>1, <1>2, <1>7, <1>8, <1>9 DEF AgentInv, HistoryBounded
<1>11. ASSUME NEW d \in Contexts
       PROVE  /\ (~hasClient => awaiting[d] = 0)'
              /\ (calm[d] >= 0 => CalmTurns(d))'
              /\ WholePairs(d)'
  <2>1. CASE d # c
    <3>1. UNCHANGED <<history[d], awaiting[d], calm[d], maxHistory>>
      BY <1>1, <1>2, <2>1
    <3> QED
      BY <1>2, <3>1 DEF AgentInv, CalmTurns, Alternate, WholePairs
  <2>2. CASE d = c
    <3>1. WholePairs(c)'
      <4>1. WholePairs(c)
        BY DEF AgentInv
      <4>2. ASSUME Len(history'[c]) = maxHistory PROVE WholePairs(c)'
        BY <1>1, <1>2, <1>8, <4>2, ExchangeKeepsPairs DEF WholePairs
      <4>3. ASSUME cut = 0, Len(history[c]) < maxHistory PROVE WholePairs(c)'
        <5>1. Len(history'[c]) = Len(history[c]) + 2
          BY <1>4, <1>5, <1>8, <4>3
        <5>2. Paired(Len(history[c]), 0) => Paired(Len(history'[c]), 0)
          BY <1>4, <5>1, ExchangeKeepsPairs
        <5>3. ~(Len(history[c]) >= maxHistory)
          BY <1>1, <1>4, <4>3
        <5> QED
          BY <1>2, <1>8, <4>1, <5>2, <5>3 DEF WholePairs
      <4>4. (cut = 0 /\ Len(history[c]) < maxHistory) \/ Len(history'[c]) = maxHistory
        BY <1>1, <1>4, <1>5, <1>8, <1>9
      <4> QED
        BY <4>2, <4>3, <4>4
    <3>2. CalmTurns(c)'
      <4>1. CASE calm[c] = -1
        <5>1. Executed(c) = 0
          BY <1>1, <4>1 DEF Executed
        <5> QED
          BY <1>8, <5>1 DEF CalmTurns, Alternate
      <4>2. CASE calm[c] >= 0
        <5>1. /\ calm[c] \in Nat
              /\ 2 * calm[c] \in Nat
              /\ 2 * calm[c] + 1 \in Nat
              /\ (2 * calm[c] + 1) + 1 = 2 * calm[c] + 2
              /\ 2 * calm[c] + 2 \in Nat
          BY <1>1, <4>2, SMTT(30)
        <5>2. Alternate(history[c], 2 * calm[c], "assistant")
          <6>1. CalmTurns(c)
            BY <4>2 DEF AgentInv
          <6>2. 2 * calm[c] + awaiting[c] = 2 * calm[c]
            BY <1>8, <5>1
          <6> QED
            BY <1>8, <6>1, <6>2 DEF CalmTurns
        <5>3. Alternate(asked, 2 * calm[c] + 1, "user")
          BY <1>1, <1>3, <5>1, <5>2, AppendAlternates DEF asked
        <5>4. Alternate(longer, 2 * calm[c] + 2, "assistant")
          BY <1>3, <1>4, <5>1, <5>3, AppendAlternates DEF longer
        <5>5. Alternate(Cap(longer), 2 * calm[c] + 2, "assistant")
          BY <1>1, <1>3, <1>4, <5>1, <5>4, CapAlternates
        <5>6. Alternate(Cap(longer), 2 * Executed(c), "assistant")
          <6>1. CASE calm[c] < maxHistory
            <7>1. Executed(c) = calm[c] + 1
              BY <6>1 DEF Executed
            <7>2. 2 * Executed(c) = 2 * calm[c] + 2
              BY <5>1, <7>1
            <7> QED
              BY <5>5, <7>2
          <6>2. CASE ~(calm[c] < maxHistory)
            <7>1. Len(Cap(longer)) <= 2 * calm[c] + 2
              <8>1. Len(Cap(longer)) \in Nat /\ Len(Cap(longer)) <= maxHistory
                BY <1>5, <1>8, <1>9
              <8>2. maxHistory \in Nat /\ calm[c] \in Nat /\ calm[c] >= maxHistory
                BY <1>1, <5>1, <6>2
              <8> HIDE DEF AgentTypeOK
              <8> QED
                BY <8>1, <8>2
            <7> QED
              BY <1>3, <1>5, <5>1, <5>5, <7>1, AllAlternate
          <6> QED
            BY <6>1, <6>2
        <5>7. Alternate(history[c], 2 * calm[c] + awaiting[c], "assistant")'
          BY <1>6, <1>8, <5>6 DEF Alternate
        <5> QED
          BY <1>8, <5>7 DEF CalmTurns
      <4> QED
        BY <1>1, <4>1, <4>2
    <3> QED
      BY <1>2, <1>8, <2>2, <3>1, <3>2
  <2> QED
    BY <2>1, <2>2
<1> QED
  BY <1>7, <1>10, <1>11 DEF AgentInv

LEMMA NextAgentInv == AgentInv /\ [Next]_vars => AgentInv'
<1> SUFFICES ASSUME AgentInv, [Next]_vars PROVE AgentInv'
  OBVIOUS
<1>1. CASE UNCHANGED vars
  BY <1>1 DEF vars, AgentInv, AgentTypeOK, HistoryBounded, CalmTurns, Alternate,
     WholePairs
<1>2. ASSUME NEW c \in Contexts, Execute(c) PROVE AgentInv'
  BY <1>2, ExecuteAgentInv
<1>3. ASSUME NEW c \in Contexts, ModelAnswers(c) PROVE AgentInv'
  BY <1>3, ModelAnswersAgentInv
<1>4. ASSUME NEW c \in Contexts, ExecuteEcho(c) PROVE AgentInv'
  BY <1>4, ExecuteEchoAgentInv
<1> QED
  BY <1>1, <1>2, <1>3, <1>4 DEF Next

(* The types, the cap, and how the turns pair up and alternate at the end  *)
(* of a history (llm_agent.py, execute): the inductive invariant.          *)
THEOREM AgentInvariant == Spec => []AgentInv
BY InitAgentInv, NextAgentInv, PTL DEF Spec

(* The history of a context outgrows the cap by no more than the messages  *)
(* that are not answered, whatever overlaps (llm_agent.py:72).             *)
THEOREM HistoriesAreBounded == Spec => []HistoryBounded
<1>1. AgentInv => HistoryBounded
  BY DEF AgentInv
<1> QED
  BY <1>1, AgentInvariant, PTL

(* Once half as many executions as the cap have gone by without overlap    *)
(* the turns alternate again, from the first; and the first is the user's  *)
(* if the cap is even (llm_agent.py:61-73).                                *)
THEOREM TurnsAlternateAgain == Spec => []TurnsRecover
<1>1. ASSUME AgentInv PROVE TurnsRecover
  <2> SUFFICES ASSUME NEW c \in Contexts, calm[c] >= 0, 2 * calm[c] >= maxHistory
               PROVE  /\ \A i \in 1 .. Len(history[c]) - 1 :
                             history[c][i] # history[c][i + 1]
                      /\ maxHistory % 2 = 0 /\ history[c] # <<>>
                           => history[c][1] = "user"
    BY DEF TurnsRecover
  <2> DEFINE n == Len(history[c])
             k == 2 * calm[c] + awaiting[c]
             newest == IF awaiting[c] = 0 THEN "assistant" ELSE "user"
  <2>1. /\ maxHistory \in Nat \ {0}
        /\ history[c] \in Seq(Turn)
        /\ n \in Nat
        /\ awaiting[c] \in Nat
        /\ calm[c] \in Nat
        /\ 2 * calm[c] \in Nat
    BY <1>1, AgentAssumption DEF AgentInv, AgentTypeOK
  <2>2. awaiting[c] \in {0, 1} /\ Alternate(history[c], k, newest)
    BY <1>1, <2>1 DEF AgentInv, CalmTurns
  <2>3. n <= k
    BY <1>1, <2>1, SMTT(30) DEF AgentInv, HistoryBounded
  <2>4. newest \in Turn
    BY DEF Turn
  <2>5. ASSUME NEW i \in 1 .. n PROVE history[c][i] = Due(newest, n - i)
    <3>0. k \in Nat /\ n \in Nat
      BY <2>1
    <3> HIDE DEF k, n, newest
    <3>1. k \in Nat /\ n - i < k
      BY <2>3, <3>0
    <3> USE DEF n
    <3> QED
      BY <2>2, <3>1 DEF Alternate
  <2>6. ASSUME NEW i \in 1 .. n - 1 PROVE history[c][i] # history[c][i + 1]
    <3>1. /\ i \in 1 .. n /\ i + 1 \in 1 .. n
          /\ n - (i + 1) \in Nat
          /\ n - i = (n - (i + 1)) + 1
      BY <2>1
    <3> HIDE DEF n, newest
    <3>2. history[c][i] = Due(newest, (n - (i + 1)) + 1)
            /\ history[c][i + 1] = Due(newest, n - (i + 1))
      BY <2>5, <3>1
    <3> QED
      BY <2>4, <3>1, <3>2, DueAlternates
  <2>7. ASSUME maxHistory % 2 = 0, history[c] # <<>>
        PROVE  history[c][1] = "user"
    <3>1. n > 0
      BY <2>1, <2>7
    <3>2. Paired(n, awaiting[c])
      BY <1>1, <2>1, <2>7 DEF AgentInv, WholePairs
    <3>3. history[c][1] = Due(newest, n - 1)
      BY <2>1, <2>5, <3>1
    <3>4. CASE awaiting[c] = 0
      <4>1. (n - 1) % 2 # 0
        BY <2>1, <3>1, <3>2, <3>4, PairsBeginWithAQuestion
      <4> QED
        BY <3>3, <3>4, <4>1 DEF Due, Turn
    <3>5. CASE awaiting[c] = 1
      <4>1. (n - 1) % 2 = 0
        BY <2>1, <3>1, <3>2, <3>5, PairsBeginWithAQuestion
      <4> QED
        BY <3>3, <3>5, <4>1 DEF Due
    <3> QED
      BY <2>2, <3>4, <3>5
  <2> QED
    BY <2>6, <2>7
<1> QED
  BY <1>1, AgentInvariant, PTL
===============================================================================
