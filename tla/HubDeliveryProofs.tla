-------------------------- MODULE HubDeliveryProofs --------------------------
(***************************************************************************)
(* What the hub delivers.  First, that it implements Broadcast: a step of  *)
(* the hub moves one request, but for shutdown; so each case says where    *)
(* request r is afterwards, and that the others stay where they were.      *)
(*                                                                         *)
(* Then what it leaves in a channel's history: a request before its        *)
(* replies, the replies side by side and as many of them as the send's end *)
(* says, and every stored message posted when it is stored.  Only three kinds of step      *)
(* matter to a history: one that stores a request, one that stores the     *)
(* replies of a request, and one that stores nothing (but may erase a      *)
(* channel's messages).                                                    *)
(***************************************************************************)
EXTENDS HubBroadcast, GroupChatHubProofs

Asked(r) == Answered(r) \cup ({cur[r]} \ {NoAgent})

(* Broadcast's variables, as HubBroadcast maps them. *)
phases == [r \in Requests |-> Phase(r)]
askedOf == [r \in Requests |-> Asked(r)]
gotOf == [r \in Requests |-> Answered(r)]

(* Request s stands still in the abstract. *)
Still(s) ==
    /\ Phase(s)' = Phase(s)
    /\ sendable'[s] = sendable[s]
    /\ Asked(s)' = Asked(s)
    /\ Answered(s)' = Answered(s)

OthersStill(r) == \A s \in Requests \ {r} : Still(s)

(* What the mapping reads of a request. *)
Frozen(s) ==
    /\ pc'[s] = pc[s] /\ sendable'[s] = sendable[s]
    /\ cur'[s] = cur[s] /\ outcome'[s] = outcome[s]

(* A stream has something to yield: it emits only after somebody answered, *)
(* so that its consumer's leaving then does not undo the broadcast.        *)
EmitsToSomebody == \A r \in Requests : pc[r] = "emitting" => sendable[r] # {}

MapInv == TypeInv /\ FanOutInv /\ LifeInv /\ EmitsToSomebody

-----------------------------------------------------------------------------
(* The phases by state, now and after the step.                            *)
LEMMA PhaseByState ==
    ASSUME NEW r \in Requests
    PROVE  /\ pc[r] = "idle" => Phase(r) = "idle"
           /\ pc[r] \in {"scheduled", "announced"} => Phase(r) = "accepted"
           /\ pc[r] \in {"sending", "pausing"} => Phase(r) = "open"
           /\ pc[r] \in {"emitting", "done", "cut"} => Phase(r) = "complete"
           /\ pc[r] \in {"saved", "dropped", "rejected", "unsent"} =>
                Phase(r) = "given up"
           /\ pc[r] = "cancelled" =>
                Phase(r) = IF sendable[r] # {} /\ sendable[r] = Answered(r)
                           THEN "complete" ELSE "given up"
BY DEF Phase

LEMMA NextPhaseByState ==
    ASSUME NEW r \in Requests
    PROVE  /\ pc'[r] = "idle" => Phase(r)' = "idle"
           /\ pc'[r] \in {"scheduled", "announced"} => Phase(r)' = "accepted"
           /\ pc'[r] \in {"sending", "pausing"} => Phase(r)' = "open"
           /\ pc'[r] \in {"emitting", "done", "cut"} => Phase(r)' = "complete"
           /\ pc'[r] \in {"saved", "dropped", "rejected", "unsent"} =>
                Phase(r)' = "given up"
           /\ pc'[r] = "cancelled" =>
                Phase(r)' = IF sendable'[r] # {} /\ sendable'[r] = Answered(r)'
                            THEN "complete" ELSE "given up"
BY DEF Phase

LEMMA FrozenIsStill ==
    ASSUME NEW s \in Requests, Frozen(s)
    PROVE  Still(s)
<1>1. Answered(s)' = Answered(s)
  BY DEF Frozen, Answered
<1>2. Phase(s)' = Phase(s)
  BY <1>1 DEF Frozen, Phase
<1> QED
  BY <1>1, <1>2 DEF Frozen, Still, Asked

(* A step that moves at most request r is a change of the mapped functions *)
(* at r alone.                                                             *)
LEMMA OnlyOneMoves ==
    ASSUME TypeOK, sendable' \in [Requests -> SUBSET Agents],
           NEW r \in Requests, OthersStill(r)
    PROVE  /\ phases' = [phases EXCEPT ![r] = Phase(r)']
           /\ sendable' = [sendable EXCEPT ![r] = sendable'[r]]
           /\ askedOf' = [askedOf EXCEPT ![r] = Asked(r)']
           /\ gotOf' = [gotOf EXCEPT ![r] = Answered(r)']
<1>1. sendable \in [Requests -> SUBSET Agents]
  BY DEF TypeOK
<1>2. sendable' = [sendable EXCEPT ![r] = sendable'[r]]
  BY <1>1 DEF OthersStill, Still
<1>3. phases' = [phases EXCEPT ![r] = Phase(r)']
  BY DEF OthersStill, Still, phases
<1>4. askedOf' = [askedOf EXCEPT ![r] = Asked(r)']
  BY DEF OthersStill, Still, askedOf
<1>5. gotOf' = [gotOf EXCEPT ![r] = Answered(r)']
  BY DEF OthersStill, Still, gotOf
<1> QED
  BY <1>2, <1>3, <1>4, <1>5

LEMMA AllStillStutters ==
    ASSUME TypeOK, sendable' \in [Requests -> SUBSET Agents],
           \A s \in Requests : Still(s)
    PROVE  UNCHANGED B!vars
<1>1. sendable \in [Requests -> SUBSET Agents]
  BY DEF TypeOK
<1>2. sendable' = sendable
  BY <1>1 DEF Still
<1>3. phases' = phases /\ askedOf' = askedOf /\ gotOf' = gotOf
  BY DEF Still, phases, askedOf, gotOf
<1> QED
  BY <1>2, <1>3 DEF B!vars, phases, askedOf, gotOf, Asked

-----------------------------------------------------------------------------
(* Where request r goes decides which step of Broadcast was made.          *)
SameAgents(r) ==
    /\ sendable'[r] = sendable[r]
    /\ Asked(r)' = Asked(r)
    /\ Answered(r)' = Answered(r)

LEMMA MovesPhase ==
    ASSUME TypeOK, sendable' \in [Requests -> SUBSET Agents],
           NEW r \in Requests, OthersStill(r), SameAgents(r),
           \/ Phase(r) = "idle" /\ Phase(r)' = "accepted"
           \/ Phase(r) \in {"idle", "accepted"} /\ Phase(r)' = "complete"
           \/ Phase(r) \in {"idle", "accepted", "open"} /\ Phase(r)' = "given up"
    PROVE  B!Next
<1>1. phases' = [phases EXCEPT ![r] = Phase(r)'] /\ phases[r] = Phase(r)
  BY OnlyOneMoves DEF phases
<1>2. sendable' = sendable
  <2>1. sendable \in [Requests -> SUBSET Agents]
    BY DEF TypeOK
  <2>2. sendable' = [sendable EXCEPT ![r] = sendable'[r]]
    BY OnlyOneMoves
  <2> QED
    BY <2>1, <2>2 DEF SameAgents
<1>3. askedOf' = askedOf /\ gotOf' = gotOf
  BY OnlyOneMoves DEF SameAgents, askedOf, gotOf
<1>4. B!Accept(r) \/ B!CompleteEmpty(r) \/ B!GiveUp(r)
  <2> USE <1>1, <1>2, <1>3 DEF phases, askedOf, gotOf, Asked
  <2>1. CASE Phase(r) = "idle" /\ Phase(r)' = "accepted"
    BY <2>1 DEF B!Accept
  <2>2. CASE Phase(r) \in {"idle", "accepted"} /\ Phase(r)' = "complete"
    BY <2>2 DEF B!CompleteEmpty
  <2>3. CASE Phase(r) \in {"idle", "accepted", "open"} /\ Phase(r)' = "given up"
    BY <2>3 DEF B!GiveUp
  <2> QED
    BY <2>1, <2>2, <2>3
<1> QED
  BY <1>4 DEF B!Next

LEMMA MovesToOpen ==
    ASSUME TypeOK, sendable' \in [Requests -> SUBSET Agents],
           NEW r \in Requests, OthersStill(r),
           Phase(r) \in {"idle", "accepted"}, Phase(r)' = "open",
           NEW first \in sendable'[r], Asked(r)' = {first},
           Answered(r)' = Answered(r)
    PROVE  B!Next
<1>1. phases' = [phases EXCEPT ![r] = "open"] /\ phases[r] = Phase(r)
  BY OnlyOneMoves DEF phases
<1>2. /\ sendable' = [sendable EXCEPT ![r] = sendable'[r]]
      /\ askedOf' = [askedOf EXCEPT ![r] = {first}]
  BY OnlyOneMoves
<1>3. gotOf' = gotOf
  BY OnlyOneMoves DEF gotOf
<1>4. B!Open(r)
  BY <1>1, <1>2, <1>3 DEF B!Open, phases, askedOf, gotOf, Asked
<1> QED
  BY <1>4 DEF B!Next

(* An answer: the last one, one before a pause, or one before a next call. *)
LEMMA MovesByAnswer ==
    ASSUME TypeOK, sendable' \in [Requests -> SUBSET Agents],
           NEW r \in Requests, OthersStill(r),
           Phase(r) = "open", Asked(r) # Answered(r),
           sendable'[r] = sendable[r], Answered(r)' = Asked(r),
           \/ /\ Asked(r) = sendable[r] /\ Asked(r)' = Asked(r)
              /\ Phase(r)' = "complete"
           \/ /\ Asked(r) # sendable[r] /\ Asked(r)' = Asked(r)
              /\ Phase(r)' = "open"
           \/ /\ \E a \in sendable[r] \ Asked(r) : Asked(r)' = Asked(r) \cup {a}
              /\ Phase(r)' = "open"
    PROVE  B!Next
<1>1. phases' = [phases EXCEPT ![r] = Phase(r)'] /\ phases[r] = Phase(r)
  BY OnlyOneMoves DEF phases
<1>2. sendable' = sendable
  BY OnlyOneMoves DEF TypeOK
<1>3. /\ askedOf' = [askedOf EXCEPT ![r] = Asked(r)'] /\ askedOf[r] = Asked(r)
      /\ gotOf' = [gotOf EXCEPT ![r] = askedOf[r]] /\ gotOf[r] = Answered(r)
  BY OnlyOneMoves DEF askedOf, gotOf
<1>4. B!Answer(r)
  <2> SUFFICES
        /\ phases[r] = "open"
        /\ askedOf[r] # gotOf[r]
        /\ gotOf' = [gotOf EXCEPT ![r] = askedOf[r]]
        /\ \/ /\ askedOf[r] = sendable[r]
              /\ phases' = [phases EXCEPT ![r] = "complete"]
              /\ askedOf' = askedOf
           \/ /\ askedOf[r] # sendable[r]
              /\ phases' = phases /\ askedOf' = askedOf
           \/ /\ \E a \in sendable[r] \ askedOf[r] :
                    askedOf' = [askedOf EXCEPT ![r] = @ \cup {a}]
              /\ phases' = phases
        /\ sendable' = sendable
    BY DEF B!Answer, phases, askedOf, gotOf, Asked
  <2>1. CASE Asked(r)' = Asked(r)
    BY <1>1, <1>2, <1>3, <2>1, ZenonT(30) DEF phases, askedOf
  <2>2. CASE Asked(r)' # Asked(r)
    BY <1>1, <1>2, <1>3, <2>2 DEF phases
  <2> QED
    BY <2>1, <2>2
<1> QED
  BY <1>4 DEF B!Next

LEMMA MovesByAsking ==
    ASSUME TypeOK, sendable' \in [Requests -> SUBSET Agents],
           NEW r \in Requests, OthersStill(r),
           Phase(r) = "open", Phase(r)' = "open", Asked(r) = Answered(r),
           sendable'[r] = sendable[r], Answered(r)' = Answered(r),
           NEW a \in sendable[r] \ Asked(r), Asked(r)' = Asked(r) \cup {a}
    PROVE  B!Next
<1>1. phases' = phases /\ phases[r] = "open"
  BY OnlyOneMoves, ZenonT(30) DEF phases
<1>2. sendable' = sendable
  BY OnlyOneMoves DEF TypeOK
<1>3. /\ askedOf' = [askedOf EXCEPT ![r] = @ \cup {a}]
      /\ askedOf[r] = Asked(r) /\ gotOf[r] = Answered(r)
  BY OnlyOneMoves DEF askedOf, gotOf
<1>4. gotOf' = gotOf
  BY OnlyOneMoves DEF gotOf
<1>5. B!Ask(r)
  BY <1>1, <1>2, <1>3, <1>4 DEF B!Ask, phases, askedOf, gotOf, Asked
<1> QED
  BY <1>5 DEF B!Next

-----------------------------------------------------------------------------
(* The steps of the hub.                                                   *)
SendableType == sendable' \in [Requests -> SUBSET Agents]

(* A fan-out opens the broadcast, or completes it when nobody is there.    *)
LEMMA FanOutMaps ==
    ASSUME MapInv, SendableType, NEW r \in Requests,
           pc[r] \in {"idle", "scheduled", "announced"},
           NEW p \in Call, NEW o \in Objects, FanOut(r, p, o)
    PROVE  B!Next
<1> DEFINE targets == {a \in SendablePeers(o, p.sender) :
                          p.rcpt = NoAgent \/ a = p.rcpt}
<1>1. TypeOK /\ FanOutSt(r)
  BY DEF MapInv, TypeInv, FanOutInv
<1>2. /\ Answered(r) = {} /\ cur[r] = NoAgent /\ sendable[r] = {}
      /\ Phase(r) \in {"idle", "accepted"}
  BY <1>1, PhaseByState DEF FanOutSt, Split, NotBegun, Unstarted
<1>3. OthersStill(r)
  <2> SUFFICES ASSUME NEW s \in Requests \ {r} PROVE Frozen(s)
    BY FrozenIsStill DEF OthersStill
  <2> QED
    BY <1>1 DEF FanOut, Frozen, TypeOK
<1>4. sendable'[r] = targets /\ outcome' = outcome /\ targets \subseteq Agents
  BY <1>1 DEF FanOut, TypeOK, SendablePeers
<1>5. \/ targets = {} /\ pc'[r] = "done" /\ cur'[r] = cur[r]
      \/ \E a \in targets : pc'[r] = "sending" /\ cur'[r] = a
  BY <1>1 DEF FanOut, TypeOK
<1> HIDE DEF targets
<1>6. Answered(r)' = {}
  BY <1>2, <1>4 DEF Answered
<1>7. CASE targets = {} /\ pc'[r] = "done" /\ cur'[r] = cur[r]
  <2>1. SameAgents(r)
    BY <1>2, <1>4, <1>6, <1>7 DEF SameAgents, Asked
  <2>2. Phase(r)' = "complete"
    BY <1>7, NextPhaseByState
  <2> QED
    BY <1>1, <1>2, <1>3, <2>1, <2>2, MovesPhase DEF SendableType
<1>8. ASSUME NEW a \in targets, pc'[r] = "sending", cur'[r] = a
      PROVE  B!Next
  <2>1. Phase(r)' = "open"
    BY <1>8, NextPhaseByState
  <2>2. Asked(r)' = {a} /\ a \in sendable'[r]
    BY <1>4, <1>6, <1>8, StoreAssumption DEF Asked
  <2> QED
    BY <1>1, <1>2, <1>3, <1>6, <2>1, <2>2, MovesToOpen DEF SendableType
<1> QED
  BY <1>5, <1>7, <1>8

(* A step that only changes where request r is.                            *)
LEMMA PlaceChangeMaps ==
    ASSUME MapInv, SendableType, NEW r \in Requests,
           NEW x, pc' = [pc EXCEPT ![r] = x],
           UNCHANGED <<sendable, cur, outcome>>,
           \/ /\ pc[r] = "idle"
              /\ x \in {"scheduled", "announced", "saved", "rejected", "unsent"}
           \/ pc[r] = "scheduled" /\ x = "dropped"
           \/ pc[r] = "emitting" /\ x \in {"emitting", "done"}
           \/ pc[r] \in Suspended /\ x = "cancelled"
    PROVE  B!Next \/ UNCHANGED B!vars
<1>1. TypeOK /\ FanOutSt(r)
  BY DEF MapInv, TypeInv, FanOutInv
<1>2. pc'[r] = x
  BY <1>1 DEF TypeOK
<1>3. OthersStill(r)
  <2> SUFFICES ASSUME NEW s \in Requests \ {r} PROVE Frozen(s)
    BY FrozenIsStill DEF OthersStill
  <2> QED
    BY <1>1 DEF Frozen, TypeOK
<1>4. SameAgents(r)
  BY DEF SameAgents, Asked, Answered
<1>5. CASE Phase(r)' = Phase(r)
  <2>1. Still(r)
    BY <1>4, <1>5 DEF SameAgents, Still
  <2>2. \A s \in Requests : Still(s)
    BY <1>3, <2>1 DEF OthersStill
  <2> QED
    BY <1>1, <2>2, AllStillStutters DEF SendableType
<1>6. CASE pc[r] = "idle"
  <2>1. /\ Phase(r) = "idle"
        /\ Phase(r)' \in {"accepted", "given up"}
    BY <1>2, <1>6, PhaseByState, NextPhaseByState DEF Suspended
  <2> QED
    BY <1>1, <1>3, <1>4, <2>1, MovesPhase DEF SendableType
<1>7. CASE pc[r] \in {"scheduled", "announced", "sending", "pausing"}
  <2>1. Phase(r) \in {"accepted", "open"}
    BY <1>7, PhaseByState
  <2>2. ~(sendable'[r] # {} /\ sendable'[r] = Answered(r)')
    <3>1. sendable[r] = {} \/ sendable[r] # Answered(r)
      BY <1>1, <1>7 DEF FanOutSt, Split, NotBegun, Unstarted
    <3> QED
      BY <1>4, <3>1 DEF SameAgents
  <2>3. Phase(r)' = "given up"
    BY <1>2, <1>7, <2>2, NextPhaseByState
  <2> QED
    BY <1>1, <1>3, <1>4, <2>1, <2>3, MovesPhase DEF SendableType
<1>8. CASE pc[r] = "emitting"
  <2>1. sendable[r] # {} /\ sendable[r] = Answered(r)
    BY <1>1, <1>8 DEF MapInv, EmitsToSomebody, FanOutSt, Split
  <2>2. Phase(r) = "complete" /\ Phase(r)' = "complete"
    BY <1>2, <1>4, <1>8, <2>1, PhaseByState, NextPhaseByState DEF SameAgents
  <2> QED
    BY <1>5, <2>2
<1> QED
  BY <1>6, <1>7, <1>8 DEF Suspended

LEMMA ArrivalMaps ==
    ASSUME MapInv, SendableType, NEW r \in Requests, Arrival(r)
    PROVE  B!Next \/ UNCHANGED B!vars
<1>1. ASSUME NEW p \in Params("blocking"), OnMessageSend(r, p), ~FailUnsent(r)
      PROVE  B!Next
  <2>1. /\ FanOut(r, p, Resolve(p))
        /\ pc[r] = "idle"
        /\ "blocking" \in Modes
        /\ Resolve(p) # NoObject
    BY <1>1 DEF OnMessageSend, Accepts, Arrives
  <2>2. p \in Call /\ Resolve(p) \in Objects
    BY <2>1, ParamsAreCalls, ResolvesToLive DEF MapInv, TypeInv, TypeOK
  <2> QED
    BY <2>1, <2>2, FanOutMaps
<1>2. ASSUME NEW p, NEW body,
             \/ Refuse(r, p) \/ SendAsync(r, p, body) \/ OnMessageSendStream(r, p)
             \/ OnMessageSend(r, p) /\ FailUnsent(r)
      PROVE  B!Next \/ UNCHANGED B!vars
  <2>1. /\ pc[r] = "idle"
        /\ \E x \in {"scheduled", "announced", "saved", "rejected", "unsent"} :
              pc' = [pc EXCEPT ![r] = x]
        /\ UNCHANGED <<sendable, cur, outcome>>
    BY <1>2 DEF Refuse, OnMessageSend, SendAsync, OnMessageSendStream, FailUnsent,
                Accepts, Arrives, localVars
  <2> QED
    BY <2>1, PlaceChangeMaps
<1> QED
  BY <1>1, <1>2 DEF Arrival

(* The answer of the awaited agent. *)
LEMMA AnswerMaps ==
    ASSUME MapInv, SendableType, NEW r \in Requests, NEW out \in Outcomes,
           \/ AgentAnswers(r, out)
           \/ LastAgentAnswers(r, out)
           \/ LastAgentAnswersStream(r, out)
    PROVE  B!Next
<1>1. TypeInv /\ TypeOK /\ FanOutSt(r)
  BY DEF MapInv, TypeInv, FanOutInv
<1>2. Collect(r, out) /\ sendable' = sendable
  BY DEF AgentAnswers, LastAgentAnswers, LastAgentAnswersStream
<1>3. cur[r] \in Agents /\ pc[r] = "sending"
  BY <1>1, <1>2, CollectType
<1>4. \/ /\ todo[r] # {}
         /\ pc' = [pc EXCEPT ![r] = "pausing"]
         /\ cur' = [cur EXCEPT ![r] = NoAgent]
      \/ \E a \in todo[r] :
            /\ cur' = [cur EXCEPT ![r] = a]
            /\ pc' = pc
      \/ \E x \in {"done", "cut", "emitting"} :
            /\ todo[r] = {}
            /\ pc' = [pc EXCEPT ![r] = x]
            /\ cur' = [cur EXCEPT ![r] = NoAgent]
  BY DEF AgentAnswers, LastAgentAnswers, LastAgentAnswersStream, SaveReplies
<1>5. OthersStill(r)
  <2> SUFFICES ASSUME NEW s \in Requests \ {r} PROVE Frozen(s)
    BY FrozenIsStill DEF OthersStill
  <2>1. pc'[s] = pc[s] /\ cur'[s] = cur[s]
    BY <1>1, <1>4 DEF TypeOK
  <2>2. outcome'[s] = outcome[s]
    BY <1>1, <1>2 DEF Collect, TypeOK
  <2> QED
    BY <1>2, <2>1, <2>2 DEF Frozen
<1>6. Answered(r)' = Answered(r) \cup {cur[r]}
  <2>1. out # "none"
    BY HubAssumption
  <2>2. \A a \in Agents : outcome'[r][a] = IF a = cur[r] THEN out ELSE outcome[r][a]
    BY <1>1, <1>2, <1>3 DEF Collect, TypeOK
  <2> QED
    BY <1>3, <2>1, <2>2 DEF Answered
<1>7. /\ sendable[r] = Answered(r) \cup todo[r] \cup {cur[r]}
      /\ todo[r] \cap Answered(r) = {}
      /\ cur[r] \notin todo[r] \cup Answered(r)
      /\ NoAgent \notin todo[r] \cup Answered(r) \cup {cur[r]}
      /\ Asked(r) = Answered(r) \cup {cur[r]}
  BY <1>1, <1>3, StoreAssumption DEF FanOutSt, Split, Asked, TypeOK, Answered
<1>8. Phase(r) = "open" /\ Asked(r) # Answered(r) /\ Answered(r)' = Asked(r)
  BY <1>3, <1>6, <1>7, PhaseByState
<1>9. Asked(r)' = Asked(r) \cup ({cur'[r]} \ {NoAgent})
  BY <1>8 DEF Asked
<1>10. \/ todo[r] # {} /\ pc'[r] = "pausing" /\ cur'[r] = NoAgent
       \/ cur'[r] \in todo[r] /\ pc'[r] = "sending"
       \/ todo[r] = {} /\ pc'[r] \in {"done", "cut", "emitting"} /\ cur'[r] = NoAgent
  BY <1>1, <1>3, <1>4 DEF TypeOK
<1>11. \/ /\ Asked(r) = sendable[r] /\ Asked(r)' = Asked(r)
          /\ Phase(r)' = "complete"
       \/ /\ Asked(r) # sendable[r] /\ Asked(r)' = Asked(r)
          /\ Phase(r)' = "open"
       \/ /\ \E a \in sendable[r] \ Asked(r) : Asked(r)' = Asked(r) \cup {a}
          /\ Phase(r)' = "open"
  <2>1. CASE todo[r] # {} /\ pc'[r] = "pausing" /\ cur'[r] = NoAgent
    BY <1>7, <1>9, <2>1, NextPhaseByState
  <2>2. CASE cur'[r] \in todo[r] /\ pc'[r] = "sending"
    <3>1. cur'[r] \in sendable[r] \ Asked(r) /\ cur'[r] # NoAgent
      BY <1>7, <2>2
    <3>2. Asked(r)' = Asked(r) \cup {cur'[r]} /\ Phase(r)' = "open"
      BY <1>9, <2>2, <3>1, NextPhaseByState
    <3> QED
      BY <3>1, <3>2
  <2>3. CASE todo[r] = {} /\ pc'[r] \in {"done", "cut", "emitting"} /\ cur'[r] = NoAgent
    BY <1>7, <1>9, <2>3, NextPhaseByState
  <2> QED
    BY <1>10, <2>1, <2>2, <2>3
<1> QED
  BY <1>1, <1>2, <1>5, <1>8, <1>11, MovesByAnswer DEF SendableType

LEMMA PauseOverMaps ==
    ASSUME MapInv, SendableType, NEW r \in Requests, PauseOver(r)
    PROVE  B!Next
<1>1. TypeOK /\ FanOutSt(r)
  BY DEF MapInv, TypeInv, FanOutInv
<1>2. PICK a \in todo[r] : /\ pc' = [pc EXCEPT ![r] = "sending"]
                           /\ cur' = [cur EXCEPT ![r] = a]
                           /\ UNCHANGED <<sendable, outcome>>
                           /\ pc[r] = "pausing"
  BY DEF PauseOver
<1>3. /\ cur'[r] = a /\ pc'[r] = "sending" /\ a \in Agents /\ a # NoAgent
  BY <1>1, <1>2, StoreAssumption DEF TypeOK
<1>4. OthersStill(r)
  <2> SUFFICES ASSUME NEW s \in Requests \ {r} PROVE Frozen(s)
    BY FrozenIsStill DEF OthersStill
  <2> QED
    BY <1>1, <1>2 DEF Frozen, TypeOK
<1>5. Answered(r)' = Answered(r)
  BY <1>2 DEF Answered
<1>6. /\ Asked(r) = Answered(r)
      /\ a \in sendable[r] \ Asked(r)
  BY <1>1, <1>2 DEF FanOutSt, Split, Asked
<1>7. Asked(r)' = Asked(r) \cup {a}
  BY <1>3, <1>5, <1>6 DEF Asked
<1>8. Phase(r) = "open" /\ Phase(r)' = "open"
  BY <1>2, <1>3, PhaseByState, NextPhaseByState
<1>9. sendable'[r] = sendable[r]
  BY <1>2
<1> QED
  BY <1>1, <1>4, <1>5, <1>6, <1>7, <1>8, <1>9, MovesByAsking DEF SendableType

LEMMA ProgressMaps ==
    ASSUME MapInv, SendableType, NEW r \in Requests, Progress(r)
    PROVE  B!Next \/ UNCHANGED B!vars
<1>1. TypeInv /\ TypeOK
  BY DEF MapInv, TypeInv
<1>2. CASE DispatchStart(r)
  <2>1. CASE Resolve(call[r]) = NoObject
    <3>1. /\ pc[r] = "scheduled" /\ pc' = [pc EXCEPT ![r] = "dropped"]
          /\ UNCHANGED <<sendable, cur, outcome>>
      BY <1>2, <2>1 DEF DispatchStart, localVars
    <3> QED
      BY <3>1, PlaceChangeMaps
  <2>2. CASE Resolve(call[r]) # NoObject
    <3>1. call[r] \in Call /\ Resolve(call[r]) \in Objects
      BY <1>1, <2>2, ResolvesToLive DEF TypeOK
    <3>2. FanOut(r, call[r], Resolve(call[r])) /\ pc[r] = "scheduled"
      BY <1>2, <2>2 DEF DispatchStart
    <3> QED
      BY <3>1, <3>2, FanOutMaps
  <2> QED
    BY <2>1, <2>2
<1>3. CASE StreamFanOut(r)
  <2>1. /\ FanOut(r, call[r], obj[r])
        /\ pc[r] = "announced"
        /\ call[r] \in Call /\ obj[r] \in Objects
    BY <1>1, <1>3 DEF StreamFanOut, TypeInv, TypeOK, Located, Holding
  <2> QED
    BY <2>1, FanOutMaps
<1>4. CASE StreamEmit(r)
  <2>1. /\ pc[r] = "emitting" /\ pc' = [pc EXCEPT ![r] = "emitting"]
        /\ UNCHANGED <<sendable, cur, outcome>>
    BY <1>1, <1>4 DEF StreamEmit, TypeOK, localVars
  <2> QED
    BY <2>1, PlaceChangeMaps
<1>5. CASE StreamFinish(r)
  <2>1. /\ pc[r] = "emitting" /\ pc' = [pc EXCEPT ![r] = "done"]
        /\ UNCHANGED <<sendable, cur, outcome>>
    BY <1>5 DEF StreamFinish, localVars
  <2> QED
    BY <2>1, PlaceChangeMaps
<1> QED
  BY <1>2, <1>3, <1>4, <1>5, AnswerMaps, PauseOverMaps DEF Progress

(* Shutdown gives up the dispatches that run, all of which are open or     *)
(* still to start: a stream, which might have got all its answers, is not  *)
(* among them.                                                             *)
LEMMA CloseMaps ==
    ASSUME MapInv, Close
    PROVE  B!Next
<1> DEFINE R == {r \in Requests : r \in background /\ pc[r] \in Suspended}
<1>1. TypeOK /\ LifeInv /\ FanOutInv
  BY DEF MapInv, TypeInv
<1>2. /\ \A r \in Requests : pc'[r] = IF r \in R THEN "cancelled" ELSE pc[r]
      /\ \A r \in R : call[r].mode = "async"
      /\ UNCHANGED <<sendable, cur, outcome>>
  BY DEF Close, localVars
<1>3. ASSUME NEW r \in Requests
      PROVE  /\ Answered(r)' = Answered(r)
             /\ Asked(r)' = Asked(r)
             /\ r \in R => Phase(r) \in {"accepted", "open"}
             /\ Phase(r)' = IF r \in R THEN "given up" ELSE Phase(r)
  <2>1. Answered(r)' = Answered(r) /\ Asked(r)' = Asked(r)
    BY <1>2 DEF Answered, Asked
  <2>2. CASE r \in R
    <3>1. pc[r] \in {"scheduled", "sending", "pausing"}
      BY <1>1, <1>2, <2>2 DEF LifeInv, LifeSt, Suspended
    <3>2. sendable[r] = {} \/ sendable[r] # Answered(r)
      BY <1>1, <3>1 DEF FanOutInv, FanOutSt, Split, NotBegun, Unstarted
    <3>3. Phase(r)' = "given up"
      BY <1>2, <2>1, <2>2, <3>2, NextPhaseByState
    <3> QED
      BY <2>1, <2>2, <3>1, <3>3, PhaseByState
  <2>3. CASE r \notin R
    <3>1. Frozen(r)
      BY <1>2, <2>3 DEF Frozen
    <3> QED
      BY <2>1, <2>3, <3>1, FrozenIsStill DEF Still
  <2> QED
    BY <2>2, <2>3
<1> HIDE DEF R
<1>4. R \in SUBSET {r \in Requests : phases[r] \in {"accepted", "open"}}
  BY <1>3 DEF phases, R
<1>5. /\ phases' = [r \in Requests |-> IF r \in R THEN "given up" ELSE phases[r]]
      /\ askedOf' = askedOf /\ gotOf' = gotOf
  BY <1>3 DEF phases, askedOf, gotOf
<1>6. B!Shutdown
  BY <1>2, <1>4, <1>5 DEF B!Shutdown, phases, askedOf, gotOf, Asked
<1> QED
  BY <1>6 DEF B!Next

LEMMA OtherMaps ==
    ASSUME MapInv, SendableType,
           \/ \E r \in Requests : \/ StreamDisconnect(r)
                                  \/ DispatchDone(r)
                                  \/ \E a \in Agents : ObserverNotified(r, a)
                                  \/ OnCancelTask(r)
           \/ \E m \in Post : Deliver(m)
           \/ RestApi
           \/ UNCHANGED vars
    PROVE  B!Next \/ UNCHANGED B!vars
<1>1. CASE \E r \in Requests : StreamDisconnect(r)
  <2>1. PICK r \in Requests : /\ pc[r] \in Suspended
                              /\ pc' = [pc EXCEPT ![r] = "cancelled"]
                              /\ UNCHANGED <<sendable, cur, outcome>>
    BY <1>1 DEF StreamDisconnect, localVars
  <2> QED
    BY <2>1, PlaceChangeMaps
<1>2. CASE UNCHANGED <<pc, sendable, cur, outcome>>
  <2>1. \A s \in Requests : Still(s)
    BY <1>2, FrozenIsStill DEF Frozen
  <2> QED
    BY <2>1, AllStillStutters DEF SendableType, MapInv, TypeInv
<1>3. CASE \/ \E r \in Requests : \/ DispatchDone(r)
                                  \/ \E a \in Agents : ObserverNotified(r, a)
                                  \/ OnCancelTask(r)
           \/ \E m \in Post : Deliver(m)
           \/ RestApi
           \/ UNCHANGED vars
  <2>1. UNCHANGED <<pc, sendable, cur, outcome>>
    BY <1>3 DEF DispatchDone, ObserverNotified, OnCancelTask, Deliver, RestApi,
                vars, localVars
  <2> QED
    BY <1>2, <2>1
<1> QED
  BY <1>1, <1>3

-----------------------------------------------------------------------------
(* What starts a stream's artifacts is an answer of one of its targets.    *)
LEMMA NextEmits == MapInv /\ [Next]_vars => EmitsToSomebody'
<1> SUFFICES ASSUME MapInv, [Next]_vars, NEW s \in Requests,
                    pc'[s] = "emitting"
             PROVE  sendable'[s] # {}
  BY DEF EmitsToSomebody
<1>1. TypeInv /\ TypeOK /\ FanOutSt(s)
  BY DEF MapInv, TypeInv, FanOutInv
<1>2. CASE pc'[s] = pc[s] /\ sendable'[s] = sendable[s]
  BY <1>2 DEF MapInv, EmitsToSomebody
<1>3. ASSUME NEW r \in Requests, NEW p, NEW o, FanOut(r, p, o)
      PROVE  pc'[s] = pc[s] /\ sendable'[s] = sendable[s]
  <2>1. s # r
    BY <1>1, <1>3 DEF FanOut, TypeOK
  <2> QED
    BY <1>1, <1>3, <2>1 DEF FanOut, TypeOK
<1>4. ASSUME NEW r \in Requests, Arrival(r)
      PROVE  pc'[s] = pc[s] /\ sendable'[s] = sendable[s]
  <2>1. ASSUME NEW p, OnMessageSend(r, p), ~FailUnsent(r)
        PROVE  pc'[s] = pc[s] /\ sendable'[s] = sendable[s]
    BY <1>3, <2>1 DEF OnMessageSend
  <2>2. ASSUME NEW p, NEW body,
               \/ Refuse(r, p) \/ SendAsync(r, p, body) \/ OnMessageSendStream(r, p)
               \/ FailUnsent(r)
        PROVE  pc'[s] = pc[s] /\ sendable'[s] = sendable[s]
    BY <1>1, <2>2 DEF Refuse, SendAsync, OnMessageSendStream, FailUnsent, localVars,
                      TypeOK
  <2> QED
    BY <1>4, <2>1, <2>2 DEF Arrival
<1>5. ASSUME NEW r \in Requests, DispatchStart(r) \/ StreamFanOut(r)
      PROVE  pc'[s] = pc[s] /\ sendable'[s] = sendable[s]
  <2>1. CASE \E p, o : FanOut(r, p, o)
    BY <1>3, <2>1
  <2>2. CASE pc' = [pc EXCEPT ![r] = "dropped"] /\ sendable' = sendable
    BY <1>1, <2>2 DEF TypeOK
  <2> QED
    BY <1>5, <2>1, <2>2 DEF DispatchStart, StreamFanOut, localVars
<1>6. ASSUME NEW r \in Requests, NEW out \in Outcomes,
             \/ AgentAnswers(r, out)
             \/ LastAgentAnswers(r, out)
             \/ LastAgentAnswersStream(r, out)
      PROVE  sendable'[s] # {}
  <2>1. Collect(r, out) /\ sendable' = sendable
    BY <1>6 DEF AgentAnswers, LastAgentAnswers, LastAgentAnswersStream
  <2>2. CASE s = r
    <3>1. cur[r] \in Agents
      BY <1>1, <2>1, CollectType
    <3> QED
      BY <1>1, <2>1, <2>2, <3>1, StoreAssumption DEF FanOutSt, Split
  <2>3. CASE s # r
    <3>1. pc'[s] = pc[s]
      BY <1>1, <1>6, <2>3
         DEF AgentAnswers, LastAgentAnswers, SaveReplies, LastAgentAnswersStream,
             TypeOK
    <3> QED
      BY <1>2, <2>1, <3>1
  <2> QED
    BY <2>2, <2>3
<1>7. ASSUME NEW r \in Requests,
             PauseOver(r) \/ StreamEmit(r) \/ StreamFinish(r) \/ StreamDisconnect(r)
      PROVE  pc'[s] = pc[s] /\ sendable'[s] = sendable[s]
  BY <1>1, <1>7
     DEF PauseOver, StreamEmit, StreamFinish, StreamDisconnect, localVars, TypeOK
<1>8. CASE Close
  BY <1>1, <1>2, <1>8 DEF Close, localVars, TypeOK
<1>9. CASE \/ \E r \in Requests : \/ DispatchDone(r)
                                  \/ \E a \in Agents : ObserverNotified(r, a)
                                  \/ OnCancelTask(r)
           \/ \E m \in Post : Deliver(m)
           \/ RestApi
           \/ UNCHANGED vars
  <2>1. UNCHANGED <<pc, sendable>>
    BY <1>9 DEF DispatchDone, ObserverNotified, OnCancelTask, Deliver, RestApi,
                vars, localVars
  <2> QED
    BY <1>2, <2>1
<1> QED
  BY <1>2, <1>4, <1>5, <1>6, <1>7, <1>8, <1>9 DEF Next, Progress

LEMMA NextMaps == MapInv /\ MapInv' /\ [Next]_vars => [B!Next]_B!vars
<1> SUFFICES ASSUME MapInv, MapInv', [Next]_vars
             PROVE  B!Next \/ UNCHANGED B!vars
  OBVIOUS
<1>1. SendableType
  BY DEF MapInv, TypeInv, TypeOK, SendableType
<1> QED
  BY <1>1, ArrivalMaps, ProgressMaps, CloseMaps, OtherMaps DEF Next

LEMMA InitMaps == Init => B!Init
<1> SUFFICES ASSUME Init PROVE B!Init
  OBVIOUS
<1>1. ASSUME NEW r \in Requests
      PROVE  Phase(r) = "idle" /\ Answered(r) = {} /\ Asked(r) = {}
  BY DEF Init, Phase, Answered, Asked
<1> QED
  BY <1>1 DEF Init, B!Init, Asked

LEMMA MapInvariant == Spec => []MapInv
<1>1. Init => EmitsToSomebody
  BY DEF Init, EmitsToSomebody
<1>2. TypeInv /\ FanOutInv /\ LifeInv /\ EmitsToSomebody <=> MapInv
  BY DEF MapInv
<1>3. MapInv /\ [Next]_vars => EmitsToSomebody'
  BY NextEmits
<1> QED
  BY <1>1, <1>2, <1>3, FanOutInvariant, LifeInvariant, PTL DEF Spec

(* The hub implements Broadcast: for any number of channels, agents,       *)
(* requests and changes of the members, every handler, suspension, pause,  *)
(* disconnection and shutdown makes a step of the broadcast or none.       *)
THEOREM HubImplementsBroadcast == Spec => ImplementsBroadcast
<1>1. Init => B!Init
  BY InitMaps
<1>2. MapInv /\ MapInv' /\ [Next]_vars => [B!Next]_B!vars
  BY NextMaps
<1>3. Spec => B!Spec
  BY <1>1, <1>2, MapInvariant, PTL DEF Spec, B!Spec
<1> QED
  BY <1>3 DEF ImplementsBroadcast

-----------------------------------------------------------------------------
(* Where the message of a request and its replies stand in a history.      *)
Asks(h, r) == {i \in DOMAIN h : h[i].req = r /\ h[i].kind \in {"request"}}
Reps(h, r) == {i \in DOMAIN h : h[i].req = r /\ h[i].kind \in {"reply", "error"}}

(* The replies stand from k on, in the order of the list, after the message. *)
Block(h, r, list, k) ==
    /\ Reps(h, r) = k .. k + Len(list) - 1
    /\ \A i \in Reps(h, r) : h[i].from = list[i - k + 1]
    /\ \A i \in Asks(h, r) : i < k

(* The channel id that a call's parameters name, by id or by the context   *)
(* of an object, is c.                                                     *)
Names(p, c) ==
    IF p.cid # NoChannel THEN c = p.cid
    ELSE p.ctx \in Objects /\ home[p.ctx] = c

(* The object a request holds is of the channel its parameters name.       *)
HeldInv ==
    \A r \in Requests : pc[r] \in Holding => Names(call[r], home[obj[r]])

(* HistoryOrder and RepliesFitTheEnd speak of the history; what makes      *)
(* them inductive is that a request's message is only under the id its     *)
(* parameters name, which is where its replies will go.                    *)
Over == {"done", "cut"}

HistSt(c, r) ==
    /\ \A i, j \in Asks(history[c], r) : i = j
    /\ Asks(history[c], r) # {} =>
         pc[r] # "idle" /\ call[r].mode # "stream" /\ Names(call[r], c)
    /\ Reps(history[c], r) # {} => pc[r] \in Over
    /\ pc[r] \in Over /\ Asks(history[c], r) \cup Reps(history[c], r) # {} =>
         \E k \in Nat \ {0} : Block(history[c], r, Saved(r), k)

HistInv == \A c \in Channels, r \in Requests : HistSt(c, r)

(* What is in flight of a request that has not ended is its own message.   *)
PostsInv ==
    \A m \in posts : /\ pc[m.req] # "idle"
                     /\ pc[m.req] \in Over \/ m.from = call[m.req].sender

-----------------------------------------------------------------------------
(* The three kinds of step.                                                *)
Keeps ==
    /\ \A c \in Channels : history'[c] = history[c] \/ history'[c] = <<>>
    /\ \A o \in Objects : home[o] # NoChannel => home'[o] = home[o]
    /\ \A s \in Requests :
          /\ pc[s] # "idle" => pc'[s] # "idle" /\ call'[s] = call[s]
          /\ pc[s] \in Over => pc'[s] = pc[s] /\ replies'[s] = replies[s]
          /\ pc'[s] = "cut" => pc[s] = "cut"
          /\ pc'[s] = "done" =>
               pc[s] \in {"done", "emitting"} \/ replies'[s] = <<>>
    /\ posts' \subseteq posts

(* The webhooks that the messages r stores under d are posted to. *)
Reaches(r, d, W) ==
    IF Raises(d) THEN W \subseteq hooks[d] \ Broken /\ pc'[r] \in {"unsent", "cut"}
                 ELSE W = hooks[d]

StoresRequest(r, p, d) ==
    /\ pc[r] = "idle"
    /\ p \in Call /\ p.mode # "stream" /\ d \in Channels /\ Names(p, d)
    /\ call' = [call EXCEPT ![r] = p]
    /\ \E x \in {"scheduled", "saved", "unsent", "sending", "done"} :
          pc' = [pc EXCEPT ![r] = x]
    /\ home' = home /\ replies' = replies
    /\ \E rec \in Record :
          /\ rec.req = r /\ rec.kind = "request" /\ rec.from = p.sender
          /\ history' = [history EXCEPT ![d] = @ \o <<rec>>]
    /\ \E W \in SUBSET Hooks :
          Reaches(r, d, W) /\ posts' = posts \cup Posts(W, r, {p.sender})

StoresReplies(r, d) ==
    /\ pc[r] = "sending" /\ \E x \in Over : pc' = [pc EXCEPT ![r] = x]
    /\ d = home[obj[r]] /\ d \in Channels
    /\ call' = call /\ home' = home
    /\ replies'[r] \in Seq(Agents)
    /\ \A s \in Requests \ {r} : replies'[s] = replies[s]
    /\ \E batch \in Seq(Record), W \in SUBSET Hooks :
          /\ Len(batch) = Len(Saved(r)')
          /\ \A i \in 1 .. Len(batch) : /\ batch[i].req = r
                                       /\ batch[i].kind \in {"reply", "error"}
                                       /\ batch[i].from = Saved(r)'[i]
                                       /\ Occurs(batch[i].from, replies'[r])
          /\ history' = [history EXCEPT ![d] = @ \o batch]
          /\ batch # <<>> => Reaches(r, d, W)
          /\ posts' = posts \cup
                        Posts(W, r, {batch[i].from : i \in DOMAIN batch})

(* What resolves is of the channel that the parameters name. *)
LEMMA ResolvesToNamed ==
    ASSUME TypeInv, NEW p \in Call, Resolve(p) # NoObject
    PROVE  Names(p, home[Resolve(p)])
<1>1. CASE p.cid # NoChannel
  <2>1. p.cid \in Channels /\ Resolve(p) = live[p.cid]
    BY <1>1 DEF Call, Resolve, ChannelById
  <2> QED
    BY <1>1, <2>1 DEF Names, TypeInv, Located
<1>2. CASE p.cid = NoChannel
  <2>1. Resolve(p) = p.ctx
    BY <1>2 DEF Resolve, ChannelByContext
  <2>2. Resolve(p) \in Objects
    BY ResolvesToLive
  <2> QED
    BY <1>2, <2>1, <2>2 DEF Names
<1> QED
  BY <1>1, <1>2

LEMMA FanOutStep ==
    ASSUME TypeInv, NEW r \in Requests, pc[r] \in Unstarted, FanOutSt(r),
           NEW p \in Call, NEW o \in Objects, FanOut(r, p, o)
    PROVE  /\ \E x \in {"sending", "done"} : pc' = [pc EXCEPT ![r] = x]
           /\ obj' = [obj EXCEPT ![r] = o]
           /\ replies' = replies /\ replies[r] = <<>>
BY DEF FanOut, FanOutSt, NotBegun

LEMMA MessageStored ==
    ASSUME TypeInv, NEW r \in Requests, pc[r] = "idle", NEW p \in Call,
           p.mode # "stream", Resolve(p) # NoObject,
           StoreRequest(r, p, Resolve(p)), call' = [call EXCEPT ![r] = p],
           NEW x \in {"scheduled", "saved", "unsent", "sending", "done"},
           pc' = [pc EXCEPT ![r] = x], replies' = replies,
           Raises(home[Resolve(p)]) => x = "unsent"
    PROVE  \E d \in Channels : StoresRequest(r, p, d)
<1> DEFINE rec == RequestRecord(r, p, Resolve(p))
<1>1. Resolve(p) \in Objects /\ home[Resolve(p)] \in Channels
  BY ResolvesToLive
<1>2. /\ rec \in Record
      /\ rec.req = r /\ rec.kind = "request" /\ rec.from = p.sender
  BY <1>1 DEF RequestRecord, Record, Call
<1>3. Names(p, home[Resolve(p)])
  BY ResolvesToNamed
<1>4. /\ history' = [history EXCEPT ![home[Resolve(p)]] = @ \o <<rec>>]
      /\ home' = home
  BY DEF StoreRequest, SaveMessages
<1>5. PICK W \in Reached(home[Resolve(p)]) :
        posts' = posts \cup Posts(W, r, {p.sender})
  BY DEF StoreRequest
<1>6. Reaches(r, home[Resolve(p)], W) /\ W \in SUBSET Hooks
  <2>1. pc'[r] = x
    BY DEF TypeInv, TypeOK
  <2> QED
    BY <1>1, <1>5, <2>1, ReachedType DEF Reached, Reaches
<1> HIDE DEF rec
<1>7. PICK d \in Channels : d = home[Resolve(p)]
  BY <1>1
<1>8. StoresRequest(r, p, d)
  BY <1>2, <1>3, <1>4, <1>5, <1>6, <1>7 DEF StoresRequest, Reaches, Raises
<1> QED
  BY <1>8

LEMMA ArrivalStores ==
    ASSUME TypeInv, FanOutInv, NEW r \in Requests, Arrival(r)
    PROVE  Keeps \/ \E p, d : StoresRequest(r, p, d)
<1>1. TypeOK /\ FanOutSt(r)
  BY DEF TypeInv, FanOutInv
<1>2. ASSUME NEW p, OnMessageSend(r, p)
      PROVE  \E d : StoresRequest(r, p, d)
  <2>1. /\ p \in Call /\ p.mode = "blocking"
        /\ pc[r] = "idle" /\ call' = [call EXCEPT ![r] = p]
        /\ Resolve(p) # NoObject
        /\ StoreRequest(r, p, Resolve(p))
    BY <1>2, ParamsAreCalls DEF OnMessageSend, Accepts, Arrives
  <2>2. CASE FailUnsent(r)
    BY <2>1, <2>2, MessageStored DEF FailUnsent, localVars
  <2>3. CASE ~Raises(home[Resolve(p)]) /\ FanOut(r, p, Resolve(p))
    <3>1. /\ \E x \in {"sending", "done"} : pc' = [pc EXCEPT ![r] = x]
          /\ replies' = replies
      BY <1>1, <2>1, <2>3, ResolvesToLive, FanOutStep DEF Unstarted
    <3> QED
      BY <2>1, <2>3, <3>1, MessageStored
  <2> QED
    BY <1>2, <2>2, <2>3 DEF OnMessageSend
<1>3. ASSUME NEW p, NEW body, SendAsync(r, p, body)
      PROVE  \E d : StoresRequest(r, p, d)
  <2>1. /\ p \in Call /\ p.mode = "async"
        /\ pc[r] = "idle" /\ call' = [call EXCEPT ![r] = p]
        /\ Resolve(p) # NoObject
        /\ StoreRequest(r, p, Resolve(p))
        /\ \E x \in {"scheduled", "saved", "unsent"} :
              /\ pc' = [pc EXCEPT ![r] = x]
              /\ Raises(home[Resolve(p)]) => x = "unsent"
        /\ replies' = replies
    BY <1>3, ParamsAreCalls DEF SendAsync, FailUnsent, Accepts, Arrives, localVars
  <2> QED
    BY <2>1, MessageStored
<1>4. ASSUME NEW p, Refuse(r, p) \/ OnMessageSendStream(r, p)
      PROVE  Keeps
  <2>1. /\ pc[r] = "idle" /\ call' = [call EXCEPT ![r] = p]
        /\ \E x \in {"rejected", "announced"} : pc' = [pc EXCEPT ![r] = x]
        /\ UNCHANGED <<history, home, replies, posts>>
    BY <1>4 DEF Refuse, OnMessageSendStream, Accepts, Arrives, storeVars, localVars,
                hubVars
  <2> QED
    BY <1>1, <2>1 DEF Keeps, Over, TypeOK
<1> QED
  BY <1>2, <1>3, <1>4 DEF Arrival

LEMMA RepliesStored ==
    ASSUME TypeInv, NEW r \in Requests, NEW out \in Outcomes,
           LastAgentAnswers(r, out)
    PROVE  \E d : StoresReplies(r, d)
<1> DEFINE d == home[obj[r]]
           kept == Kepts(r)
           n == Len(replies'[r])
<1>1. /\ Collect(r, out)
      /\ pc[r] = "sending"
      /\ obj[r] \in Objects /\ d \in Channels
      /\ call' = call
  BY DEF LastAgentAnswers, Collect, TypeInv, Located, Holding
<1>2. /\ replies'[r] \in Seq(Agents) /\ n \in Nat /\ DOMAIN replies'[r] = 1 .. n
      /\ \A s \in Requests \ {r} : replies'[s] = replies[s]
  <2>1. replies' \in [Requests -> Seq(Agents)]
    BY <1>1, CollectType
  <2>2. \A s \in Requests \ {r} : replies'[s] = replies[s]
    BY <1>1 DEF Collect, TypeInv, TypeOK
  <2> QED
    BY <2>1, <2>2
<1>3. kept \in Seq(Record) /\ DOMAIN kept = 1 .. n /\ Len(kept) = n
  BY <1>1, <1>2, KeptsType
<1>4. ASSUME NEW i \in 1 .. n
      PROVE  /\ kept[i].req = r
             /\ kept[i].kind \in {"reply", "error"}
             /\ kept[i].from = replies'[r][i]
             /\ Occurs(kept[i].from, replies'[r])
  <2>1. kept[i].from = replies'[r][i]
    BY <1>2, <1>4 DEF Kepts, ReplyRecord
  <2>2. Occurs(kept[i].from, replies'[r])
    BY <1>2, <2>1 DEF Occurs
  <2>3. kept[i].req = r /\ kept[i].kind \in {"reply", "error"}
    BY <1>2, <1>4 DEF Kepts, ReplyRecord
  <2> QED
    BY <2>1, <2>2, <2>3
<1>5. \/ /\ kept = <<>> \/ ~Raises(d)
         /\ SaveMessages(d, kept)
         /\ posts' = posts \cup Posts(hooks[d], r, {kept[i].from : i \in DOMAIN kept})
         /\ pc' = [pc EXCEPT ![r] = "done"]
      \/ /\ kept # <<>> /\ Raises(d)
         /\ SaveMessages(d, <<kept[1]>>)
         /\ \E W \in Reached(d) : posts' = posts \cup Posts(W, r, {kept[1].from})
         /\ pc' = [pc EXCEPT ![r] = "cut"]
  BY DEF LastAgentAnswers, SaveReplies, Kepts
<1>6. /\ pc \in [Requests -> {"idle"} \cup Suspended \cup Ended]
      /\ hooks[d] \in SUBSET Hooks
  BY <1>1 DEF TypeInv, TypeOK, StoreTypeOK
<1> HIDE DEF kept, d, n
<1>7. ASSUME NEW batch \in Seq(Record), NEW W \in SUBSET Hooks, NEW x \in Over,
             pc' = [pc EXCEPT ![r] = x],
             Len(batch) = Len(Saved(r)'),
             \A i \in 1 .. Len(batch) : /\ batch[i].req = r
                                        /\ batch[i].kind \in {"reply", "error"}
                                        /\ batch[i].from = Saved(r)'[i]
                                        /\ Occurs(batch[i].from, replies'[r]),
             SaveMessages(d, batch),
             batch # <<>> => Reaches(r, d, W),
             posts' = posts \cup Posts(W, r, {batch[i].from : i \in DOMAIN batch})
      PROVE  StoresReplies(r, d)
  <2>1. history' = [history EXCEPT ![d] = @ \o batch] /\ home' = home
    BY <1>7 DEF SaveMessages
  <2>2. d = home[obj[r]]
    BY DEF d
  <2> HIDE DEF Saved, Reaches
  <2> QED
    BY <1>1, <1>2, <1>7, <2>1, <2>2, ZenonT(30) DEF StoresReplies
<1>8. CASE /\ kept = <<>> \/ ~Raises(d)
           /\ SaveMessages(d, kept)
           /\ posts' = posts \cup Posts(hooks[d], r, {kept[i].from : i \in DOMAIN kept})
           /\ pc' = [pc EXCEPT ![r] = "done"]
  <2>1. Saved(r)' = replies'[r]
    BY <1>6, <1>8 DEF Saved
  <2>2. kept # <<>> => Reaches(r, d, hooks[d])
    BY <1>8 DEF Reaches
  <2>3. StoresReplies(r, d)
    BY <1>3, <1>4, <1>6, <1>7, <1>8, <2>1, <2>2 DEF Over, n
  <2> QED
    BY <2>3
<1>9. ASSUME kept # <<>>, Raises(d), SaveMessages(d, <<kept[1]>>),
             NEW W \in Reached(d), posts' = posts \cup Posts(W, r, {kept[1].from}),
             pc' = [pc EXCEPT ![r] = "cut"]
      PROVE  StoresReplies(r, d)
  <2> DEFINE batch == <<kept[1]>>
  <2>1. pc'[r] = "cut" /\ Saved(r)' = <<replies'[r][1]>>
    BY <1>6, <1>9 DEF Saved
  <2>2. 1 \in 1 .. n
    BY <1>2, <1>3, <1>9 DEF n
  <2>3. /\ batch \in Seq(Record) /\ Len(batch) = 1 /\ batch[1] = kept[1]
        /\ {batch[i].from : i \in DOMAIN batch} = {kept[1].from}
    BY <1>3, <2>2
  <2>4. Reaches(r, d, W) /\ W \in SUBSET Hooks
    BY <1>1, <1>9, <2>1, ReachedType DEF Reaches, Reached
  <2>5. \A i \in 1 .. Len(batch) : /\ batch[i].req = r
                                   /\ batch[i].kind \in {"reply", "error"}
                                   /\ batch[i].from = Saved(r)'[i]
                                   /\ Occurs(batch[i].from, replies'[r])
    BY <1>4, <2>1, <2>2, <2>3
  <2>6. Len(batch) = Len(Saved(r)')
    BY <2>1, <2>3
  <2>7. posts' = posts \cup Posts(W, r, {batch[i].from : i \in DOMAIN batch})
    BY <1>9, <2>3
  <2> HIDE DEF batch
  <2>8. SaveMessages(d, batch)
    BY <1>9 DEF batch
  <2> QED
    BY <1>7, <1>9, <2>3, <2>4, <2>5, <2>6, <2>7, <2>8 DEF Over
<1> QED
  BY <1>5, <1>8, <1>9

LEMMA ProgressStores ==
    ASSUME TypeInv, FanOutInv, NEW r \in Requests, Progress(r)
    PROVE  Keeps \/ \E d : StoresReplies(r, d)
<1>1. TypeOK /\ FanOutSt(r)
  BY DEF TypeInv, FanOutInv
<1>2. ASSUME NEW o \in Objects, FanOut(r, call[r], o), pc[r] \in Unstarted,
             pc[r] # "idle", UNCHANGED <<history, home, call, posts>>
      PROVE  Keeps
  <2>1. call[r] \in Call
    BY <1>1 DEF TypeOK
  <2>2. /\ \E x \in {"sending", "done"} : pc' = [pc EXCEPT ![r] = x]
        /\ replies' = replies /\ replies[r] = <<>>
    BY <1>1, <1>2, <2>1, FanOutStep
  <2> QED
    BY <1>1, <1>2, <2>2 DEF Keeps, Over, TypeOK, Unstarted
<1>3. CASE DispatchStart(r)
  <2>1. pc[r] = "scheduled" /\ UNCHANGED <<history, home, call, posts>>
    BY <1>3 DEF DispatchStart, storeVars
  <2>2. CASE Resolve(call[r]) = NoObject
    <3>1. pc' = [pc EXCEPT ![r] = "dropped"] /\ replies' = replies
      BY <1>3, <2>2 DEF DispatchStart, localVars
    <3> QED
      BY <1>1, <2>1, <3>1 DEF Keeps, Over, TypeOK
  <2>3. CASE Resolve(call[r]) # NoObject
    <3>1. FanOut(r, call[r], Resolve(call[r])) /\ Resolve(call[r]) \in Objects
      BY <1>1, <1>3, <2>3, ResolvesToLive DEF DispatchStart, TypeOK
    <3> QED
      BY <1>2, <2>1, <3>1 DEF Unstarted
  <2> QED
    BY <2>2, <2>3
<1>4. CASE StreamFanOut(r)
  <2>1. /\ FanOut(r, call[r], obj[r]) /\ pc[r] = "announced"
        /\ obj[r] \in Objects
        /\ UNCHANGED <<history, home, call, posts>>
    BY <1>4 DEF StreamFanOut, storeVars, TypeInv, Located, Holding
  <2> QED
    BY <1>2, <2>1 DEF Unstarted
<1>5. ASSUME NEW out \in Outcomes,
             AgentAnswers(r, out) \/ LastAgentAnswersStream(r, out)
      PROVE  Keeps
  <2>1. /\ pc[r] = "sending"
        /\ \E x \in {"sending", "pausing", "emitting"} : pc' = [pc EXCEPT ![r] = x]
        /\ \A s \in Requests \ {r} : replies'[s] = replies[s]
        /\ UNCHANGED <<history, home, call, posts>>
    BY <1>1, <1>5 DEF AgentAnswers, LastAgentAnswersStream, Collect, TypeOK,
                      storeVars, hubVars
  <2> QED
    BY <1>1, <2>1 DEF Keeps, Over, TypeOK
<1>6. CASE PauseOver(r) \/ StreamEmit(r) \/ StreamFinish(r)
  <2>1. /\ \/ pc[r] = "pausing" /\ pc' = [pc EXCEPT ![r] = "sending"]
           \/ pc[r] = "emitting" /\ pc' = pc
           \/ pc[r] = "emitting" /\ pc' = [pc EXCEPT ![r] = "done"]
        /\ UNCHANGED <<history, home, call, replies, posts>>
    BY <1>6 DEF PauseOver, StreamEmit, StreamFinish, storeVars, localVars, hubVars
  <2> QED
    BY <1>1, <2>1 DEF Keeps, Over, TypeOK
<1> QED
  BY <1>3, <1>4, <1>5, <1>6, RepliesStored DEF Progress

LEMMA OtherStores ==
    ASSUME TypeInv,
           \/ \E r \in Requests : \/ StreamDisconnect(r)
                                  \/ DispatchDone(r)
                                  \/ \E a \in Agents : ObserverNotified(r, a)
                                  \/ OnCancelTask(r)
           \/ \E m \in Post : Deliver(m)
           \/ Close
           \/ RestApi
           \/ UNCHANGED vars
    PROVE  Keeps
<1>1. TypeOK /\ StoreTypeOK
  BY DEF TypeInv, TypeOK
<1>2. CASE RestApi
  <2>1. StoreOperation /\ UNCHANGED <<pc, call, replies, posts>>
    BY <1>2 DEF RestApi, localVars, hubVars
  <2>2. \A c \in Channels : history'[c] = history[c] \/ history'[c] = <<>>
    BY <1>1, <2>1 DEF StoreOperation, CreateChannel, SaveChannel, DeleteChannel,
       AddMember, RemoveMember, PatchMember, SaveWebhook, DeleteWebhook, StoreTypeOK
  <2>3. \A o \in Objects : home[o] # NoChannel => home'[o] = home[o]
    BY <1>1, <2>1 DEF StoreOperation, CreateChannel, SaveChannel, DeleteChannel,
       AddMember, RemoveMember, PatchMember, SaveWebhook, DeleteWebhook, StoreTypeOK
  <2> QED
    BY <2>1, <2>2, <2>3 DEF Keeps
<1>3. CASE ~RestApi
  <2>1. /\ UNCHANGED <<history, home, call, replies>>
        /\ posts' \subseteq posts
    BY <1>3 DEF StreamDisconnect, DispatchDone, ObserverNotified, OnCancelTask,
       Deliver, Close, vars, storeVars, localVars, hubVars
  <2>2. \A s \in Requests :
          pc'[s] = pc[s] \/ (pc'[s] = "cancelled" /\ pc[s] \in Suspended)
    BY <1>1, <1>3 DEF StreamDisconnect, DispatchDone, ObserverNotified, OnCancelTask,
       Deliver, Close, vars, TypeOK
  <2> QED
    BY <2>1, <2>2 DEF Keeps, Over, Suspended
<1> QED
  BY <1>2, <1>3

LEMMA WhatChangesHistory ==
    ASSUME TypeInv, FanOutInv, [Next]_vars
    PROVE  \/ Keeps
           \/ \E r \in Requests : \E p, d : StoresRequest(r, p, d)
           \/ \E r \in Requests : \E d : StoresReplies(r, d)
BY ArrivalStores, ProgressStores, OtherStores DEF Next

-----------------------------------------------------------------------------
(* Positions in a history that grows.                                      *)
LEMMA AppendedPositions ==
    ASSUME NEW h \in Seq(Record), NEW t \in Seq(Record), NEW s \in Requests
    PROVE  /\ h \o t \in Seq(Record)
           /\ Asks(h \o t, s) = Asks(h, s) \cup {Len(h) + j : j \in Asks(t, s)}
           /\ Reps(h \o t, s) = Reps(h, s) \cup {Len(h) + j : j \in Reps(t, s)}
           /\ \A i \in 1 .. Len(h) : (h \o t)[i] = h[i]
           /\ \A j \in 1 .. Len(t) : (h \o t)[Len(h) + j] = t[j]
<1> DEFINE n == Len(h)
           m == Len(t)
           g == h \o t
<1>1. /\ n \in Nat /\ m \in Nat
      /\ DOMAIN h = 1 .. n /\ DOMAIN t = 1 .. m
      /\ g \in Seq(Record)
      /\ DOMAIN g = 1 .. n + m
  OBVIOUS
<1>2. \A i \in 1 .. n : g[i] = h[i]
  OBVIOUS
<1>3. \A j \in 1 .. m : g[n + j] = t[j]
  OBVIOUS
<1> HIDE DEF n, m, g
<1>4. ASSUME NEW K
      PROVE  {i \in DOMAIN g : g[i].req = s /\ g[i].kind \in K}
               = {i \in DOMAIN h : h[i].req = s /\ h[i].kind \in K}
                   \cup {n + j : j \in {i \in DOMAIN t : t[i].req = s /\ t[i].kind \in K}}
  <2>1. ASSUME NEW i \in 1 .. n + m
        PROVE  i \in 1 .. n \/ \E j \in 1 .. m : i = n + j
    <3>1. CASE i \in 1 .. n
      BY <3>1
    <3>2. CASE i \notin 1 .. n
      <4>1. i - n \in 1 .. m /\ i = n + (i - n)
        BY <1>1, <3>2
      <4> QED
        BY <4>1
    <3> QED
      BY <3>1, <3>2
  <2>2. \A j \in 1 .. m : n + j \in 1 .. n + m
    BY <1>1
  <2>3. \A i \in 1 .. n : i \in 1 .. n + m
    BY <1>1
  <2> DEFINE G == {i \in DOMAIN g : g[i].req = s /\ g[i].kind \in K}
             H == {i \in DOMAIN h : h[i].req = s /\ h[i].kind \in K}
             T == {i \in DOMAIN t : t[i].req = s /\ t[i].kind \in K}
  <2>4. \A i \in 1 .. n : i \in G <=> i \in H
    BY <1>1, <1>2, <2>3
  <2>5. \A j \in 1 .. m : n + j \in G <=> j \in T
    BY <1>1, <1>3, <2>2
  <2>6. G \subseteq 1 .. n + m /\ H \subseteq 1 .. n /\ T \subseteq 1 .. m
    BY <1>1
  <2> HIDE DEF G, H, T
  <2>7. ASSUME NEW i \in G PROVE i \in H \cup {n + j : j \in T}
    BY <2>1, <2>4, <2>5, <2>6
  <2>8. ASSUME NEW i \in H PROVE i \in G
    BY <2>4, <2>6
  <2>9. ASSUME NEW j \in T PROVE n + j \in G
    BY <2>5, <2>6
  <2>10. G = H \cup {n + j : j \in T}
    BY <2>7, <2>8, <2>9
  <2> QED
    BY <2>10 DEF G, H, T
<1>5. Asks(g, s) = Asks(h, s) \cup {n + j : j \in Asks(t, s)}
  BY <1>4 DEF Asks
<1>6. Reps(g, s) = Reps(h, s) \cup {n + j : j \in Reps(t, s)}
  BY <1>4 DEF Reps
<1> QED
  BY <1>1, <1>2, <1>3, <1>5, <1>6 DEF n, m, g

(* Positions are positions. *)
LEMMA PositionsInside ==
    ASSUME NEW h \in Seq(Record), NEW s \in Requests
    PROVE  /\ Asks(h, s) \subseteq 1 .. Len(h) /\ Reps(h, s) \subseteq 1 .. Len(h)
           /\ Len(h) \in Nat
BY DEF Asks, Reps

(* A block of replies stays one while nothing of its request is appended.  *)
LEMMA OthersAppended ==
    ASSUME NEW h \in Seq(Record), NEW t \in Seq(Record), NEW s \in Requests,
           \A i \in 1 .. Len(t) : t[i].req # s
    PROVE  /\ Asks(h \o t, s) = Asks(h, s)
           /\ Reps(h \o t, s) = Reps(h, s)
           /\ \A list, k : Block(h, s, list, k) => Block(h \o t, s, list, k)
<1>1. Asks(t, s) = {} /\ Reps(t, s) = {}
  BY DEF Asks, Reps
<1>2. Asks(h \o t, s) = Asks(h, s) /\ Reps(h \o t, s) = Reps(h, s)
  <2>1. {Len(h) + j : j \in {}} = {}
    OBVIOUS
  <2>2. /\ Asks(h \o t, s) = Asks(h, s) \cup {Len(h) + j : j \in Asks(t, s)}
        /\ Reps(h \o t, s) = Reps(h, s) \cup {Len(h) + j : j \in Reps(t, s)}
    BY AppendedPositions
  <2> HIDE DEF Asks, Reps
  <2> QED
    BY <1>1, <2>1, <2>2
<1>3. \A i \in Reps(h, s) : (h \o t)[i] = h[i]
  BY PositionsInside, AppendedPositions
<1> HIDE DEF Asks, Reps
<1> QED
  BY <1>2, <1>3 DEF Block

-----------------------------------------------------------------------------
(* The invariant of the history is kept by each kind of step.              *)
StreamsEmit == \A r \in Requests : pc[r] = "emitting" => call[r].mode = "stream"

LEMMA NamesStay ==
    ASSUME NEW r \in Requests, NEW c \in Channels, Names(call[r], c),
           call'[r] = call[r],
           \A o \in Objects : home[o] # NoChannel => home'[o] = home[o]
    PROVE  Names(call[r], c)'
<1>1. NoChannel # c
  BY StoreAssumption
<1> QED
  BY <1>1 DEF Names

LEMMA KeepsHist ==
    ASSUME TypeInv, HistInv, StreamsEmit, Keeps
    PROVE  HistInv'
<1> SUFFICES ASSUME NEW c \in Channels, NEW r \in Requests
             PROVE  HistSt(c, r)'
  BY DEF HistInv
<1>1. HistSt(c, r) /\ history[c] \in Seq(Record)
  BY DEF HistInv, TypeInv, TypeOK, StoreTypeOK
<1>2. /\ pc[r] # "idle" => pc'[r] # "idle" /\ call'[r] = call[r]
      /\ pc[r] \in Over => pc'[r] = pc[r] /\ replies'[r] = replies[r]
      /\ pc'[r] = "cut" => pc[r] = "cut"
      /\ pc'[r] = "done" => pc[r] \in {"done", "emitting"} \/ replies'[r] = <<>>
      /\ pc[r] = "emitting" => call[r].mode = "stream"
      /\ pc[r] # "idle" /\ Names(call[r], c) => Names(call[r], c)'
  BY NamesStay DEF Keeps, StreamsEmit
<1>3. CASE history'[c] = <<>>
  <2>1. Asks(history[c], r)' = {} /\ Reps(history[c], r)' = {}
    BY <1>3 DEF Asks, Reps
  <2> HIDE DEF Asks, Reps
  <2> QED
    BY <2>1 DEF HistSt
<1>4. CASE history'[c] = history[c]
  <2> DEFINE A == Asks(history[c], r)
             R == Reps(history[c], r)
             n == Len(history[c])
  <2>1. Asks(history[c], r)' = A /\ Reps(history[c], r)' = R
    BY <1>4 DEF Asks, Reps
  <2>2. A \subseteq 1 .. n /\ n \in Nat
    BY <1>1, PositionsInside
  <2>3. \A list, k : Block(history[c], r, list, k) <=> Block(history'[c], r, list, k)
    BY <1>4
  <2>4. ASSUME pc'[r] \in Over, A \cup R # {}
        PROVE  \E k \in Nat \ {0} : Block(history'[c], r, Saved(r)', k)
    <3>1. CASE pc[r] \in Over
      <4>1. Saved(r)' = Saved(r)
        BY <1>2, <3>1 DEF Saved
      <4> QED
        BY <1>1, <2>3, <2>4, <3>1, <4>1 DEF HistSt
    <3>2. CASE pc[r] \notin Over /\ replies'[r] = <<>>
      <4>0. Saved(r)' = replies'[r]
        BY <1>2, <3>2 DEF Saved, Over
      <4>1. R = {}
        BY <1>1, <3>2 DEF HistSt
      <4>2. /\ n + 1 \in Nat \ {0}
            /\ n + 1 .. n + 1 + 0 - 1 = {}
            /\ \A i \in A : i < n + 1
        BY <2>2
      <4>3. Len(Saved(r)') = 0
        BY <3>2, <4>0
      <4>4. Block(history[c], r, Saved(r)', n + 1)
        <5> HIDE DEF n
        <5> QED
          BY <4>1, <4>2, <4>3 DEF Block
      <4> QED
        BY <2>3, <4>2, <4>4
    <3>3. CASE pc[r] = "emitting"
      BY <1>1, <1>2, <2>4, <3>3 DEF HistSt, Over
    <3> QED
      BY <1>2, <2>4, <3>1, <3>2, <3>3 DEF Over
  <2>5. R # {} => pc'[r] \in Over
    BY <1>1, <1>2 DEF HistSt
  <2>6. A # {} => pc'[r] # "idle" /\ call'[r].mode # "stream" /\ Names(call[r], c)'
    BY <1>1, <1>2 DEF HistSt
  <2>7. \A i, j \in A : i = j
    BY <1>1 DEF HistSt
  <2> HIDE DEF A, R
  <2> QED
    BY <2>1, <2>4, <2>5, <2>6, <2>7 DEF HistSt
<1> QED
  BY <1>3, <1>4 DEF Keeps

LEMMA RequestHist ==
    ASSUME TypeInv, FanOutInv, HistInv, NEW r \in Requests, NEW p, NEW d,
           StoresRequest(r, p, d)
    PROVE  HistInv'
<1> SUFFICES ASSUME NEW c \in Channels, NEW s \in Requests
             PROVE  HistSt(c, s)'
  BY DEF HistInv
<1>1. HistSt(c, s) /\ history[c] \in Seq(Record) /\ TypeOK
  BY DEF HistInv, TypeInv, TypeOK, StoreTypeOK
<1>2. PICK rec \in Record :
        /\ rec.req = r /\ rec.kind = "request"
        /\ history' = [history EXCEPT ![d] = @ \o <<rec>>]
  BY DEF StoresRequest
<1>3. history'[c] = IF c = d THEN history[c] \o <<rec>> ELSE history[c]
  BY <1>1, <1>2 DEF StoresRequest, TypeOK, StoreTypeOK
<1>4. /\ pc[r] = "idle" /\ home' = home /\ replies' = replies
      /\ call'[r] = p /\ p.mode # "stream" /\ Names(p, d)
      /\ pc'[r] \in {"scheduled", "saved", "unsent", "sending", "done"}
      /\ \A x \in Requests \ {r} : pc'[x] = pc[x] /\ call'[x] = call[x]
  BY <1>1 DEF StoresRequest, TypeOK
<1>5. CASE s # r
  <2>1. /\ Asks(history'[c], s) = Asks(history[c], s)
        /\ Reps(history'[c], s) = Reps(history[c], s)
        /\ \A list, k : Block(history[c], s, list, k) => Block(history'[c], s, list, k)
    <3>1. CASE c = d
      <4>1. /\ <<rec>> \in Seq(Record)
            /\ \A i \in 1 .. Len(<<rec>>) : <<rec>>[i].req # s
        BY <1>2, <1>5
      <4> DEFINE g == history[c] \o <<rec>>
      <4>2. /\ Asks(g, s) = Asks(history[c], s)
            /\ Reps(g, s) = Reps(history[c], s)
            /\ \A list, k : Block(history[c], s, list, k) => Block(g, s, list, k)
        BY <1>1, <4>1, OthersAppended
      <4>3. history'[c] = g
        BY <1>3, <3>1
      <4> HIDE DEF g, Asks, Reps, Block
      <4> QED
        BY <4>2, <4>3
    <3>2. CASE c # d
      BY <1>3, <3>2
    <3> QED
      BY <3>1, <3>2
  <2>2. pc'[s] = pc[s] /\ call'[s] = call[s] /\ replies'[s] = replies[s]
    BY <1>4, <1>5
  <2>3. Names(call[s], c)' <=> Names(call[s], c)
    BY <1>4, <2>2 DEF Names
  <2>4. Saved(s)' = Saved(s)
    BY <2>2 DEF Saved
  <2> HIDE DEF Asks, Reps, Block
  <2> QED
    BY <1>1, <2>1, <2>2, <2>3, <2>4 DEF HistSt
<1>6. CASE s = r
  <2>1. Asks(history[c], r) = {} /\ Reps(history[c], r) = {} /\ replies'[r] = <<>>
    BY <1>1, <1>4, <1>6 DEF HistSt, Over, FanOutInv, FanOutSt, NotBegun, Unstarted
  <2>2. CASE c # d
    <3>1. Asks(history'[c], r) = {} /\ Reps(history'[c], r) = {}
      BY <1>3, <2>1, <2>2
    <3> HIDE DEF Asks, Reps
    <3> QED
      BY <1>6, <3>1 DEF HistSt
  <2>3. CASE c = d
    <3> DEFINE n == Len(history[c])
    <3>1. n \in Nat /\ <<rec>> \in Seq(Record)
      BY <1>1
    <3>2. Asks(<<rec>>, r) = {1} /\ Reps(<<rec>>, r) = {}
      BY <1>2 DEF Asks, Reps
    <3>3. Asks(history'[c], r) = {n + 1} /\ Reps(history'[c], r) = {}
      <4>1. {n + j : j \in {}} = {} /\ {n + j : j \in {1}} = {n + 1}
        BY <3>1
      <4> DEFINE g == history[c] \o <<rec>>
      <4>2. /\ Asks(g, r) = Asks(history[c], r) \cup {n + j : j \in Asks(<<rec>>, r)}
            /\ Reps(g, r) = Reps(history[c], r) \cup {n + j : j \in Reps(<<rec>>, r)}
        BY <1>1, <3>1, AppendedPositions
      <4>3. history'[c] = g
        BY <1>3, <2>3
      <4> HIDE DEF Asks, Reps, n, g
      <4> QED
        BY <2>1, <3>2, <4>1, <4>2, <4>3
    <3>4. Block(history'[c], r, Saved(r)', n + 2)
      <4>1. n + 2 .. n + 2 + 0 - 1 = {} /\ n + 1 < n + 2
        BY <3>1
      <4>2. Len(Saved(r)') = 0
        BY <1>4, <2>1 DEF Saved
      <4> HIDE DEF n
      <4> QED
        BY <3>3, <4>1, <4>2 DEF Block
    <3>5. Names(call[r], c)'
      BY <1>4, <2>3 DEF Names
    <3>6. n + 2 \in Nat \ {0}
      BY <3>1
    <3>7. pc'[r] # "idle" /\ call'[r].mode # "stream"
      BY <1>4
    <3> HIDE DEF n, Block, Asks, Reps
    <3> QED
      BY <1>6, <3>3, <3>4, <3>5, <3>6, <3>7 DEF HistSt
  <2> QED
    BY <2>2, <2>3
<1> QED
  BY <1>5, <1>6

(* The replies of a request form a block behind all that was there. *)
LEMMA RepliesHist ==
    ASSUME TypeInv, HeldInv, HistInv, NEW r \in Requests, NEW d, StoresReplies(r, d)
    PROVE  HistInv'
<1> SUFFICES ASSUME NEW c \in Channels, NEW s \in Requests
             PROVE  HistSt(c, s)'
  BY DEF HistInv
<1>1. HistSt(c, s) /\ history[c] \in Seq(Record) /\ TypeOK
  BY DEF HistInv, TypeInv, TypeOK, StoreTypeOK
<1>2. PICK batch \in Seq(Record) :
        /\ Len(batch) = Len(Saved(r)')
        /\ \A i \in 1 .. Len(batch) : /\ batch[i].req = r
                                     /\ batch[i].kind \in {"reply", "error"}
                                     /\ batch[i].from = Saved(r)'[i]
        /\ history' = [history EXCEPT ![d] = @ \o batch]
  BY DEF StoresReplies
<1>3. history'[c] = IF c = d THEN history[c] \o batch ELSE history[c]
  BY <1>1, <1>2 DEF StoresReplies, TypeOK, StoreTypeOK
<1>4. /\ pc[r] = "sending" /\ pc'[r] \in Over
      /\ call' = call /\ home' = home
      /\ \A x \in Requests \ {r} : pc'[x] = pc[x] /\ replies'[x] = replies[x]
  BY <1>1 DEF StoresReplies, TypeOK
<1>5. Names(call[s], c)' <=> Names(call[s], c)
  BY <1>4 DEF Names
<1>6. CASE s # r
  <2>1. /\ Asks(history'[c], s) = Asks(history[c], s)
        /\ Reps(history'[c], s) = Reps(history[c], s)
        /\ \A list, k : Block(history[c], s, list, k) => Block(history'[c], s, list, k)
    <3>1. CASE c = d
      BY <1>1, <1>2, <1>3, <1>6, <3>1, OthersAppended, SMTT(20)
    <3>2. CASE c # d
      BY <1>3, <3>2
    <3> QED
      BY <3>1, <3>2
  <2>2. /\ pc'[s] = pc[s] /\ call'[s] = call[s] /\ replies'[s] = replies[s]
        /\ Saved(s)' = Saved(s)
    BY <1>4, <1>6 DEF Saved
  <2> HIDE DEF Asks, Reps, Block
  <2> QED
    BY <1>1, <1>5, <2>1, <2>2 DEF HistSt
<1>7. CASE s = r
  <2>1. Reps(history[c], r) = {}
    BY <1>1, <1>4, <1>7 DEF HistSt, Over
  <2>2. CASE c # d
    <3>1. Names(call[r], d)
      BY <1>4 DEF StoresReplies, HeldInv, Holding
    <3>2. Asks(history[c], r) = {}
      <4>1. ~Names(call[r], c)
        BY <2>2, <3>1 DEF Names
      <4> QED
        BY <1>1, <1>7, <4>1 DEF HistSt
    <3>3. Asks(history'[c], r) = {} /\ Reps(history'[c], r) = {}
      BY <1>3, <2>1, <2>2, <3>2
    <3> HIDE DEF Asks, Reps
    <3> QED
      BY <1>7, <3>3 DEF HistSt
  <2>3. CASE c = d
    <3> DEFINE n == Len(history[c])
               m == Len(batch)
    <3>1. /\ n \in Nat /\ m \in Nat
          /\ Asks(history[c], r) \subseteq 1 .. n
      BY <1>1, PositionsInside
    <3>2. Asks(batch, r) = {} /\ Reps(batch, r) = 1 .. m
      BY <1>2 DEF Asks, Reps
    <3>3. /\ Asks(history'[c], r) = Asks(history[c], r)
          /\ Reps(history'[c], r) = n + 1 .. n + m
      <4>1. {n + j : j \in {}} = {}
        OBVIOUS
      <4>2. {n + j : j \in 1 .. m} = n + 1 .. n + m
        <5>1. \A i \in n + 1 .. n + m : i - n \in 1 .. m /\ i = n + (i - n)
          BY <3>1
        <5>2. \A j \in 1 .. m : n + j \in n + 1 .. n + m
          BY <3>1
        <5> QED
          BY <5>1, <5>2
      <4>3. /\ Asks(history'[c], r)
                 = Asks(history[c], r) \cup {n + j : j \in Asks(batch, r)}
            /\ Reps(history'[c], r)
                 = Reps(history[c], r) \cup {n + j : j \in Reps(batch, r)}
        BY <1>1, <1>3, <2>3, AppendedPositions
      <4> HIDE DEF Asks, Reps, n, m
      <4> QED
        BY <2>1, <3>2, <4>1, <4>2, <4>3
    <3>4. \A i \in n + 1 .. n + m : history'[c][i].from = Saved(r)'[i - (n + 1) + 1]
      <4> SUFFICES ASSUME NEW i \in n + 1 .. n + m
                   PROVE  history'[c][i].from = Saved(r)'[i - (n + 1) + 1]
        OBVIOUS
      <4>1. i - n \in 1 .. m /\ i = n + (i - n) /\ i - (n + 1) + 1 = i - n
        BY <3>1
      <4>2. (history[c] \o batch)[n + (i - n)] = batch[i - n]
        BY <1>1, <4>1, AppendedPositions
      <4>3. history'[c] = history[c] \o batch
        BY <1>3, <2>3
      <4>4. batch[i - n].from = Saved(r)'[i - n]
        BY <1>2, <4>1
      <4> HIDE DEF n, m
      <4> QED
        BY <4>1, <4>2, <4>3, <4>4
    <3>5. Block(history'[c], r, Saved(r)', n + 1)
      <4>0. Len(Saved(r)') = m
        BY <1>2
      <4>1. n + 1 + m - 1 = n + m
        <5> HIDE DEF n, m
        <5> QED
          BY <3>1
      <4>2. \A i \in Asks(history[c], r) : i < n + 1
        BY <3>1
      <4> HIDE DEF n, m, Asks, Reps
      <4> QED
        BY <3>3, <3>4, <4>0, <4>1, <4>2 DEF Block
    <3>6. n + 1 \in Nat \ {0}
      BY <3>1
    <3>7. call'[r] = call[r]
      BY <1>4
    <3> HIDE DEF n, m, Block, Asks, Reps
    <3> QED
      BY <1>1, <1>4, <1>5, <1>7, <3>3, <3>5, <3>6, <3>7 DEF HistSt, Over
  <2> QED
    BY <2>2, <2>3
<1> QED
  BY <1>6, <1>7

-----------------------------------------------------------------------------
(* A request holds an object of the channel it named, from its arrival or  *)
(* from the second look a dispatch takes, until it ends.                   *)
HeldSt(r) == pc[r] \in Holding => Names(call[r], home[obj[r]])

LEMMA HeldFrame ==
    ASSUME TypeInv, NEW s \in Requests, HeldSt(s),
           pc'[s] \in Holding => pc[s] \in Holding,
           pc[s] \in Holding => obj'[s] = obj[s] /\ call'[s] = call[s],
           \A o \in Objects : home[o] # NoChannel => home'[o] = home[o]
    PROVE  HeldSt(s)'
<1> SUFFICES ASSUME pc'[s] \in Holding
             PROVE  Names(call[s], home[obj[s]])'
  BY DEF HeldSt
<1>1. /\ obj'[s] = obj[s] /\ call'[s] = call[s]
      /\ obj[s] \in Objects /\ home[obj[s]] \in Channels
      /\ Names(call[s], home[obj[s]])
  BY DEF HeldSt, TypeInv, Located
<1>2. home'[obj[s]] = home[obj[s]] /\ home[obj[s]] # NoChannel
  BY <1>1, StoreAssumption
<1> QED
  BY <1>1, <1>2, StoreAssumption DEF Names

LEMMA HeldFanOut ==
    ASSUME TypeInv, NEW r \in Requests, NEW p \in Call, NEW o \in Objects,
           FanOut(r, p, o), home' = home, call'[r] = p,
           \A x \in Requests \ {r} : call'[x] = call[x],
           Names(p, home[o]), NEW s \in Requests, HeldSt(s)
    PROVE  HeldSt(s)'
<1>1. TypeOK
  BY DEF TypeInv
<1>2. /\ obj' = [obj EXCEPT ![r] = o]
      /\ \E x \in {"done", "sending"} : pc' = [pc EXCEPT ![r] = x]
  BY DEF FanOut
<1>3. CASE s = r
  <2>1. obj'[s] = o
    BY <1>1, <1>2, <1>3 DEF TypeOK
  <2> QED
    BY <1>3, <2>1 DEF HeldSt, Names
<1>4. CASE s # r
  <2>1. pc'[s] = pc[s] /\ obj'[s] = obj[s] /\ call'[s] = call[s]
    BY <1>1, <1>2, <1>4 DEF TypeOK
  <2> QED
    BY <2>1, HeldFrame
<1> QED
  BY <1>3, <1>4

LEMMA ArrivalHeld ==
    ASSUME TypeInv, HeldInv, NEW r \in Requests, Arrival(r)
    PROVE  HeldInv'
<1> SUFFICES ASSUME NEW s \in Requests PROVE HeldSt(s)'
  BY DEF HeldInv, HeldSt
<1>1. HeldSt(s) /\ TypeOK
  BY DEF HeldInv, HeldSt, TypeInv
<1>2. ASSUME NEW p, OnMessageSend(r, p), ~FailUnsent(r)
      PROVE  HeldSt(s)'
  <2>1. /\ p \in Call /\ Resolve(p) # NoObject
        /\ call' = [call EXCEPT ![r] = p] /\ home' = home
        /\ FanOut(r, p, Resolve(p))
    BY <1>2, ParamsAreCalls
       DEF OnMessageSend, Accepts, Arrives, StoreRequest, SaveMessages
  <2>2. Resolve(p) \in Objects /\ Names(p, home[Resolve(p)])
    BY <2>1, ResolvesToLive, ResolvesToNamed
  <2>3. call'[r] = p /\ \A x \in Requests \ {r} : call'[x] = call[x]
    BY <1>1, <2>1 DEF TypeOK
  <2> QED
    BY <1>1, <2>1, <2>2, <2>3, HeldFanOut
<1>3. ASSUME NEW p, OnMessageSendStream(r, p)
      PROVE  HeldSt(s)'
  <2>1. /\ p \in Call /\ Resolve(p) # NoObject
        /\ call' = [call EXCEPT ![r] = p] /\ home' = home
        /\ obj' = [obj EXCEPT ![r] = Resolve(p)]
        /\ pc' = [pc EXCEPT ![r] = "announced"]
    BY <1>3, ParamsAreCalls DEF OnMessageSendStream, Accepts, Arrives, storeVars
  <2>2. CASE s = r
    <3>1. call'[s] = p /\ obj'[s] = Resolve(p)
      BY <1>1, <2>1, <2>2 DEF TypeOK
    <3>2. Names(p, home[Resolve(p)])
      BY <2>1, ResolvesToNamed
    <3> QED
      BY <2>1, <3>1, <3>2 DEF HeldSt, Names
  <2>3. CASE s # r
    <3>1. pc'[s] = pc[s] /\ obj'[s] = obj[s] /\ call'[s] = call[s]
      BY <1>1, <2>1, <2>3 DEF TypeOK
    <3> QED
      BY <1>1, <2>1, <3>1, HeldFrame
  <2> QED
    BY <2>2, <2>3
<1>4. ASSUME NEW p, NEW body,
             \/ Refuse(r, p) \/ SendAsync(r, p, body)
             \/ OnMessageSend(r, p) /\ FailUnsent(r)
      PROVE  HeldSt(s)'
  <2>1. /\ pc[r] = "idle" /\ call' = [call EXCEPT ![r] = p]
        /\ home' = home /\ obj' = obj
        /\ \E x \in {"rejected", "saved", "unsent", "scheduled"} :
              pc' = [pc EXCEPT ![r] = x]
    BY <1>4 DEF Refuse, OnMessageSend, SendAsync, FailUnsent, Accepts, Arrives,
                StoreRequest, SaveMessages, storeVars, localVars
  <2>2. /\ pc'[s] \in Holding => pc[s] \in Holding
        /\ pc[s] \in Holding => call'[s] = call[s]
    BY <1>1, <2>1 DEF TypeOK, Holding
  <2> QED
    BY <1>1, <2>1, <2>2, HeldFrame
<1> QED
  BY <1>2, <1>3, <1>4 DEF Arrival

LEMMA ProgressHeld ==
    ASSUME TypeInv, HeldInv, NEW r \in Requests, Progress(r)
    PROVE  HeldInv'
<1> SUFFICES ASSUME NEW s \in Requests PROVE HeldSt(s)'
  BY DEF HeldInv, HeldSt
<1>1. HeldSt(s) /\ HeldSt(r) /\ TypeOK
  BY DEF HeldInv, HeldSt, TypeInv
<1>2. call' = call /\ home' = home
  BY DEF Progress, DispatchStart, StreamFanOut, AgentAnswers, LastAgentAnswers,
         SaveReplies, LastAgentAnswersStream, PauseOver, StreamEmit, StreamFinish,
         SaveMessages, storeVars
<1>3. call[r] \in Call
  BY <1>1 DEF TypeOK
<1>4. CASE DispatchStart(r)
  <2>1. CASE Resolve(call[r]) = NoObject
    <3>1. pc' = [pc EXCEPT ![r] = "dropped"] /\ obj' = obj
      BY <1>4, <2>1 DEF DispatchStart, localVars
    <3>2. pc'[s] \in Holding => pc[s] \in Holding
      BY <1>1, <3>1 DEF TypeOK, Holding
    <3> QED
      BY <1>1, <1>2, <3>1, <3>2, HeldFrame
  <2>2. CASE Resolve(call[r]) # NoObject
    <3>1. /\ FanOut(r, call[r], Resolve(call[r]))
          /\ Resolve(call[r]) \in Objects
          /\ Names(call[r], home[Resolve(call[r])])
      BY <1>3, <1>4, <2>2, ResolvesToLive, ResolvesToNamed DEF DispatchStart
    <3> QED
      BY <1>1, <1>2, <1>3, <3>1, HeldFanOut
  <2> QED
    BY <2>1, <2>2
<1>5. CASE StreamFanOut(r)
  <2>1. /\ FanOut(r, call[r], obj[r])
        /\ obj[r] \in Objects /\ Names(call[r], home[obj[r]])
    BY <1>1, <1>5 DEF StreamFanOut, HeldSt, TypeInv, Located, Holding
  <2> QED
    BY <1>1, <1>2, <1>3, <2>1, HeldFanOut
<1>6. CASE ~(DispatchStart(r) \/ StreamFanOut(r))
  <2>1. obj' = obj /\ pc[r] \in Holding \cup {"pausing"}
    BY <1>6 DEF Progress, AgentAnswers, LastAgentAnswers, LastAgentAnswersStream,
       Collect, PauseOver, StreamEmit, StreamFinish, localVars, Holding
  <2>2. \A x \in Requests \ {r} : pc'[x] = pc[x]
    BY <1>1, <1>6 DEF Progress, AgentAnswers, LastAgentAnswers,
       SaveReplies, LastAgentAnswersStream, PauseOver, StreamEmit, StreamFinish, TypeOK
  <2>3. pc'[s] \in Holding => pc[s] \in Holding
    BY <2>1, <2>2 DEF Holding
  <2> QED
    BY <1>1, <1>2, <2>1, <2>3, HeldFrame
<1> QED
  BY <1>4, <1>5, <1>6

LEMMA OtherHeld ==
    ASSUME TypeInv, HeldInv,
           \/ \E r \in Requests : \/ StreamDisconnect(r)
                                  \/ DispatchDone(r)
                                  \/ \E a \in Agents : ObserverNotified(r, a)
                                  \/ OnCancelTask(r)
           \/ \E m \in Post : Deliver(m)
           \/ Close
           \/ RestApi
           \/ UNCHANGED vars
    PROVE  HeldInv'
<1> SUFFICES ASSUME NEW s \in Requests PROVE HeldSt(s)'
  BY DEF HeldInv, HeldSt
<1>1. HeldSt(s) /\ TypeOK
  BY DEF HeldInv, HeldSt, TypeInv
<1>2. \A o \in Objects : home[o] # NoChannel => home'[o] = home[o]
  BY OtherStores DEF Keeps
<1>3. call' = call /\ obj' = obj
  BY DEF StreamDisconnect, DispatchDone, ObserverNotified, OnCancelTask, Deliver,
         Close, RestApi, vars, localVars
<1>4. pc'[s] \in Holding => pc[s] \in Holding
  BY <1>1 DEF StreamDisconnect, DispatchDone, ObserverNotified, OnCancelTask, Deliver,
              Close, RestApi, vars, TypeOK, Holding
<1> QED
  BY <1>1, <1>2, <1>3, <1>4, HeldFrame

LEMMA NextHeld == TypeInv /\ HeldInv /\ [Next]_vars => HeldInv'
BY ArrivalHeld, ProgressHeld, OtherHeld DEF Next

-----------------------------------------------------------------------------
(* The webhook posts in flight.                                            *)
LEMMA PostsMembers ==
    ASSUME NEW W, NEW r, NEW F, NEW m
    PROVE  m \in Posts(W, r, F) =>
             m.req = r /\ m.from \in F /\ m.hook \in W
BY DEF Posts

LEMMA KeepsPosts == ASSUME TypeInv, PostsInv, Keeps PROVE PostsInv'
<1> SUFFICES ASSUME NEW m \in posts'
             PROVE  /\ pc'[m.req] # "idle"
                    /\ pc'[m.req] \in Over \/ m.from = call'[m.req].sender
  BY DEF PostsInv
<1>1. m \in posts /\ m.req \in Requests
  BY DEF Keeps, TypeInv, TypeOK, Post
<1> QED
  BY <1>1 DEF Keeps, PostsInv

LEMMA RequestPosts ==
    ASSUME TypeInv, PostsInv, NEW r \in Requests, NEW p, NEW d, StoresRequest(r, p, d)
    PROVE  PostsInv'
<1> SUFFICES ASSUME NEW m \in posts'
             PROVE  /\ pc'[m.req] # "idle"
                    /\ pc'[m.req] \in Over \/ m.from = call'[m.req].sender
  BY DEF PostsInv
<1>1. TypeOK
  BY DEF TypeInv
<1>2. /\ pc'[r] # "idle" /\ call'[r] = p
      /\ \A x \in Requests \ {r} : pc'[x] = pc[x] /\ call'[x] = call[x]
  BY <1>1 DEF StoresRequest, TypeOK
<1>3. PICK W \in SUBSET Hooks : posts' = posts \cup Posts(W, r, {p.sender})
  BY DEF StoresRequest
<1>4. CASE m \in posts
  <2>1. m.req \in Requests \ {r}
    BY <1>1, <1>4 DEF PostsInv, StoresRequest, TypeOK, Post
  <2> QED
    BY <1>2, <1>4, <2>1 DEF PostsInv
<1>5. CASE m \in Posts(W, r, {p.sender})
  BY <1>2, <1>5, PostsMembers
<1> QED
  BY <1>3, <1>4, <1>5

LEMMA RepliesPosts ==
    ASSUME TypeInv, PostsInv, NEW r \in Requests, NEW d, StoresReplies(r, d)
    PROVE  PostsInv'
<1> SUFFICES ASSUME NEW m \in posts'
             PROVE  /\ pc'[m.req] # "idle"
                    /\ pc'[m.req] \in Over \/ m.from = call'[m.req].sender
  BY DEF PostsInv
<1>1. TypeOK
  BY DEF TypeInv
<1>2. /\ pc'[r] \in Over /\ call' = call
      /\ \A x \in Requests \ {r} : pc'[x] = pc[x]
  BY <1>1 DEF StoresReplies, TypeOK
<1>3. m \in posts \/ m.req = r
  BY PostsMembers DEF StoresReplies
<1>4. CASE m \in posts /\ m.req # r
  <2>1. m.req \in Requests
    BY <1>1, <1>4 DEF TypeOK, Post
  <2> QED
    BY <1>2, <1>4, <2>1 DEF PostsInv
<1> QED
  BY <1>2, <1>3, <1>4 DEF Over

(* The action of StoredIsPosted.                                           *)
PostsTheStored ==
    /\ \A c \in Channels : \A i \in Appended(c) :
         LET m == history'[c][i]
             to == {h \in Hooks : [hook |-> h, req |-> m.req, from |-> m.from]
                                    \in posts' \ posts}
         IN IF Raises(c)
            THEN to \subseteq hooks[c] \ Broken /\ pc'[m.req] \in {"unsent", "cut"}
            ELSE to = hooks[c]
    /\ \A m \in posts' \ posts : \E c \in Channels : \E i \in Appended(c) :
         history'[c][i].req = m.req /\ history'[c][i].from = m.from

LEMMA KeepsStored == ASSUME TypeInv, Keeps PROVE PostsTheStored
<1>1. posts' \ posts = {}
  BY DEF Keeps
<1>2. ASSUME NEW c \in Channels, NEW i \in Appended(c)
      PROVE  FALSE
  <2>1. Len(history[c]) \in Nat
    BY DEF TypeInv, TypeOK, StoreTypeOK
  <2>2. Len(history'[c]) = Len(history[c]) \/ Len(history'[c]) = 0
    BY DEF Keeps
  <2> QED
    BY <1>2, <2>1, <2>2 DEF Appended
<1> QED
  BY <1>1, <1>2 DEF PostsTheStored

(* A batch of messages of one request, appended under d and posted to the  *)
(* webhooks that it reaches, none of them in flight before.                *)
LEMMA BatchIsPosted ==
    ASSUME TypeInv, NEW d \in Channels, NEW batch \in Seq(Record), NEW r \in Requests,
           NEW W \in SUBSET Hooks, batch # <<>> => Reaches(r, d, W),
           \A i \in 1 .. Len(batch) : batch[i].req = r,
           history' = [history EXCEPT ![d] = @ \o batch],
           posts' = posts \cup Posts(W, r, {batch[i].from : i \in 1 .. Len(batch)}),
           \A m \in posts : \A i \in 1 .. Len(batch) :
              ~(m.req = r /\ m.from = batch[i].from)
    PROVE  PostsTheStored
<1> DEFINE n == Len(history[d])
           k == Len(batch)
           g == history[d] \o batch
           F == {batch[i].from : i \in 1 .. k}
<1>1. /\ \A c \in Channels : history[c] \in Seq(Record) /\ Len(history[c]) \in Nat
      /\ k \in Nat /\ n \in Nat
      /\ history'[d] = g
      /\ \A c \in Channels \ {d} : history'[c] = history[c]
  BY DEF TypeInv, TypeOK, StoreTypeOK
<1>2. /\ Len(g) = n + k
      /\ \A j \in 1 .. k : g[n + j] = batch[j]
  BY <1>1, AppendedPositions
<1>4. Appended(d) = n + 1 .. n + k
  BY <1>1, <1>2 DEF Appended
<1>5. ASSUME NEW c \in Channels \ {d}, NEW i \in Appended(c) PROVE FALSE
  BY <1>1, <1>5 DEF Appended
<1> HIDE DEF n, k, g
<1>6. ASSUME NEW i \in Appended(d)
      PROVE  \E j \in 1 .. k : history'[d][i] = batch[j]
  <2>1. i - n \in 1 .. k /\ n + (i - n) = i
    BY <1>1, <1>4
  <2> QED
    BY <1>1, <1>2, <2>1
<1>7. \A j \in 1 .. k : n + j \in Appended(d) /\ history'[d][n + j] = batch[j]
  BY <1>1, <1>2, <1>4
<1>8. ASSUME NEW j \in 1 .. k, NEW h \in Hooks
      PROVE  [hook |-> h, req |-> r, from |-> batch[j].from] \in posts' \ posts
               <=> h \in W
  <2> DEFINE m == [hook |-> h, req |-> r, from |-> batch[j].from]
  <2>1. m \notin posts
    BY DEF k
  <2>2. m \in Posts(W, r, F) <=> h \in W
    BY DEF Posts
  <2> QED
    BY <2>1, <2>2 DEF k
<1>9. ASSUME NEW i \in Appended(d)
      PROVE  LET m == history'[d][i]
                 to == {h \in Hooks : [hook |-> h, req |-> m.req, from |-> m.from]
                                        \in posts' \ posts}
             IN IF Raises(d)
                THEN /\ to \subseteq hooks[d] \ Broken
                     /\ pc'[m.req] \in {"unsent", "cut"}
                ELSE to = hooks[d]
  <2>1. PICK j \in 1 .. k : history'[d][i] = batch[j]
    BY <1>6
  <2>2. batch[j].req = r /\ Reaches(r, d, W)
    BY <2>1 DEF k
  <2> DEFINE to == {h \in Hooks : [hook |-> h, req |-> r, from |-> batch[j].from]
                                    \in posts' \ posts}
  <2>3. to = W
    BY <1>8
  <2> HIDE DEF to
  <2>4. IF Raises(d) THEN to \subseteq hooks[d] \ Broken /\ pc'[r] \in {"unsent", "cut"}
                     ELSE to = hooks[d]
    BY <2>2, <2>3 DEF Reaches
  <2> QED
    BY <2>1, <2>2, <2>4 DEF to
<1>10. ASSUME NEW m \in posts' \ posts
       PROVE  \E i \in Appended(d) :
                history'[d][i].req = m.req /\ history'[d][i].from = m.from
  <2>1. m \in Posts(W, r, F)
    BY <1>10 DEF k
  <2>2. m.req = r /\ \E j \in 1 .. k : m.from = batch[j].from
    BY <2>1, PostsMembers
  <2>3. \A j \in 1 .. k : batch[j].req = r
    BY DEF k
  <2> QED
    BY <1>7, <2>2, <2>3
<1>11. ASSUME NEW c \in Channels, NEW i \in Appended(c)
       PROVE  LET m == history'[c][i]
                  to == {h \in Hooks : [hook |-> h, req |-> m.req, from |-> m.from]
                                         \in posts' \ posts}
              IN IF Raises(c)
                 THEN /\ to \subseteq hooks[c] \ Broken
                      /\ pc'[m.req] \in {"unsent", "cut"}
                 ELSE to = hooks[c]
  <2>1. CASE c = d
    BY <1>9, <2>1
  <2>2. CASE c # d
    BY <1>5, <2>2
  <2> QED
    BY <2>1, <2>2
<1> HIDE DEF F
<1> QED
  BY <1>10, <1>11 DEF PostsTheStored

LEMMA RequestIsPosted ==
    ASSUME TypeInv, PostsInv, NEW r \in Requests, NEW p, NEW d, StoresRequest(r, p, d)
    PROVE  PostsTheStored
<1>1. PICK rec \in Record :
        /\ rec.req = r /\ rec.from = p.sender
        /\ history' = [history EXCEPT ![d] = @ \o <<rec>>]
  BY DEF StoresRequest
<1>2. PICK W \in SUBSET Hooks : Reaches(r, d, W) /\ posts' = posts \cup Posts(W, r, {p.sender})
  BY DEF StoresRequest
<1>3. /\ <<rec>> \in Seq(Record) /\ Len(<<rec>>) = 1 /\ <<rec>>[1] = rec
      /\ \A i \in 1 .. Len(<<rec>>) : <<rec>>[i].req = r
      /\ {<<rec>>[i].from : i \in 1 .. Len(<<rec>>)} = {p.sender}
  BY <1>1
<1>4. \A m \in posts : m.req # r
  BY DEF PostsInv, StoresRequest
<1>5. d \in Channels
  BY DEF StoresRequest
<1> DEFINE batch == <<rec>>
<1>6. posts' = posts \cup Posts(W, r, {batch[i].from : i \in 1 .. Len(batch)})
  BY <1>2, <1>3
<1>7. /\ batch \in Seq(Record)
      /\ \A i \in 1 .. Len(batch) : batch[i].req = r
      /\ history' = [history EXCEPT ![d] = @ \o batch]
      /\ \A m \in posts : \A i \in 1 .. Len(batch) :
            ~(m.req = r /\ m.from = batch[i].from)
  BY <1>1, <1>3, <1>4
<1> HIDE DEF batch, Reaches
<1> QED
  BY <1>2, <1>5, <1>6, <1>7, BatchIsPosted

(* The replies are new posts: all that was in flight of this request was   *)
(* its own message, whose sender is no agent the message was sent to.      *)
LEMMA RepliesArePosted ==
    ASSUME TypeInv, PostsInv, FanOutInv', RepliesAreKeptAnswers',
           NEW r \in Requests, NEW d, StoresReplies(r, d)
    PROVE  PostsTheStored
<1>1. PICK batch \in Seq(Record), W \in SUBSET Hooks :
        /\ \A i \in 1 .. Len(batch) : /\ batch[i].req = r
                                     /\ Occurs(batch[i].from, replies'[r])
        /\ history' = [history EXCEPT ![d] = @ \o batch]
        /\ batch # <<>> => Reaches(r, d, W)
        /\ posts' = posts \cup Posts(W, r, {batch[i].from : i \in DOMAIN batch})
  <2> HIDE DEF Saved, Reaches
  <2> QED
    BY ZenonT(30) DEF StoresReplies
<1>2. /\ d \in Channels /\ pc[r] = "sending" /\ call' = call
      /\ replies'[r] \in Seq(Agents)
  BY DEF StoresReplies
<1>3. posts' = posts \cup Posts(W, r, {batch[i].from : i \in 1 .. Len(batch)})
  <2>1. DOMAIN batch = 1 .. Len(batch)
    OBVIOUS
  <2> QED
    BY <1>1, <2>1
<1>4. ASSUME NEW i \in 1 .. Len(batch)
      PROVE  batch[i].from # call[r].sender
  <2>1. Occurs(batch[i].from, replies'[r])
    BY <1>1
  <2>2. batch[i].from \in Agents
    BY <1>2, <2>1 DEF Occurs
  <2>3. batch[i].from \in KeptAnswers(r)'
    BY <2>1, <2>2 DEF RepliesAreKeptAnswers, Occurs
  <2>4. KeptAnswers(r)' \subseteq Answered(r)'
    BY DEF KeptAnswers
  <2>5. Answered(r)' \subseteq sendable'[r] /\ call'[r].sender \notin sendable'[r]
    BY DEF FanOutInv, FanOutSt, Split, Apart
  <2> QED
    BY <1>2, <2>3, <2>4, <2>5
<1>5. \A m \in posts : m.req = r => m.from = call[r].sender
  BY <1>2 DEF PostsInv, Over
<1>6. \A m \in posts : \A i \in 1 .. Len(batch) :
        ~(m.req = r /\ m.from = batch[i].from)
  BY <1>4, <1>5
<1> HIDE DEF Reaches
<1> QED
  BY <1>1, <1>2, <1>3, <1>6, BatchIsPosted, ZenonT(40)

-----------------------------------------------------------------------------
(* The theorems.                                                           *)
KnownInv == TypeInv /\ FanOutInv /\ LifeInv /\ RepliesAreKeptAnswers
RecordInv == HeldInv /\ HistInv /\ PostsInv

LEMMA KnownInvariant == Spec => []KnownInv
BY FanOutInvariant, LifeInvariant, RepliesListAnswers, PTL DEF KnownInv

LEMMA InitRecordInv == Init => RecordInv
<1> SUFFICES ASSUME Init PROVE RecordInv
  OBVIOUS
<1>1. HeldInv
  BY DEF Init, HeldInv, Holding
<1>2. ASSUME NEW c \in Channels, NEW r \in Requests PROVE HistSt(c, r)
  <2>1. Asks(history[c], r) = {} /\ Reps(history[c], r) = {}
    BY DEF Init, StoreInit, Asks, Reps
  <2> HIDE DEF Asks, Reps
  <2> QED
    BY <2>1 DEF HistSt
<1>3. PostsInv
  BY DEF Init, PostsInv
<1> QED
  BY <1>1, <1>2, <1>3 DEF RecordInv, HistInv

LEMMA NextRecordInv == KnownInv /\ RecordInv /\ [Next]_vars => RecordInv'
<1> SUFFICES ASSUME KnownInv, RecordInv, [Next]_vars PROVE RecordInv'
  OBVIOUS
<1>1. /\ TypeInv /\ FanOutInv /\ HeldInv /\ HistInv /\ PostsInv
      /\ StreamsEmit
  BY DEF KnownInv, RecordInv, LifeInv, LifeSt, StreamsEmit
<1>2. HeldInv'
  BY <1>1, NextHeld
<1>3. HistInv' /\ PostsInv'
  BY <1>1, WhatChangesHistory, KeepsHist, KeepsPosts, RequestHist, RequestPosts,
     RepliesHist, RepliesPosts
<1> QED
  BY <1>2, <1>3 DEF RecordInv

LEMMA RecordInvariant == Spec => [](KnownInv /\ RecordInv)
<1>1. Init => RecordInv
  BY InitRecordInv
<1>2. KnownInv /\ RecordInv /\ [Next]_vars => RecordInv'
  BY NextRecordInv
<1> QED
  BY <1>1, <1>2, KnownInvariant, PTL DEF Spec

LEMMA SamePositions ==
    ASSUME NEW c, NEW r
    PROVE  /\ At(c, r, {"request"}) = Asks(history[c], r)
           /\ At(c, r, {"reply", "error"}) = Reps(history[c], r)
BY DEF At, Asks, Reps

LEMMA BlockStarts ==
    ASSUME NEW h \in Seq(Record), NEW r \in Requests, NEW list, Len(list) \in Nat,
           NEW k \in Nat \ {0}, Block(h, r, list, k), Reps(h, r) # {}
    PROVE  k \in DOMAIN h
<1>1. Len(list) \in Nat /\ Reps(h, r) = k .. k + Len(list) - 1
  BY DEF Block
<1>2. k \in Reps(h, r)
  <2> HIDE DEF Reps
  <2> QED
    BY <1>1
<1> QED
  BY <1>2 DEF Reps

LEMMA OrderOfBlocks == KnownInv /\ RecordInv => HistoryOrder
<1> SUFFICES ASSUME KnownInv, RecordInv, NEW c \in Channels, NEW r \in Requests
             PROVE
               /\ Cardinality(Asks(history[c], r)) <= 1
               /\ \A i \in Asks(history[c], r), j \in Reps(history[c], r) : i < j
               /\ Reps(history[c], r) # {} =>
                    \E k \in DOMAIN history[c] :
                       /\ Reps(history[c], r) = k .. k + Len(Saved(r)) - 1
                       /\ \A i \in Reps(history[c], r) :
                             history[c][i].from = Saved(r)[i - k + 1]
  <2> HIDE DEF Asks, Reps
  <2> QED
    BY SamePositions DEF HistoryOrder
<1> DEFINE h == history[c]
<1>1. HistSt(c, r) /\ h \in Seq(Record) /\ Len(Saved(r)) \in Nat
  BY DEF KnownInv, RecordInv, HistInv, TypeInv, TypeOK, StoreTypeOK, Saved
<1>2. Cardinality(Asks(h, r)) <= 1
  <2>1. \A i, j \in Asks(h, r) : i = j
    BY <1>1 DEF HistSt
  <2>2. CASE Asks(h, r) = {}
    BY <2>2, FS_EmptySet
  <2>3. CASE Asks(h, r) # {}
    <3>1. PICK i : Asks(h, r) = {i}
      <4> HIDE DEF Asks
      <4> QED
        BY <2>1, <2>3
    <3> QED
      BY <3>1, FS_Singleton
  <2> QED
    BY <2>2, <2>3
<1>3. ASSUME Reps(h, r) # {}
      PROVE  /\ \A i \in Asks(h, r), j \in Reps(h, r) : i < j
             /\ \E k \in DOMAIN h :
                   /\ Reps(h, r) = k .. k + Len(Saved(r)) - 1
                   /\ \A i \in Reps(h, r) : h[i].from = Saved(r)[i - k + 1]
  <2>1. PICK k \in Nat \ {0} : Block(h, r, Saved(r), k)
    BY <1>1, <1>3 DEF HistSt
  <2>2. k \in DOMAIN h
    BY <1>1, <1>3, <2>1, BlockStarts
  <2>3. Asks(h, r) \subseteq 1 .. Len(h) /\ Len(h) \in Nat
    BY <1>1, PositionsInside
  <2>4. \A i \in Asks(h, r), j \in Reps(h, r) : i < j
    <3>1. /\ \A i \in Asks(h, r) : i < k /\ i \in Nat
          /\ \A j \in Reps(h, r) : k <= j /\ j \in Nat
      <4>1. Len(Saved(r)) \in Nat
        BY <1>1
      <4> HIDE DEF Asks, Reps
      <4> QED
        BY <2>1, <2>3, <4>1 DEF Block
    <3> HIDE DEF Asks, Reps
    <3> QED
      BY <3>1
  <2> QED
    BY <2>1, <2>2, <2>4 DEF Block
<1> HIDE DEF Asks, Reps
<1> QED
  BY <1>2, <1>3

LEMMA AllOfTheBlock == KnownInv /\ RecordInv => RepliesFitTheEnd
<1> SUFFICES ASSUME KnownInv, RecordInv, NEW c \in Channels, NEW r \in Requests
             PROVE
               /\ pc[r] \in {"done", "cut"} /\ Asks(history[c], r) # {} =>
                    {history[c][i].from : i \in Reps(history[c], r)}
                      = IF pc[r] = "done" THEN KeptAnswers(r) ELSE {replies[r][1]}
               /\ pc[r] \notin {"done", "cut"} => Reps(history[c], r) = {}
  <2> HIDE DEF Asks, Reps, KeptAnswers
  <2> QED
    BY SamePositions DEF RepliesFitTheEnd
<1> DEFINE h == history[c]
           froms == {h[i].from : i \in Reps(h, r)}
           list == Saved(r)
           n == Len(list)
<1>1. HistSt(c, r) /\ replies[r] \in Seq(Agents) /\ n \in Nat
  BY DEF KnownInv, RecordInv, HistInv, TypeInv, TypeOK, Saved
<1>2. pc[r] \notin {"done", "cut"} => Reps(h, r) = {}
  BY <1>1 DEF HistSt, Over
<1>3. ASSUME pc[r] \in {"done", "cut"}, Asks(h, r) # {}
      PROVE  froms = {list[j] : j \in 1 .. n}
  <2>1. PICK k \in Nat \ {0} : Block(h, r, list, k)
    BY <1>1, <1>3 DEF HistSt, Over
  <2> HIDE DEF list, n
  <2>2. /\ Reps(h, r) = k .. k + n - 1
        /\ \A i \in Reps(h, r) : h[i].from = list[i - k + 1]
    BY <2>1 DEF Block, n
  <2>3. /\ \A i \in Reps(h, r) : i - k + 1 \in 1 .. n
        /\ \A j \in 1 .. n : j + k - 1 \in Reps(h, r) /\ (j + k - 1) - k + 1 = j
    <3> HIDE DEF Reps
    <3> QED
      BY <1>1, <2>2
  <2>4. ASSUME NEW i \in Reps(h, r) PROVE h[i].from \in {list[j] : j \in 1 .. n}
    BY <2>2, <2>3
  <2>5. ASSUME NEW j \in 1 .. n PROVE list[j] \in froms
    <3>1. j + k - 1 \in Reps(h, r) /\ h[j + k - 1].from = list[j]
      BY <2>2, <2>3
    <3> QED
      BY <3>1
  <2> HIDE DEF Reps
  <2> QED
    BY <2>4, <2>5
<1>4. ASSUME pc[r] = "cut" PROVE {list[j] : j \in 1 .. n} = {replies[r][1]}
  <2>1. n = 1 /\ list[1] = replies[r][1]
    BY <1>4 DEF Saved
  <2> HIDE DEF list, n
  <2> QED
    BY <2>1
<1>5. ASSUME pc[r] = "done" PROVE {list[j] : j \in 1 .. n} = KeptAnswers(r)
  <2>1. list = replies[r] /\ DOMAIN list = 1 .. n
    BY <1>1, <1>5 DEF Saved
  <2>2. \A j \in 1 .. n : list[j] \in Agents
    BY <1>1, <2>1
  <2>3. \A a \in Agents : Occurs(a, list) <=> a \in KeptAnswers(r)
    BY <2>1 DEF KnownInv, RepliesAreKeptAnswers
  <2>4. KeptAnswers(r) \subseteq Agents
    BY DEF KeptAnswers, Answered
  <2> HIDE DEF list, n, KeptAnswers
  <2> QED
    BY <2>1, <2>2, <2>3, <2>4 DEF Occurs
<1> HIDE DEF froms, list, n, KeptAnswers, Asks, Reps
<1>6. pc[r] \in {"done", "cut"} /\ Asks(h, r) # {} =>
        froms = IF pc[r] = "done" THEN KeptAnswers(r) ELSE {replies[r][1]}
  BY <1>3, <1>4, <1>5
<1> QED
  BY <1>2, <1>6 DEF froms

(* A message stands before its replies, and they stand side by side in the *)
(* order of the calls, once each, for any number of concurrent requests,   *)
(* channels and storage operations.                                        *)
THEOREM HistoriesAreOrdered == Spec => []HistoryOrder
BY RecordInvariant, OrderOfBlocks, PTL

(* A send's replies are in the history as its end says: all of them when   *)
(* it ended normally, the first when the dispatcher's exception cut it,    *)
(* and none wherever else its broadcast stopped or was cancelled.          *)
THEOREM RepliesFitTheirEnd == Spec => []RepliesFitTheEnd
BY RecordInvariant, AllOfTheBlock, PTL

(* Every message that is stored is posted in the same step, to exactly the *)
(* webhooks registered under its channel then, or, when one of those has   *)
(* null events, to some of the others, and its send ends there.            *)
THEOREM StoredMessagesArePosted == Spec => StoredIsPosted
<1>1. KnownInv /\ RecordInv /\ KnownInv' /\ [Next]_vars => PostsTheStored
  <2> SUFFICES ASSUME KnownInv, RecordInv, KnownInv', [Next]_vars
               PROVE  PostsTheStored
    OBVIOUS
  <2>1. /\ TypeInv /\ FanOutInv /\ PostsInv
        /\ FanOutInv' /\ RepliesAreKeptAnswers'
    BY DEF KnownInv, RecordInv
  <2> QED
    BY <2>1, WhatChangesHistory, KeepsStored, RequestIsPosted, RepliesArePosted
<1> QED
  BY <1>1, RecordInvariant, PTL DEF Spec, StoredIsPosted, PostsTheStored
=============================================================================
