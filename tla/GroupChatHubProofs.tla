------------------------- MODULE GroupChatHubProofs -------------------------
(***************************************************************************)
(* Theorems about GroupChatHub, for every value of its constants.          *)
(***************************************************************************)
EXTENDS GroupChatHub, FiniteSetTheorems, TLAPS

(* The states from the moment a request holds a Channel object.            *)
Holding == {"announced", "sending", "pausing", "emitting", "done", "cut"}

(* A registered object knows its id, and a request that holds an object    *)
(* holds a constructed one, registered or not: what it saves goes under a  *)
(* real channel id.                                                        *)
Located ==
    /\ \A c \in Channels : live[c] # NoObject => home[live[c]] = c
    /\ \A r \in Requests :
          pc[r] \in Holding => obj[r] \in Objects /\ home[obj[r]] \in Channels
    /\ \A r \in Requests : pc[r] = "sending" => cur[r] \in Agents

TypeInv == TypeOK /\ Located

-----------------------------------------------------------------------------
LEMMA InitTypeInv == Init => TypeInv
<1> SUFFICES ASSUME Init PROVE TypeInv
  OBVIOUS
<1> USE StoreAssumption, HubAssumption
<1>1. /\ live \in [Channels -> Objects \cup {NoObject}]
      /\ members \in [Objects -> [Agents -> Slot]]
      /\ history \in [Channels -> Seq(Record)]
      /\ hooks \in [Channels -> SUBSET Hooks]
  BY DEF Init, StoreInit
<1>2. home \in [Objects -> Channels \cup {NoChannel}]
  BY DEF Init, StoreInit
<1>3. ASSUME NEW c \in Channels, live[c] # NoObject
      PROVE  home[live[c]] = c
  <2> DEFINE d == CHOOSE x \in Channels : Boot[x] = Boot[c]
  <2>1. d \in Channels /\ Boot[d] = Boot[c]
    OBVIOUS
  <2>2. d = c
    BY <1>3, <2>1 DEF Init, StoreInit
  <2>3. home[Boot[c]] = d
    BY <1>3 DEF Init, StoreInit
  <2> QED
    BY <2>2, <2>3 DEF Init, StoreInit
<1>4. Located
  BY <1>3 DEF Init, Located, Holding
<1>5. TypeOK
  <2>1. NoCall \in Call
    BY DEF Call, NoCall
  <2>2. replies \in [Requests -> Seq(Agents)]
    BY DEF Init
  <2>3. outcome \in [Requests -> [Agents -> Outcomes \cup {"none"}]]
    BY DEF Init
  <2>4. storeOps \in 0 .. MaxStoreOps
    BY DEF Init
  <2>5. emitted \in [Requests -> Nat] /\ count \in [Objects -> Nat]
    BY DEF Init
  <2>6. StoreTypeOK
    BY <1>1, <1>2 DEF StoreTypeOK
  <2> HIDE StoreAssumption, HubAssumption
  <2> QED
    BY <2>1, <2>2, <2>3, <2>4, <2>5, <2>6 DEF Init, TypeOK
<1> QED
  BY <1>4, <1>5 DEF TypeInv

(* A channel that resolves is a registered, hence constructed, object.     *)
LEMMA ResolvesToLive ==
    ASSUME TypeInv, NEW p \in Call, Resolve(p) # NoObject
    PROVE  Resolve(p) \in Objects /\ home[Resolve(p)] \in Channels
<1>1. \E c \in Channels : live[c] = Resolve(p)
  BY DEF Resolve, ChannelById, ChannelByContext, Call
<1>2. PICK c \in Channels : live[c] = Resolve(p)
  BY <1>1
<1> QED
  BY <1>2 DEF TypeInv, Located, TypeOK, StoreTypeOK

LEMMA ParamsAreCalls ==
    ASSUME NEW mode \in Modes, NEW p \in Params(mode)
    PROVE  p \in Call /\ p.mode = mode
BY HubAssumption DEF Params, Call

-----------------------------------------------------------------------------
(* What the pieces of the handlers keep.                                   *)

LEMMA SaveMessagesType ==
    ASSUME StoreTypeOK, NEW c \in Channels, NEW batch \in Seq(Record),
           SaveMessages(c, batch)
    PROVE  StoreTypeOK'
<1>1. history[c] \o batch \in Seq(Record)
  BY DEF StoreTypeOK
<1> QED
  BY <1>1 DEF SaveMessages, StoreTypeOK

LEMMA PostsType ==
    ASSUME NEW W \in SUBSET Hooks, NEW r \in Requests,
           NEW from \in SUBSET (Agents \cup {NoAgent})
    PROVE  Posts(W, r, from) \subseteq Post
BY DEF Posts, Post

(* Only webhooks registered under the id are reached. *)
LEMMA ReachedType ==
    ASSUME TypeInv, NEW c \in Channels, NEW W \in Reached(c)
    PROVE  W \subseteq hooks[c] /\ W \in SUBSET Hooks
<1>1. hooks[c] \in SUBSET Hooks
  BY DEF TypeInv, TypeOK, StoreTypeOK
<1>2. W \subseteq hooks[c]
  BY DEF Reached
<1> QED
  BY <1>1, <1>2

LEMMA StoreRequestType ==
    ASSUME TypeInv, NEW r \in Requests, NEW p \in Call, NEW o \in Objects,
           home[o] \in Channels, StoreRequest(r, p, o)
    PROVE  /\ StoreTypeOK'
           /\ posts' \in SUBSET Post
           /\ home' = home /\ live' = live
<1>1. RequestRecord(r, p, o) \in Record
  BY DEF RequestRecord, Record, Call
<1>2. StoreTypeOK'
  <2>1. <<RequestRecord(r, p, o)>> \in Seq(Record)
    BY <1>1
  <2>2. StoreTypeOK /\ SaveMessages(home[o], <<RequestRecord(r, p, o)>>)
    BY DEF StoreRequest, TypeInv, TypeOK
  <2> QED
    BY <2>1, <2>2, SaveMessagesType
<1>3. posts' \in SUBSET Post
  <2>1. {p.sender} \in SUBSET (Agents \cup {NoAgent})
    BY DEF Call
  <2>2. PICK W \in Reached(home[o]) : posts' = posts \cup Posts(W, r, {p.sender})
    BY DEF StoreRequest
  <2>3. Posts(W, r, {p.sender}) \subseteq Post
    BY <2>1, ReachedType, PostsType
  <2> QED
    BY <2>2, <2>3 DEF TypeInv, TypeOK
<1> QED
  BY <1>2, <1>3 DEF StoreRequest, SaveMessages

LEMMA CompleteType ==
    ASSUME TypeOK, NEW r \in Requests, NEW mode, NEW o \in Objects,
           Complete(r, mode, o)
    PROVE  /\ count' \in [Objects -> Nat]
           /\ tasks' \in [Requests -> {"none", "completed", "canceled"}]
BY DEF Complete, TypeOK

LEMMA FanOutType ==
    ASSUME TypeInv, NEW r \in Requests, NEW p \in Call, NEW o \in Objects,
           home[o] \in Channels, FanOut(r, p, o), home' = home, live' = live
    PROVE  /\ pc' \in [Requests -> {"idle"} \cup Suspended \cup Ended]
           /\ obj' \in [Requests -> Objects \cup {NoObject}]
           /\ sendable' \in [Requests -> SUBSET Agents]
           /\ cur' \in [Requests -> Agents \cup {NoAgent}]
           /\ todo' \in [Requests -> SUBSET Agents]
           /\ notifying' \in [Requests -> SUBSET Agents]
           /\ count' \in [Objects -> Nat]
           /\ tasks' \in [Requests -> {"none", "completed", "canceled"}]
           /\ UNCHANGED <<outcome, replies, emitted>>
           /\ Located'
<1> DEFINE targets == {a \in SendablePeers(o, p.sender) :
                          p.rcpt = NoAgent \/ a = p.rcpt}
<1>1. /\ targets \subseteq Agents
      /\ Observers(o) \ {p.sender} \subseteq Agents
  BY DEF SendablePeers, Observers
<1> HIDE DEF targets
<1>2. /\ obj' = [obj EXCEPT ![r] = o]
      /\ sendable' = [sendable EXCEPT ![r] = targets]
      /\ notifying' = [notifying EXCEPT ![r] = Observers(o) \ {p.sender}]
      /\ UNCHANGED <<outcome, replies, emitted>>
  BY DEF FanOut, targets
<1>3. CASE /\ targets = {}
           /\ pc' = [pc EXCEPT ![r] = "done"]
           /\ Complete(r, p.mode, o)
           /\ UNCHANGED <<cur, todo>>
  <2>1. /\ count' \in [Objects -> Nat]
        /\ tasks' \in [Requests -> {"none", "completed", "canceled"}]
    BY <1>3, CompleteType DEF TypeInv
  <2>2. Located'
    BY <1>2, <1>3 DEF Located, TypeInv, TypeOK, Holding
  <2> QED
    BY <1>1, <1>2, <1>3, <2>1, <2>2 DEF TypeInv, TypeOK, Ended
<1>4. ASSUME NEW a \in targets,
             pc' = [pc EXCEPT ![r] = "sending"],
             cur' = [cur EXCEPT ![r] = a],
             todo' = [todo EXCEPT ![r] = targets \ {a}],
             UNCHANGED <<count, tasks>>
      PROVE  /\ pc' \in [Requests -> {"idle"} \cup Suspended \cup Ended]
             /\ cur' \in [Requests -> Agents \cup {NoAgent}]
             /\ todo' \in [Requests -> SUBSET Agents]
             /\ count' \in [Objects -> Nat]
             /\ tasks' \in [Requests -> {"none", "completed", "canceled"}]
             /\ Located'
  <2>1. Located'
    BY <1>1, <1>2, <1>4 DEF Located, TypeInv, TypeOK, Holding
  <2> QED
    BY <1>1, <1>4, <2>1 DEF TypeInv, TypeOK, Suspended
<1>5. \/ /\ targets = {}
         /\ pc' = [pc EXCEPT ![r] = "done"]
         /\ Complete(r, p.mode, o)
         /\ UNCHANGED <<cur, todo>>
      \/ \E a \in targets :
            /\ pc' = [pc EXCEPT ![r] = "sending"]
            /\ cur' = [cur EXCEPT ![r] = a]
            /\ todo' = [todo EXCEPT ![r] = targets \ {a}]
            /\ UNCHANGED <<count, tasks>>
  BY DEF FanOut, targets
<1>6. /\ obj' \in [Requests -> Objects \cup {NoObject}]
      /\ sendable' \in [Requests -> SUBSET Agents]
      /\ notifying' \in [Requests -> SUBSET Agents]
  BY <1>1, <1>2 DEF TypeInv, TypeOK
<1> QED
  BY <1>2, <1>3, <1>4, <1>5, <1>6

-----------------------------------------------------------------------------
(* One lemma per action, or per group of actions of one shape.             *)

LEMMA RefuseTypeInv ==
    ASSUME TypeInv, NEW r \in Requests, NEW p, Refuse(r, p)
    PROVE  TypeInv'
<1>1. p \in Call
  BY ParamsAreCalls DEF Refuse, Arrives
<1>2. /\ pc' = [pc EXCEPT ![r] = "rejected"]
      /\ call' = [call EXCEPT ![r] = p]
      /\ UNCHANGED <<storeVars, localVars, streamVars, hubVars, storeOps>>
  BY DEF Refuse, Arrives
<1>3. TypeOK'
  BY <1>1, <1>2 DEF TypeInv, TypeOK, StoreTypeOK, Ended, storeVars, localVars,
                    streamVars, hubVars
<1>4. Located'
  BY <1>2 DEF TypeInv, TypeOK, Located, Holding, storeVars, localVars
<1> QED
  BY <1>3, <1>4 DEF TypeInv

LEMMA OnMessageSendTypeInv ==
    ASSUME TypeInv, NEW r \in Requests, NEW p, OnMessageSend(r, p)
    PROVE  TypeInv'
<1> DEFINE o == Resolve(p)
<1>1. p \in Call /\ o # NoObject
  BY ParamsAreCalls DEF OnMessageSend, Accepts, Arrives
<1>2. o \in Objects /\ home[o] \in Channels
  BY <1>1, ResolvesToLive
<1>3. /\ StoreRequest(r, p, o)
      /\ FailUnsent(r) \/ FanOut(r, p, o)
      /\ call' = [call EXCEPT ![r] = p]
      /\ UNCHANGED <<announced, background, closed, storeOps>>
  BY DEF OnMessageSend, Accepts, Arrives
<1> HIDE DEF o
<1>4. /\ StoreTypeOK'
      /\ posts' \in SUBSET Post
      /\ home' = home /\ live' = live
  BY <1>1, <1>2, <1>3, StoreRequestType
<1>5. /\ pc' \in [Requests -> {"idle"} \cup Suspended \cup Ended]
      /\ obj' \in [Requests -> Objects \cup {NoObject}]
      /\ sendable' \in [Requests -> SUBSET Agents]
      /\ cur' \in [Requests -> Agents \cup {NoAgent}]
      /\ todo' \in [Requests -> SUBSET Agents]
      /\ notifying' \in [Requests -> SUBSET Agents]
      /\ count' \in [Objects -> Nat]
      /\ tasks' \in [Requests -> {"none", "completed", "canceled"}]
      /\ UNCHANGED <<outcome, replies, emitted>>
      /\ Located'
  <2>1. CASE FailUnsent(r)
    BY <1>4, <2>1 DEF FailUnsent, TypeInv, TypeOK, Located, Holding, Ended, localVars
  <2>2. CASE FanOut(r, p, o)
    BY <1>1, <1>2, <1>4, <2>2, FanOutType
  <2> QED
    BY <1>3, <2>1, <2>2
<1>6. call' \in [Requests -> Call]
  BY <1>1, <1>3 DEF TypeInv, TypeOK
<1> QED
  BY <1>3, <1>4, <1>5, <1>6 DEF TypeInv, TypeOK

LEMMA SendAsyncTypeInv ==
    ASSUME TypeInv, NEW r \in Requests, NEW p, NEW body, SendAsync(r, p, body)
    PROVE  TypeInv'
<1> DEFINE o == Resolve(p)
<1>1. p \in Call /\ o # NoObject
  BY ParamsAreCalls DEF SendAsync, Accepts, Arrives
<1>2. o \in Objects /\ home[o] \in Channels
  BY <1>1, ResolvesToLive
<1>3. /\ StoreRequest(r, p, o)
      /\ call' = [call EXCEPT ![r] = p]
      /\ \/ /\ pc' = [pc EXCEPT ![r] = "scheduled"]
            /\ background' = background \cup {r}
         \/ /\ \E x \in {"saved", "unsent"} : pc' = [pc EXCEPT ![r] = x]
            /\ background' = background
      /\ UNCHANGED <<localVars, streamVars, count, tasks, closed, storeOps>>
  BY DEF SendAsync, FailUnsent, Accepts, Arrives
<1> HIDE DEF o
<1>4. /\ StoreTypeOK'
      /\ posts' \in SUBSET Post
      /\ home' = home /\ live' = live
  BY <1>1, <1>2, <1>3, StoreRequestType
<1>5. Located'
  BY <1>3, <1>4 DEF TypeInv, TypeOK, Located, Holding, localVars
<1>6. /\ call' \in [Requests -> Call]
      /\ pc' \in [Requests -> {"idle"} \cup Suspended \cup Ended]
      /\ background' \in SUBSET Requests
  BY <1>1, <1>3, ZenonT(40) DEF TypeInv, TypeOK, Suspended, Ended
<1> QED
  BY <1>3, <1>4, <1>5, <1>6 DEF TypeInv, TypeOK, localVars, streamVars

LEMMA OnMessageSendStreamTypeInv ==
    ASSUME TypeInv, NEW r \in Requests, NEW p, OnMessageSendStream(r, p)
    PROVE  TypeInv'
<1> DEFINE o == Resolve(p)
<1>1. p \in Call /\ o # NoObject
  BY ParamsAreCalls DEF OnMessageSendStream, Accepts, Arrives
<1>2. o \in Objects /\ home[o] \in Channels
  BY <1>1, ResolvesToLive
<1>3. SendablePeers(o, p.sender) \subseteq Agents
  BY DEF SendablePeers
<1>4. /\ call' = [call EXCEPT ![r] = p]
      /\ pc' = [pc EXCEPT ![r] = "announced"]
      /\ obj' = [obj EXCEPT ![r] = o]
      /\ announced' = [announced EXCEPT ![r] = SendablePeers(o, p.sender)]
      /\ UNCHANGED <<storeVars, sendable, cur, todo, outcome, replies, notifying,
                     emitted, hubVars, storeOps>>
  BY DEF OnMessageSendStream, Accepts, Arrives
<1> HIDE DEF o
<1>5. Located'
  BY <1>2, <1>4 DEF TypeInv, TypeOK, Located, Holding, storeVars
<1>6. /\ call' \in [Requests -> Call]
      /\ pc' \in [Requests -> {"idle"} \cup Suspended \cup Ended]
      /\ obj' \in [Requests -> Objects \cup {NoObject}]
      /\ announced' \in [Requests -> SUBSET Agents]
  BY <1>1, <1>2, <1>3, <1>4 DEF TypeInv, TypeOK, Suspended
<1> QED
  BY <1>4, <1>5, <1>6 DEF TypeInv, TypeOK, StoreTypeOK, storeVars, hubVars

LEMMA DispatchStartTypeInv ==
    ASSUME TypeInv, NEW r \in Requests, DispatchStart(r)
    PROVE  TypeInv'
<1> DEFINE o == Resolve(call[r])
<1>1. call[r] \in Call
  BY DEF TypeInv, TypeOK
<1>2. UNCHANGED <<storeVars, call, announced, background, posts, closed, storeOps>>
  BY DEF DispatchStart
<1>3. CASE o = NoObject
  <2>1. /\ pc' = [pc EXCEPT ![r] = "dropped"]
        /\ UNCHANGED <<localVars, emitted, count, tasks>>
    BY <1>3 DEF DispatchStart
  <2>2. Located'
    BY <1>2, <2>1 DEF TypeInv, TypeOK, Located, Holding, storeVars, localVars
  <2> QED
    BY <1>2, <2>1, <2>2
       DEF TypeInv, TypeOK, StoreTypeOK, Ended, storeVars, localVars
<1>4. CASE o # NoObject
  <2>1. o \in Objects /\ home[o] \in Channels
    BY <1>1, <1>4, ResolvesToLive
  <2>2. FanOut(r, call[r], o)
    BY <1>4 DEF DispatchStart
  <2>3. home' = home /\ live' = live
    BY <1>2 DEF storeVars
  <2> HIDE DEF o
  <2>4. /\ pc' \in [Requests -> {"idle"} \cup Suspended \cup Ended]
        /\ obj' \in [Requests -> Objects \cup {NoObject}]
        /\ sendable' \in [Requests -> SUBSET Agents]
        /\ cur' \in [Requests -> Agents \cup {NoAgent}]
        /\ todo' \in [Requests -> SUBSET Agents]
        /\ notifying' \in [Requests -> SUBSET Agents]
        /\ count' \in [Objects -> Nat]
        /\ tasks' \in [Requests -> {"none", "completed", "canceled"}]
        /\ UNCHANGED <<outcome, replies, emitted>>
        /\ Located'
    BY <1>1, <2>1, <2>2, <2>3, FanOutType
  <2> QED
    BY <1>2, <2>4 DEF TypeInv, TypeOK, StoreTypeOK, storeVars
<1> QED
  BY <1>3, <1>4

LEMMA StreamFanOutTypeInv ==
    ASSUME TypeInv, NEW r \in Requests, StreamFanOut(r)
    PROVE  TypeInv'
<1>1. /\ call[r] \in Call
      /\ obj[r] \in Objects /\ home[obj[r]] \in Channels
  BY DEF StreamFanOut, TypeInv, TypeOK, Located, Holding
<1>2. /\ FanOut(r, call[r], obj[r])
      /\ UNCHANGED <<storeVars, call, announced, background, posts, closed, storeOps>>
  BY DEF StreamFanOut
<1>3. home' = home /\ live' = live
  BY <1>2 DEF storeVars
<1>4. /\ pc' \in [Requests -> {"idle"} \cup Suspended \cup Ended]
      /\ obj' \in [Requests -> Objects \cup {NoObject}]
      /\ sendable' \in [Requests -> SUBSET Agents]
      /\ cur' \in [Requests -> Agents \cup {NoAgent}]
      /\ todo' \in [Requests -> SUBSET Agents]
      /\ notifying' \in [Requests -> SUBSET Agents]
      /\ count' \in [Objects -> Nat]
      /\ tasks' \in [Requests -> {"none", "completed", "canceled"}]
      /\ UNCHANGED <<outcome, replies, emitted>>
      /\ Located'
  BY <1>1, <1>2, <1>3, FanOutType
<1> QED
  BY <1>2, <1>4 DEF TypeInv, TypeOK, StoreTypeOK, storeVars

(* Recording an outcome keeps the results well typed. *)
LEMMA CollectType ==
    ASSUME TypeInv, NEW r \in Requests, NEW out \in Outcomes, Collect(r, out)
    PROVE  /\ pc[r] = "sending" /\ cur[r] \in Agents
           /\ outcome' \in [Requests -> [Agents -> Outcomes \cup {"none"}]]
           /\ replies' \in [Requests -> Seq(Agents)]
<1>1. pc[r] = "sending" /\ cur[r] \in Agents
  BY DEF Collect, TypeInv, Located
<1>2. outcome' \in [Requests -> [Agents -> Outcomes \cup {"none"}]]
  BY DEF Collect, TypeInv, TypeOK
<1>3. Append(replies[r], cur[r]) \in Seq(Agents)
  BY <1>1 DEF TypeInv, TypeOK
<1>4. replies' \in [Requests -> Seq(Agents)]
  BY <1>3 DEF Collect, TypeInv, TypeOK
<1> QED
  BY <1>1, <1>2, <1>4

LEMMA AgentAnswersTypeInv ==
    ASSUME TypeInv, NEW r \in Requests, NEW out \in Outcomes, AgentAnswers(r, out)
    PROVE  TypeInv'
<1>1. /\ pc[r] = "sending"
      /\ outcome' \in [Requests -> [Agents -> Outcomes \cup {"none"}]]
      /\ replies' \in [Requests -> Seq(Agents)]
  BY CollectType DEF AgentAnswers
<1>2. UNCHANGED <<storeVars, call, obj, sendable, notifying, streamVars, hubVars,
                  storeOps>>
  BY DEF AgentAnswers
<1>3. /\ pc' \in [Requests -> {"idle"} \cup Suspended \cup Ended]
      /\ cur' \in [Requests -> Agents \cup {NoAgent}]
      /\ todo' \in [Requests -> SUBSET Agents]
      /\ Located'
  <2>1. CASE Pausing
    <3>1. /\ pc' = [pc EXCEPT ![r] = "pausing"]
          /\ cur' = [cur EXCEPT ![r] = NoAgent]
          /\ todo' = todo
      BY <2>1 DEF AgentAnswers
    <3>2. Located'
      BY <1>1, <1>2, <3>1 DEF TypeInv, TypeOK, Located, Holding, storeVars
    <3> QED
      BY <3>1, <3>2 DEF TypeInv, TypeOK, Suspended
  <2>2. CASE ~Pausing
    <3>1. PICK a \in todo[r] : /\ cur' = [cur EXCEPT ![r] = a]
                               /\ todo' = [todo EXCEPT ![r] = @ \ {a}]
                               /\ pc' = pc
      BY <2>2 DEF AgentAnswers
    <3>2. a \in Agents
      BY DEF TypeInv, TypeOK
    <3>3. Located'
      BY <1>1, <1>2, <3>1, <3>2 DEF TypeInv, TypeOK, Located, Holding, storeVars
    <3> QED
      BY <3>1, <3>2, <3>3 DEF TypeInv, TypeOK
  <2> QED
    BY <2>1, <2>2
<1> QED
  BY <1>1, <1>2, <1>3
     DEF TypeInv, TypeOK, StoreTypeOK, storeVars, streamVars, hubVars

LEMMA PauseOverTypeInv ==
    ASSUME TypeInv, NEW r \in Requests, PauseOver(r)
    PROVE  TypeInv'
<1>1. PICK a \in todo[r] : /\ cur' = [cur EXCEPT ![r] = a]
                           /\ todo' = [todo EXCEPT ![r] = @ \ {a}]
  BY DEF PauseOver
<1>2. a \in Agents
  BY DEF TypeInv, TypeOK
<1>3. /\ pc[r] = "pausing"
      /\ pc' = [pc EXCEPT ![r] = "sending"]
      /\ UNCHANGED <<storeVars, call, obj, sendable, outcome, replies, notifying,
                     streamVars, hubVars, storeOps>>
  BY DEF PauseOver
<1>4. Located'
  BY <1>1, <1>2, <1>3 DEF TypeInv, TypeOK, Located, Holding, storeVars
<1> QED
  BY <1>1, <1>2, <1>3, <1>4
     DEF TypeInv, TypeOK, StoreTypeOK, Suspended, storeVars, streamVars, hubVars

(* The records of a send's kept results, at its last answer. *)
Kepts(r) == [i \in DOMAIN replies'[r] |->
               ReplyRecord(r, replies'[r][i], outcome'[r][replies'[r][i]], obj[r])]

LEMMA KeptsType ==
    ASSUME NEW r \in Requests, obj[r] \in Objects, replies'[r] \in Seq(Agents)
    PROVE  /\ Kepts(r) \in Seq(Record)
           /\ DOMAIN Kepts(r) = DOMAIN replies'[r]
           /\ \A i \in DOMAIN Kepts(r) : Kepts(r)[i].from \in Agents
<1>1. PICK n \in Nat : DOMAIN replies'[r] = 1 .. n
  OBVIOUS
<1>2. DOMAIN Kepts(r) = 1 .. n
  BY <1>1 DEF Kepts
<1>3. ASSUME NEW i \in 1 .. n
      PROVE  Kepts(r)[i] \in Record /\ Kepts(r)[i].from \in Agents
  BY <1>1, <1>3 DEF Kepts, ReplyRecord, Record
<1>4. Kepts(r) \in [1 .. n -> Record]
  BY <1>2, <1>3 DEF Kepts
<1> QED
  BY <1>1, <1>2, <1>3, <1>4

(* A send that ends saves all of them, or it is cut after the first. *)
LEMMA RepliesSaved ==
    ASSUME TypeInv, NEW r \in Requests, NEW out \in Outcomes,
           LastAgentAnswers(r, out)
    PROVE  \E batch \in Seq(Record), W \in SUBSET Hooks, x \in {"done", "cut"} :
              /\ SaveMessages(home[obj[r]], batch)
              /\ \A i \in DOMAIN batch : batch[i].from \in Agents
              /\ posts' = posts \cup
                            Posts(W, r, {batch[i].from : i \in DOMAIN batch})
              /\ pc' = [pc EXCEPT ![r] = x]
              /\ x = "done" => Complete(r, call[r].mode, obj[r])
              /\ x = "cut" => UNCHANGED <<count, tasks>>
<1> DEFINE c == home[obj[r]]
           kept == Kepts(r)
<1>1. obj[r] \in Objects /\ c \in Channels
  BY DEF LastAgentAnswers, Collect, TypeInv, Located, Holding
<1>2. replies'[r] \in Seq(Agents)
  BY CollectType DEF LastAgentAnswers
<1>3. /\ kept \in Seq(Record)
      /\ \A i \in DOMAIN kept : kept[i].from \in Agents
  BY <1>1, <1>2, KeptsType
<1>4. \/ /\ SaveMessages(c, kept)
         /\ posts' = posts \cup Posts(hooks[c], r, {kept[i].from : i \in DOMAIN kept})
         /\ Complete(r, call[r].mode, obj[r])
         /\ pc' = [pc EXCEPT ![r] = "done"]
      \/ /\ kept # <<>>
         /\ SaveMessages(c, <<kept[1]>>)
         /\ \E W \in Reached(c) : posts' = posts \cup Posts(W, r, {kept[1].from})
         /\ pc' = [pc EXCEPT ![r] = "cut"]
         /\ UNCHANGED <<count, tasks>>
  BY DEF LastAgentAnswers, SaveReplies, Kepts
<1> HIDE DEF kept, c
<1>5. CASE pc' = [pc EXCEPT ![r] = "done"] /\ SaveMessages(c, kept)
           /\ posts' = posts \cup Posts(hooks[c], r, {kept[i].from : i \in DOMAIN kept})
           /\ Complete(r, call[r].mode, obj[r])
  <2>1. hooks[c] \in SUBSET Hooks
    BY <1>1 DEF TypeInv, TypeOK, StoreTypeOK
  <2> QED
    BY <1>3, <1>5, <2>1 DEF c
<1>6. ASSUME kept # <<>>, SaveMessages(c, <<kept[1]>>), NEW W \in Reached(c),
             posts' = posts \cup Posts(W, r, {kept[1].from}),
             pc' = [pc EXCEPT ![r] = "cut"], UNCHANGED <<count, tasks>>
      PROVE  \E batch \in Seq(Record), X \in SUBSET Hooks, x \in {"done", "cut"} :
                /\ SaveMessages(home[obj[r]], batch)
                /\ \A i \in DOMAIN batch : batch[i].from \in Agents
                /\ posts' = posts \cup
                              Posts(X, r, {batch[i].from : i \in DOMAIN batch})
                /\ pc' = [pc EXCEPT ![r] = x]
                /\ x = "done" => Complete(r, call[r].mode, obj[r])
                /\ x = "cut" => UNCHANGED <<count, tasks>>
  <2> DEFINE batch == <<kept[1]>>
  <2>1. 1 \in DOMAIN kept
    BY <1>3, <1>6
  <2>2. /\ batch \in Seq(Record)
        /\ \A i \in DOMAIN batch : batch[i].from \in Agents
        /\ {batch[i].from : i \in DOMAIN batch} = {kept[1].from}
    BY <1>3, <2>1
  <2>3. W \in SUBSET Hooks
    BY <1>1, ReachedType
  <2> HIDE DEF batch
  <2>4. SaveMessages(home[obj[r]], batch)
    BY <1>6 DEF batch, c
  <2> QED
    BY <1>6, <2>2, <2>3, <2>4
<1> QED
  BY <1>4, <1>5, <1>6 DEF c

LEMMA LastAgentAnswersTypeInv ==
    ASSUME TypeInv, NEW r \in Requests, NEW out \in Outcomes,
           LastAgentAnswers(r, out)
    PROVE  TypeInv'
<1>1. /\ pc[r] = "sending"
      /\ outcome' \in [Requests -> [Agents -> Outcomes \cup {"none"}]]
      /\ replies' \in [Requests -> Seq(Agents)]
  BY CollectType DEF LastAgentAnswers
<1>2. obj[r] \in Objects /\ home[obj[r]] \in Channels
  BY <1>1 DEF TypeInv, Located, Holding
<1>3. /\ cur' = [cur EXCEPT ![r] = NoAgent]
      /\ UNCHANGED <<call, obj, sendable, todo, notifying, streamVars,
                     background, closed, storeOps>>
  BY DEF LastAgentAnswers
<1>4. PICK batch \in Seq(Record), W \in SUBSET Hooks, x \in {"done", "cut"} :
        /\ SaveMessages(home[obj[r]], batch)
        /\ \A i \in DOMAIN batch : batch[i].from \in Agents
        /\ posts' = posts \cup Posts(W, r, {batch[i].from : i \in DOMAIN batch})
        /\ pc' = [pc EXCEPT ![r] = x]
        /\ x = "done" => Complete(r, call[r].mode, obj[r])
        /\ x = "cut" => UNCHANGED <<count, tasks>>
  BY RepliesSaved
<1>5. StoreTypeOK'
  BY <1>2, <1>4, SaveMessagesType DEF TypeInv, TypeOK
<1>6. posts' \in SUBSET Post
  <2>1. {batch[i].from : i \in DOMAIN batch} \in SUBSET (Agents \cup {NoAgent})
    BY <1>4
  <2> QED
    BY <1>4, <2>1, PostsType DEF TypeInv, TypeOK
<1>7. /\ count' \in [Objects -> Nat]
      /\ tasks' \in [Requests -> {"none", "completed", "canceled"}]
  BY <1>2, <1>4, CompleteType DEF TypeInv, TypeOK
<1>8. Located'
  BY <1>1, <1>2, <1>3, <1>4 DEF TypeInv, TypeOK, Located, Holding, SaveMessages
<1>9. pc' \in [Requests -> {"idle"} \cup Suspended \cup Ended]
  BY <1>4 DEF TypeInv, TypeOK, Ended
<1> QED
  BY <1>1, <1>3, <1>5, <1>6, <1>7, <1>8, <1>9 DEF TypeInv, TypeOK, streamVars

LEMMA LastAgentAnswersStreamTypeInv ==
    ASSUME TypeInv, NEW r \in Requests, NEW out \in Outcomes,
           LastAgentAnswersStream(r, out)
    PROVE  TypeInv'
<1>1. /\ pc[r] = "sending"
      /\ outcome' \in [Requests -> [Agents -> Outcomes \cup {"none"}]]
      /\ replies' \in [Requests -> Seq(Agents)]
  BY CollectType DEF LastAgentAnswersStream
<1>2. /\ pc' = [pc EXCEPT ![r] = "emitting"]
      /\ cur' = [cur EXCEPT ![r] = NoAgent]
      /\ emitted' = [emitted EXCEPT ![r] = 1]
      /\ UNCHANGED <<storeVars, call, obj, sendable, todo, notifying, announced,
                     hubVars, storeOps>>
  BY DEF LastAgentAnswersStream
<1>3. Located'
  BY <1>1, <1>2 DEF TypeInv, TypeOK, Located, Holding, storeVars
<1> QED
  BY <1>1, <1>2, <1>3
     DEF TypeInv, TypeOK, StoreTypeOK, Suspended, storeVars, hubVars

LEMMA StreamFinishTypeInv ==
    ASSUME TypeInv, NEW r \in Requests, StreamFinish(r)
    PROVE  TypeInv'
<1>1. obj[r] \in Objects
  BY DEF StreamFinish, TypeInv, Located, Holding
<1>2. /\ count' \in [Objects -> Nat]
      /\ tasks' \in [Requests -> {"none", "completed", "canceled"}]
  BY <1>1, CompleteType DEF StreamFinish, TypeInv
<1>3. /\ pc[r] = "emitting"
      /\ pc' = [pc EXCEPT ![r] = "done"]
      /\ UNCHANGED <<storeVars, call, localVars, streamVars, background, posts,
                     closed, storeOps>>
  BY DEF StreamFinish
<1>4. Located'
  BY <1>3 DEF TypeInv, TypeOK, Located, Holding, storeVars, localVars
<1> QED
  BY <1>2, <1>3, <1>4
     DEF TypeInv, TypeOK, StoreTypeOK, Ended, storeVars, localVars, streamVars

(* Steps of a request that move it nowhere new, or to its end. *)
LEMMA QuietStepTypeInv ==
    ASSUME TypeInv, NEW r \in Requests,
           \/ StreamEmit(r)
           \/ StreamDisconnect(r)
           \/ DispatchDone(r)
           \/ \E a \in Agents : ObserverNotified(r, a)
           \/ OnCancelTask(r)
    PROVE  TypeInv'
<1>1. CASE StreamEmit(r)
  BY <1>1 DEF StreamEmit, TypeInv, TypeOK, StoreTypeOK, Located,
              storeVars, localVars, hubVars
<1>2. CASE StreamDisconnect(r)
  BY <1>2 DEF StreamDisconnect, TypeInv, TypeOK, StoreTypeOK, Located, Holding,
              Ended, storeVars, localVars, streamVars, hubVars
<1>3. CASE DispatchDone(r)
  BY <1>3 DEF DispatchDone, TypeInv, TypeOK, StoreTypeOK, Located,
              storeVars, localVars, streamVars
<1>4. CASE \E a \in Agents : ObserverNotified(r, a)
  BY <1>4 DEF ObserverNotified, TypeInv, TypeOK, StoreTypeOK, Located,
              storeVars, streamVars, hubVars
<1>5. CASE OnCancelTask(r)
  BY <1>5 DEF OnCancelTask, TypeInv, TypeOK, StoreTypeOK, Located,
              storeVars, localVars, streamVars
<1> QED
  BY <1>1, <1>2, <1>3, <1>4, <1>5

LEMMA DeliverTypeInv ==
    ASSUME TypeInv, NEW m \in Post, Deliver(m)
    PROVE  TypeInv'
BY DEF Deliver, TypeInv, TypeOK, StoreTypeOK, Located, storeVars, localVars, streamVars

LEMMA CloseTypeInv ==
    ASSUME TypeInv, Close
    PROVE  TypeInv'
<1>1. pc' \in [Requests -> {"idle"} \cup Suspended \cup Ended]
  BY DEF Close, TypeInv, TypeOK, Ended
<1>2. \A r \in Requests : pc'[r] = pc[r] \/ pc'[r] = "cancelled"
  BY DEF Close
<1>3. /\ closed' = TRUE
      /\ UNCHANGED <<storeVars, call, localVars, streamVars, count, tasks,
                     background, posts, storeOps>>
  BY DEF Close
<1>4. Located'
  BY <1>2, <1>3 DEF TypeInv, Located, Holding, storeVars, localVars
<1> QED
  BY <1>1, <1>3, <1>4 DEF TypeInv, TypeOK, StoreTypeOK, storeVars, localVars, streamVars

(* No storage operation unmakes an object or makes an id name a stranger.  *)
LEMMA StoreOperationType ==
    ASSUME TypeInv, StoreOperation, UNCHANGED <<pc, obj, cur>>
    PROVE  StoreTypeOK' /\ Located'
<1> USE StoreAssumption DEF TypeInv, TypeOK, StoreTypeOK, Located, Holding
<1>1. ASSUME NEW c \in Channels, NEW o \in Objects, CreateChannel(c, o)
      PROVE  StoreTypeOK' /\ Located'
  BY <1>1 DEF CreateChannel, Slot
<1>2. ASSUME NEW o \in Objects, SaveChannel(o)
      PROVE  StoreTypeOK' /\ Located'
  BY <1>2 DEF SaveChannel
<1>3. ASSUME NEW c \in Channels, DeleteChannel(c)
      PROVE  StoreTypeOK' /\ Located'
  <2>1. <<>> \in Seq(Record)
    OBVIOUS
  <2> QED
    BY <1>3, <2>1 DEF DeleteChannel
<1>4. ASSUME NEW c \in Channels, NEW a \in Agents, NEW m \in Slot, AddMember(c, a, m)
      PROVE  StoreTypeOK' /\ Located'
  BY <1>4 DEF AddMember
<1>5. ASSUME NEW c \in Channels, NEW a \in Agents, RemoveMember(c, a)
      PROVE  StoreTypeOK' /\ Located'
  BY <1>5 DEF RemoveMember, Slot
<1>6. ASSUME NEW o \in Objects, NEW a \in Agents, NEW m \in Slot,
             PatchMember(o, a, m)
      PROVE  StoreTypeOK' /\ Located'
  BY <1>6 DEF PatchMember
<1>7. ASSUME NEW c \in Channels, NEW h \in Hooks,
             SaveWebhook(c, h) \/ DeleteWebhook(c, h)
      PROVE  StoreTypeOK' /\ Located'
  <2>1. hooks' \in [Channels -> SUBSET Hooks]
    <3>1. CASE SaveWebhook(c, h)
      BY <3>1 DEF SaveWebhook
    <3>2. CASE DeleteWebhook(c, h)
      BY <3>2 DEF DeleteWebhook
    <3> QED
      BY <1>7, <3>1, <3>2
  <2>2. UNCHANGED <<live, home, members, history>>
    BY <1>7 DEF SaveWebhook, DeleteWebhook
  <2> QED
    BY <2>1, <2>2
<1>8. Profiles \subseteq Slot
  BY StoreAssumption DEF Slot
<1> QED
  BY <1>1, <1>2, <1>3, <1>4, <1>5, <1>6, <1>7, <1>8 DEF StoreOperation

LEMMA RestApiTypeInv ==
    ASSUME TypeInv, RestApi
    PROVE  TypeInv'
<1>1. /\ StoreOperation
      /\ storeOps < MaxStoreOps /\ storeOps' = storeOps + 1
      /\ UNCHANGED <<pc, call, localVars, streamVars, hubVars>>
  BY DEF RestApi
<1>2. StoreTypeOK' /\ Located'
  BY <1>1, StoreOperationType DEF localVars
<1>3. storeOps' \in 0 .. MaxStoreOps
  BY <1>1, HubAssumption DEF TypeInv, TypeOK
<1> QED
  BY <1>1, <1>2, <1>3 DEF TypeInv, TypeOK, localVars, streamVars, hubVars

-----------------------------------------------------------------------------
LEMMA NextTypeInv == TypeInv /\ [Next]_vars => TypeInv'
<1> SUFFICES ASSUME TypeInv, [Next]_vars PROVE TypeInv'
  OBVIOUS
<1>1. ASSUME NEW r \in Requests, Arrival(r) PROVE TypeInv'
  BY <1>1, RefuseTypeInv, OnMessageSendTypeInv, SendAsyncTypeInv,
     OnMessageSendStreamTypeInv DEF Arrival
<1>2. ASSUME NEW r \in Requests, Progress(r) PROVE TypeInv'
  BY <1>2, DispatchStartTypeInv, StreamFanOutTypeInv, AgentAnswersTypeInv,
     LastAgentAnswersTypeInv, LastAgentAnswersStreamTypeInv, PauseOverTypeInv,
     StreamFinishTypeInv, QuietStepTypeInv DEF Progress
<1>3. CASE UNCHANGED vars
  <2> USE <1>3 DEF vars, storeVars, localVars, streamVars, hubVars
  <2>1. StoreTypeOK'
    BY DEF TypeInv, TypeOK, StoreTypeOK
  <2>2. Located'
    BY DEF TypeInv, Located
  <2> QED
    BY <2>1, <2>2 DEF TypeInv, TypeOK
<1> QED
  BY <1>1, <1>2, <1>3, QuietStepTypeInv, DeliverTypeInv, CloseTypeInv,
     RestApiTypeInv DEF Next

(* Type correctness: every variable of the hub stays in its type, for any  *)
(* number of channels, objects, agents, requests and webhooks.             *)
THEOREM TypeCorrect == Spec => []TypeOK
<1>1. Spec => []TypeInv
  BY InitTypeInv, NextTypeInv, PTL DEF Spec
<1>2. TypeInv => TypeOK
  BY DEF TypeInv
<1> QED
  BY <1>1, <1>2, PTL

-----------------------------------------------------------------------------
(***************************************************************************)
(* The fan-out.  FanOutPartition and NoEcho speak of a request's locals;   *)
(* what makes them inductive is that a request whose fan-out has not begun *)
(* has none yet.                                                           *)
(***************************************************************************)
Unstarted ==
    {"idle", "scheduled", "announced", "saved", "dropped", "rejected", "unsent"}

Split(r) ==
    /\ sendable[r] = Answered(r) \cup todo[r] \cup ({cur[r]} \ {NoAgent})
    /\ todo[r] \cap Answered(r) = {}
    /\ cur[r] \notin todo[r] \cup Answered(r)
    /\ pc[r] = "sending" => cur[r] # NoAgent
    /\ pc[r] = "pausing" => cur[r] = NoAgent /\ todo[r] # {}
    /\ pc[r] \in {"emitting", "done", "cut"} => sendable[r] = Answered(r)

Apart(r) ==
    /\ call[r].sender \notin sendable[r] \cup notifying[r]
    /\ sendable[r] \cap notifying[r] = {}
    /\ call[r].rcpt # NoAgent => sendable[r] \subseteq {call[r].rcpt}

NotBegun(r) ==
    pc[r] \in Unstarted => sendable[r] = {} /\ notifying[r] = {} /\ replies[r] = <<>>

FanOutSt(r) == Split(r) /\ Apart(r) /\ NotBegun(r)
FanOutInv == \A r \in Requests : FanOutSt(r)

fanOutVars == <<pc, call, sendable, cur, todo, outcome, replies, notifying>>

LEMMA InitFanOutInv == Init => FanOutInv
BY StoreAssumption DEF Init, FanOutInv, FanOutSt, Split, Apart, NotBegun, Answered, NoCall

(* A request is not affected by what leaves its own locals alone. *)
LEMMA FanOutFrame ==
    ASSUME NEW s \in Requests, FanOutSt(s),
           pc'[s] = pc[s], call'[s] = call[s], sendable'[s] = sendable[s],
           cur'[s] = cur[s], todo'[s] = todo[s], outcome'[s] = outcome[s],
           replies'[s] = replies[s], notifying'[s] = notifying[s]
    PROVE  FanOutSt(s)'
BY DEF FanOutSt, Split, Apart, NotBegun, Answered

(* Nor by a step that only ends it early. *)
LEMMA FanOutEndsEarly ==
    ASSUME NEW s \in Requests, FanOutSt(s),
           pc'[s] = "cancelled", call'[s] = call[s], sendable'[s] = sendable[s],
           cur'[s] = cur[s], todo'[s] = todo[s], outcome'[s] = outcome[s],
           replies'[s] = replies[s], notifying'[s] = notifying[s]
    PROVE  FanOutSt(s)'
BY DEF FanOutSt, Split, Apart, NotBegun, Answered, Unstarted

(* A request whose fan-out has not begun stays so while only its place     *)
(* and its parameters change.                                              *)
LEMMA FanOutNotBegun ==
    ASSUME NEW s \in Requests, FanOutSt(s), pc[s] \in Unstarted,
           pc'[s] \in Unstarted, sendable'[s] = sendable[s],
           cur'[s] = cur[s], todo'[s] = todo[s], outcome'[s] = outcome[s],
           replies'[s] = replies[s], notifying'[s] = notifying[s]
    PROVE  FanOutSt(s)'
BY DEF FanOutSt, Split, Apart, NotBegun, Answered, Unstarted

(* The beginning of a fan-out: peers and observers are told apart by their *)
(* role, and the sender is in neither group.                               *)
LEMMA FanOutBegins ==
    ASSUME TypeInv, NEW r \in Requests, FanOutSt(r), pc[r] \in Unstarted,
           NEW p \in Call, NEW o \in Objects, FanOut(r, p, o), call'[r] = p
    PROVE  FanOutSt(r)'
<1> DEFINE targets == {a \in SendablePeers(o, p.sender) :
                          p.rcpt = NoAgent \/ a = p.rcpt}
           watchers == Observers(o) \ {p.sender}
<1>1. /\ targets \subseteq Agents
      /\ p.sender \notin targets \cup watchers
      /\ targets \cap watchers = {}
      /\ p.rcpt # NoAgent => targets \subseteq {p.rcpt}
  BY DEF SendablePeers, Observers, CanReceive
<1>2. /\ sendable'[r] = targets
      /\ notifying'[r] = watchers
      /\ outcome'[r] = outcome[r]
  BY DEF FanOut, TypeInv, TypeOK
<1>3. \/ /\ targets = {}
         /\ pc'[r] = "done"
         /\ cur'[r] = cur[r] /\ todo'[r] = todo[r]
      \/ \E a \in targets :
            /\ pc'[r] = "sending"
            /\ cur'[r] = a
            /\ todo'[r] = targets \ {a}
  BY DEF FanOut, TypeInv, TypeOK
<1> HIDE DEF targets, watchers
<1>4. Answered(r) = {} /\ todo[r] = {} /\ cur[r] = NoAgent
  BY DEF FanOutSt, Split, NotBegun, Unstarted
<1>5. Answered(r)' = {}
  BY <1>2, <1>4 DEF Answered
<1>6. Split(r)'
  BY <1>1, <1>2, <1>3, <1>4, <1>5, StoreAssumption DEF Split
<1>7. Apart(r)'
  BY <1>1, <1>2 DEF Apart
<1>8. NotBegun(r)'
  BY <1>3 DEF NotBegun, Unstarted
<1> QED
  BY <1>6, <1>7, <1>8 DEF FanOutSt

(* ... and it leaves the other requests alone. *)
LEMMA FanOutKeepsOthers ==
    ASSUME TypeInv, NEW r \in Requests, NEW p, NEW o, FanOut(r, p, o),
           NEW s \in Requests \ {r}, call'[s] = call[s], FanOutSt(s)
    PROVE  FanOutSt(s)'
<1>1. /\ pc'[s] = pc[s] /\ sendable'[s] = sendable[s] /\ cur'[s] = cur[s]
      /\ todo'[s] = todo[s] /\ outcome'[s] = outcome[s]
      /\ replies'[s] = replies[s] /\ notifying'[s] = notifying[s]
  BY DEF FanOut, TypeInv, TypeOK
<1> QED
  BY <1>1, FanOutFrame

LEMMA ArrivalFanOutInv ==
    ASSUME TypeInv, FanOutInv, NEW r \in Requests, Arrival(r)
    PROVE  FanOutInv'
<1> SUFFICES ASSUME NEW s \in Requests PROVE FanOutSt(s)'
  BY DEF FanOutInv
<1>1. FanOutSt(s) /\ FanOutSt(r)
  BY DEF FanOutInv
<1>2. ASSUME NEW mode \in Modes, NEW p \in Params(mode), OnMessageSend(r, p),
             ~FailUnsent(r)
      PROVE  FanOutSt(s)'
  <2>1. /\ FanOut(r, p, Resolve(p))
        /\ pc[r] = "idle"
        /\ call' = [call EXCEPT ![r] = p]
        /\ Resolve(p) # NoObject
    BY <1>2 DEF OnMessageSend, Accepts, Arrives
  <2>2. p \in Call /\ Resolve(p) \in Objects
    BY <2>1, ParamsAreCalls, ResolvesToLive
  <2>3. CASE s = r
    BY <1>1, <2>1, <2>2, <2>3, FanOutBegins DEF TypeInv, TypeOK, Unstarted
  <2>4. CASE s # r
    BY <1>1, <2>1, <2>4, FanOutKeepsOthers DEF TypeInv, TypeOK
  <2> QED
    BY <2>3, <2>4
<1>3. ASSUME NEW p, NEW body,
             \/ Refuse(r, p) \/ SendAsync(r, p, body) \/ OnMessageSendStream(r, p)
             \/ OnMessageSend(r, p) /\ FailUnsent(r)
      PROVE  FanOutSt(s)'
  <2>1. /\ pc[r] = "idle"
        /\ call' = [call EXCEPT ![r] = p]
        /\ \E x \in Unstarted : pc' = [pc EXCEPT ![r] = x]
        /\ UNCHANGED <<sendable, cur, todo, outcome, replies, notifying>>
    BY <1>3 DEF Refuse, OnMessageSend, SendAsync, OnMessageSendStream, FailUnsent,
                Accepts, Arrives, Unstarted, localVars
  <2>2. CASE s = r
    BY <1>1, <2>1, <2>2, FanOutNotBegun DEF TypeInv, TypeOK, Unstarted
  <2>3. CASE s # r
    BY <1>1, <2>1, <2>3, FanOutFrame DEF TypeInv, TypeOK
  <2> QED
    BY <2>2, <2>3
<1>4. ASSUME NEW mode, NEW p \in Params(mode), OnMessageSend(r, p)
      PROVE  mode = "blocking" => mode \in Modes
  BY <1>4 DEF OnMessageSend, Accepts, Arrives
<1> QED
  BY <1>2, <1>3, <1>4 DEF Arrival

(* An answer moves the awaited agent to the answered ones. *)
LEMMA AnswerFanOutInv ==
    ASSUME TypeInv, FanOutInv, NEW r \in Requests, NEW out \in Outcomes,
           \/ AgentAnswers(r, out)
           \/ LastAgentAnswers(r, out)
           \/ LastAgentAnswersStream(r, out)
    PROVE  FanOutInv'
<1> SUFFICES ASSUME NEW s \in Requests PROVE FanOutSt(s)'
  BY DEF FanOutInv
<1>1. FanOutSt(s) /\ FanOutSt(r)
  BY DEF FanOutInv
<1>2. Collect(r, out) /\ UNCHANGED <<call, sendable, notifying>>
  BY DEF AgentAnswers, LastAgentAnswers, LastAgentAnswersStream
<1>3. cur[r] \in Agents /\ pc[r] = "sending"
  BY <1>2, CollectType
<1>4. \/ /\ todo[r] # {}
         /\ pc' = [pc EXCEPT ![r] = "pausing"]
         /\ cur' = [cur EXCEPT ![r] = NoAgent]
         /\ todo' = todo
      \/ \E a \in todo[r] :
            /\ cur' = [cur EXCEPT ![r] = a]
            /\ todo' = [todo EXCEPT ![r] = @ \ {a}]
            /\ pc' = pc
      \/ \E x \in {"done", "cut", "emitting"} :
            /\ todo[r] = {}
            /\ pc' = [pc EXCEPT ![r] = x]
            /\ cur' = [cur EXCEPT ![r] = NoAgent]
            /\ todo' = todo
  BY DEF AgentAnswers, LastAgentAnswers, LastAgentAnswersStream, SaveReplies
<1>5. CASE s # r
  <2>1. /\ pc'[s] = pc[s] /\ cur'[s] = cur[s] /\ todo'[s] = todo[s]
        /\ outcome'[s] = outcome[s] /\ replies'[s] = replies[s]
    BY <1>2, <1>4, <1>5 DEF Collect, TypeInv, TypeOK
  <2> QED
    BY <1>1, <1>2, <2>1, FanOutFrame
<1>6. CASE s = r
  <2>1. Answered(r)' = Answered(r) \cup {cur[r]}
    <3>1. out # "none"
      BY HubAssumption
    <3>2. \A a \in Agents : outcome'[r][a] = IF a = cur[r] THEN out ELSE outcome[r][a]
      BY <1>2, <1>3 DEF Collect, TypeInv, TypeOK
    <3> QED
      BY <1>3, <3>1, <3>2 DEF Answered
  <2>2. /\ sendable[r] = Answered(r) \cup todo[r] \cup {cur[r]}
        /\ todo[r] \cap Answered(r) = {}
        /\ cur[r] \notin todo[r] \cup Answered(r)
        /\ todo[r] \subseteq Agents
    BY <1>1, <1>3, StoreAssumption DEF FanOutSt, Split, TypeInv, TypeOK
  <2>3. \/ /\ todo[r] # {}
           /\ pc'[r] = "pausing" /\ cur'[r] = NoAgent /\ todo'[r] = todo[r]
        \/ /\ pc'[r] = "sending" /\ cur'[r] \in todo[r]
           /\ todo'[r] = todo[r] \ {cur'[r]}
        \/ /\ pc'[r] \in {"done", "cut", "emitting"}
           /\ todo[r] = {} /\ cur'[r] = NoAgent /\ todo'[r] = todo[r]
    BY <1>3, <1>4 DEF TypeInv, TypeOK
  <2>4. Split(r)'
    <3>1. sendable'[r] = sendable[r]
      BY <1>2
    <3>2. NoAgent \notin todo[r] \cup Answered(r) \cup {cur[r]}
      BY <1>3, <2>2, StoreAssumption DEF Answered
    <3>3. CASE pc'[r] = "pausing"
      BY <2>1, <2>2, <2>3, <3>1, <3>2, <3>3 DEF Split
    <3>4. CASE pc'[r] = "sending"
      BY <2>1, <2>2, <2>3, <3>1, <3>2, <3>4 DEF Split
    <3>5. CASE pc'[r] \in {"done", "cut", "emitting"}
      BY <2>1, <2>2, <2>3, <3>1, <3>2, <3>5 DEF Split
    <3> QED
      BY <2>3, <3>3, <3>4, <3>5
  <2>5. Apart(r)'
    BY <1>1, <1>2 DEF FanOutSt, Apart
  <2>6. NotBegun(r)'
    BY <2>3 DEF NotBegun, Unstarted
  <2> QED
    BY <1>6, <2>4, <2>5, <2>6 DEF FanOutSt
<1> QED
  BY <1>5, <1>6

LEMMA PauseOverFanOutInv ==
    ASSUME TypeInv, FanOutInv, NEW r \in Requests, PauseOver(r)
    PROVE  FanOutInv'
<1> SUFFICES ASSUME NEW s \in Requests PROVE FanOutSt(s)'
  BY DEF FanOutInv
<1>1. FanOutSt(s) /\ FanOutSt(r)
  BY DEF FanOutInv
<1>2. UNCHANGED <<call, sendable, outcome, replies, notifying>>
  BY DEF PauseOver
<1>3. PICK a \in todo[r] : /\ pc' = [pc EXCEPT ![r] = "sending"]
                           /\ cur' = [cur EXCEPT ![r] = a]
                           /\ todo' = [todo EXCEPT ![r] = @ \ {a}]
  BY DEF PauseOver
<1>4. CASE s # r
  BY <1>1, <1>2, <1>3, <1>4, FanOutFrame DEF TypeInv, TypeOK
<1>5. CASE s = r
  <2>1. /\ pc'[r] = "sending" /\ cur'[r] = a /\ todo'[r] = todo[r] \ {a}
        /\ a \in Agents /\ cur[r] = NoAgent
    BY <1>1, <1>3 DEF TypeInv, TypeOK, PauseOver, FanOutSt, Split
  <2>2. Answered(r)' = Answered(r)
    BY <1>2 DEF Answered
  <2>3. Split(r)'
    BY <1>1, <1>2, <1>3, <2>1, <2>2, StoreAssumption DEF FanOutSt, Split
  <2>4. Apart(r)' /\ NotBegun(r)'
    BY <1>1, <1>2, <2>1 DEF FanOutSt, Apart, NotBegun, Unstarted
  <2> QED
    BY <1>5, <2>3, <2>4 DEF FanOutSt
<1> QED
  BY <1>4, <1>5

LEMMA ProgressFanOutInv ==
    ASSUME TypeInv, FanOutInv, NEW r \in Requests, Progress(r)
    PROVE  FanOutInv'
<1> SUFFICES ASSUME NEW s \in Requests PROVE FanOutSt(s)'
  BY AnswerFanOutInv, PauseOverFanOutInv DEF FanOutInv
<1>1. FanOutSt(s) /\ FanOutSt(r)
  BY DEF FanOutInv
<1>2. ASSUME NEW o \in Objects, FanOut(r, call[r], o), pc[r] \in Unstarted,
             call' = call
      PROVE  FanOutSt(s)'
  <2>1. call[r] \in Call
    BY DEF TypeInv, TypeOK
  <2>2. CASE s = r
    BY <1>1, <1>2, <2>1, <2>2, FanOutBegins
  <2>3. CASE s # r
    BY <1>1, <1>2, <2>3, FanOutKeepsOthers
  <2> QED
    BY <2>2, <2>3
<1>3. CASE DispatchStart(r)
  <2>1. CASE Resolve(call[r]) = NoObject
    <3>1. /\ pc[r] = "scheduled" /\ pc' = [pc EXCEPT ![r] = "dropped"]
          /\ UNCHANGED <<call, sendable, cur, todo, outcome, replies, notifying>>
      BY <1>3, <2>1 DEF DispatchStart, localVars
    <3>2. CASE s = r
      BY <1>1, <3>1, <3>2, FanOutNotBegun DEF TypeInv, TypeOK, Unstarted
    <3>3. CASE s # r
      BY <1>1, <3>1, <3>3, FanOutFrame DEF TypeInv, TypeOK
    <3> QED
      BY <3>2, <3>3
  <2>2. CASE Resolve(call[r]) # NoObject
    <3>1. Resolve(call[r]) \in Objects
      BY <2>2, ResolvesToLive DEF TypeInv, TypeOK
    <3>2. /\ FanOut(r, call[r], Resolve(call[r]))
          /\ pc[r] \in Unstarted
          /\ call' = call
      BY <1>3, <2>2 DEF DispatchStart, Unstarted
    <3> QED
      BY <1>2, <3>1, <3>2
  <2> QED
    BY <2>1, <2>2
<1>4. CASE StreamFanOut(r)
  <2>1. /\ FanOut(r, call[r], obj[r])
        /\ pc[r] \in Unstarted
        /\ call' = call
        /\ obj[r] \in Objects
    BY <1>4 DEF StreamFanOut, Unstarted, TypeInv, Located, Holding
  <2> QED
    BY <1>2, <2>1
<1>5. CASE StreamEmit(r)
  BY <1>1, <1>5, FanOutFrame DEF StreamEmit, localVars
<1>6. CASE StreamFinish(r)
  <2>1. /\ pc[r] = "emitting" /\ pc' = [pc EXCEPT ![r] = "done"]
        /\ UNCHANGED <<call, sendable, cur, todo, outcome, replies, notifying>>
    BY <1>6 DEF StreamFinish, localVars
  <2>2. CASE s = r
    BY <1>1, <2>1, <2>2
       DEF TypeInv, TypeOK, FanOutSt, Split, Apart, NotBegun, Answered, Unstarted
  <2>3. CASE s # r
    BY <1>1, <2>1, <2>3, FanOutFrame DEF TypeInv, TypeOK
  <2> QED
    BY <2>2, <2>3
<1>7. CASE PauseOver(r) \/ \E out \in Outcomes : \/ AgentAnswers(r, out)
                                                \/ LastAgentAnswers(r, out)
                                                \/ LastAgentAnswersStream(r, out)
  BY <1>7, AnswerFanOutInv, PauseOverFanOutInv DEF FanOutInv
<1> QED
  BY <1>3, <1>4, <1>5, <1>6, <1>7 DEF Progress

(* Disconnecting and closing end a request; the rest touches no locals but *)
(* the observers still to be notified, whose number shrinks.               *)
LEMMA OtherFanOutInv ==
    ASSUME TypeInv, FanOutInv,
           \/ \E r \in Requests : \/ StreamDisconnect(r)
                                  \/ DispatchDone(r)
                                  \/ \E a \in Agents : ObserverNotified(r, a)
                                  \/ OnCancelTask(r)
           \/ \E m \in Post : Deliver(m)
           \/ Close
           \/ RestApi
           \/ UNCHANGED vars
    PROVE  FanOutInv'
<1> SUFFICES ASSUME NEW s \in Requests PROVE FanOutSt(s)'
  BY DEF FanOutInv
<1>1. FanOutSt(s)
  BY DEF FanOutInv
<1>2. CASE UNCHANGED fanOutVars
  BY <1>1, <1>2, FanOutFrame DEF fanOutVars
<1>3. ASSUME NEW r \in Requests, NEW a \in Agents, ObserverNotified(r, a)
      PROVE  FanOutSt(s)'
  <2>1. /\ notifying'[s] \subseteq notifying[s]
        /\ UNCHANGED <<pc, call, sendable, cur, todo, outcome, replies>>
    BY <1>3 DEF ObserverNotified, TypeInv, TypeOK
  <2> QED
    BY <1>1, <2>1 DEF FanOutSt, Split, Apart, NotBegun, Answered
<1>4. CASE Close \/ \E r \in Requests : StreamDisconnect(r)
  <2>1. /\ pc'[s] = pc[s] \/ pc'[s] = "cancelled"
        /\ UNCHANGED <<call, sendable, cur, todo, outcome, replies, notifying>>
    BY <1>4 DEF Close, StreamDisconnect, localVars, TypeInv, TypeOK
  <2> QED
    BY <1>1, <2>1, FanOutFrame, FanOutEndsEarly
<1>5. CASE \/ \E r \in Requests : DispatchDone(r) \/ OnCancelTask(r)
           \/ \E m \in Post : Deliver(m)
           \/ RestApi
           \/ UNCHANGED vars
  BY <1>2, <1>5
     DEF DispatchDone, OnCancelTask, Deliver, RestApi, vars, localVars, fanOutVars
<1> QED
  BY <1>3, <1>4, <1>5

LEMMA NextFanOutInv == TypeInv /\ FanOutInv /\ [Next]_vars => FanOutInv'
BY ArrivalFanOutInv, ProgressFanOutInv, OtherFanOutInv DEF Next

LEMMA FanOutInvariant == Spec => [](TypeInv /\ FanOutInv)
<1>1. Init => TypeInv /\ FanOutInv
  BY InitTypeInv, InitFanOutInv
<1>2. TypeInv /\ FanOutInv /\ [Next]_vars => (TypeInv /\ FanOutInv)'
  BY NextTypeInv, NextFanOutInv
<1> QED
  BY <1>1, <1>2, PTL DEF Spec

(* A fan-out skips nobody and calls nobody twice, whatever the REST API    *)
(* does to the channel while it is suspended between two calls.            *)
THEOREM FanOutPartitions == Spec => []FanOutPartition
<1>1. FanOutInv => FanOutPartition
  BY DEF FanOutInv, FanOutSt, Split, FanOutPartition
<1> QED
  BY <1>1, FanOutInvariant, PTL

(* No message returns to its sender, reaches an agent twice, or, directed, *)
(* reaches a peer it does not name.                                        *)
THEOREM NeverEchoes == Spec => []NoEcho
<1>1. FanOutInv => NoEcho
  BY DEF FanOutInv, FanOutSt, Apart, NoEcho
<1> QED
  BY <1>1, FanOutInvariant, PTL

-----------------------------------------------------------------------------
(***************************************************************************)
(* The life of a request: where the task set, the kept Task and shutdown   *)
(* stand in each of its states.  Only streams are announced or emit.       *)
(***************************************************************************)
LifeSt(r) ==
    /\ call[r].mode = "async" /\ pc[r] \in Suspended => r \in background
    /\ closed => pc[r] \notin Suspended
    /\ tasks[r] # "none" <=> pc[r] = "done" /\ call[r].mode = "blocking"
    /\ pc[r] \in {"announced", "emitting"} => call[r].mode = "stream"

LifeInv == \A r \in Requests : LifeSt(r)

LEMMA InitLifeInv == Init => LifeInv
BY DEF Init, LifeInv, LifeSt, NoCall, Suspended

LEMMA LifeFrame ==
    ASSUME NEW s \in Requests, LifeSt(s),
           pc'[s] = pc[s], call'[s] = call[s], tasks'[s] = tasks[s],
           s \in background => s \in background', closed' = closed
    PROVE  LifeSt(s)'
BY DEF LifeSt

LEMMA FanOutLife ==
    ASSUME TypeInv, NEW r \in Requests, NEW p, NEW o, FanOut(r, p, o)
    PROVE  /\ \/ pc' = [pc EXCEPT ![r] = "done"]
                /\ tasks' = IF p.mode = "blocking"
                            THEN [tasks EXCEPT ![r] = "completed"] ELSE tasks
              \/ pc' = [pc EXCEPT ![r] = "sending"] /\ tasks' = tasks
           /\ UNCHANGED <<outcome, replies>>
BY DEF FanOut, Complete

LEMMA ArrivalLifeInv ==
    ASSUME TypeInv, LifeInv, NEW r \in Requests, Arrival(r)
    PROVE  LifeInv'
<1> SUFFICES ASSUME NEW s \in Requests PROVE LifeSt(s)'
  BY DEF LifeInv
<1>1. LifeSt(s) /\ LifeSt(r)
  BY DEF LifeInv
<1>2. PICK p \in Call :
        /\ ~closed /\ closed' = closed
        /\ pc[r] = "idle" /\ call' = [call EXCEPT ![r] = p]
        /\ \/ /\ pc' = [pc EXCEPT ![r] = "rejected"]
              /\ UNCHANGED <<tasks, background>>
           \/ /\ p.mode = "blocking"
              /\ FanOut(r, p, Resolve(p)) \/ FailUnsent(r)
              /\ UNCHANGED background
           \/ /\ p.mode = "async"
              /\ \/ /\ \E x \in {"saved", "unsent"} : pc' = [pc EXCEPT ![r] = x]
                    /\ UNCHANGED background
                 \/ /\ pc' = [pc EXCEPT ![r] = "scheduled"]
                    /\ background' = background \cup {r}
              /\ UNCHANGED tasks
           \/ /\ p.mode = "stream"
              /\ pc' = [pc EXCEPT ![r] = "announced"]
              /\ UNCHANGED <<tasks, background>>
  <2>1. ASSUME NEW p, Refuse(r, p)
        PROVE  /\ p \in Call
               /\ ~closed /\ closed' = closed
               /\ pc[r] = "idle" /\ call' = [call EXCEPT ![r] = p]
               /\ pc' = [pc EXCEPT ![r] = "rejected"]
               /\ UNCHANGED <<tasks, background>>
    BY <2>1, ParamsAreCalls DEF Refuse, Arrives, hubVars
  <2>2. ASSUME NEW p, OnMessageSend(r, p)
        PROVE  /\ p \in Call
               /\ p.mode = "blocking"
               /\ ~closed /\ closed' = closed
               /\ pc[r] = "idle" /\ call' = [call EXCEPT ![r] = p]
               /\ FanOut(r, p, Resolve(p)) \/ FailUnsent(r)
               /\ UNCHANGED background
    BY <2>2, ParamsAreCalls DEF OnMessageSend, Accepts, Arrives
  <2>3. ASSUME NEW p, NEW body, SendAsync(r, p, body)
        PROVE  /\ p \in Call
               /\ p.mode = "async"
               /\ ~closed /\ closed' = closed
               /\ pc[r] = "idle" /\ call' = [call EXCEPT ![r] = p]
               /\ \/ /\ \E x \in {"saved", "unsent"} : pc' = [pc EXCEPT ![r] = x]
                     /\ UNCHANGED background
                  \/ /\ pc' = [pc EXCEPT ![r] = "scheduled"]
                     /\ background' = background \cup {r}
               /\ UNCHANGED tasks
    BY <2>3, ParamsAreCalls DEF SendAsync, FailUnsent, Accepts, Arrives
  <2>4. ASSUME NEW p, OnMessageSendStream(r, p)
        PROVE  /\ p \in Call
               /\ p.mode = "stream"
               /\ ~closed /\ closed' = closed
               /\ pc[r] = "idle" /\ call' = [call EXCEPT ![r] = p]
               /\ pc' = [pc EXCEPT ![r] = "announced"]
               /\ UNCHANGED <<tasks, background>>
    BY <2>4, ParamsAreCalls DEF OnMessageSendStream, Accepts, Arrives, hubVars
  <2>5. CASE \E mode \in Modes : \E p \in Params(mode) : Refuse(r, p)
    BY <2>1, <2>5
  <2>6. CASE \E p \in Params("blocking") : OnMessageSend(r, p)
    BY <2>2, <2>6
  <2>7. CASE \E p \in Params("async"), body \in Senders : SendAsync(r, p, body)
    BY <2>3, <2>7
  <2>8. CASE \E p \in Params("stream") : OnMessageSendStream(r, p)
    BY <2>4, <2>8
  <2> QED
    BY <2>5, <2>6, <2>7, <2>8 DEF Arrival
<1>3. CASE s # r
  <2>1. /\ pc'[s] = pc[s] /\ call'[s] = call[s] /\ tasks'[s] = tasks[s]
        /\ s \in background => s \in background'
    BY <1>2, <1>3, FanOutLife DEF FailUnsent, TypeInv, TypeOK
  <2> QED
    BY <1>1, <1>2, <2>1, LifeFrame
<1>4. CASE s = r
  <2>1. /\ call'[r] = p /\ tasks[r] = "none" /\ closed' = FALSE
    BY <1>1, <1>2 DEF TypeInv, TypeOK, LifeSt
  <2>2. CASE p.mode = "blocking" /\ FanOut(r, p, Resolve(p))
    <3>1. \/ pc'[r] = "done" /\ tasks'[r] = "completed"
          \/ pc'[r] = "sending" /\ tasks'[r] = "none"
      BY <1>2, <2>1, <2>2, FanOutLife DEF TypeInv, TypeOK
    <3> QED
      BY <1>2, <1>4, <2>1, <2>2, <3>1 DEF LifeSt
  <2>3. CASE ~(p.mode = "blocking" /\ FanOut(r, p, Resolve(p)))
    <3>1. /\ tasks'[r] = "none"
          /\ pc'[r] \in {"rejected", "saved", "unsent", "scheduled", "announced"}
          /\ pc'[r] = "scheduled" => r \in background' /\ p.mode = "async"
          /\ pc'[r] = "announced" => p.mode = "stream"
      BY <1>2, <2>1, <2>3 DEF FailUnsent, TypeInv, TypeOK
    <3> QED
      BY <1>2, <1>4, <2>1, <3>1 DEF LifeSt, Suspended
  <2> QED
    BY <2>2, <2>3
<1> QED
  BY <1>3, <1>4

LEMMA ProgressLifeInv ==
    ASSUME TypeInv, LifeInv, NEW r \in Requests, Progress(r)
    PROVE  LifeInv'
<1> SUFFICES ASSUME NEW s \in Requests PROVE LifeSt(s)'
  BY DEF LifeInv
<1>1. LifeSt(s) /\ LifeSt(r)
  BY DEF LifeInv
<1>2. UNCHANGED <<call, background, closed>>
  BY DEF Progress, DispatchStart, StreamFanOut, AgentAnswers, LastAgentAnswers,
         LastAgentAnswersStream, PauseOver, StreamEmit, StreamFinish, hubVars
<1>3. pc[r] \in Suspended
  BY DEF Progress, DispatchStart, StreamFanOut, AgentAnswers, LastAgentAnswers,
         LastAgentAnswersStream, Collect, PauseOver, StreamEmit, StreamFinish,
         Suspended
<1>4. \/ /\ \E x \in {"dropped", "pausing", "sending", "cut"} :
               pc' = [pc EXCEPT ![r] = x]
         /\ tasks' = tasks
      \/ /\ pc' = [pc EXCEPT ![r] = "done"]
         /\ tasks' = IF call[r].mode = "blocking"
                     THEN [tasks EXCEPT ![r] = "completed"] ELSE tasks
      \/ /\ call[r].mode = "stream"
         /\ pc' = [pc EXCEPT ![r] = "emitting"]
         /\ tasks' = tasks
  <2>1. CASE DispatchStart(r) \/ StreamFanOut(r)
    BY <2>1, FanOutLife DEF DispatchStart, StreamFanOut
  <2>2. CASE \E out \in Outcomes : \/ AgentAnswers(r, out)
                                  \/ LastAgentAnswers(r, out)
                                  \/ LastAgentAnswersStream(r, out)
    <3>1. ASSUME NEW out \in Outcomes, AgentAnswers(r, out)
          PROVE  /\ \E x \in {"pausing", "sending"} : pc' = [pc EXCEPT ![r] = x]
                 /\ tasks' = tasks
      BY <3>1 DEF AgentAnswers, Collect, TypeInv, TypeOK, hubVars
    <3> QED
      BY <2>2, <3>1 DEF LastAgentAnswers, SaveReplies, LastAgentAnswersStream,
                        Complete, hubVars
  <2>3. CASE PauseOver(r)
    BY <2>3 DEF PauseOver, hubVars
  <2>4. CASE StreamEmit(r)
    BY <1>1, <2>4 DEF StreamEmit, TypeInv, TypeOK, LifeSt, hubVars
  <2>5. CASE StreamFinish(r)
    BY <1>1, <2>5 DEF StreamFinish, Complete, LifeSt
  <2> QED
    BY <2>1, <2>2, <2>3, <2>4, <2>5 DEF Progress
<1>5. CASE s # r
  <2>1. pc'[s] = pc[s] /\ tasks'[s] = tasks[s]
    BY <1>4, <1>5 DEF TypeInv, TypeOK
  <2> QED
    BY <1>1, <1>2, <2>1, LifeFrame
<1>6. CASE s = r
  <2>1. tasks[r] = "none" /\ closed = FALSE
    BY <1>1, <1>3 DEF LifeSt, Suspended, TypeInv, TypeOK
  <2>2. \/ pc'[r] \in {"dropped", "pausing", "sending", "cut"} /\ tasks'[r] = "none"
        \/ /\ pc'[r] = "done"
           /\ tasks'[r] # "none" <=> call[r].mode = "blocking"
        \/ call[r].mode = "stream" /\ pc'[r] = "emitting" /\ tasks'[r] = "none"
    BY <1>4, <2>1 DEF TypeInv, TypeOK
  <2> QED
    BY <1>1, <1>2, <1>3, <1>6, <2>1, <2>2 DEF LifeSt
<1> QED
  BY <1>5, <1>6

LEMMA OtherLifeInv ==
    ASSUME TypeInv, LifeInv,
           \/ \E r \in Requests : \/ StreamDisconnect(r)
                                  \/ DispatchDone(r)
                                  \/ \E a \in Agents : ObserverNotified(r, a)
                                  \/ OnCancelTask(r)
           \/ \E m \in Post : Deliver(m)
           \/ Close
           \/ RestApi
           \/ UNCHANGED vars
    PROVE  LifeInv'
<1> SUFFICES ASSUME NEW s \in Requests PROVE LifeSt(s)'
  BY DEF LifeInv
<1>1. LifeSt(s)
  BY DEF LifeInv
<1>2. ASSUME NEW r \in Requests, StreamDisconnect(r)
      PROVE  LifeSt(s)'
  <2>1. /\ \/ pc'[s] = pc[s]
           \/ pc'[s] = "cancelled" /\ pc[s] \in Suspended
        /\ UNCHANGED <<call, tasks, background, closed>>
    BY <1>2 DEF StreamDisconnect, TypeInv, TypeOK, hubVars
  <2> QED
    BY <1>1, <2>1 DEF LifeSt, Suspended
<1>3. ASSUME NEW r \in Requests, DispatchDone(r)
      PROVE  LifeSt(s)'
  BY <1>1, <1>3 DEF DispatchDone, LifeSt, Suspended, Ended
<1>4. ASSUME NEW r \in Requests, OnCancelTask(r)
      PROVE  LifeSt(s)'
  BY <1>1, <1>4 DEF OnCancelTask, LifeSt, TypeInv, TypeOK
<1>5. CASE Close
  <2>1. /\ pc'[s] = IF s \in background /\ pc[s] \in Suspended
                    THEN "cancelled" ELSE pc[s]
        /\ pc[s] \in Suspended => call[s].mode = "async"
        /\ UNCHANGED <<call, tasks, background>>
    BY <1>5 DEF Close
  <2> QED
    BY <1>1, <2>1 DEF LifeSt, Suspended
<1>6. CASE \/ \E r \in Requests, a \in Agents : ObserverNotified(r, a)
           \/ \E m \in Post : Deliver(m)
           \/ RestApi
           \/ UNCHANGED vars
  BY <1>1, <1>6, LifeFrame DEF ObserverNotified, Deliver, RestApi, vars, hubVars
<1> QED
  BY <1>2, <1>3, <1>4, <1>5, <1>6

LEMMA LifeInvariant == Spec => []LifeInv
<1>1. TypeInv /\ LifeInv /\ [Next]_vars => (TypeInv /\ LifeInv)'
  BY NextTypeInv, ArrivalLifeInv, ProgressLifeInv, OtherLifeInv DEF Next
<1>2. Init => TypeInv /\ LifeInv
  BY InitTypeInv, InitLifeInv
<1> QED
  BY <1>1, <1>2, PTL DEF Spec

(* close reaches every dispatch, and after it nothing is in flight. *)
THEOREM CloseQuiets == Spec => []ClosedIsQuiet
<1>1. LifeInv => ClosedIsQuiet
  BY DEF LifeInv, LifeSt, ClosedIsQuiet
<1> QED
  BY <1>1, LifeInvariant, PTL

(* A Task can be canceled only when there is nothing left to cancel. *)
THEOREM TasksFollowBroadcasts == Spec => []TasksComeLate
<1>1. LifeInv => TasksComeLate
  BY DEF LifeInv, LifeSt, TasksComeLate
<1> QED
  BY <1>1, LifeInvariant, PTL

-----------------------------------------------------------------------------
(* The list of results a handler saves or emits.                           *)
KeptSt(r) ==
    /\ \A i, j \in DOMAIN replies[r] : replies[r][i] = replies[r][j] => i = j
    /\ \A a \in Agents : Occurs(a, replies[r]) <=> a \in KeptAnswers(r)

(* The awaited agent has no outcome yet, so recording its outcome lists it *)
(* once, if it is kept, and no other agent.                                *)
LEMMA CollectKeeps ==
    ASSUME TypeInv, NEW r \in Requests, FanOutSt(r), KeptSt(r),
           NEW out \in Outcomes, Collect(r, out), call' = call
    PROVE  KeptSt(r)'
<1> DEFINE keep == Kept(call[r].mode, out)
<1>1. /\ cur[r] \in Agents
      /\ cur[r] \notin Answered(r)
      /\ replies[r] \in Seq(Agents)
  BY CollectType DEF FanOutSt, Split, TypeInv, TypeOK
<1>2. /\ \A a \in Agents : outcome'[r][a] = IF a = cur[r] THEN out ELSE outcome[r][a]
      /\ replies'[r] = IF keep THEN Append(replies[r], cur[r]) ELSE replies[r]
  BY <1>1 DEF Collect, TypeInv, TypeOK
<1>3. out # "none"
  BY HubAssumption
<1>4. \A a \in Agents :
        a \in KeptAnswers(r)' <=> a \in KeptAnswers(r) \/ (a = cur[r] /\ keep)
  <2> SUFFICES ASSUME NEW a \in Agents
               PROVE  a \in KeptAnswers(r)' <=>
                        a \in KeptAnswers(r) \/ (a = cur[r] /\ keep)
    OBVIOUS
  <2>1. CASE a = cur[r]
    BY <1>1, <1>2, <1>3, <2>1 DEF KeptAnswers, Answered
  <2>2. CASE a # cur[r]
    BY <1>2, <2>2 DEF KeptAnswers, Answered
  <2> QED
    BY <2>1, <2>2
<1>5. ~Occurs(cur[r], replies[r])
  BY <1>1 DEF KeptSt, KeptAnswers
<1> HIDE DEF keep
<1>6. CASE keep
  <2> DEFINE n == Len(replies[r])
  <2>1. /\ n \in Nat /\ DOMAIN replies[r] = 1 .. n
        /\ DOMAIN replies'[r] = 1 .. n + 1
        /\ \A i \in 1 .. n : replies'[r][i] = replies[r][i]
        /\ replies'[r][n + 1] = cur[r]
    BY <1>1, <1>2, <1>6
  <2> HIDE DEF n
  <2>2. ASSUME NEW i \in 1 .. n + 1, NEW j \in 1 .. n + 1,
               replies'[r][i] = replies'[r][j]
        PROVE  i = j
    <3>1. CASE i \in 1 .. n /\ j \in 1 .. n
      BY <2>1, <2>2, <3>1 DEF KeptSt
    <3>2. CASE i = n + 1 /\ j \in 1 .. n
      BY <1>5, <2>1, <2>2, <3>2 DEF Occurs
    <3>3. CASE i \in 1 .. n /\ j = n + 1
      BY <1>5, <2>1, <2>2, <3>3 DEF Occurs
    <3>4. CASE i = n + 1 /\ j = n + 1
      BY <3>4
    <3> QED
      BY <2>1, <3>1, <3>2, <3>3, <3>4
  <2>3. \A a \in Agents :
          Occurs(a, replies'[r]) <=> Occurs(a, replies[r]) \/ a = cur[r]
    <3> SUFFICES ASSUME NEW a \in Agents
                 PROVE  Occurs(a, replies'[r]) <=> Occurs(a, replies[r]) \/ a = cur[r]
      OBVIOUS
    <3>1. ASSUME Occurs(a, replies'[r]) PROVE Occurs(a, replies[r]) \/ a = cur[r]
      BY <2>1, <3>1 DEF Occurs
    <3>2. ASSUME Occurs(a, replies[r]) PROVE Occurs(a, replies'[r])
      <4>1. PICK i \in 1 .. n : replies[r][i] = a
        BY <2>1, <3>2 DEF Occurs
      <4>2. i \in 1 .. n + 1 /\ replies'[r][i] = a
        BY <2>1, <4>1
      <4> QED
        BY <2>1, <4>2 DEF Occurs
    <3>3. n + 1 \in DOMAIN replies'[r]
      BY <2>1
    <3> QED
      BY <2>1, <3>1, <3>2, <3>3 DEF Occurs
  <2> QED
    BY <1>4, <1>6, <2>1, <2>2, <2>3 DEF KeptSt, Occurs
<1>7. CASE ~keep
  BY <1>2, <1>4, <1>7 DEF KeptSt, Occurs
<1> QED
  BY <1>6, <1>7

(* Results are recorded by Collect alone, and a request's parameters are   *)
(* fixed when it arrives, before it has any.                               *)
LEMMA WhatChangesResults ==
    ASSUME TypeInv, [Next]_vars
    PROVE  \/ UNCHANGED <<outcome, replies, call>>
           \/ \E r \in Requests : /\ pc[r] = "idle"
                                  /\ \E p : call' = [call EXCEPT ![r] = p]
                                  /\ UNCHANGED <<outcome, replies>>
           \/ \E r \in Requests, out \in Outcomes : /\ Collect(r, out)
                                                  /\ call' = call
<1> DEFINE Quiet == UNCHANGED <<outcome, replies, call>>
           Arrived == \E r \in Requests : /\ pc[r] = "idle"
                                         /\ \E p : call' = [call EXCEPT ![r] = p]
                                         /\ UNCHANGED <<outcome, replies>>
           Collected == \E r \in Requests, out \in Outcomes : /\ Collect(r, out)
                                                           /\ call' = call
<1>1. ASSUME NEW r \in Requests, Arrival(r) PROVE Arrived
  BY <1>1, FanOutLife
     DEF Arrival, Refuse, OnMessageSend, SendAsync, OnMessageSendStream, FailUnsent,
         Accepts, Arrives, localVars
<1>2. ASSUME NEW r \in Requests, Progress(r) PROVE Quiet \/ Collected
  <2>1. CASE DispatchStart(r) \/ StreamFanOut(r)
    BY <2>1, FanOutLife DEF DispatchStart, StreamFanOut, localVars
  <2>2. CASE \E out \in Outcomes : \/ AgentAnswers(r, out)
                                  \/ LastAgentAnswers(r, out)
                                  \/ LastAgentAnswersStream(r, out)
    BY <2>2 DEF AgentAnswers, LastAgentAnswers, LastAgentAnswersStream
  <2>3. CASE PauseOver(r) \/ StreamEmit(r) \/ StreamFinish(r)
    BY <2>3 DEF PauseOver, StreamEmit, StreamFinish, localVars
  <2> QED
    BY <1>2, <2>1, <2>2, <2>3 DEF Progress
<1>3. ASSUME NEW r \in Requests,
             \/ StreamDisconnect(r)
             \/ DispatchDone(r)
             \/ \E a \in Agents : ObserverNotified(r, a)
             \/ OnCancelTask(r)
      PROVE  Quiet
  BY <1>3 DEF StreamDisconnect, DispatchDone, ObserverNotified, OnCancelTask, localVars
<1>4. ASSUME NEW m \in Post, Deliver(m) PROVE Quiet
  BY <1>4 DEF Deliver, localVars
<1>5. ASSUME Close \/ RestApi \/ UNCHANGED vars PROVE Quiet
  BY <1>5 DEF Close, RestApi, vars, localVars
<1>6. Quiet \/ Arrived \/ Collected
  <2> HIDE DEF Quiet, Arrived, Collected
  <2> QED
    BY <1>1, <1>2, <1>3, <1>4, <1>5 DEF Next
<1> QED
  BY <1>6

LEMMA NextKept ==
    TypeInv /\ FanOutInv /\ RepliesAreKeptAnswers /\ [Next]_vars
      => RepliesAreKeptAnswers'
<1> SUFFICES ASSUME TypeInv, FanOutInv, RepliesAreKeptAnswers, [Next]_vars,
                    NEW s \in Requests
             PROVE  KeptSt(s)'
  BY DEF RepliesAreKeptAnswers, KeptSt
<1>1. KeptSt(s) /\ FanOutSt(s)
  BY DEF RepliesAreKeptAnswers, KeptSt, FanOutInv
<1>2. ASSUME outcome'[s] = outcome[s], replies'[s] = replies[s], call'[s] = call[s]
      PROVE  KeptSt(s)'
  BY <1>1, <1>2 DEF KeptSt, KeptAnswers, Answered, Occurs
<1>3. ASSUME pc[s] = "idle", UNCHANGED <<outcome, replies>>
      PROVE  KeptSt(s)'
  <2>1. Answered(s) = {} /\ replies[s] = <<>>
    BY <1>1, <1>3 DEF FanOutSt, Split, NotBegun, Unstarted
  <2> QED
    BY <1>3, <2>1 DEF KeptSt, KeptAnswers, Answered, Occurs
<1>4. ASSUME NEW r \in Requests, NEW out \in Outcomes, Collect(r, out), call' = call
      PROVE  KeptSt(s)'
  <2>1. CASE s = r
    BY <1>1, <1>4, <2>1, CollectKeeps
  <2>2. CASE s # r
    BY <1>2, <1>4, <2>2 DEF Collect, TypeInv, TypeOK
  <2> QED
    BY <2>1, <2>2
<1>5. ASSUME NEW r \in Requests, pc[r] = "idle", NEW p,
             call' = [call EXCEPT ![r] = p], UNCHANGED <<outcome, replies>>
      PROVE  KeptSt(s)'
  <2>1. CASE s = r
    BY <1>3, <1>5, <2>1
  <2>2. CASE s # r
    BY <1>2, <1>5, <2>2 DEF TypeInv, TypeOK
  <2> QED
    BY <2>1, <2>2
<1> QED
  BY <1>2, <1>4, <1>5, WhatChangesResults

(* What will be saved or emitted lists every kept answer exactly once. *)
THEOREM RepliesListAnswers == Spec => []RepliesAreKeptAnswers
<1>1. Init => RepliesAreKeptAnswers
  BY DEF Init, RepliesAreKeptAnswers, KeptAnswers, Answered, Occurs
<1>2. Spec => [](TypeInv /\ FanOutInv)
  BY FanOutInvariant
<1>3. TypeInv /\ FanOutInv /\ RepliesAreKeptAnswers /\ [Next]_vars
        => RepliesAreKeptAnswers'
  BY NextKept
<1> QED
  BY <1>1, <1>2, <1>3, PTL DEF Spec

-----------------------------------------------------------------------------
(* The requests that ran to their end on an object, and its message_count. *)
DoneOn(o) == {r \in Requests : pc[r] = "done" /\ obj[r] = o}

CountInv ==
    \A o \in Objects : IsFiniteSet(DoneOn(o)) /\ count[o] = Cardinality(DoneOn(o))

NobodyEnds ==
    /\ count' = count
    /\ \A s \in Requests : /\ pc'[s] = "done" <=> pc[s] = "done"
                           /\ pc[s] = "done" => obj'[s] = obj[s]

Ends(r, o) ==
    /\ pc[r] # "done"
    /\ pc' = [pc EXCEPT ![r] = "done"]
    /\ obj' = [obj EXCEPT ![r] = o]
    /\ count' = [count EXCEPT ![o] = @ + 1]

LEMMA FanOutCounts ==
    ASSUME TypeInv, NEW r \in Requests, pc[r] \in Unstarted,
           NEW p, NEW o \in Objects, FanOut(r, p, o)
    PROVE  NobodyEnds \/ Ends(r, o)
<1>1. obj' = [obj EXCEPT ![r] = o] /\ pc[r] # "done"
  BY DEF FanOut, Unstarted
<1>2. \/ /\ pc' = [pc EXCEPT ![r] = "done"]
         /\ count' = [count EXCEPT ![o] = @ + 1]
      \/ /\ pc' = [pc EXCEPT ![r] = "sending"]
         /\ count' = count
  BY DEF FanOut, Complete
<1> QED
  BY <1>1, <1>2 DEF NobodyEnds, Ends, TypeInv, TypeOK

LEMMA ArrivalCounts ==
    ASSUME TypeInv, NEW r \in Requests, Arrival(r)
    PROVE  NobodyEnds \/ \E o \in Objects : Ends(r, o)
<1>1. ASSUME NEW p, Refuse(r, p) PROVE NobodyEnds
  BY <1>1 DEF Refuse, Arrives, NobodyEnds, TypeInv, TypeOK, localVars, hubVars
<1>2. ASSUME NEW p, OnMessageSend(r, p) PROVE NobodyEnds \/ \E o \in Objects : Ends(r, o)
  <2>1. /\ FailUnsent(r) \/ FanOut(r, p, Resolve(p))
        /\ pc[r] = "idle"
        /\ p \in Call /\ Resolve(p) # NoObject
    BY <1>2, ParamsAreCalls DEF OnMessageSend, Accepts, Arrives
  <2>2. CASE FailUnsent(r)
    BY <2>1, <2>2 DEF FailUnsent, NobodyEnds, TypeInv, TypeOK, localVars
  <2>3. CASE FanOut(r, p, Resolve(p))
    BY <2>1, <2>3, ResolvesToLive, FanOutCounts DEF Unstarted
  <2> QED
    BY <2>1, <2>2, <2>3
<1>3. ASSUME NEW p, NEW body, SendAsync(r, p, body) PROVE NobodyEnds
  BY <1>3 DEF SendAsync, FailUnsent, Accepts, Arrives, NobodyEnds, TypeInv, TypeOK,
              localVars
<1>4. ASSUME NEW p, OnMessageSendStream(r, p) PROVE NobodyEnds
  BY <1>4 DEF OnMessageSendStream, Accepts, Arrives, NobodyEnds, TypeInv, TypeOK, hubVars
<1> QED
  BY <1>1, <1>2, <1>3, <1>4 DEF Arrival

LEMMA ProgressCounts ==
    ASSUME TypeInv, NEW r \in Requests, Progress(r)
    PROVE  NobodyEnds \/ \E o \in Objects : Ends(r, o)
<1>1. CASE DispatchStart(r)
  <2>1. CASE Resolve(call[r]) = NoObject
    BY <1>1, <2>1 DEF DispatchStart, NobodyEnds, TypeInv, TypeOK, localVars
  <2>2. CASE Resolve(call[r]) # NoObject
    <3>1. FanOut(r, call[r], Resolve(call[r])) /\ pc[r] \in Unstarted
      BY <1>1, <2>2 DEF DispatchStart, Unstarted
    <3>2. Resolve(call[r]) \in Objects
      BY <2>2, ResolvesToLive DEF TypeInv, TypeOK
    <3> QED
      BY <3>1, <3>2, FanOutCounts
  <2> QED
    BY <2>1, <2>2
<1>2. CASE StreamFanOut(r)
  <2>1. /\ FanOut(r, call[r], obj[r]) /\ pc[r] \in Unstarted
        /\ obj[r] \in Objects
    BY <1>2 DEF StreamFanOut, Unstarted, TypeInv, Located, Holding
  <2> QED
    BY <2>1, FanOutCounts
<1>3. ASSUME NEW out \in Outcomes,
             AgentAnswers(r, out) \/ LastAgentAnswersStream(r, out)
      PROVE  NobodyEnds
  <2>1. /\ count' = count /\ obj' = obj
        /\ pc[r] = "sending"
        /\ \E x \in {"sending", "pausing", "emitting"} : pc' = [pc EXCEPT ![r] = x]
    BY <1>3 DEF AgentAnswers, LastAgentAnswersStream, Collect, TypeInv, TypeOK, hubVars
  <2> QED
    BY <2>1 DEF NobodyEnds, TypeInv, TypeOK
<1>4. ASSUME NEW out \in Outcomes, LastAgentAnswers(r, out)
      PROVE  NobodyEnds \/ \E o \in Objects : Ends(r, o)
  <2>1. /\ pc[r] = "sending"
        /\ obj' = obj
        /\ \/ /\ pc' = [pc EXCEPT ![r] = "done"]
              /\ count' = [count EXCEPT ![obj[r]] = @ + 1]
           \/ /\ pc' = [pc EXCEPT ![r] = "cut"]
              /\ count' = count
    BY <1>4 DEF LastAgentAnswers, SaveReplies, Collect, Complete
  <2>2. obj[r] \in Objects
    BY <2>1 DEF TypeInv, Located, Holding
  <2> QED
    BY <2>1, <2>2 DEF NobodyEnds, Ends, TypeInv, TypeOK
<1>5. ASSUME PauseOver(r) \/ StreamEmit(r) PROVE NobodyEnds
  <2>1. /\ count' = count /\ obj' = obj
        /\ pc[r] \in {"pausing", "emitting"}
        /\ \E x \in {"sending", "emitting"} : pc' = [pc EXCEPT ![r] = x]
    BY <1>5 DEF PauseOver, StreamEmit, TypeInv, TypeOK, localVars, hubVars
  <2> QED
    BY <2>1 DEF NobodyEnds, TypeInv, TypeOK
<1>6. ASSUME StreamFinish(r) PROVE \E o \in Objects : Ends(r, o)
  <2>1. /\ pc[r] = "emitting"
        /\ pc' = [pc EXCEPT ![r] = "done"]
        /\ obj' = obj
        /\ count' = [count EXCEPT ![obj[r]] = @ + 1]
    BY <1>6 DEF StreamFinish, Complete, localVars
  <2> QED
    BY <2>1 DEF Ends, TypeInv, TypeOK, Located, Holding
<1> QED
  BY <1>1, <1>2, <1>3, <1>4, <1>5, <1>6 DEF Progress

LEMMA OtherCounts ==
    ASSUME TypeInv,
           \/ \E r \in Requests : \/ StreamDisconnect(r)
                                  \/ DispatchDone(r)
                                  \/ \E a \in Agents : ObserverNotified(r, a)
                                  \/ OnCancelTask(r)
           \/ \E m \in Post : Deliver(m)
           \/ Close
           \/ RestApi
           \/ UNCHANGED vars
    PROVE  NobodyEnds
<1>1. count' = count /\ obj' = obj
  BY DEF StreamDisconnect, DispatchDone, ObserverNotified, OnCancelTask, Deliver,
         Close, RestApi, vars, localVars, hubVars
<1>2. \A s \in Requests :
        pc'[s] = pc[s] \/ (pc'[s] = "cancelled" /\ pc[s] \in Suspended)
  BY DEF StreamDisconnect, DispatchDone, ObserverNotified, OnCancelTask, Deliver,
         Close, RestApi, vars, TypeInv, TypeOK
<1> QED
  BY <1>1, <1>2 DEF NobodyEnds, Suspended

LEMMA NextCountInv == TypeInv /\ CountInv /\ [Next]_vars => CountInv'
<1> SUFFICES ASSUME TypeInv, CountInv, [Next]_vars,
                    NEW o \in Objects
             PROVE  IsFiniteSet(DoneOn(o))' /\ count'[o] = Cardinality(DoneOn(o))'
  BY DEF CountInv
<1>1. IsFiniteSet(DoneOn(o)) /\ count[o] = Cardinality(DoneOn(o))
  BY DEF CountInv
<1>2. NobodyEnds \/ \E r \in Requests, x \in Objects : Ends(r, x)
  BY ArrivalCounts, ProgressCounts, OtherCounts DEF Next
<1>3. CASE NobodyEnds
  <2>1. DoneOn(o)' = DoneOn(o)
    BY <1>3 DEF NobodyEnds, DoneOn
  <2> QED
    BY <1>1, <1>3, <2>1 DEF NobodyEnds
<1>4. ASSUME NEW r \in Requests, NEW x \in Objects, Ends(r, x)
      PROVE  IsFiniteSet(DoneOn(o))' /\ count'[o] = Cardinality(DoneOn(o))'
  <2>1. \A s \in Requests : /\ (pc'[s] = "done") <=> (s = r \/ pc[s] = "done")
                           /\ obj'[s] = IF s = r THEN x ELSE obj[s]
    BY <1>4 DEF Ends, TypeInv, TypeOK
  <2>2. r \notin DoneOn(o) /\ DoneOn(o) \subseteq Requests
    BY <1>4 DEF Ends, DoneOn
  <2>3. CASE x = o
    <3>1. DoneOn(o)' = DoneOn(o) \cup {r}
      BY <2>1, <2>2, <2>3 DEF DoneOn
    <3>2. count'[o] = count[o] + 1
      BY <1>4, <2>3 DEF Ends, TypeInv, TypeOK
    <3>3. /\ IsFiniteSet(DoneOn(o) \cup {r})
          /\ Cardinality(DoneOn(o) \cup {r}) = Cardinality(DoneOn(o)) + 1
      BY <1>1, <2>2, FS_AddElement
    <3> QED
      BY <1>1, <3>1, <3>2, <3>3
  <2>4. CASE x # o
    <3>1. DoneOn(o)' = DoneOn(o)
      BY <1>4, <2>1, <2>4 DEF DoneOn, Ends
    <3>2. count'[o] = count[o]
      BY <1>4, <2>4 DEF Ends, TypeInv, TypeOK
    <3> QED
      BY <1>1, <3>1, <3>2
  <2> QED
    BY <2>3, <2>4
<1> QED
  BY <1>2, <1>3, <1>4

(* message_count of an object is the number of broadcasts completed on it. *)
THEOREM CountsBroadcasts == Spec => []CountIsCompletedBroadcasts
<1>1. Init => CountInv
  <2> SUFFICES ASSUME Init, NEW o \in Objects
               PROVE  IsFiniteSet(DoneOn(o)) /\ count[o] = Cardinality(DoneOn(o))
    BY DEF CountInv
  <2>1. DoneOn(o) = {} /\ count[o] = 0
    BY DEF Init, DoneOn
  <2> QED
    BY <2>1, FS_EmptySet
<1>2. TypeInv /\ CountInv /\ [Next]_vars => (TypeInv /\ CountInv)'
  BY NextTypeInv, NextCountInv
<1>3. CountInv => CountIsCompletedBroadcasts
  BY DEF CountInv, DoneOn, CountIsCompletedBroadcasts
<1> QED
  BY <1>1, <1>2, <1>3, InitTypeInv, PTL DEF Spec

-----------------------------------------------------------------------------
(* Stored messages.                                                        *)
Erased(c) == live[c] # NoObject /\ live'[c] = NoObject /\ history'[c] = <<>>
Grows == \A c \in Channels : IsPrefixOf(history[c], history'[c]) \/ Erased(c)

LEMMA PrefixOfItself == ASSUME NEW T, NEW s \in Seq(T) PROVE IsPrefixOf(s, s)
BY DEF IsPrefixOf

LEMMA PrefixOfConcatenation ==
    ASSUME NEW T, NEW s \in Seq(T), NEW t \in Seq(T)
    PROVE  IsPrefixOf(s, s \o t)
BY DEF IsPrefixOf

LEMMA SaveMessagesGrows ==
    ASSUME StoreTypeOK, NEW d \in Channels, NEW batch \in Seq(Record),
           SaveMessages(d, batch)
    PROVE  Grows
<1> SUFFICES ASSUME NEW c \in Channels PROVE IsPrefixOf(history[c], history'[c])
  BY DEF Grows
<1>1. history'[c] = IF c = d THEN history[c] \o batch ELSE history[c]
  BY DEF SaveMessages, StoreTypeOK
<1>2. history[c] \in Seq(Record)
  BY DEF StoreTypeOK
<1> QED
  BY <1>1, <1>2, PrefixOfItself, PrefixOfConcatenation

LEMMA SameHistoryGrows == ASSUME StoreTypeOK, history' = history PROVE Grows
<1> SUFFICES ASSUME NEW c \in Channels PROVE IsPrefixOf(history[c], history'[c])
  BY DEF Grows
<1> QED
  BY PrefixOfItself DEF StoreTypeOK

LEMMA RequestGrows ==
    ASSUME TypeInv, NEW r \in Requests, Arrival(r) \/ Progress(r)
    PROVE  Grows
<1>1. StoreTypeOK
  BY DEF TypeInv, TypeOK
<1>2. ASSUME NEW p \in Call, Resolve(p) # NoObject, StoreRequest(r, p, Resolve(p))
      PROVE  Grows
  <2>1. Resolve(p) \in Objects /\ home[Resolve(p)] \in Channels
    BY <1>2, ResolvesToLive
  <2>2. <<RequestRecord(r, p, Resolve(p))>> \in Seq(Record)
    BY <2>1 DEF RequestRecord, Record, Call
  <2> QED
    BY <1>1, <1>2, <2>1, <2>2, SaveMessagesGrows DEF StoreRequest
<1>3. CASE Arrival(r)
  <2>1. ASSUME NEW p, NEW body, OnMessageSend(r, p) \/ SendAsync(r, p, body)
        PROVE  Grows
    BY <1>2, <2>1, ParamsAreCalls DEF OnMessageSend, SendAsync, Accepts, Arrives
  <2>2. ASSUME NEW p, Refuse(r, p) \/ OnMessageSendStream(r, p)
        PROVE  history' = history
    BY <2>2 DEF Refuse, OnMessageSendStream, storeVars
  <2> QED
    BY <1>1, <1>3, <2>1, <2>2, SameHistoryGrows DEF Arrival
<1>4. ASSUME NEW out \in Outcomes, LastAgentAnswers(r, out)
      PROVE  Grows
  <2>1. home[obj[r]] \in Channels
    BY <1>4 DEF LastAgentAnswers, Collect, TypeInv, Located, Holding
  <2>2. PICK batch \in Seq(Record) : SaveMessages(home[obj[r]], batch)
    BY <1>4, RepliesSaved
  <2> QED
    BY <1>1, <2>1, <2>2, SaveMessagesGrows
<1>5. CASE Progress(r) /\ ~\E out \in Outcomes : LastAgentAnswers(r, out)
  <2>1. history' = history
    BY <1>5 DEF Progress, DispatchStart, StreamFanOut, AgentAnswers,
                LastAgentAnswersStream, PauseOver, StreamEmit, StreamFinish, storeVars
  <2> QED
    BY <1>1, <2>1, SameHistoryGrows
<1> QED
  BY <1>3, <1>4, <1>5

LEMMA NextGrows == TypeInv /\ [Next]_vars => Grows
<1> SUFFICES ASSUME TypeInv, [Next]_vars PROVE Grows
  OBVIOUS
<1>1. StoreTypeOK
  BY DEF TypeInv, TypeOK
<1>2. ASSUME NEW d \in Channels, DeleteChannel(d)
      PROVE  Grows
  <2> SUFFICES ASSUME NEW c \in Channels
               PROVE  IsPrefixOf(history[c], history'[c]) \/ Erased(c)
    BY DEF Grows
  <2>1. CASE c = d
    BY <1>1, <1>2, <2>1 DEF DeleteChannel, Erased, StoreTypeOK
  <2>2. CASE c # d
    <3>1. history'[c] = history[c] /\ history[c] \in Seq(Record)
      BY <1>1, <1>2, <2>2 DEF DeleteChannel, StoreTypeOK
    <3> QED
      BY <3>1, PrefixOfItself
  <2> QED
    BY <2>1, <2>2
<1>3. CASE RestApi
  <2>1. \/ history' = history
        \/ \E d \in Channels : DeleteChannel(d)
    BY <1>3 DEF RestApi, StoreOperation, CreateChannel, SaveChannel, AddMember,
                RemoveMember, PatchMember, SaveWebhook, DeleteWebhook
  <2> QED
    BY <1>1, <1>2, <2>1, SameHistoryGrows
<1>4. ASSUME NEW r \in Requests,
             \/ StreamDisconnect(r)
             \/ DispatchDone(r)
             \/ \E a \in Agents : ObserverNotified(r, a)
             \/ OnCancelTask(r)
      PROVE  Grows
  <2>1. history' = history
    BY <1>4 DEF StreamDisconnect, DispatchDone, ObserverNotified, OnCancelTask,
                storeVars
  <2> QED
    BY <1>1, <2>1, SameHistoryGrows
<1>5. ASSUME NEW m \in Post, Deliver(m) PROVE Grows
  <2>1. history' = history
    BY <1>5 DEF Deliver, storeVars
  <2> QED
    BY <1>1, <2>1, SameHistoryGrows
<1>6. CASE Close \/ UNCHANGED vars
  <2>1. history' = history
    BY <1>6 DEF Close, vars, storeVars
  <2> QED
    BY <1>1, <2>1, SameHistoryGrows
<1> QED
  BY <1>3, <1>4, <1>5, <1>6, RequestGrows DEF Next

(* Stored messages are only ever appended to, or erased with their channel. *)
THEOREM HistoryIsAppendOnly == Spec => HistoryOnlyGrows
<1>1. TypeInv /\ [Next]_vars =>
        [\A c \in Channels :
            \/ IsPrefixOf(history[c], history'[c])
            \/ live[c] # NoObject /\ live'[c] = NoObject /\ history'[c] = <<>>]_vars
  BY NextGrows DEF Grows, Erased
<1>2. Spec => []TypeInv
  BY InitTypeInv, NextTypeInv, PTL DEF Spec
<1> QED
  BY <1>1, <1>2, PTL DEF Spec, HistoryOnlyGrows
=============================================================================
