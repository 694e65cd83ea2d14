---------------------------- MODULE GroupChatHub ----------------------------
(***************************************************************************)
(* The hub's request handlers (hub/handler.py), the fan-out engine         *)
(* (hub/fanout.py) and the webhook dispatcher (notifications/webhooks.py)  *)
(* over the in-memory store.                                               *)
(*                                                                         *)
(* The hub is one asyncio event loop.  A handler runs without interruption *)
(* from one real suspension point to the next, so an action is exactly the *)
(* code between two of them: the HTTP call to an agent, the pause between  *)
(* two calls, a yield of the streaming generator, the start of a created   *)
(* task, the POST to a webhook.  Between two actions of a request any      *)
(* other request may run and any storage operation may be made: by the     *)
(* REST handlers, which this module leaves unconstrained (module RestApi   *)
(* models them and shows that they make no others).                        *)
(***************************************************************************)
EXTENDS ChannelStore, FiniteSets

CONSTANTS
    Human,         \* the sender_id whose async sends are dispatched
    Modes,         \* how a request arrives: "blocking", "async", "stream"
    Senders,       \* the sender_ids requests may name
    Recipients,    \* the recipient_ids requests may name
    Outcomes,      \* what calling an agent may come to
    Pausing,       \* FANOUT_DELAY_SECONDS > 0
    Broken,        \* the webhooks registered with "events": null
    MaxStoreOps    \* bound: storage operations other than the hub's own

(* Calling an agent comes to a text, an error, or neither (an empty text;  *)
(* an exception whose message is empty leaves the same result).            *)
ASSUME HubAssumption ==
    /\ Outcomes \subseteq {"text", "error", "blank"}
    /\ Human \in Agents
    /\ Modes \subseteq {"blocking", "async", "stream"}
    /\ Senders \subseteq Agents \cup {NoAgent}
    /\ Recipients \subseteq Agents \cup {NoAgent}
    /\ Pausing \in BOOLEAN
    /\ Broken \subseteq Hooks
    /\ MaxStoreOps \in Nat

(* Where a request is suspended, or how it ended: normally, saved without  *)
(* a dispatch, dropped or rejected without a channel, cancelled, or with   *)
(* the dispatcher's exception, before the fan-out ("unsent") or while its  *)
(* replies were saved ("cut").                                             *)
Suspended == {"scheduled", "announced", "sending", "pausing", "emitting"}
Ended == {"done", "saved", "dropped", "rejected", "cancelled", "unsent", "cut"}

(* What a request asks: an id takes precedence over a context id.          *)
Call == [mode : Modes \cup {"none"}, cid : Channels \cup {NoChannel},
         ctx : Objects \cup {NoObject}, sender : Agents \cup {NoAgent},
         rcpt : Agents \cup {NoAgent}]
NoCall == [mode |-> "none", cid |-> NoChannel, ctx |-> NoObject,
           sender |-> NoAgent, rcpt |-> NoAgent]

(* A webhook POST in flight: the registration and the message it carries.  *)
Post == [hook : Hooks, req : Requests, from : Agents \cup {NoAgent}]

VARIABLES
    (* one per request: its parameters and the handler's local variables *)
    pc,          \* where it is suspended
    call,        \* its parameters
    obj,         \* the Channel object it resolved
    sendable,    \* fan_out's snapshot of the agents to send to
    cur,         \* the agent whose answer is awaited
    todo,        \* the agents not yet sent to
    outcome,     \* what calling each agent came to
    replies,     \* the agents whose result will be saved or emitted, in order
    notifying,   \* the observers whose fire-and-forget task is running
    announced,   \* stream: the peers counted before the first yield
    emitted,     \* stream: the artifacts yielded so far
    (* of the hub *)
    count,       \* message_count of every Channel object
    tasks,       \* the state of the Task kept for a request
    background,  \* requests whose dispatch task is in _background_tasks
    posts,       \* webhook deliveries in flight
    closed,      \* close() has run
    storeOps     \* storage operations made so far (bounded)

localVars == <<obj, sendable, cur, todo, outcome, replies, notifying>>
streamVars == <<announced, emitted>>
hubVars == <<count, tasks, background, posts, closed>>
vars == <<storeVars, pc, call, localVars, streamVars, hubVars, storeOps>>

TypeOK ==
    /\ StoreTypeOK
    /\ pc \in [Requests -> {"idle"} \cup Suspended \cup Ended]
    /\ call \in [Requests -> Call]
    /\ obj \in [Requests -> Objects \cup {NoObject}]
    /\ sendable \in [Requests -> SUBSET Agents]
    /\ cur \in [Requests -> Agents \cup {NoAgent}]
    /\ todo \in [Requests -> SUBSET Agents]
    /\ outcome \in [Requests -> [Agents -> Outcomes \cup {"none"}]]
    /\ replies \in [Requests -> Seq(Agents)]
    /\ notifying \in [Requests -> SUBSET Agents]
    /\ announced \in [Requests -> SUBSET Agents]
    /\ emitted \in [Requests -> Nat]
    /\ count \in [Objects -> Nat]
    /\ tasks \in [Requests -> {"none", "completed", "canceled"}]
    /\ background \in SUBSET Requests
    /\ posts \in SUBSET Post
    /\ closed \in BOOLEAN
    /\ storeOps \in 0 .. MaxStoreOps

Init ==
    /\ StoreInit
    /\ pc = [r \in Requests |-> "idle"]
    /\ call = [r \in Requests |-> NoCall]
    /\ obj = [r \in Requests |-> NoObject]
    /\ sendable = [r \in Requests |-> {}]
    /\ cur = [r \in Requests |-> NoAgent]
    /\ todo = [r \in Requests |-> {}]
    /\ outcome = [r \in Requests |-> [a \in Agents |-> "none"]]
    /\ replies = [r \in Requests |-> <<>>]
    /\ notifying = [r \in Requests |-> {}]
    /\ announced = [r \in Requests |-> {}]
    /\ emitted = [r \in Requests |-> 0]
    /\ count = [o \in Objects |-> 0]
    /\ tasks = [r \in Requests |-> "none"]
    /\ background = {}
    /\ posts = {}
    /\ closed = FALSE
    /\ storeOps = 0

-----------------------------------------------------------------------------
(* Pieces shared by the handlers.                                          *)

(* _resolve_channel *)
Resolve(p) ==
    IF p.cid # NoChannel THEN ChannelById(p.cid) ELSE ChannelByContext(p.ctx)

(* What a request may ask for; a context id next to an id is ignored.      *)
Params(mode) ==
    [mode : {mode}, cid : Channels, ctx : {NoObject},
     sender : Senders, rcpt : Recipients]
    \cup
    [mode : {mode}, cid : {NoChannel}, ctx : Objects \cup {NoObject},
     sender : Senders, rcpt : Recipients]

(* A request's parameters as they arrive.  A context id is one the client  *)
(* has seen, so some constructed object's.                                 *)
Arrives(r, mode, p) ==
    /\ ~closed
    /\ pc[r] = "idle"
    /\ mode \in Modes
    /\ p \in Params(mode)
    /\ p.ctx # NoObject => home[p.ctx] # NoChannel
    /\ call' = [call EXCEPT ![r] = p]

(* _fire_webhook for messages of request r, when it reaches the webhooks W *)
Posts(W, r, from) == [hook : W, req : {r}, from : from]

(* The dispatcher tests each webhook's events in turn, and its test raises *)
(* where they are null (webhooks.py:34): the webhooks before that one are  *)
(* reached, the others are not.                                            *)
Raises(c) == hooks[c] \cap Broken # {}
Reached(c) == IF Raises(c) THEN SUBSET (hooks[c] \ Broken) ELSE {hooks[c]}

RequestRecord(r, p, o) ==
    [kind |-> "request", req |-> r, from |-> p.sender, ctx |-> o]

ReplyRecord(r, a, out, o) ==
    [kind |-> IF out = "text" THEN "reply" ELSE "error",
     req |-> r, from |-> a, ctx |-> o]

(* The results a handler saves, or emits: text only, text or error, all.   *)
Kept(mode, out) ==
    CASE mode = "blocking" -> out = "text"
      [] mode = "async" -> out \in {"text", "error"}
      [] OTHER -> TRUE

(* mutant *)
CompleteOnLive(r, mode, o) ==
    /\ count' = [count EXCEPT ![live[home[o]]] = @ + 1]
    /\ tasks' = IF mode = "blocking"
                THEN [tasks EXCEPT ![r] = "completed"] ELSE tasks

(* mutant *)
CompleteWithTask(r, mode, o) ==
    /\ count' = [count EXCEPT ![o] = @ + 1]
    /\ tasks' = [tasks EXCEPT ![r] = "completed"]

(* The end of a handler: the object's message_count grows, and a blocking  *)
(* send leaves a completed Task behind.                                    *)
Complete(r, mode, o) ==
    /\ count' = [count EXCEPT ![o] = @ + 1]
    /\ tasks' = IF mode = "blocking"
                THEN [tasks EXCEPT ![r] = "completed"] ELSE tasks

(* fan_out up to its first await: fix the agents to send to (only the      *)
(* recipient, if one is named), start a task per observer, call the first  *)
(* agent.  With nobody to send to the handler runs to its end at once.     *)
FanOut(r, p, o) ==
    LET targets == {a \in SendablePeers(o, p.sender) :
                       p.rcpt = NoAgent \/ a = p.rcpt}
    IN /\ obj' = [obj EXCEPT ![r] = o]
       /\ sendable' = [sendable EXCEPT ![r] = targets]
       /\ notifying' = [notifying EXCEPT ![r] = Observers(o) \ {p.sender}]
       /\ \/ /\ targets = {}
             /\ pc' = [pc EXCEPT ![r] = "done"]
             /\ Complete(r, p.mode, o)
             /\ UNCHANGED <<cur, todo>>
          \/ \E a \in targets :
             /\ pc' = [pc EXCEPT ![r] = "sending"]
             /\ cur' = [cur EXCEPT ![r] = a]
             /\ todo' = [todo EXCEPT ![r] = targets \ {a}]
             /\ UNCHANGED <<count, tasks>>
       /\ UNCHANGED <<outcome, replies, emitted>>

-----------------------------------------------------------------------------
(* A request arrives.                                                      *)

(* Any handler refuses a channel it cannot resolve and an observer.        *)
Refuse(r, p) ==
    /\ Arrives(r, p.mode, p)
    /\ Resolve(p) # NoObject => ~MayPost(Resolve(p), p.sender)
    /\ pc' = [pc EXCEPT ![r] = "rejected"]
    /\ UNCHANGED <<storeVars, localVars, streamVars, hubVars, storeOps>>

Accepts(r, mode, p) ==
    /\ Arrives(r, mode, p)
    /\ Resolve(p) # NoObject
    /\ MayPost(Resolve(p), p.sender)

(* mutant *)
StoreRequestOnly(r, p, o) ==
    /\ SaveMessages(home[o], <<RequestRecord(r, p, o)>>)
    /\ posts' = posts

StoreRequest(r, p, o) ==
    /\ SaveMessages(home[o], <<RequestRecord(r, p, o)>>)
    /\ \E W \in Reached(home[o]) : posts' = posts \cup Posts(W, r, {p.sender})

(* The exception of the dispatcher leaves the handler, with the message    *)
(* stored.                                                                 *)
FailUnsent(r) ==
    /\ pc' = [pc EXCEPT ![r] = "unsent"]
    /\ UNCHANGED <<localVars, emitted, count, tasks>>

OnMessageSend(r, p) ==
    /\ Accepts(r, "blocking", p)
    /\ StoreRequest(r, p, Resolve(p))
    /\ \/ Raises(home[Resolve(p)]) /\ FailUnsent(r)
       \/ ~Raises(home[Resolve(p)]) /\ FanOut(r, p, Resolve(p))
    /\ UNCHANGED <<announced, background, closed, storeOps>>

(* send_to_channel with async: save_message; then, only when the body's    *)
(* sender_id is the human, schedule_dispatch.  Extra metadata may override *)
(* the sender the hub sees, so `body' need not be p.sender.                *)
SendAsync(r, p, body) ==
    /\ Accepts(r, "async", p)
    /\ StoreRequest(r, p, Resolve(p))
    /\ \/ /\ Raises(home[Resolve(p)])
          /\ FailUnsent(r)
          /\ UNCHANGED background
       \/ /\ ~Raises(home[Resolve(p)])
          /\ body = Human
          /\ pc' = [pc EXCEPT ![r] = "scheduled"]
          /\ background' = background \cup {r}
       \/ /\ ~Raises(home[Resolve(p)])
          /\ body # Human
          /\ pc' = [pc EXCEPT ![r] = "saved"]
          /\ UNCHANGED background
    /\ UNCHANGED <<localVars, streamVars, count, tasks, closed, storeOps>>

(* The first yield of the stream announces the peers of that moment.       *)
OnMessageSendStream(r, p) ==
    /\ Accepts(r, "stream", p)
    /\ pc' = [pc EXCEPT ![r] = "announced"]
    /\ obj' = [obj EXCEPT ![r] = Resolve(p)]
    /\ announced' = [announced EXCEPT ![r] = SendablePeers(Resolve(p), p.sender)]
    /\ UNCHANGED <<storeVars, sendable, cur, todo, outcome, replies, notifying,
                   emitted, hubVars, storeOps>>

-----------------------------------------------------------------------------
(* A suspended request goes on.                                            *)

(* mutant *)
DispatchStartResolved(r) ==
    /\ pc[r] = "scheduled"
    /\ Resolve(call[r]) # NoObject
    /\ FanOut(r, call[r], Resolve(call[r]))
    /\ UNCHANGED <<storeVars, call, announced, background, posts, closed, storeOps>>

(* The dispatch task runs for the first time: it resolves the channel      *)
(* again, from the parameters, and does not check the permission again.    *)
DispatchStart(r) ==
    LET p == call[r]
        o == Resolve(p)
    IN /\ pc[r] = "scheduled"
       /\ \/ /\ o = NoObject
             /\ pc' = [pc EXCEPT ![r] = "dropped"]
             /\ UNCHANGED <<localVars, emitted, count, tasks>>
          \/ /\ o # NoObject
             /\ FanOut(r, p, o)
       /\ UNCHANGED <<storeVars, call, announced, background, posts, closed,
                      storeOps>>

(* The stream's consumer asks for the event after the announcement.        *)
StreamFanOut(r) ==
    /\ pc[r] = "announced"
    /\ FanOut(r, call[r], obj[r])
    /\ UNCHANGED <<storeVars, call, announced, background, posts, closed, storeOps>>

(* mutant *)
CollectAll(r, out) ==
    /\ pc[r] = "sending"
    /\ outcome' = [outcome EXCEPT ![r][cur[r]] = out]
    /\ replies' = [replies EXCEPT ![r] = Append(@, cur[r])]

(* What the answer of the awaited agent changes, whatever comes next.      *)
Collect(r, out) ==
    /\ pc[r] = "sending"
    /\ outcome' = [outcome EXCEPT ![r][cur[r]] = out]
    /\ replies' = [replies EXCEPT ![r] =
                     IF Kept(call[r].mode, out) THEN Append(@, cur[r]) ELSE @]

(* An agent answered, failed or timed out, and another one is left: pause  *)
(* or, without a delay, call it at once.                                   *)
AgentAnswers(r, out) ==
    /\ Collect(r, out)
    /\ todo[r] # {}
    /\ IF Pausing
       THEN /\ pc' = [pc EXCEPT ![r] = "pausing"]
            /\ cur' = [cur EXCEPT ![r] = NoAgent]
            /\ UNCHANGED todo
       ELSE \E a \in todo[r] :
            /\ cur' = [cur EXCEPT ![r] = a]
            /\ todo' = [todo EXCEPT ![r] = @ \ {a}]
            /\ UNCHANGED pc
    /\ UNCHANGED <<storeVars, call, obj, sendable, notifying, streamVars, hubVars,
                   storeOps>>

(* mutant *)
PauseOverCurrentPeers(r) ==
    LET left == {a \in Agents : /\ CanReceive(members[obj[r]][a])
                                /\ outcome[r][a] = "none"}
    IN /\ pc[r] = "pausing"
       /\ \E a \in left :
          /\ cur' = [cur EXCEPT ![r] = a]
          /\ todo' = [todo EXCEPT ![r] = left \ {a}]
       /\ pc' = [pc EXCEPT ![r] = "sending"]
       /\ UNCHANGED <<storeVars, call, obj, sendable, outcome, replies, notifying,
                      streamVars, hubVars, storeOps>>

(* The pause is over: call the next agent of the snapshot.                 *)
PauseOver(r) ==
    /\ pc[r] = "pausing"
    /\ \E a \in todo[r] :
       /\ cur' = [cur EXCEPT ![r] = a]
       /\ todo' = [todo EXCEPT ![r] = @ \ {a}]
    /\ pc' = [pc EXCEPT ![r] = "sending"]
    /\ UNCHANGED <<storeVars, call, obj, sendable, outcome, replies, notifying,
                   streamVars, hubVars, storeOps>>

(* The save loop at the end of a send: each kept result is saved and       *)
(* posted, in one go, under the id of the object held since the fan-out    *)
(* began; the dispatcher's exception ends it after the first.              *)
SaveReplies(r) ==
    LET o == obj[r]
        c == home[o]
        kept == [i \in DOMAIN replies'[r] |->
                   ReplyRecord(r, replies'[r][i], outcome'[r][replies'[r][i]], o)]
    IN \/ /\ kept = <<>> \/ ~Raises(c)
          /\ SaveMessages(c, kept)
          /\ posts' = posts \cup Posts(hooks[c], r, {kept[i].from : i \in DOMAIN kept})
          /\ Complete(r, call[r].mode, o)
          /\ pc' = [pc EXCEPT ![r] = "done"]
       \/ /\ kept # <<>> /\ Raises(c)
          /\ SaveMessages(c, <<kept[1]>>)
          /\ \E W \in Reached(c) : posts' = posts \cup Posts(W, r, {kept[1].from})
          /\ pc' = [pc EXCEPT ![r] = "cut"]
          /\ UNCHANGED <<count, tasks>>

(* mutant *)
AnswerEndsSend(r, out) ==
    /\ Collect(r, out)
    /\ call[r].mode # "stream"
    /\ SaveReplies(r)
    /\ cur' = [cur EXCEPT ![r] = NoAgent]
    /\ UNCHANGED <<call, obj, sendable, todo, notifying, streamVars, background,
                   closed, storeOps>>

(* The last answer of a blocking or dispatched send. *)
LastAgentAnswers(r, out) ==
    /\ Collect(r, out)
    /\ todo[r] = {}
    /\ call[r].mode # "stream"
    /\ SaveReplies(r)
    /\ cur' = [cur EXCEPT ![r] = NoAgent]
    /\ UNCHANGED <<call, obj, sendable, todo, notifying, streamVars, background,
                   closed, storeOps>>

(* The last answer of a stream: only now is the first artifact yielded.    *)
LastAgentAnswersStream(r, out) ==
    /\ Collect(r, out)
    /\ todo[r] = {}
    /\ call[r].mode = "stream"
    /\ pc' = [pc EXCEPT ![r] = "emitting"]
    /\ cur' = [cur EXCEPT ![r] = NoAgent]
    /\ emitted' = [emitted EXCEPT ![r] = 1]
    /\ UNCHANGED <<storeVars, call, obj, sendable, todo, notifying, announced,
                   hubVars, storeOps>>

(* The consumer asks for the next event: another artifact, or the end.     *)
StreamEmit(r) ==
    /\ pc[r] = "emitting"
    /\ emitted[r] < Len(replies[r])
    /\ emitted' = [emitted EXCEPT ![r] = @ + 1]
    /\ UNCHANGED <<storeVars, pc, call, localVars, announced, hubVars, storeOps>>

StreamFinish(r) ==
    /\ pc[r] = "emitting"
    /\ emitted[r] = Len(replies[r])
    /\ Complete(r, "stream", obj[r])
    /\ pc' = [pc EXCEPT ![r] = "done"]
    /\ UNCHANGED <<storeVars, call, localVars, streamVars, background, posts,
                   closed, storeOps>>

(* The consumer of a stream goes away: the generator is cancelled where it *)
(* is suspended and what it had collected is lost.                         *)
StreamDisconnect(r) ==
    /\ pc[r] \in Suspended
    /\ call[r].mode = "stream"
    /\ pc' = [pc EXCEPT ![r] = "cancelled"]
    /\ UNCHANGED <<storeVars, call, localVars, streamVars, hubVars, storeOps>>

-----------------------------------------------------------------------------
(* The tasks nobody waits for, and the hub's other operations.             *)

(* mutant *)
DispatchDoneIfDone(r) ==
    /\ r \in background
    /\ pc[r] = "done"
    /\ background' = background \ {r}
    /\ UNCHANGED <<storeVars, pc, call, localVars, streamVars, count, tasks, posts,
                   closed, storeOps>>

(* The done callback of a dispatch task. *)
DispatchDone(r) ==
    /\ r \in background
    /\ pc[r] \in Ended
    /\ background' = background \ {r}
    /\ UNCHANGED <<storeVars, pc, call, localVars, streamVars, count, tasks, posts,
                   closed, storeOps>>

(* An observer's task ends; its answer goes nowhere. *)
ObserverNotified(r, a) ==
    /\ a \in notifying[r]
    /\ notifying' = [notifying EXCEPT ![r] = @ \ {a}]
    /\ UNCHANGED <<storeVars, pc, call, obj, sendable, cur, todo, outcome, replies,
                   streamVars, hubVars, storeOps>>

(* A webhook POST succeeds or fails; it is made once, in no fixed order. *)
Deliver(m) ==
    /\ m \in posts
    /\ posts' = posts \ {m}
    /\ UNCHANGED <<storeVars, pc, call, localVars, streamVars, count, tasks,
                   background, closed, storeOps>>

(* mutant *)
OnCancelTaskMisspelt(r) ==
    /\ tasks[r] # "none"
    /\ tasks' = [tasks EXCEPT ![r] = "cancelled"]
    /\ UNCHANGED <<storeVars, pc, call, localVars, streamVars, count, background,
                   posts, closed, storeOps>>

(* on_cancel_task: only a finished send has a Task to cancel. *)
OnCancelTask(r) ==
    /\ tasks[r] # "none"
    /\ tasks' = [tasks EXCEPT ![r] = "canceled"]
    /\ UNCHANGED <<storeVars, pc, call, localVars, streamVars, count, background,
                   posts, closed, storeOps>>

(* mutant *)
CloseUnstartedOnly ==
    /\ ~closed
    /\ \A r \in Requests : pc[r] \in Suspended => call[r].mode = "async"
    /\ closed' = TRUE
    /\ pc' = [r \in Requests |->
                IF r \in background /\ pc[r] = "scheduled"
                THEN "cancelled" ELSE pc[r]]
    /\ UNCHANGED <<storeVars, call, localVars, streamVars, count, tasks, background,
                   posts, storeOps>>

(* Shutdown: the server has let the HTTP requests it serves finish; close  *)
(* then cancels the dispatch tasks wherever they are suspended.            *)
Close ==
    /\ ~closed
    /\ \A r \in Requests : pc[r] \in Suspended => call[r].mode = "async"
    /\ closed' = TRUE
    /\ pc' = [r \in Requests |->
                IF r \in background /\ pc[r] \in Suspended
                THEN "cancelled" ELSE pc[r]]
    /\ UNCHANGED <<storeVars, call, localVars, streamVars, count, tasks, background,
                   posts, storeOps>>

(* Any storage operation of the REST API, at any time while it serves.     *)
RestApi ==
    /\ ~closed
    /\ storeOps < MaxStoreOps
    /\ StoreOperation
    /\ storeOps' = storeOps + 1
    /\ UNCHANGED <<pc, call, localVars, streamVars, hubVars>>

-----------------------------------------------------------------------------
Arrival(r) ==
    \/ \E mode \in Modes : \E p \in Params(mode) : Refuse(r, p)
    \/ \E p \in Params("blocking") : OnMessageSend(r, p)
    \/ \E p \in Params("async"), body \in Senders : SendAsync(r, p, body)
    \/ \E p \in Params("stream") : OnMessageSendStream(r, p)

(* The steps of request r after its arrival. *)
Progress(r) ==
    \/ DispatchStart(r)
    \/ StreamFanOut(r)
    \/ \E out \in Outcomes :
          \/ AgentAnswers(r, out)
          \/ LastAgentAnswers(r, out)
          \/ LastAgentAnswersStream(r, out)
    \/ PauseOver(r)
    \/ StreamEmit(r)
    \/ StreamFinish(r)

Next ==
    \/ \E r \in Requests :
          \/ Arrival(r)
          \/ Progress(r)
          \/ StreamDisconnect(r)
          \/ DispatchDone(r)
          \/ \E a \in Agents : ObserverNotified(r, a)
          \/ OnCancelTask(r)
    \/ \E m \in Post : Deliver(m)
    \/ Close
    \/ RestApi

Spec == Init /\ [][Next]_vars

(* The event loop runs every ready coroutine; the HTTP clients' timeouts   *)
(* end every call to an agent that says nothing (600 s without a byte); a  *)
(* stream is consumed by the server's own response task.  Nothing makes a  *)
(* client send, cancel or disconnect, or an administrator act.             *)
Fairness ==
    /\ \A r \in Requests : WF_vars(Progress(r)) /\ WF_vars(DispatchDone(r))
    /\ \A r \in Requests, a \in Agents : WF_vars(ObserverNotified(r, a))

FairSpec == Spec /\ Fairness

-----------------------------------------------------------------------------
(* Safety.                                                                 *)

Answered(r) == {a \in Agents : outcome[r][a] # "none"}
KeptAnswers(r) == {a \in Answered(r) : Kept(call[r].mode, outcome[r][a])}
Occurs(a, s) == \E i \in DOMAIN s : s[i] = a

(* At every point of a fan-out the agents of its snapshot split into those *)
(* that answered, the one being awaited and those still to call: whatever  *)
(* the REST API does to the members meanwhile, nobody is skipped or called *)
(* twice, and a fan-out that ends has an outcome for each (fan_out).       *)
FanOutPartition ==
    \A r \in Requests :
       /\ sendable[r] = Answered(r) \cup todo[r] \cup ({cur[r]} \ {NoAgent})
       /\ todo[r] \cap Answered(r) = {}
       /\ cur[r] \notin todo[r] \cup Answered(r)
       /\ pc[r] = "sending" => cur[r] # NoAgent
       /\ pc[r] = "pausing" => cur[r] = NoAgent /\ todo[r] # {}
       /\ pc[r] \in {"emitting", "done", "cut"} => sendable[r] = Answered(r)

(* A message is never sent back to its sender, nobody gets it both as a    *)
(* peer and as an observer, and a directed message reaches no other peer,  *)
(* for the members as they were when the fan-out began.                    *)
NoEcho ==
    \A r \in Requests :
       /\ call[r].sender \notin sendable[r] \cup notifying[r]
       /\ sendable[r] \cap notifying[r] = {}
       /\ call[r].rcpt # NoAgent => sendable[r] \subseteq {call[r].rcpt}

(* The results to save or emit are the kept answers, each once.            *)
RepliesAreKeptAnswers ==
    \A r \in Requests :
       /\ \A i, j \in DOMAIN replies[r] : replies[r][i] = replies[r][j] => i = j
       /\ \A a \in Agents : Occurs(a, replies[r]) <=> a \in KeptAnswers(r)

At(c, r, kind) == {i \in DOMAIN history[c] :
                     history[c][i].req = r /\ history[c][i].kind \in kind}

(* What a send that ended has saved of its replies: all, or the first.     *)
Saved(r) == IF pc[r] = "cut" THEN <<replies[r][1]>> ELSE replies[r]

(* In a channel's history a request's message comes before all replies to  *)
(* it, and the replies stand next to each other in the order the agents    *)
(* were called, none twice and none from a bystander, however many sends   *)
(* were in flight (the save loops run without suspension).                 *)
HistoryOrder ==
    \A c \in Channels, r \in Requests :
       LET rep == At(c, r, {"reply", "error"})
       IN /\ Cardinality(At(c, r, {"request"})) <= 1
          /\ \A i \in At(c, r, {"request"}), j \in rep : i < j
          /\ rep # {} =>
               \E k \in DOMAIN history[c] :
                  /\ rep = k .. k + Len(Saved(r)) - 1
                  /\ \A i \in rep : history[c][i].from = Saved(r)[i - k + 1]

(* A send that ended normally and whose message is still in the history    *)
(* has all its kept answers there too; one that a webhook of null events   *)
(* cut has the first of them; one that has not ended, was dropped or       *)
(* cancelled, or failed before the fan-out has none.                       *)
RepliesFitTheEnd ==
    \A c \in Channels, r \in Requests :
       LET rep == At(c, r, {"reply", "error"})
           from == {history[c][i].from : i \in rep}
       IN /\ pc[r] \in {"done", "cut"} /\ At(c, r, {"request"}) # {} =>
               from = IF pc[r] = "done" THEN KeptAnswers(r) ELSE {replies[r][1]}
          /\ pc[r] \notin {"done", "cut"} => rep = {}

(* message_count of a channel object counts the broadcasts that ran to     *)
(* their end on it: not saved-only, dropped or cancelled ones.             *)
CountIsCompletedBroadcasts ==
    \A o \in Objects :
       count[o] = Cardinality({r \in Requests : pc[r] = "done" /\ obj[r] = o})

(* Every dispatch that has not ended is in _background_tasks, so close     *)
(* reaches it; once closed, no request goes on calling agents (the tasks   *)
(* that notify observers are not cancelled).                               *)
ClosedIsQuiet ==
    /\ \A r \in Requests :
         call[r].mode = "async" /\ pc[r] \in Suspended => r \in background
    /\ closed => \A r \in Requests : pc[r] \notin Suspended

(* A Task exists only for a blocking send that ended, so canceling one     *)
(* never stops a broadcast: every agent had answered already.              *)
TasksComeLate ==
    \A r \in Requests :
       tasks[r] # "none" <=> pc[r] = "done" /\ call[r].mode = "blocking"

-----------------------------------------------------------------------------
(* What a step may never do.                                               *)

IsPrefixOf(s, t) == Len(s) <= Len(t) /\ \A i \in DOMAIN s : t[i] = s[i]

(* Stored messages are never changed, reordered or lost, other than all at *)
(* once by deleting the channel.                                           *)
HistoryOnlyGrows ==
    [][\A c \in Channels :
          \/ IsPrefixOf(history[c], history'[c])
          \/ live[c] # NoObject /\ live'[c] = NoObject /\ history'[c] = <<>>]_vars

(* The positions of the messages that a step appends to a history.         *)
Appended(c) == Len(history[c]) + 1 .. Len(history'[c])

(* Every message that is stored is posted, in the same step, to exactly    *)
(* the webhooks registered under its channel at that moment; when the      *)
(* events of one of those are null, it is posted to some of the others,    *)
(* and ends its send.  Nothing else is posted.                             *)
StoredIsPosted ==
    [][/\ \A c \in Channels : \A i \in Appended(c) :
            LET m == history'[c][i]
                to == {h \in Hooks : [hook |-> h, req |-> m.req, from |-> m.from]
                                       \in posts' \ posts}
            IN IF Raises(c)
               THEN to \subseteq hooks[c] \ Broken /\ pc'[m.req] \in {"unsent", "cut"}
               ELSE to = hooks[c]
       /\ \A m \in posts' \ posts : \E c \in Channels : \E i \in Appended(c) :
            history'[c][i].req = m.req /\ history'[c][i].from = m.from]_vars

-----------------------------------------------------------------------------
(* Liveness, under FairSpec.                                               *)

(* A request that was taken up ends, whatever the agents do.               *)
SendsEnd == \A r \in Requests : pc[r] \in Suspended ~> pc[r] \in Ended

(* The set of dispatch tasks empties. *)
BackgroundDrains == \A r \in Requests : r \in background ~> r \notin background

-----------------------------------------------------------------------------
(* What the repository says and the code does not do.                      *)

(* README.md: "All messages in a channel share a contextId".  The messages *)
(* stored under a channel id name one context.                             *)
OneContextPerChannel ==
    \A c \in Channels : \A i, j \in DOMAIN history[c] :
       history[c][i].ctx = history[c][j].ctx

(* The stream's last event says "All N agents responded" (handler.py): N   *)
(* is the number of agents whose results were yielded.                     *)
FinalEventCountsResults ==
    \A r \in Requests :
       pc[r] = "done" /\ call[r].mode = "stream"
         => Cardinality(announced[r]) = emitted[r]
=============================================================================
