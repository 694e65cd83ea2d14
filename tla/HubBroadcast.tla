---------------------------- MODULE HubBroadcast ----------------------------
(* The hub implements Broadcast. *)
EXTENDS GroupChatHub

(* The phase of a request: once every target has answered it is complete,  *)
(* even when the consumer of a stream leaves before the last artifact or   *)
(* the replies are not saved.                                              *)
Phase(r) ==
    CASE pc[r] = "idle" -> "idle"
      [] pc[r] \in {"scheduled", "announced"} -> "accepted"
      [] pc[r] \in {"sending", "pausing"} -> "open"
      [] pc[r] \in {"emitting", "done", "cut"} -> "complete"
      [] pc[r] = "cancelled" /\ sendable[r] # {} /\ sendable[r] = Answered(r) ->
            "complete"
      [] OTHER -> "given up"

B == INSTANCE Broadcast WITH
        phase <- [r \in Requests |-> Phase(r)],
        targets <- sendable,
        asked <- [r \in Requests |-> Answered(r) \cup ({cur[r]} \ {NoAgent})],
        got <- [r \in Requests |-> Answered(r)]

(* The hub implements the broadcast it promises: through every handler,    *)
(* suspension point, pause, shutdown and change of the members, a request  *)
(* only ever makes steps of Broadcast (handler.py, fanout.py).             *)
ImplementsBroadcast == B!Spec

(* Under FairSpec every agent of the snapshot is asked and its answer or   *)
(* failure taken, unless the send is cancelled (fan_out's loop).           *)
HearsEveryTarget == B!EveryTargetIsHeard
=============================================================================
