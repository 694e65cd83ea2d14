------------------------------ MODULE Broadcast ------------------------------
(***************************************************************************)
(* What the hub promises of a send, whatever channel, mode and storage: it *)
(* fixes the agents it will ask, asks them one at a time and each once,    *)
(* and is complete when, and only when, every one of them has answered.    *)
(* A send may be given up, refused, dropped or cancelled, before that.     *)
(***************************************************************************)
CONSTANTS Requests, Agents

VARIABLES
    phase,     \* "idle", "accepted", "open", "complete" or "given up"
    targets,   \* the agents a request is broadcast to
    asked,     \* those that were called
    got        \* those whose answer, or failure, was taken

vars == <<phase, targets, asked, got>>

Init ==
    /\ phase = [r \in Requests |-> "idle"]
    /\ targets = [r \in Requests |-> {}]
    /\ asked = [r \in Requests |-> {}]
    /\ got = [r \in Requests |-> {}]

(* A request is taken up, to be broadcast later. *)
Accept(r) ==
    /\ phase[r] = "idle"
    /\ phase' = [phase EXCEPT ![r] = "accepted"]
    /\ UNCHANGED <<targets, asked, got>>

(* The targets are fixed and the first one is called. *)
Open(r) ==
    /\ phase[r] \in {"idle", "accepted"}
    /\ \E T \in SUBSET Agents, first \in Agents :
       /\ first \in T
       /\ phase' = [phase EXCEPT ![r] = "open"]
       /\ targets' = [targets EXCEPT ![r] = T]
       /\ asked' = [asked EXCEPT ![r] = {first}]
    /\ UNCHANGED got

(* There is nobody to broadcast to. *)
CompleteEmpty(r) ==
    /\ phase[r] \in {"idle", "accepted"}
    /\ phase' = [phase EXCEPT ![r] = "complete"]
    /\ UNCHANGED <<targets, asked, got>>

(* The awaited agent answers; the next one may be called at once. *)
Answer(r) ==
    /\ phase[r] = "open"
    /\ asked[r] # got[r]
    /\ got' = [got EXCEPT ![r] = asked[r]]
    /\ \/ /\ asked[r] = targets[r]
          /\ phase' = [phase EXCEPT ![r] = "complete"]
          /\ UNCHANGED asked
       \/ /\ asked[r] # targets[r]
          /\ UNCHANGED <<phase, asked>>
       \/ /\ \E a \in targets[r] \ asked[r] :
                asked' = [asked EXCEPT ![r] = @ \cup {a}]
          /\ UNCHANGED phase
    /\ UNCHANGED targets

(* The next agent is called. *)
Ask(r) ==
    /\ phase[r] = "open"
    /\ asked[r] = got[r]
    /\ \E a \in targets[r] \ asked[r] :
          asked' = [asked EXCEPT ![r] = @ \cup {a}]
    /\ UNCHANGED <<phase, targets, got>>

GiveUp(r) ==
    /\ phase[r] \in {"idle", "accepted", "open"}
    /\ phase' = [phase EXCEPT ![r] = "given up"]
    /\ UNCHANGED <<targets, asked, got>>

(* Several sends may be given up in one step, when the hub shuts down. *)
Shutdown ==
    /\ \E R \in SUBSET {r \in Requests : phase[r] \in {"accepted", "open"}} :
          phase' = [r \in Requests |-> IF r \in R THEN "given up" ELSE phase[r]]
    /\ UNCHANGED <<targets, asked, got>>

Next ==
    \/ \E r \in Requests :
          Accept(r) \/ Open(r) \/ CompleteEmpty(r) \/ Answer(r) \/ Ask(r) \/ GiveUp(r)
    \/ Shutdown

Spec == Init /\ [][Next]_vars

(* A broadcast that was opened and is not given up hears of every target. *)
EveryTargetIsHeard ==
    \A r \in Requests, a \in Agents :
       phase[r] = "open" /\ a \in targets[r]
         ~> a \in got[r] \/ phase[r] = "given up"
=============================================================================
