------------------------------- MODULE LlmAgent -------------------------------
(***************************************************************************)
(* agents/llm_agent.py: one executor serves every message the agent is     *)
(* sent, and keeps one history of turns per context.  Messages of one      *)
(* context overlap while the model is awaited, because the hub has one     *)
(* context per channel and several sends may be under way in it.           *)
(*                                                                         *)
(* A turn is its role: the text plays no part, and a failed call to the    *)
(* model becomes an answer like any other ("[error] ...").                 *)
(***************************************************************************)
EXTENDS Integers, Sequences

CONSTANTS
    Contexts,
    Caps,              \* the values max_history may have
    MaxExecutions      \* bound: messages sent to the agent

ASSUME AgentAssumption == Caps \subseteq Nat \ {0}

VARIABLES
    hasClient,     \* whether there is an API key
    maxHistory,
    history,       \* the turns of a context, oldest first
    awaiting,      \* how many executions of a context await the model
    executions,
    (* for the properties only *)
    calm           \* executions of a context since the last that overlapped,
                   \* counted up to maxHistory; -1 while they overlap

vars == <<hasClient, maxHistory, history, awaiting, executions, calm>>

Init ==
    /\ hasClient \in BOOLEAN
    /\ maxHistory \in Caps
    /\ history = [c \in Contexts |-> <<>>]
    /\ awaiting = [c \in Contexts |-> 0]
    /\ executions = 0
    /\ calm = [c \in Contexts |-> maxHistory]

-----------------------------------------------------------------------------
(* mutant *)
CapOldest(turns) ==
    IF Len(turns) > maxHistory THEN SubSeq(turns, 1, maxHistory) ELSE turns

(* The cap keeps the newest turns. *)
Cap(turns) ==
    IF Len(turns) > maxHistory
    THEN SubSeq(turns, Len(turns) - maxHistory + 1, Len(turns)) ELSE turns

(* mutant *)
AnsweredAfterCap(turns) == Append(Cap(turns), "assistant")

(* The answer is added, and then the history capped. *)
Answered(turns) == Cap(Append(turns, "assistant"))

Executed(c) == IF calm[c] < maxHistory THEN calm[c] + 1 ELSE calm[c]

(* execute, up to the call of the model. *)
Execute(c) ==
    /\ hasClient
    /\ executions < MaxExecutions
    /\ executions' = executions + 1
    /\ history' = [history EXCEPT ![c] = Append(@, "user")]
    /\ awaiting' = [awaiting EXCEPT ![c] = @ + 1]
    /\ calm' = IF awaiting[c] > 0 THEN [calm EXCEPT ![c] = -1] ELSE calm
    /\ UNCHANGED <<hasClient, maxHistory>>

(* The model has answered one of the awaiting executions, or failed.       *)
ModelAnswers(c) ==
    /\ awaiting[c] > 0
    /\ awaiting' = [awaiting EXCEPT ![c] = @ - 1]
    /\ history' = [history EXCEPT ![c] = Answered(@)]
    /\ calm' = IF awaiting[c] = 1 THEN [calm EXCEPT ![c] = Executed(c)] ELSE calm
    /\ UNCHANGED <<hasClient, maxHistory, executions>>

(* Without a client execute echoes the message, and never suspends.        *)
ExecuteEcho(c) ==
    /\ ~hasClient
    /\ executions < MaxExecutions
    /\ executions' = executions + 1
    /\ history' = [history EXCEPT ![c] = Answered(Append(@, "user"))]
    /\ calm' = [calm EXCEPT ![c] = Executed(c)]
    /\ UNCHANGED <<hasClient, maxHistory, awaiting>>

Next == \E c \in Contexts : Execute(c) \/ ModelAnswers(c) \/ ExecuteEcho(c)

Spec == Init /\ [][Next]_vars

-----------------------------------------------------------------------------
(* The cap is applied by executions that end, so a history outgrows it     *)
(* while executions overlap; by no more than those that are not answered,  *)
(* and by nothing when all are (llm_agent.py:72).                          *)
HistoryBounded ==
    \A c \in Contexts : Len(history[c]) <= maxHistory + awaiting[c]

(* Overlapping executions leave two user turns and then two answers, and   *)
(* the cap can then cut a question from its answer.  Once half as many     *)
(* executions as the cap have gone by without overlap the turns alternate  *)
(* again, also in what the model is sent; and start with the user's if the *)
(* cap is even (llm_agent.py:61-73).                                       *)
TurnsRecover ==
    \A c \in Contexts :
       calm[c] >= 0 /\ 2 * calm[c] >= maxHistory =>
         /\ \A i \in 1 .. Len(history[c]) - 1 : history[c][i] # history[c][i + 1]
         /\ maxHistory % 2 = 0 /\ history[c] # <<>> => history[c][1] = "user"
=============================================================================
