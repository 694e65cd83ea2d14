-------------------------- MODULE MCStorageBackends --------------------------
(* Instances of StorageBackends for TLC. *)
EXTENDS StorageBackends, TLC

MCBoot == [c \in Channels |-> NoObject]
MCBootMembers == [o \in Objects |-> [a \in Agents |-> NoMember]]

MCProfiles ==
    {[role |-> "member", url |-> TRUE], [role |-> "observer", url |-> FALSE]}

CONSTANTS sameId, hookId
(* The two clients choose the same message id. *)
MCChosenId == [r \in Requests |-> sameId]
(* So do those who register webhooks. *)
MCHookId == [h \in Hooks |-> hookId]
Interchangeable ==
    Permutations(Requests) \cup Permutations(Channels) \cup Permutations(Hooks) \cup
    Permutations(Objects) \cup Permutations(Agents) \cup Permutations(Names)
=============================================================================
