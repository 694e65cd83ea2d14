------------------------------ MODULE MCRestApi ------------------------------
(* Instances of RestApi for TLC. *)
EXTENDS RestApi, TLC

CONSTANTS c1, o1, alice

MCBoot == [c \in Channels |-> IF c = c1 THEN o1 ELSE NoObject]

(* Alice is a member of the channel the server starts with. *)
MCBootMembers ==
    [o \in Objects |-> [a \in Agents |->
        IF o = o1 /\ a = alice THEN [role |-> "member", url |-> TRUE] ELSE NoMember]]

(* Two of the roles, with and without a url. *)
MCProfiles == [role : {"member", "observer"}, url : BOOLEAN]

(* No test distinguishes the calls. *)
Interchangeable == Permutations(Calls)
=============================================================================
