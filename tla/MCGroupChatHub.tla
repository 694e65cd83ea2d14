--------------------------- MODULE MCGroupChatHub ---------------------------
(* Instances of GroupChatHub for TLC. *)
EXTENDS HubBroadcast, TLC

CONSTANTS human, alice, bob, c1, o1, o2

MCBoot == [c \in Channels |-> o1]
Peer == [role |-> "member", url |-> TRUE]
Observer == [role |-> "observer", url |-> TRUE]

(* The human owns the channel and has no url; the others are peers. *)
MCBootMembers ==
    [o \in Objects |-> [a \in Agents |->
        IF o # o1 THEN NoMember
        ELSE IF a = human THEN [role |-> "owner", url |-> FALSE] ELSE Peer]]

(* The two peers, and the requests, are interchangeable where no input      *)
(* names one of them.                                                      *)
Interchangeable ==
    Permutations(Requests) \cup Permutations({alice, bob})

MCProfiles == {Peer, Observer}
=============================================================================
