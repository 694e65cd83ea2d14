---------------------------- MODULE ChannelStore ----------------------------
(***************************************************************************)
(* The channels, members, message history and webhook registrations that   *)
(* the hub and the REST API share, as the default backend                  *)
(* (storage/memory.py) keeps them.  None of its coroutines ever suspends,  *)
(* so every operation is one atomic step.                                  *)
(*                                                                         *)
(* A Channel is a Python object shared by reference: `live' says which     *)
(* object an id currently names, and a request that still holds an object  *)
(* goes on using it after the id was deleted or created again.  Every      *)
(* object is born with a fresh context_id, so the object stands for it.    *)
(*                                                                         *)
(* A definition marked "mutant" is a bug the code might have had, put in   *)
(* the place of the definition after it to test the properties.            *)
(***************************************************************************)
EXTENDS Naturals, Sequences

CONSTANTS
    Channels,      \* channel ids
    Objects,       \* Channel objects that may be constructed
    Agents,        \* agent ids; a sender need not be a member
    Requests,      \* message/send requests; each has a message of its own
    Hooks,         \* webhook registrations for the "message" event
    Profiles,      \* the members the REST API may add or patch
    NoChannel, NoObject, NoAgent,
    Boot,          \* the object each id names when the server starts serving
    BootMembers    \* the members of the objects at that time

Roles == {"owner", "member", "observer"}

(* A member is its role and whether its url is non-empty.                  *)
NoMember == [role |-> "none", url |-> FALSE]
Member == [role : Roles, url : BOOLEAN]
Slot == Member \cup {NoMember}

(* A stored message: the text a request carried, an agent's reply to it,   *)
(* or the "[Agent error: ...]" text saved in place of a reply.             *)
Record == [kind : {"request", "reply", "error"}, req : Requests,
           from : Agents \cup {NoAgent}, ctx : Objects]

ASSUME StoreAssumption ==
    /\ Profiles \subseteq Member
    /\ NoChannel \notin Channels
    /\ NoObject \notin Objects
    /\ NoAgent \notin Agents
    /\ Boot \in [Channels -> Objects \cup {NoObject}]
    /\ \A c, d \in Channels : Boot[c] = Boot[d] => c = d \/ Boot[c] = NoObject
    /\ BootMembers \in [Objects -> [Agents -> Slot]]

VARIABLES
    live,      \* the object registered under an id, or NoObject
    home,      \* the channel_id of an object, NoChannel before construction
    members,   \* the members of an object
    history,   \* the messages stored under an id, oldest first
    hooks      \* the webhooks registered under an id

storeVars == <<live, home, members, history, hooks>>

StoreTypeOK ==
    /\ live \in [Channels -> Objects \cup {NoObject}]
    /\ home \in [Objects -> Channels \cup {NoChannel}]
    /\ members \in [Objects -> [Agents -> Slot]]
    /\ history \in [Channels -> Seq(Record)]
    /\ hooks \in [Channels -> SUBSET Hooks]

StoreInit ==
    /\ live = Boot
    /\ home = [o \in Objects |->
                 IF \E c \in Channels : Boot[c] = o
                 THEN CHOOSE c \in Channels : Boot[c] = o ELSE NoChannel]
    /\ members = BootMembers
    /\ history = [c \in Channels |-> <<>>]
    /\ hooks = [c \in Channels |-> {}]

-----------------------------------------------------------------------------
(* What a request reads.                                                   *)

(* get_channel / the scan of list_channels for a context_id *)
ChannelById(c) == live[c]
ChannelByContext(o) ==
    IF \E c \in Channels : live[c] = o THEN o ELSE NoObject

CanReceive(m) == m.role \in {"owner", "member"} /\ m.url

(* mutant *)
SendablePeersWithSender(o, sender) == {a \in Agents : CanReceive(members[o][a])}

SendablePeers(o, sender) ==
    {a \in Agents \ {sender} : CanReceive(members[o][a])}

(* get_messages: skip the oldest, take the next ones. *)
MessagePage(c, limit, offset) ==
    LET h == history[c]
    IN SubSeq(h, offset + 1, IF offset + limit < Len(h) THEN offset + limit ELSE Len(h))

Observers(o) == {a \in Agents : members[o][a].role = "observer"}

(* check_can_send: only a member with the observer role is refused *)
MayPost(o, sender) == sender = NoAgent \/ sender \notin Observers(o)

-----------------------------------------------------------------------------
(* Operations.                                                             *)

(* mutant *)
CreateChannelReplacing(c, o) ==
    /\ home[o] = NoChannel
    /\ home' = [home EXCEPT ![o] = c]
    /\ members' = [members EXCEPT ![o] = [a \in Agents |-> NoMember]]
    /\ live' = [live EXCEPT ![c] = o]
    /\ history' = [history EXCEPT ![c] = <<>>]
    /\ hooks' = [hooks EXCEPT ![c] = {}]

(* ChannelRegistry.create_channel: a fresh object replaces whatever the id *)
(* named; the messages and webhooks stored under the id are kept.          *)
CreateChannel(c, o) ==
    /\ home[o] = NoChannel
    /\ home' = [home EXCEPT ![o] = c]
    /\ members' = [members EXCEPT ![o] = [a \in Agents |-> NoMember]]
    /\ live' = [live EXCEPT ![c] = o]
    /\ UNCHANGED <<history, hooks>>

(* save_channel of an object read earlier (PATCH): the id names it again,  *)
(* even when the channel was deleted or created again in between.          *)
SaveChannel(o) ==
    /\ home[o] # NoChannel
    /\ live' = [live EXCEPT ![home[o]] = o]
    /\ UNCHANGED <<home, members, history, hooks>>

(* mutant *)
DeleteChannelOnly(c) ==
    /\ live[c] # NoObject
    /\ live' = [live EXCEPT ![c] = NoObject]
    /\ history' = [history EXCEPT ![c] = <<>>]
    /\ UNCHANGED <<home, members, hooks>>

DeleteChannel(c) ==
    /\ live[c] # NoObject
    /\ live' = [live EXCEPT ![c] = NoObject]
    /\ history' = [history EXCEPT ![c] = <<>>]
    /\ hooks' = [hooks EXCEPT ![c] = {}]
    /\ UNCHANGED <<home, members>>

AddMember(c, a, m) ==
    /\ live[c] # NoObject
    /\ members' = [members EXCEPT ![live[c]][a] = m]
    /\ UNCHANGED <<live, home, history, hooks>>

RemoveMember(c, a) ==
    /\ live[c] # NoObject
    /\ members' = [members EXCEPT ![live[c]][a] = NoMember]
    /\ UNCHANGED <<live, home, history, hooks>>

(* patch_member changes the member it read, in place, whether or not the   *)
(* channel that holds it is still registered.                              *)
PatchMember(o, a, m) ==
    /\ members[o][a] # NoMember
    /\ members' = [members EXCEPT ![o][a] = m]
    /\ UNCHANGED <<live, home, history, hooks>>

(* save_webhook: each call registers a webhook object of its own.           *)
SaveWebhook(c, h) ==
    /\ \A d \in Channels : h \notin hooks[d]
    /\ hooks' = [hooks EXCEPT ![c] = @ \cup {h}]
    /\ UNCHANGED <<live, home, members, history>>

DeleteWebhook(c, h) ==
    /\ h \in hooks[c]
    /\ hooks' = [hooks EXCEPT ![c] = @ \ {h}]
    /\ UNCHANGED <<live, home, members, history>>

(* mutant *)
SaveFirstMessage(c, batch) ==
    /\ history' = [history EXCEPT ![c] =
                     @ \o [i \in DOMAIN batch \cap {1} |-> batch[i]]]
    /\ UNCHANGED <<live, home, members, hooks>>

(* mutant *)
SaveNewestFirst(c, batch) ==
    /\ history' = [history EXCEPT ![c] = batch \o @]
    /\ UNCHANGED <<live, home, members, hooks>>

(* save_message, once per message of the batch: it asks for no channel.    *)
SaveMessages(c, batch) ==
    /\ history' = [history EXCEPT ![c] = @ \o batch]
    /\ UNCHANGED <<live, home, members, hooks>>

(* Every operation the REST API makes of the store.                        *)
StoreOperation ==
    \/ \E c \in Channels, o \in Objects : CreateChannel(c, o)
    \/ \E o \in Objects : SaveChannel(o)
    \/ \E c \in Channels : DeleteChannel(c)
    \/ \E c \in Channels, a \in Agents, m \in Profiles : AddMember(c, a, m)
    \/ \E c \in Channels, a \in Agents : RemoveMember(c, a)
    \/ \E o \in Objects, a \in Agents, m \in Profiles : PatchMember(o, a, m)
    \/ \E c \in Channels, h \in Hooks : SaveWebhook(c, h)
    \/ \E c \in Channels, h \in Hooks : DeleteWebhook(c, h)
=============================================================================
