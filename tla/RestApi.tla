------------------------------- MODULE RestApi -------------------------------
(***************************************************************************)
(* The administrative endpoints of hub/server.py over the in-memory store. *)
(*                                                                         *)
(* A handler that needs a request body awaits it after it has looked at    *)
(* the channel, so it is two steps: what it finds, and what it does once   *)
(* the body is there.  Any other call may run in between.  A handler       *)
(* without a body is one step.                                             *)
(***************************************************************************)
EXTENDS ChannelStore

CONSTANT Calls     \* the calls clients make

(* What the body of a PATCH of a member says of a field.                   *)
RoleField == {m.role : m \in Profiles} \cup {"absent", "invalid"}
UrlField == {"absent", "empty", "set"}

(* Clients give some of the roles, and a member with or without a url.     *)
ASSUME RestAssumption ==
    /\ \E given \in SUBSET Roles : Profiles = [role : given, url : BOOLEAN]
    /\ \A o \in Objects, a \in Agents : BootMembers[o][a] \in Profiles \cup {NoMember}

Operations == {"create", "patchChannel", "delete", "addMember", "removeMember",
               "patchMember", "addHook", "removeHook"}

VARIABLES
    at,        \* "idle", "reading" the body, or "ended"
    op,        \* the operation of a call that awaits its body
    cid,       \* the channel id in its path (create: in its body)
    aid,       \* patch_member: the agent id in its path
    held,      \* the Channel object it found
    attached,  \* patch_member: whether the member object it found is still
               \* the one the channel holds
    reply,     \* "ok", "error", or "none" yet
    (* for the properties only *)
    book,      \* what an id holds if every call took effect at its reply
    raced      \* a call that replied "ok" acted on what was no longer there

callVars == <<at, op, cid, aid, held, attached, reply>>
vars == <<storeVars, callVars, book, raced>>

Unregistered == [exists |-> FALSE, members |-> [a \in Agents |-> NoMember],
                 hooks |-> {}]

TypeOK ==
    /\ StoreTypeOK
    /\ at \in [Calls -> {"idle", "reading", "ended"}]
    /\ op \in [Calls -> Operations \cup {"none"}]
    /\ cid \in [Calls -> Channels \cup {NoChannel}]
    /\ aid \in [Calls -> Agents \cup {NoAgent}]
    /\ held \in [Calls -> Objects \cup {NoObject}]
    /\ attached \in [Calls -> BOOLEAN]
    /\ reply \in [Calls -> {"none", "ok", "error"}]
    /\ \A q \in Calls :
         /\ attached[q] => /\ op[q] = "patchMember"
                           /\ members[held[q]][aid[q]] # NoMember
         /\ at[q] = "reading" <=> op[q] # "none"
         /\ at[q] = "ended" <=> reply[q] # "none"
    /\ book \in [Channels -> [exists : BOOLEAN, members : [Agents -> Slot],
                              hooks : SUBSET Hooks]]
    /\ raced \in BOOLEAN

Init ==
    /\ StoreInit
    /\ at = [q \in Calls |-> "idle"]
    /\ op = [q \in Calls |-> "none"]
    /\ cid = [q \in Calls |-> NoChannel]
    /\ aid = [q \in Calls |-> NoAgent]
    /\ held = [q \in Calls |-> NoObject]
    /\ attached = [q \in Calls |-> FALSE]
    /\ reply = [q \in Calls |-> "none"]
    /\ book = [c \in Channels |->
                 IF live[c] = NoObject THEN Unregistered
                 ELSE [exists |-> TRUE, members |-> members[live[c]], hooks |-> {}]]
    /\ raced = FALSE

-----------------------------------------------------------------------------
(* The request arrives.                                                    *)

Asks(q, operation, c) ==
    /\ at[q] = "idle"
    /\ at' = [at EXCEPT ![q] = "reading"]
    /\ op' = [op EXCEPT ![q] = operation]
    /\ cid' = [cid EXCEPT ![q] = c]
    /\ UNCHANGED <<storeVars, reply, book, raced>>

Ends(q, status) ==
    /\ at' = [at EXCEPT ![q] = "ended"]
    /\ reply' = [reply EXCEPT ![q] = status]

(* The handlers that look before they await the body find a channel, and   *)
(* patch_member the member too.                                            *)
Finds(q, operation, c, a) ==
    /\ Asks(q, operation, c)
    /\ operation \in {"patchChannel", "addMember", "addHook", "patchMember"}
    /\ ChannelById(c) # NoObject
    /\ operation = "patchMember" => members[ChannelById(c)][a] # NoMember
    /\ aid' = [aid EXCEPT ![q] = IF operation = "patchMember" THEN a ELSE NoAgent]
    /\ held' = [held EXCEPT ![q] = ChannelById(c)]
    /\ attached' = [attached EXCEPT ![q] = operation = "patchMember"]

(* 404 *)
FindsNothing(q, operation, c, a) ==
    /\ at[q] = "idle"
    /\ \/ /\ operation \in {"patchChannel", "addMember", "addHook", "patchMember",
                            "delete"}
          /\ ChannelById(c) = NoObject
       \/ /\ operation \in {"patchMember", "removeMember"}
          /\ ChannelById(c) # NoObject => members[ChannelById(c)][a] = NoMember
       \/ operation = "removeHook"   \* an id nobody registered
    /\ Ends(q, "error")
    /\ UNCHANGED <<storeVars, op, cid, aid, held, attached, book, raced>>

(* create_channel looks at nothing before it awaits the body, which names  *)
(* the channel id.                                                         *)
AsksToCreate(q, c) ==
    /\ Asks(q, "create", c)
    /\ UNCHANGED <<aid, held, attached>>

-----------------------------------------------------------------------------
(* mutant *)
DetachNobody(o, a) == UNCHANGED attached

(* Members that leave their slot are no longer the channel's: a call that  *)
(* holds one patches an object nobody reads.                               *)
Detach(o, a) ==
    attached' = [q \in Calls |-> attached[q] /\ ~(held[q] = o /\ aid[q] = a)]

(* The book as of a reply, kept until a stale one.                         *)
Note(c, entry, stale) ==
    /\ raced' = (raced \/ stale)
    /\ book' = IF raced' THEN book ELSE [book EXCEPT ![c] = entry]

(* delete_channel *)
Delete(q, c) ==
    /\ at[q] = "idle"
    /\ DeleteChannel(c)
    /\ Ends(q, "ok")
    /\ Note(c, Unregistered, FALSE)
    /\ UNCHANGED <<op, cid, aid, held, attached>>

(* remove_member *)
Remove(q, c, a) ==
    /\ at[q] = "idle"
    /\ ChannelById(c) # NoObject
    /\ members[ChannelById(c)][a] # NoMember
    /\ RemoveMember(c, a)
    /\ Detach(live[c], a)
    /\ Ends(q, "ok")
    /\ Note(c, [book[c] EXCEPT !.members[a] = NoMember], FALSE)
    /\ UNCHANGED <<op, cid, aid, held>>

(* delete_webhook asks for no channel *)
RemoveHook(q, c, h) ==
    /\ at[q] = "idle"
    /\ DeleteWebhook(c, h)
    /\ Ends(q, "ok")
    /\ Note(c, [book[c] EXCEPT !.hooks = @ \ {h}], FALSE)
    /\ UNCHANGED <<op, cid, aid, held, attached>>

-----------------------------------------------------------------------------
(* The body has arrived.                                                   *)

Resumes(q, operation) ==
    /\ at[q] = "reading"
    /\ op[q] = operation
    /\ op' = [op EXCEPT ![q] = "none"]
    /\ cid' = [cid EXCEPT ![q] = NoChannel]
    /\ aid' = [aid EXCEPT ![q] = NoAgent]
    /\ held' = [held EXCEPT ![q] = NoObject]

(* No JSON, a required field missing, or a new member's role none: the     *)
(* handler answers 400, or raises and the server answers 500.              *)
BadBody(q) ==
    /\ Resumes(q, op[q])
    /\ attached' = [attached EXCEPT ![q] = FALSE]
    /\ Ends(q, "error")
    /\ UNCHANGED <<storeVars, book, raced>>

Create(q, o) ==
    LET c == cid[q]
    IN /\ Resumes(q, "create")
       /\ CreateChannel(c, o)
       /\ Ends(q, "ok")
       /\ Note(c, [exists |-> TRUE, members |-> [a \in Agents |-> NoMember],
                   hooks |-> book[c].hooks], FALSE)
       /\ UNCHANGED attached

(* patch_channel saves the object it found, whatever the id names now.     *)
Patch(q) ==
    /\ Resumes(q, "patchChannel")
    /\ SaveChannel(held[q])
    /\ Ends(q, "ok")
    /\ Note(cid[q], book[cid[q]], live[cid[q]] # held[q])
    /\ UNCHANGED attached

(* mutant *)
AddToHeld(q, c, a, m) ==
    /\ members' = [members EXCEPT ![held[q]][a] = m]
    /\ Detach(held[q], a)
    /\ UNCHANGED <<live, home, history, hooks>>

(* save_member looks the channel up again and does nothing without one.    *)
SaveMember(q, c, a, m) ==
    IF live[c] = NoObject THEN UNCHANGED <<storeVars, attached>>
    ELSE AddMember(c, a, m) /\ Detach(live[c], a)

(* add_member *)
Add(q, a, m) ==
    LET c == cid[q]
    IN /\ Resumes(q, "addMember")
       /\ SaveMember(q, c, a, m)
       /\ Ends(q, "ok")
       /\ Note(c, [book[c] EXCEPT !.members[a] = m], live[c] = NoObject)

(* The order patch_member assigns the fields of a member in.  The name is  *)
(* assigned between the two; no property reads it.                         *)
FieldOrder == <<"role", "url">>

(* The fields it comes to: a role that is none of MemberRole raises where  *)
(* it is assigned, and what was assigned before stays.                     *)
Assigned(role) ==
    {FieldOrder[i] : i \in {j \in DOMAIN FieldOrder :
                              \A k \in 1..j : FieldOrder[k] = "role" => role # "invalid"}}

(* The member after that: only the fields the body has are replaced.       *)
Patched(m, role, url) ==
    [role |-> IF "role" \in Assigned(role) /\ role # "absent" THEN role ELSE m.role,
     url |-> IF "url" \in Assigned(role) /\ url # "absent" THEN url = "set" ELSE m.url]

(* mutant *)
PatchHeldAndSave(q, role, url) ==
    LET o == held[q]
        a == aid[q]
    IN /\ members' = IF attached[q]
                     THEN [members EXCEPT ![o][a] = Patched(@, role, url)]
                     ELSE members
       /\ live' = [live EXCEPT ![home[o]] = o]
       /\ UNCHANGED <<home, history, hooks>>

(* patch_member changes the member object it found and saves nothing.      *)
PatchHeld(q, role, url) ==
    LET o == held[q]
        a == aid[q]
    IN IF attached[q] THEN PatchMember(o, a, Patched(members[o][a], role, url))
       ELSE UNCHANGED storeVars

PatchFound(q, role, url) ==
    LET c == cid[q]
        a == aid[q]
    IN /\ Resumes(q, "patchMember")
       /\ role # "invalid"
       /\ PatchHeld(q, role, url)
       /\ Ends(q, "ok")
       /\ Note(c, [book[c] EXCEPT !.members[a] = Patched(@, role, url)],
               ~attached[q] \/ live[c] # held[q])
       /\ attached' = [attached EXCEPT ![q] = FALSE]

(* The role is none: the handler raises, and the server answers 500.       *)
PatchRefused(q, role, url) ==
    /\ Resumes(q, "patchMember")
    /\ role = "invalid"
    /\ PatchHeld(q, role, url)
    /\ Ends(q, "error")
    /\ attached' = [attached EXCEPT ![q] = FALSE]
    /\ UNCHANGED <<book, raced>>

(* create_webhook registers under the id, channel or not.                  *)
AddHook(q, h) ==
    LET c == cid[q]
    IN /\ Resumes(q, "addHook")
       /\ SaveWebhook(c, h)
       /\ Ends(q, "ok")
       /\ Note(c, [book[c] EXCEPT !.hooks = @ \cup {h}], live[c] = NoObject)
       /\ UNCHANGED attached

-----------------------------------------------------------------------------
Arrival(q, c) ==
    \/ \E operation \in Operations, a \in Agents :
          Finds(q, operation, c, a) \/ FindsNothing(q, operation, c, a)
    \/ AsksToCreate(q, c)
    \/ Delete(q, c)
    \/ \E a \in Agents : Remove(q, c, a)
    \/ \E h \in Hooks : RemoveHook(q, c, h)

Body(q) ==
    \/ BadBody(q)
    \/ \E o \in Objects : Create(q, o)
    \/ Patch(q)
    \/ \E a \in Agents, m \in Profiles : Add(q, a, m)
    \/ \E role \in RoleField, url \in UrlField :
          PatchFound(q, role, url) \/ PatchRefused(q, role, url)
    \/ \E h \in Hooks : AddHook(q, h)

Next == \E q \in Calls : Body(q) \/ \E c \in Channels : Arrival(q, c)

Spec == Init /\ [][Next]_vars

-----------------------------------------------------------------------------
(* The channel registered under an id, as its readers see it. *)
Seen(c) ==
    IF live[c] = NoObject THEN [Unregistered EXCEPT !.hooks = hooks[c]]
    ELSE [exists |-> TRUE, members |-> members[live[c]], hooks |-> hooks[c]]

(* The calls are linearizable: each looks as if it had happened at once    *)
(* when it replied, whatever overlapped it, unless some call said "ok"     *)
(* about a channel or a member that was gone when it acted (server.py:153, *)
(* 176, 198, 230: the only four places).                                   *)
AtomicUnlessStale == raced \/ \A c \in Channels : book[c] = Seen(c)

(* A channel object that an id no longer names is registered again only by *)
(* a PATCH of the channel that found it before (server.py:153).            *)
OnlyPatchRevives ==
    [][\A c \in Channels :
          live'[c] # live[c] /\ live'[c] # NoObject /\ home[live'[c]] # NoChannel
            => \E q \in Calls : /\ op[q] = "patchChannel"
                                /\ held[q] = live'[c]
                                /\ at[q] = "reading" /\ at'[q] = "ended"]_vars

(* The store the endpoints drive makes the operations of ChannelStore and  *)
(* no others, which is what GroupChatHub assumes of its environment.       *)
ImplementsStore == StoreInit /\ [][StoreOperation]_storeVars
=============================================================================
