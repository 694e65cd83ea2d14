--------------------------- MODULE StorageBackends ---------------------------
(***************************************************************************)
(* The three storage backends under the same calls: what the in-memory     *)
(* store of ChannelStore holds against what SQLite, and Neo4j with Qdrant, *)
(* hold after the same requests.  A handler that awaits its body acts on   *)
(* what it found before, with other calls in between; for the rest         *)
(* handlers run without overlap here (RestApi has the overlaps).  A        *)
(* channel object of the memory store stands for its context_id.  The code *)
(* has no test of the SQLite backend.                                      *)
(***************************************************************************)
EXTENDS ChannelStore, FiniteSets, Filters

CONSTANTS
    Names,             \* what members may be called
    Patches,           \* PATCH calls of channels that may be under way at once
    Ids, HookId,       \* the id a webhook registration is given
    Absent,            \* no row, node or relationship
    ChosenId,          \* the message id a client chose for its request
    MaxSteps           \* bound: calls made

(* The comparison starts from empty stores.  What is not there is no       *)
(* context, member, membership or node.                                    *)
ASSUME BackendAssumption ==
    /\ HookId \in [Hooks -> Ids]
    /\ Boot = [c \in Channels |-> NoObject]
    /\ Absent \notin Objects \cup Member \cup [role : Roles, since : {0}]
                    \cup [agent : Agents, url : BOOLEAN]

VARIABLES
    channelRows, memberRows, messageRows, webhookRows,                \* SQLite
    channelNodes, agentNodes, memberships, webhookNodes, points,      \* composite
    (* PATCH calls of a channel that await their body *)
    found,        \* the channel object of the memory store, NoObject if none
    copy,         \* the copies SQLite and Neo4j gave: [context, members, node]
    (* what was asked, for the bounds and the properties *)
    changed,      \* the agents added or removed since a PATCH found its object
    unsaved,      \* those of the PATCH that saved a channel last
    late,         \* ids a PATCH gave back an object they no longer named
    sentTo,       \* the channel object a request was sent to
    answered,     \* the replies saved, as <<request, agent>>
    patched,      \* members patched since they were last added, as <<object, agent>>
    recreated,    \* ids created while they were registered
    registered,   \* who was registered under which name, as <<agent, name>>
    latestUrl,    \* whether the latest registration of an agent gave a url
    steps

Sq == INSTANCE SqliteStorage
Co == INSTANCE CompositeStorage

sqliteVars == <<channelRows, memberRows, messageRows, webhookRows>>
compositeVars == <<channelNodes, agentNodes, memberships, webhookNodes, points>>
patchVars == <<found, copy, changed>>
memberGhosts == <<unsaved, late, patched, recreated, registered, latestUrl>>
messageGhosts == <<sentTo, answered>>
vars == <<storeVars, sqliteVars, compositeVars, patchVars, memberGhosts,
          messageGhosts, steps>>

NoCopy == [context |-> Absent, members |-> Sq!NoMembers, node |-> Absent]

Init ==
    /\ StoreInit
    /\ channelRows = [c \in Channels |-> Absent]
    /\ memberRows = [c \in Channels |-> Sq!NoMembers]
    /\ messageRows = <<>>
    /\ webhookRows = [c \in Channels |-> {}]
    /\ channelNodes = [c \in Channels |-> Absent]
    /\ agentNodes = [n \in Names |-> Absent]
    /\ memberships = [c \in Channels |-> [n \in Names |-> Absent]]
    /\ webhookNodes = [c \in Channels |-> Co!NoWebhooks]
    /\ points = <<>>
    /\ found = [p \in Patches |-> NoObject]
    /\ copy = [p \in Patches |-> NoCopy]
    /\ changed = [p \in Patches |-> {}]
    /\ unsaved = [c \in Channels |-> {}]
    /\ late = {}
    /\ sentTo = [r \in Requests |-> NoObject]
    /\ answered = {}
    /\ patched = {}
    /\ recreated = {}
    /\ registered = {}
    /\ latestUrl = [a \in Agents |-> FALSE]
    /\ steps = 0

(* A registration is known by its url. *)
Hook(h) == [id |-> HookId[h], url |-> h]
MessageId(rec) ==
    IF rec.kind = "request" THEN ChosenId[rec.req] ELSE <<rec.req, rec.from>>

Exists(c) == live[c] # NoObject
HasExisted(c) == \E o \in Objects : home[o] = c

-----------------------------------------------------------------------------
(* POST /api/channels *)
Create(c, o) ==
    /\ CreateChannel(c, o)
    /\ Sq!SaveChannel(c, o, Sq!NoMembers)
    /\ Co!SaveChannel(c, o)
    /\ unsaved' = [unsaved EXCEPT ![c] = {}]
    /\ late' = late \ {c}
    /\ recreated' = IF Exists(c) THEN recreated \cup {c} ELSE recreated
    /\ UNCHANGED <<patchVars, patched, registered, latestUrl, messageGhosts>>

(* PATCH of a channel reads it: the memory store gives its object, the     *)
(* databases a copy, with the members as SQLite has them now.              *)
ReadToPatch(p, c) ==
    /\ found[p] = NoObject
    /\ Exists(c)
    /\ found' = [found EXCEPT ![p] = live[c]]
    /\ copy' = [copy EXCEPT ![p] = [context |-> channelRows[c],
                                    members |-> memberRows[c],
                                    node |-> channelNodes[c]]]
    /\ changed' = [changed EXCEPT ![p] = unsaved[c]]
    /\ UNCHANGED <<storeVars, sqliteVars, compositeVars, memberGhosts, messageGhosts>>

(* Each backend saves what it gave, whatever happened in between.          *)
SaveRead(p) ==
    LET c == home[found[p]]
    IN /\ SaveChannel(found[p])
       /\ Sq!SaveChannel(c, copy[p].context, copy[p].members)
       /\ Co!SaveChannel(c, copy[p].node)

(* The body of the PATCH has arrived.  (It changes fields no property      *)
(* reads.  A PATCH whose body never comes, or is refused, saves nothing.)  *)
Patch(p) ==
    LET c == home[found[p]]
    IN /\ found[p] # NoObject
       /\ SaveRead(p)
       /\ unsaved' = [unsaved EXCEPT ![c] = changed[p]]
       /\ late' = IF live[c] = found[p] THEN late ELSE late \cup {c}
       /\ found' = [found EXCEPT ![p] = NoObject]
       /\ copy' = [copy EXCEPT ![p] = NoCopy]
       /\ changed' = [changed EXCEPT ![p] = {}]
       /\ UNCHANGED <<patched, recreated, registered, latestUrl, messageGhosts>>

Delete(c) ==
    /\ DeleteChannel(c)
    /\ Sq!DeleteChannel(c)
    /\ Co!DeleteChannel(c)
    /\ unsaved' = [unsaved EXCEPT ![c] = {}]
    /\ late' = late \ {c}
    /\ recreated' = recreated \ {c}
    /\ UNCHANGED <<patchVars, patched, registered, latestUrl, messageGhosts>>

(* a's membership of the object c names has been added or removed: SQLite  *)
(* has it as it is, the copy of a PATCH under way has not.                 *)
MembershipChanged(c, a) ==
    /\ changed' = [p \in Patches |-> IF Exists(c) /\ found[p] = live[c]
                                     THEN changed[p] \cup {a} ELSE changed[p]]
    /\ unsaved' = [unsaved EXCEPT ![c] = @ \ {a}]
    /\ patched' = patched \ {<<live[c], a>>}
    /\ UNCHANGED <<found, copy, late, recreated, messageGhosts>>

(* POST of a member, and of a webhook below: the channel was there when    *)
(* the handler looked, before it awaited the body.  The body gives the     *)
(* name.  No property reads when a member was saved.                       *)
Add(c, a, n, m) ==
    /\ HasExisted(c)
    /\ IF Exists(c)
       THEN /\ AddMember(c, a, m)
            /\ Sq!SaveMember(c, a, m)
            /\ latestUrl' = [latestUrl EXCEPT ![a] = m.url]
            /\ registered' = registered \cup {<<a, n>>}
       ELSE UNCHANGED <<storeVars, sqliteVars, latestUrl, registered>>
    /\ Co!SaveMember(c, a, n, m, 0)
    /\ MembershipChanged(c, a)

Remove(c, a) ==
    /\ RemoveMember(c, a)
    /\ Sq!RemoveMember(c, a)
    /\ Co!RemoveMember(c, a)
    /\ MembershipChanged(c, a)
    /\ UNCHANGED <<latestUrl, registered>>

(* PATCH of a member changes the object it found before its body came, and *)
(* saves nothing: with a database that object is a copy.                   *)
PatchMemberOf(o, a, m) ==
    /\ PatchMember(o, a, m)
    /\ patched' = patched \cup {<<o, a>>}
    /\ UNCHANGED <<sqliteVars, compositeVars, patchVars, unsaved, late, recreated,
                   registered, latestUrl, messageGhosts>>

Store(c, rec) ==
    /\ SaveMessages(c, <<rec>>)
    /\ IF Sq!HasChannel(c) THEN Sq!SaveMessage(MessageId(rec), c, rec)
       ELSE UNCHANGED sqliteVars
    /\ Co!SaveMessage(c, rec)

(* A request is saved under the channel it resolved, at once.              *)
Send(r, c) ==
    /\ sentTo[r] = NoObject
    /\ Exists(c)
    /\ Store(c, [kind |-> "request", req |-> r, from |-> NoAgent, ctx |-> live[c]])
    /\ sentTo' = [sentTo EXCEPT ![r] = live[c]]
    /\ UNCHANGED <<patchVars, memberGhosts, answered>>

(* A reply is saved under the same id later, whatever became of it.        *)
Reply(r, a) ==
    LET o == sentTo[r]
    IN /\ o # NoObject
       /\ <<r, a>> \notin answered
       /\ Store(home[o], [kind |-> "reply", req |-> r, from |-> a, ctx |-> o])
       /\ answered' = answered \cup {<<r, a>>}
       /\ UNCHANGED <<patchVars, memberGhosts, sentTo>>

(* The body gives the webhook's id, which may be one that is taken.        *)
Subscribe(c, h) ==
    /\ HasExisted(c)
    /\ SaveWebhook(c, h)
    /\ IF Sq!HasChannel(c) THEN Sq!SaveWebhook(c, Hook(h))
       ELSE UNCHANGED sqliteVars
    /\ Co!SaveWebhook(c, Hook(h))
    /\ UNCHANGED <<patchVars, memberGhosts, messageGhosts>>

(* DELETE of an id: the memory store drops one registration that has it,   *)
(* the databases all.                                                      *)
Unsubscribe(c, h) ==
    /\ DeleteWebhook(c, h)
    /\ Sq!DeleteWebhook(c, HookId[h])
    /\ Co!DeleteWebhook(c, HookId[h])
    /\ UNCHANGED <<patchVars, memberGhosts, messageGhosts>>

Operation ==
    \/ \E c \in Channels :
          \/ \E o \in Objects : Create(c, o)
          \/ \E p \in Patches : ReadToPatch(p, c)
          \/ Delete(c)
          \/ \E a \in Agents, n \in Names, m \in Profiles : Add(c, a, n, m)
          \/ \E a \in Agents : Remove(c, a)
          \/ \E r \in Requests : Send(r, c)
          \/ \E h \in Hooks : Subscribe(c, h) \/ Unsubscribe(c, h)
    \/ \E p \in Patches : Patch(p)
    \/ \E o \in Objects, a \in Agents, m \in Profiles : PatchMemberOf(o, a, m)
    \/ \E r \in Requests, a \in Agents : Reply(r, a)

Next ==
    /\ steps < MaxSteps
    /\ steps' = steps + 1
    /\ Operation

Spec == Init /\ [][Next]_vars

-----------------------------------------------------------------------------
IsMember(c, a) == Exists(c) /\ members[live[c]][a] # NoMember

(* SQLite agrees with the memory store on which channels there are, their  *)
(* contexts and their members, through creations over an id, PATCHes and   *)
(* deletions in any order; only the PATCH of a channel, which saves the    *)
(* copy it read before it awaited its body, drops the members added, and   *)
(* brings back those removed, meanwhile (server.py:143-153).  A profile    *)
(* differs only after a PATCH of the member, which never reaches the       *)
(* database (sqlite_backend.py:102-149, server.py:198).                    *)
SqliteKeepsMembers ==
    \A c \in Channels :
       /\ channelRows[c] = IF Exists(c) THEN live[c] ELSE Absent
       /\ \A a \in Agents \ unsaved[c] :
            /\ memberRows[c][a] # Absent <=> IsMember(c, a)
            /\ IsMember(c, a) /\ <<live[c], a>> \notin patched
                 => memberRows[c][a] = members[live[c]][a]

(* Its every registration was under one name, under which no other agent   *)
(* was ever registered, in any channel.                                    *)
OwnName(a) == \E n \in Names : \A r \in registered : r[1] = a <=> r[2] = n

(* The graph has the same channels and contexts.  Where no PATCH has given *)
(* an id back an object that it no longer named, the graph shows every     *)
(* member of the memory store that has a name of its own, with the same    *)
(* role unless patched, and others only in a channel that was created      *)
(* over.  An agent has one url in all channels, that of its latest         *)
(* registration in any of them (neo4j_backend.py:37-160).                  *)
GraphCoversMembers ==
    \A c \in Channels :
       /\ channelNodes[c] = IF Exists(c) THEN live[c] ELSE Absent
       /\ \A a \in {b \in Agents : OwnName(b)} :
            LET shown == {m \in Co!MembersOf(c) : m.agent = a}
            IN /\ \A m \in shown : m.url = latestUrl[a]
               /\ c \notin late /\ IsMember(c, a) =>
                    /\ shown # {}
                    /\ <<live[c], a>> \notin patched =>
                         \A m \in shown : m.role = members[live[c]][a].role
               /\ c \notin late /\ ~IsMember(c, a) /\ shown # {} => c \in recreated

RangeOf(s) == {s[i] : i \in DOMAIN s}
IsSubsequence(s, t) == s = Filter(t, LAMBDA x : x \in RangeOf(s))
IsSuffix(s, t) == Len(s) <= Len(t) /\ s = SubSeq(t, Len(t) - Len(s) + 1, Len(t))

(* However channels are created over, patched and deleted, replies arrive  *)
(* late and clients repeat message ids: SQLite never shows a message the   *)
(* memory store does not have, nor in another order, and the memory store  *)
(* shows the latest part of what Qdrant has, which forgets nothing.        *)
HistorySandwich ==
    \A c \in Channels :
       /\ IsSubsequence(Sq!History(c), history[c])
       /\ IsSuffix(history[c], Co!History(c))

(* A webhook SQLite holds is in the graph, and one in the graph is in the  *)
(* memory store, whichever ids are given twice (SQLite replaces, the graph *)
(* and the memory store keep both) and dropped again: a deleted channel    *)
(* takes its webhooks along, and one that is registered too late survives  *)
(* in the memory store only.                                               *)
WebhooksNested ==
    \A c \in Channels :
       /\ webhookRows[c] \subseteq DOMAIN webhookNodes[c]
       /\ {hook.url : hook \in DOMAIN webhookNodes[c]} \subseteq hooks[c]

Concatenation(pages) ==
    LET Upto[n \in 0 .. Len(pages)] == IF n = 0 THEN <<>> ELSE Upto[n - 1] \o pages[n]
    IN Upto[Len(pages)]

(* Pages of any size, read at successive offsets, show every message once: *)
(* the memory store's from the oldest on, SQLite's from the newest back    *)
(* (memory.py:50, sqlite_backend.py:166).                                  *)
PagesCoverHistory ==
    \A c \in Channels, limit \in 1 .. 3 :
       LET pages(Page(_, _, _), h) ==
              [i \in 1 .. Len(h) \div limit + 1 |-> Page(c, limit, (i - 1) * limit)]
           mem == pages(MessagePage, history[c])
           sq == pages(Sq!MessagePage, Sq!History(c))
       IN /\ Concatenation(mem) = history[c]
          /\ Concatenation([i \in DOMAIN sq |-> sq[Len(sq) + 1 - i]]) = Sq!History(c)

-----------------------------------------------------------------------------
(* What the documentation says and the code does not do.                   *)

(* docs/api-reference.md: a PATCH of a channel updates only the fields it  *)
(* is given, so the messages stored in SQLite stay.                        *)
SqlitePatchKeepsHistory ==
    [][\A p \in Patches, c \in Channels :
          Patch(p) => Sq!History(c)' = Sq!History(c)]_vars
=============================================================================
