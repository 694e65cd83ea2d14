------------------------ MODULE StorageBackendsProofs ------------------------
(***************************************************************************)
(* SQLite and the graph keep the channels, members, webhooks and histories *)
(* of the memory store, for any number of channels, agents and calls, and  *)
(* pages of a history show all of it.                                      *)
(***************************************************************************)
EXTENDS StorageBackends, SequenceLemmas

(* A registered object knows its id, so no object is registered twice.     *)
Registered == \A c \in Channels : live[c] # NoObject => home[live[c]] = c

(* The memory store, as far as members go. *)
MemoryOK ==
    /\ live \in [Channels -> Objects \cup {NoObject}]
    /\ home \in [Objects -> Channels \cup {NoChannel}]
    /\ members \in [Objects -> [Agents -> Slot]]
    /\ Registered

Rows == [Agents -> Member \cup {Absent}]

SqliteTypeOK ==
    /\ channelRows \in [Channels -> Objects \cup {Absent}]
    /\ memberRows \in [Channels -> Rows]
    /\ unsaved \in [Channels -> SUBSET Agents]

CopyTypeOK ==
    /\ found \in [Patches -> Objects \cup {NoObject}]
    /\ copy \in [Patches -> [context : Objects \cup {Absent}, members : Rows,
                             node : Objects \cup {Absent}]]
    /\ changed \in [Patches -> SUBSET Agents]

Node == [agent : Agents, url : BOOLEAN]
Membership == [role : Roles, since : {0}]

GraphTypeOK ==
    /\ channelNodes \in [Channels -> Objects \cup {Absent}]
    /\ agentNodes \in [Names -> Node \cup {Absent}]
    /\ memberships \in [Channels -> [Names -> Membership \cup {Absent}]]
    /\ registered \in SUBSET (Agents \X Names)
    /\ latestUrl \in [Agents -> BOOLEAN]

(* A row of SQLite, or one a PATCH holds, against a slot of an object.     *)
Agrees(row, o, a) ==
    /\ row # Absent <=> members[o][a] # NoMember
    /\ members[o][a] # NoMember /\ <<o, a>> \notin patched => row = members[o][a]

(* What SQLite holds of one channel, and what a PATCH holds of one: the    *)
(* copy differs from its object only for agents added or removed since it  *)
(* was read.                                                               *)
SqliteAt(c) ==
    /\ channelRows[c] = IF Exists(c) THEN live[c] ELSE Absent
    /\ IF Exists(c)
       THEN \A a \in Agents \ unsaved[c] : Agrees(memberRows[c][a], live[c], a)
       ELSE \A a \in Agents : memberRows[c][a] = Absent

CopyAt(p) ==
    found[p] # NoObject =>
      /\ home[found[p]] # NoChannel
      /\ copy[p].context = found[p] /\ copy[p].node = found[p]
      /\ \A a \in Agents \ changed[p] : Agrees(copy[p].members[a], found[p], a)

(* The agent a has been registered as n only, and nobody else as n. *)
Own(a, n) == \A r \in registered : r[1] = a <=> r[2] = n

(* A node is of an agent that was registered under its name; one that is   *)
(* the agent's own has the url of its latest registration; and whoever is  *)
(* in a channel has a node.                                                *)
NodesInv ==
    /\ \A n \in Names :
         agentNodes[n] # Absent =>
           /\ <<agentNodes[n].agent, n>> \in registered
           /\ \A a \in Agents : Own(a, n) => agentNodes[n].url = latestUrl[a]
    /\ \A c \in Channels, n \in Names :
         memberships[c][n] # Absent => agentNodes[n] # Absent

(* What the graph holds of one channel, for an agent and its own name.     *)
MembershipAt(c, a, n) ==
    /\ IsMember(c, a) => memberships[c][n] # Absent
    /\ IsMember(c, a) /\ <<live[c], a>> \notin patched
         => memberships[c][n].role = members[live[c]][a].role
    /\ ~IsMember(c, a) /\ memberships[c][n] # Absent => c \in recreated

GraphAt(c) ==
    /\ channelNodes[c] = IF Exists(c) THEN live[c] ELSE Absent
    /\ c \in late => Exists(c)
    /\ c \notin late =>
         \A a \in Agents, n \in Names : Own(a, n) => MembershipAt(c, a, n)

SqliteInv == SqliteTypeOK /\ \A c \in Channels : SqliteAt(c)
CopyInv == CopyTypeOK /\ \A p \in Patches : CopyAt(p)
GraphInv == GraphTypeOK /\ NodesInv /\ \A c \in Channels : GraphAt(c)
BackendInv == MemoryOK /\ SqliteInv /\ CopyInv /\ GraphInv

memberVars == <<live, home, members, channelRows, memberRows, channelNodes,
                agentNodes, memberships, patchVars, memberGhosts>>

-----------------------------------------------------------------------------
LEMMA NoMemberIsNoProfile == NoMember \in Slot /\ NoMember \notin Member
BY DEF NoMember, Slot, Member, Roles

(* Nothing is mistaken for a row, a node or a relationship that is absent. *)
LEMMA AbsentIsNothing ==
    /\ Absent \notin Objects
    /\ Absent \notin Member
    /\ \A role \in Roles : [role |-> role, since |-> 0] # Absent
    /\ \A a \in Agents, u \in BOOLEAN : [agent |-> a, url |-> u] # Absent
BY BackendAssumption

LEMMA ProfileIsMember ==
    ASSUME NEW m \in Profiles
    PROVE  m \in Member /\ m # NoMember /\ m # Absent /\ m \in Slot
           /\ m.role \in Roles /\ m.url \in BOOLEAN
<1>1. m \in Member
  BY StoreAssumption
<1>2. m.role \in Roles /\ m.url \in BOOLEAN
  BY <1>1 DEF Member
<1> QED
  BY <1>1, <1>2, NoMemberIsNoProfile, AbsentIsNothing DEF Slot

LEMMA NoRows == Sq!NoMembers \in Rows /\ \A a \in Agents : Sq!NoMembers[a] = Absent
BY DEF Sq!NoMembers, Rows

LEMMA InitMemoryOK == Init => MemoryOK
<1> SUFFICES ASSUME Init PROVE MemoryOK
  OBVIOUS
<1>1. \A c \in Channels : live[c] = NoObject
  BY BackendAssumption DEF Init, StoreInit
<1>2. home = [o \in Objects |-> NoChannel]
  <2>1. \A o \in Objects : ~\E c \in Channels : Boot[c] = o
    BY BackendAssumption, StoreAssumption
  <2> QED
    BY <2>1 DEF Init, StoreInit
<1>3. live = Boot /\ members = BootMembers
  BY DEF Init, StoreInit
<1> QED
  BY <1>1, <1>2, <1>3, StoreAssumption DEF MemoryOK, Registered

LEMMA InitBackendInv == Init => BackendInv
<1> SUFFICES ASSUME Init PROVE BackendInv
  OBVIOUS
<1>1. MemoryOK
  BY InitMemoryOK
<1>2. \A c \in Channels : ~Exists(c)
  BY BackendAssumption DEF Init, StoreInit, Exists
<1>3. SqliteInv
  <2>1. SqliteTypeOK
    BY NoRows DEF Init, SqliteTypeOK
  <2>2. \A c \in Channels : SqliteAt(c)
    BY <1>2, NoRows DEF Init, SqliteAt
  <2> QED
    BY <2>1, <2>2 DEF SqliteInv
<1>4. CopyInv
  <2>1. CopyTypeOK
    BY NoRows DEF Init, CopyTypeOK, NoCopy
  <2>2. \A p \in Patches : CopyAt(p)
    BY DEF Init, CopyAt
  <2> QED
    BY <2>1, <2>2 DEF CopyInv
<1>5. GraphInv
  <2>1. GraphTypeOK
    BY DEF Init, GraphTypeOK
  <2>2. NodesInv
    BY DEF Init, NodesInv
  <2>3. \A c \in Channels : GraphAt(c)
    BY <1>2 DEF Init, GraphAt, MembershipAt, IsMember
  <2> QED
    BY <2>1, <2>2, <2>3 DEF GraphInv
<1> QED
  BY <1>1, <1>3, <1>4, <1>5 DEF BackendInv

-----------------------------------------------------------------------------
(* Messages and webhooks leave the members alone.                          *)
LEMMA StillBackendInv ==
    ASSUME BackendInv, UNCHANGED memberVars
    PROVE  BackendInv'
<1> USE DEF memberVars, patchVars, memberGhosts, BackendInv
<1>1. MemoryOK'
  BY DEF MemoryOK, Registered
<1>2. SqliteInv'
  BY DEF SqliteInv, SqliteTypeOK, SqliteAt, Agrees, Exists
<1>3. CopyInv'
  BY DEF CopyInv, CopyTypeOK, CopyAt, Agrees
<1>4. GraphInv'
  BY DEF GraphInv, GraphTypeOK, NodesInv, GraphAt, MembershipAt, Own, Exists, IsMember
<1> QED
  BY <1>1, <1>2, <1>3, <1>4

LEMMA StoringIsStill ==
    ASSUME NEW c, NEW rec, Store(c, rec), UNCHANGED <<patchVars, memberGhosts>>
    PROVE  UNCHANGED memberVars
BY DEF Store, SaveMessages, Sq!SaveMessage, sqliteVars, Co!SaveMessage, memberVars

LEMMA WebhooksAreStill ==
    ASSUME NEW c, NEW h, Subscribe(c, h) \/ Unsubscribe(c, h)
    PROVE  UNCHANGED memberVars
BY DEF Subscribe, Unsubscribe, SaveWebhook, DeleteWebhook, Sq!SaveWebhook,
   Sq!DeleteWebhook, Co!SaveWebhook, Co!DeleteWebhook, sqliteVars, memberVars

(* Names that are an agent's own after a step were so before.              *)
LEMMA OwnBefore ==
    ASSUME registered \subseteq registered', NEW a, NEW n, Own(a, n)'
    PROVE  Own(a, n)
BY DEF Own

(* The node of a name that is an agent's own is the agent's. *)
LEMMA OwnNode ==
    ASSUME NodesInv, NEW a \in Agents, NEW n \in Names, Own(a, n), agentNodes[n] # Absent
    PROVE  agentNodes[n].agent = a
BY DEF NodesInv, Own

-----------------------------------------------------------------------------
(* A step that does not touch the slot of an agent in an object.           *)
Same(o, b) ==
    /\ members'[o][b] = members[o][b]
    /\ <<o, b>> \in patched' <=> <<o, b>> \in patched

(* A channel that goes on naming the same object.                          *)
SameMembers(d) ==
    /\ live'[d] = live[d]
    /\ Exists(d)' <=> Exists(d)
    /\ Exists(d) => live[d] \in Objects /\ \A b \in Agents : Same(live[d], b)
    /\ \A b \in Agents : IsMember(d, b)' <=> IsMember(d, b)

(* A channel none of whose rows or relationships a step touches.           *)
LEMMA SameSqlite ==
    ASSUME NEW d \in Channels, SqliteAt(d), SameMembers(d),
           channelRows'[d] = channelRows[d], memberRows'[d] = memberRows[d],
           unsaved'[d] = unsaved[d]
    PROVE  SqliteAt(d)'
BY DEF SqliteAt, SameMembers, Agrees, Same

LEMMA SameCopy ==
    ASSUME NEW p \in Patches, CopyTypeOK, CopyAt(p), found'[p] = found[p], copy'[p] = copy[p],
           changed'[p] = changed[p],
           found[p] # NoObject => home'[found[p]] # NoChannel,
           \A b \in Agents : found[p] # NoObject => Same(found[p], b)
    PROVE  CopyAt(p)'
BY DEF CopyAt, Agrees, Same

LEMMA SameGraph ==
    ASSUME NEW d \in Channels, GraphAt(d), SameMembers(d), registered \subseteq registered',
           channelNodes'[d] = channelNodes[d], memberships'[d] = memberships[d],
           d \in late' <=> d \in late, d \in recreated => d \in recreated'
    PROVE  GraphAt(d)'
<1>1. channelNodes'[d] = (IF Exists(d) THEN live[d] ELSE Absent)' /\ (d \in late' => Exists(d)')
  BY DEF GraphAt, SameMembers
<1>2. ASSUME d \notin late', NEW a \in Agents, NEW n \in Names, Own(a, n)'
      PROVE  MembershipAt(d, a, n)'
  <2>1. MembershipAt(d, a, n)
    BY <1>2, OwnBefore DEF GraphAt
  <2> QED
    BY <2>1 DEF MembershipAt, SameMembers, Same, IsMember
<1> QED
  BY <1>1, <1>2 DEF GraphAt

(* A channel created over an id has no members, in memory and in SQLite;   *)
(* the members of the one before it stay in the graph.  No PATCH holds a   *)
(* new object.                                                             *)
LEMMA CreateBackendInv ==
    ASSUME BackendInv, NEW c \in Channels, NEW o \in Objects, Create(c, o)
    PROVE  BackendInv'
<1> USE DEF BackendInv
<1>1. /\ live' = [live EXCEPT ![c] = o]
      /\ home' = [home EXCEPT ![o] = c]
      /\ members' = [members EXCEPT ![o] = [a \in Agents |-> NoMember]]
      /\ home[o] = NoChannel
      /\ UNCHANGED <<patchVars, patched, registered, latestUrl>>
  BY DEF Create, CreateChannel
<1>2. \A d \in Channels : live[d] # o
  BY <1>1, StoreAssumption DEF MemoryOK, Registered
<1>3. MemoryOK'
  <2>1. members' \in [Objects -> [Agents -> Slot]]
    BY <1>1, NoMemberIsNoProfile DEF MemoryOK
  <2> QED
    BY <1>1, <1>2, <2>1 DEF MemoryOK, Registered
<1>4. /\ Exists(c)' /\ live'[c] = o
      /\ \A a \in Agents : members'[o][a] = NoMember /\ ~IsMember(c, a)'
  BY <1>1, StoreAssumption DEF Exists, IsMember, MemoryOK
<1>5. \A x \in Objects \ {o} : \A b \in Agents : Same(x, b)
  BY <1>1 DEF Same, MemoryOK
<1>6. ASSUME NEW d \in Channels, d # c PROVE SameMembers(d)
  <2>1. live'[d] = live[d] /\ (Exists(d)' <=> Exists(d))
    BY <1>1, <1>6 DEF Exists, MemoryOK
  <2>2. Exists(d) => live[d] \in Objects \ {o}
    BY <1>2 DEF Exists, MemoryOK
  <2> QED
    BY <1>5, <2>1, <2>2 DEF SameMembers, IsMember, Same
<1>7. SqliteInv'
  <2>1. /\ channelRows' = [channelRows EXCEPT ![c] = o]
        /\ memberRows' = [memberRows EXCEPT ![c] = Sq!NoMembers]
        /\ unsaved' = [unsaved EXCEPT ![c] = {}]
    BY DEF Create, Sq!SaveChannel
  <2>2. SqliteTypeOK'
    BY <2>1, NoRows DEF SqliteInv, SqliteTypeOK
  <2>3. ASSUME NEW d \in Channels
        PROVE  SqliteAt(d)'
    <3>1. CASE d = c
      <4>1. channelRows'[c] = o /\ memberRows'[c] = Sq!NoMembers
        BY <2>1 DEF SqliteInv, SqliteTypeOK
      <4> QED
        BY <3>1, <4>1, <1>4, NoRows DEF SqliteAt, Agrees
    <3>2. CASE d # c
      <4>1. /\ channelRows'[d] = channelRows[d] /\ memberRows'[d] = memberRows[d]
            /\ unsaved'[d] = unsaved[d] /\ SqliteAt(d)
        BY <3>2, <2>1 DEF SqliteInv, SqliteTypeOK
      <4> QED
        BY <3>2, <1>6, <4>1, SameSqlite
    <3> QED
      BY <3>1, <3>2
  <2> QED
    BY <2>2, <2>3 DEF SqliteInv
<1>8. CopyInv'
  <2>1. CopyTypeOK'
    BY <1>1 DEF CopyInv, CopyTypeOK, patchVars
  <2>2. ASSUME NEW p \in Patches PROVE CopyAt(p)'
    <3>1. found[p] # NoObject => found[p] \in Objects \ {o}
      BY <1>1 DEF CopyInv, CopyTypeOK, CopyAt
    <3>2. found[p] # NoObject => home'[found[p]] # NoChannel
      BY <3>1, <1>1 DEF CopyInv, CopyAt, MemoryOK
    <3> QED
      BY <1>1, <1>5, <3>1, <3>2, SameCopy DEF CopyInv, patchVars
  <2> QED
    BY <2>1, <2>2 DEF CopyInv
<1>9. GraphInv'
  <2>1. /\ channelNodes' = [channelNodes EXCEPT ![c] = o]
        /\ UNCHANGED <<agentNodes, memberships>>
        /\ recreated' = IF Exists(c) THEN recreated \cup {c} ELSE recreated
        /\ late' = late \ {c}
    BY DEF Create, Co!SaveChannel
  <2>2. GraphTypeOK' /\ NodesInv'
    BY <1>1, <2>1 DEF GraphInv, GraphTypeOK, NodesInv, Own
  <2>3. ASSUME NEW d \in Channels
        PROVE  GraphAt(d)'
    <3>1. CASE d = c
      <4>1. channelNodes'[c] = o
        BY <2>1 DEF GraphInv, GraphTypeOK
      <4>2. ASSUME NEW a \in Agents, NEW n \in Names, Own(a, n)'
            PROVE  MembershipAt(c, a, n)'
        <5>1. Own(a, n)
          BY <1>1, <4>2 DEF Own
        <5>2. memberships[c][n] # Absent => c \in recreated'
          BY <2>1, <5>1 DEF GraphInv, GraphAt, MembershipAt, IsMember
        <5> QED
          BY <1>4, <2>1, <5>2 DEF MembershipAt
      <4> QED
        BY <1>4, <2>1, <3>1, <4>1, <4>2 DEF GraphAt
    <3>2. CASE d # c
      <4>1. /\ channelNodes'[d] = channelNodes[d] /\ memberships' = memberships
            /\ d \in late' <=> d \in late
            /\ d \in recreated => d \in recreated'
            /\ registered \subseteq registered' /\ GraphAt(d)
        BY <1>1, <2>1, <3>2 DEF GraphInv, GraphTypeOK
      <4> QED
        BY <1>6, <3>2, <4>1, SameGraph
    <3> QED
      BY <3>1, <3>2
  <2> QED
    BY <2>2, <2>3 DEF GraphInv
<1> QED
  BY <1>3, <1>7, <1>8, <1>9

(* A deletion takes the members along, everywhere but in the copies that   *)
(* PATCHes hold.                                                           *)
LEMMA DeleteBackendInv ==
    ASSUME BackendInv, NEW c \in Channels, Delete(c)
    PROVE  BackendInv'
<1> USE DEF BackendInv
<1>1. /\ live' = [live EXCEPT ![c] = NoObject]
      /\ UNCHANGED <<home, members, patchVars, patched, registered, latestUrl>>
      /\ recreated' = recreated \ {c}
      /\ late' = late \ {c}
  BY DEF Delete, DeleteChannel
<1>2. MemoryOK'
  BY <1>1 DEF MemoryOK, Registered
<1>3. ~Exists(c)' /\ \A a \in Agents : ~IsMember(c, a)'
  BY <1>1 DEF Exists, IsMember, MemoryOK
<1>4. \A x \in Objects : \A b \in Agents : Same(x, b)
  BY <1>1 DEF Same
<1>5. ASSUME NEW d \in Channels, d # c PROVE SameMembers(d)
  BY <1>1, <1>4, <1>5 DEF Exists, IsMember, MemoryOK, SameMembers
<1>6. SqliteInv'
  <2>1. /\ channelRows' = [channelRows EXCEPT ![c] = Absent]
        /\ memberRows' = [memberRows EXCEPT ![c] = Sq!NoMembers]
        /\ unsaved' = [unsaved EXCEPT ![c] = {}]
    BY DEF Delete, Sq!DeleteChannel
  <2>2. SqliteTypeOK'
    BY <2>1, NoRows DEF SqliteInv, SqliteTypeOK
  <2>3. ASSUME NEW d \in Channels
        PROVE  SqliteAt(d)'
    <3>1. CASE d = c
      <4>1. channelRows'[c] = Absent /\ memberRows'[c] = Sq!NoMembers
        BY <2>1 DEF SqliteInv, SqliteTypeOK
      <4> QED
        BY <3>1, <4>1, <1>3, NoRows DEF SqliteAt
    <3>2. CASE d # c
      <4>1. /\ channelRows'[d] = channelRows[d] /\ memberRows'[d] = memberRows[d]
            /\ unsaved'[d] = unsaved[d] /\ SqliteAt(d)
        BY <3>2, <2>1 DEF SqliteInv, SqliteTypeOK
      <4> QED
        BY <3>2, <1>5, <4>1, SameSqlite
    <3> QED
      BY <3>1, <3>2
  <2> QED
    BY <2>2, <2>3 DEF SqliteInv
<1>7. CopyInv'
  <2>1. CopyTypeOK'
    BY <1>1 DEF CopyInv, CopyTypeOK, patchVars
  <2>2. ASSUME NEW p \in Patches PROVE CopyAt(p)'
    BY <1>1, <1>4, SameCopy DEF CopyInv, CopyTypeOK, CopyAt, patchVars
  <2> QED
    BY <2>1, <2>2 DEF CopyInv
<1>8. GraphInv'
  <2>1. /\ channelNodes' = [channelNodes EXCEPT ![c] = Absent]
        /\ memberships' = [memberships EXCEPT ![c] = [n \in Names |-> Absent]]
        /\ agentNodes' = agentNodes
    BY DEF Delete, Co!DeleteChannel
  <2>2. GraphTypeOK' /\ NodesInv'
    BY <2>1, <1>1 DEF GraphInv, GraphTypeOK, NodesInv, Own
  <2>3. ASSUME NEW d \in Channels
        PROVE  GraphAt(d)'
    <3>1. CASE d = c
      <4>1. channelNodes'[c] = Absent /\ \A n \in Names : memberships'[c][n] = Absent
        BY <2>1 DEF GraphInv, GraphTypeOK
      <4> QED
        BY <1>1, <1>3, <3>1, <4>1 DEF GraphAt, MembershipAt
    <3>2. CASE d # c
      <4>1. /\ channelNodes'[d] = channelNodes[d] /\ memberships'[d] = memberships[d]
            /\ d \in late' <=> d \in late
            /\ d \in recreated => d \in recreated'
            /\ registered \subseteq registered' /\ GraphAt(d)
        BY <1>1, <2>1, <3>2 DEF GraphInv, GraphTypeOK
      <4> QED
        BY <1>5, <3>2, <4>1, SameGraph
    <3> QED
      BY <3>1, <3>2
  <2> QED
    BY <2>2, <2>3 DEF GraphInv
<1> QED
  BY <1>2, <1>6, <1>7, <1>8

-----------------------------------------------------------------------------
(* What a PATCH reads agrees with its object, but for the agents in which  *)
(* SQLite differs already.                                                 *)
LEMMA ReadBackendInv ==
    ASSUME BackendInv, NEW p \in Patches, NEW c \in Channels, ReadToPatch(p, c)
    PROVE  BackendInv'
<1> USE DEF BackendInv
<1>1. /\ Exists(c)
      /\ found' = [found EXCEPT ![p] = live[c]]
      /\ copy' = [copy EXCEPT ![p] = [context |-> channelRows[c], members |-> memberRows[c],
                                      node |-> channelNodes[c]]]
      /\ changed' = [changed EXCEPT ![p] = unsaved[c]]
      /\ UNCHANGED <<live, home, members, channelRows, memberRows, channelNodes, agentNodes,
                     memberships, memberGhosts>>
  BY DEF ReadToPatch, storeVars, sqliteVars, compositeVars
<1>2. MemoryOK'
  BY <1>1 DEF MemoryOK, Registered
<1>3. SqliteInv'
  BY <1>1 DEF SqliteInv, SqliteTypeOK, SqliteAt, Agrees, Exists, memberGhosts
<1>4. GraphInv'
  BY <1>1 DEF GraphInv, GraphTypeOK, NodesInv, GraphAt, MembershipAt, Own, Exists, IsMember,
              memberGhosts
<1>5. CopyTypeOK'
  <2>1. live[c] \in Objects /\ channelRows[c] \in Objects \cup {Absent}
          /\ memberRows[c] \in Rows /\ channelNodes[c] \in Objects \cup {Absent}
          /\ unsaved[c] \in SUBSET Agents
    BY <1>1 DEF MemoryOK, Exists, SqliteInv, SqliteTypeOK, GraphInv, GraphTypeOK
  <2> QED
    BY <1>1, <2>1 DEF CopyInv, CopyTypeOK
<1>6. ASSUME NEW q \in Patches PROVE CopyAt(q)'
  <2>1. CASE q = p
    <3>1. /\ found'[p] = live[c]
          /\ copy'[p] = [context |-> channelRows[c], members |-> memberRows[c],
                         node |-> channelNodes[c]]
          /\ changed'[p] = unsaved[c]
      BY <1>1 DEF CopyInv, CopyTypeOK
    <3>2. home[live[c]] # NoChannel /\ channelRows[c] = live[c] /\ channelNodes[c] = live[c]
      BY <1>1, StoreAssumption
      DEF MemoryOK, Registered, Exists, SqliteInv, SqliteAt, GraphInv, GraphAt
    <3>3. \A a \in Agents \ unsaved[c] : Agrees(memberRows[c][a], live[c], a)
      BY <1>1 DEF SqliteInv, SqliteAt
    <3> QED
      BY <1>1, <2>1, <3>1, <3>2, <3>3 DEF CopyAt, Agrees, memberGhosts
  <2>2. CASE q # p
    <3>1. found'[q] = found[q] /\ copy'[q] = copy[q] /\ changed'[q] = changed[q]
      BY <1>1, <2>2 DEF CopyInv, CopyTypeOK
    <3> QED
      BY <1>1, <3>1 DEF CopyInv, CopyAt, Agrees, memberGhosts
  <2> QED
    BY <2>1, <2>2
<1> QED
  BY <1>2, <1>3, <1>4, <1>5, <1>6 DEF CopyInv

(* What it saves is what it read.                                          *)
LEMMA PatchBackendInv ==
    ASSUME BackendInv, NEW p \in Patches, Patch(p)
    PROVE  BackendInv'
<1> USE DEF BackendInv
<1>0. /\ found[p] \in Objects /\ found[p] # NoObject /\ home[found[p]] \in Channels
      /\ CopyAt(p)
  BY DEF Patch, CopyInv, CopyTypeOK, CopyAt, MemoryOK
<1> PICK c \in Channels, o \in Objects : c = home[found[p]] /\ o = found[p]
  BY <1>0
<1>1. /\ live' = [live EXCEPT ![c] = o]
      /\ UNCHANGED <<home, members, agentNodes, memberships, patched, recreated, registered,
                     latestUrl>>
      /\ channelRows' = [channelRows EXCEPT ![c] = copy[p].context]
      /\ memberRows' = [memberRows EXCEPT ![c] = copy[p].members]
      /\ channelNodes' = [channelNodes EXCEPT ![c] = copy[p].node]
      /\ unsaved' = [unsaved EXCEPT ![c] = changed[p]]
      /\ late' = IF live[c] = o THEN late ELSE late \cup {c}
      /\ found' = [found EXCEPT ![p] = NoObject]
      /\ copy' = [copy EXCEPT ![p] = NoCopy]
      /\ changed' = [changed EXCEPT ![p] = {}]
  BY DEF Patch, SaveRead, SaveChannel, Sq!SaveChannel, Co!SaveChannel
<1>2. /\ copy[p].context = o /\ copy[p].node = o /\ copy[p].members \in Rows
      /\ changed[p] \in SUBSET Agents
      /\ \A a \in Agents \ changed[p] : Agrees(copy[p].members[a], o, a)
  BY <1>0 DEF CopyInv, CopyTypeOK, CopyAt
<1>3. MemoryOK'
  BY <1>1 DEF MemoryOK, Registered
<1>4. live'[c] = o /\ Exists(c)'
  BY <1>0, <1>1 DEF MemoryOK, Exists
<1>5. ASSUME NEW d \in Channels, d # c \/ live[c] = o PROVE SameMembers(d)
  BY <1>1, <1>5 DEF SameMembers, Exists, IsMember, MemoryOK, Same
<1>6. SqliteInv'
  <2>1. SqliteTypeOK'
    BY <1>1, <1>2 DEF SqliteInv, SqliteTypeOK
  <2>2. ASSUME NEW d \in Channels PROVE SqliteAt(d)'
    <3>1. CASE d = c
      <4>1. channelRows'[c] = o /\ memberRows'[c] = copy[p].members /\ unsaved'[c] = changed[p]
        BY <1>1, <1>2 DEF SqliteInv, SqliteTypeOK
      <4> QED
        BY <1>1, <1>2, <1>4, <3>1, <4>1 DEF SqliteAt, Agrees
    <3>2. CASE d # c
      <4>1. /\ channelRows'[d] = channelRows[d] /\ memberRows'[d] = memberRows[d]
            /\ unsaved'[d] = unsaved[d] /\ SqliteAt(d)
        BY <3>2, <1>1 DEF SqliteInv, SqliteTypeOK
      <4> QED
        BY <1>5, <3>2, <4>1, SameSqlite
    <3> QED
      BY <3>1, <3>2
  <2> QED
    BY <2>1, <2>2 DEF SqliteInv
<1>7. CopyInv'
  <2>1. NoCopy \in [context : Objects \cup {Absent}, members : Rows, node : Objects \cup {Absent}]
    BY NoRows DEF NoCopy
  <2>2. CopyTypeOK'
    BY <1>1, <2>1 DEF CopyInv, CopyTypeOK
  <2>3. ASSUME NEW q \in Patches PROVE CopyAt(q)'
    <3>1. CASE q = p
      BY <1>1, <3>1 DEF CopyInv, CopyTypeOK, CopyAt
    <3>2. CASE q # p
      <4>1. found'[q] = found[q] /\ copy'[q] = copy[q] /\ changed'[q] = changed[q]
        BY <1>1, <3>2 DEF CopyInv, CopyTypeOK
      <4> QED
        BY <1>1, <4>1 DEF CopyInv, CopyAt, Agrees
    <3> QED
      BY <3>1, <3>2
  <2> QED
    BY <2>2, <2>3 DEF CopyInv
<1>8. GraphInv'
  <2>1. GraphTypeOK'
    BY <1>1, <1>2 DEF GraphInv, GraphTypeOK
  <2>2. NodesInv'
    BY <1>1 DEF GraphInv, NodesInv, Own
  <2>3. channelNodes'[c] = o
    BY <1>1, <1>2 DEF GraphInv, GraphTypeOK
  <2>4. ASSUME NEW d \in Channels PROVE GraphAt(d)'
    <3>1. CASE d = c /\ live[c] # o
      <4>1. c \in late'
        BY <1>1, <3>1
      <4> QED
        BY <1>4, <2>3, <3>1, <4>1 DEF GraphAt
    <3>2. CASE d # c \/ live[c] = o
      <4>1. SameMembers(d) /\ GraphAt(d)
        BY <1>5, <3>2 DEF GraphInv
      <4>2. channelNodes'[d] = channelNodes[d]
        <5>1. CASE d = c
          BY <1>0, <2>3, <3>2, <5>1 DEF GraphInv, GraphAt, Exists
        <5>2. CASE d # c
          BY <1>1, <5>2 DEF GraphInv, GraphTypeOK
        <5> QED
          BY <5>1, <5>2
      <4>3. d \in late' <=> d \in late
        BY <1>1, <3>2
      <4> QED
        BY <1>1, <4>1, <4>2, <4>3, SameGraph
    <3> QED
      BY <3>1, <3>2
  <2> QED
    BY <2>1, <2>2, <2>4 DEF GraphInv
<1> QED
  BY <1>3, <1>6, <1>7, <1>8

-----------------------------------------------------------------------------
(* The step of a slot: `m' goes into the slot of `a' in the object `o'.    *)
LEMMA SlotStep ==
    ASSUME MemoryOK, NEW o \in Objects, NEW a \in Agents, NEW m \in Slot,
           members' = [members EXCEPT ![o][a] = m], UNCHANGED <<live, home>>,
           \A q : q # <<o, a>> => (q \in patched' <=> q \in patched)
    PROVE  /\ MemoryOK'
           /\ \A d \in Channels : Exists(d)' <=> Exists(d)
           /\ members'[o][a] = m
           /\ \A x \in Objects, b \in Agents : <<x, b>> # <<o, a>> => Same(x, b)
<1>1. MemoryOK'
  BY DEF MemoryOK, Registered
<1>2. members'[o][a] = m
  BY DEF MemoryOK
<1>3. ASSUME NEW x \in Objects, NEW b \in Agents, <<x, b>> # <<o, a>> PROVE Same(x, b)
  <2>1. members'[x][b] = members[x][b]
    BY <1>3 DEF MemoryOK
  <2> QED
    BY <1>3, <2>1 DEF Same
<1> QED
  BY <1>1, <1>2, <1>3 DEF Exists

(* Another channel names another object. *)
LEMMA OtherChannel ==
    ASSUME MemoryOK, NEW c \in Channels, NEW d \in Channels, d # c, Exists(d),
           live[c] = live[d]
    PROVE  FALSE
BY DEF MemoryOK, Registered, Exists

(* A membership that changes: the copies PATCHes hold of the object may    *)
(* differ for the agent from then on.                                      *)
LEMMA CopyStep ==
    ASSUME MemoryOK, CopyInv, NEW c \in Channels, NEW a \in Agents, Exists(c),
           UNCHANGED home, MembershipChanged(c, a),
           \A x \in Objects, b \in Agents : <<x, b>> # <<live[c], a>> => Same(x, b)
    PROVE  CopyInv'
<1>1. /\ found' = found /\ copy' = copy
      /\ changed' = [p \in Patches |-> IF found[p] = live[c] THEN changed[p] \cup {a}
                                       ELSE changed[p]]
  BY DEF MembershipChanged
<1>2. CopyTypeOK'
  BY <1>1 DEF CopyInv, CopyTypeOK
<1>3. ASSUME NEW p \in Patches, found[p] # NoObject PROVE CopyAt(p)'
  <2>1. CopyAt(p) /\ found[p] \in Objects
    BY <1>3 DEF CopyInv, CopyTypeOK
  <2>2. ASSUME NEW b \in Agents \ changed'[p] PROVE Agrees(copy[p].members[b], found[p], b)'
    <3>1. b \notin changed[p] /\ <<found[p], b>> # <<live[c], a>>
      BY <1>1, <2>2
    <3> QED
      BY <1>1, <1>3, <2>1, <3>1 DEF CopyAt, Agrees, Same
  <2> QED
    BY <1>1, <1>3, <2>1, <2>2 DEF CopyAt
<1> QED
  BY <1>1, <1>2, <1>3 DEF CopyInv, CopyAt

LEMMA AddBackendInv ==
    ASSUME BackendInv, NEW c \in Channels, NEW a \in Agents, NEW n \in Names,
           NEW m \in Profiles, Add(c, a, n, m)
    PROVE  BackendInv'
<1> USE DEF BackendInv
<1>0. m \in Member /\ m # NoMember /\ m # Absent /\ m \in Slot
        /\ m.role \in Roles /\ m.url \in BOOLEAN
  BY ProfileIsMember
<1>1. /\ MembershipChanged(c, a)
      /\ patched' = patched \ {<<live[c], a>>}
      /\ unsaved' = [unsaved EXCEPT ![c] = unsaved[c] \ {a}]
      /\ late' = late /\ recreated' = recreated
  BY DEF Add, MembershipChanged
<1>2. CASE ~Exists(c)
  (* A late call finds no channel and no slot to write to. *)
  <2>1. UNCHANGED <<live, home, members, channelRows, memberRows, latestUrl, registered>>
    BY <1>2 DEF Add, storeVars, sqliteVars
  <2>2. channelNodes[c] = Absent
    BY <1>2 DEF GraphInv, GraphAt
  <2>3. UNCHANGED <<channelNodes, agentNodes, memberships>>
    BY <2>2 DEF Add, Co!SaveMember
  <2>4. \A x \in Objects, b \in Agents : Same(x, b)
    BY <1>1, <1>2, <2>1, StoreAssumption DEF Same, Exists
  <2>5. ASSUME NEW d \in Channels PROVE SameMembers(d)
    <3>1. Exists(d) => live[d] \in Objects
      BY DEF MemoryOK, Exists
    <3> QED
      BY <2>1, <2>4, <3>1 DEF SameMembers, IsMember, Exists
  <2>6. MemoryOK'
    BY <2>1 DEF MemoryOK, Registered
  <2>7. SqliteInv'
    <3>1. SqliteTypeOK'
      BY <1>1, <2>1 DEF SqliteInv, SqliteTypeOK
    <3>2. ASSUME NEW d \in Channels PROVE SqliteAt(d)'
      <4>1. CASE d = c
        BY <1>2, <2>1, <2>5, <4>1 DEF SqliteInv, SqliteAt, SameMembers
      <4>2. CASE d # c
        BY <1>1, <2>1, <2>5, <4>2, SameSqlite DEF SqliteInv, SqliteTypeOK
      <4> QED
        BY <4>1, <4>2
    <3> QED
      BY <3>1, <3>2 DEF SqliteInv
  <2>8. CopyInv'
    <3>1. found' = found /\ copy' = copy /\ changed' = changed
      BY <1>1, <1>2 DEF MembershipChanged, CopyInv, CopyTypeOK
    <3>2. ASSUME NEW p \in Patches PROVE CopyAt(p)'
      BY <2>1, <2>4, <3>1, SameCopy DEF CopyInv, CopyTypeOK, CopyAt
    <3> QED
      BY <3>1, <3>2 DEF CopyInv, CopyTypeOK
  <2>9. GraphInv'
    <3>1. GraphTypeOK' /\ NodesInv'
      BY <2>1, <2>3 DEF GraphInv, GraphTypeOK, NodesInv, Own
    <3>2. ASSUME NEW d \in Channels PROVE GraphAt(d)'
      BY <1>1, <2>1, <2>3, <2>5, SameGraph DEF GraphInv
    <3> QED
      BY <3>1, <3>2 DEF GraphInv
  <2> QED
    BY <2>6, <2>7, <2>8, <2>9
<1>3. CASE Exists(c)
  <2>0. PICK o \in Objects : o = live[c]
    BY <1>3 DEF MemoryOK, Exists
  <2>1. /\ members' = [members EXCEPT ![o][a] = m]
        /\ UNCHANGED <<live, home>>
        /\ memberRows' = [memberRows EXCEPT ![c][a] = m]
        /\ channelRows' = channelRows
        /\ latestUrl' = [latestUrl EXCEPT ![a] = m.url]
        /\ registered' = registered \cup {<<a, n>>}
    BY <1>3, <2>0 DEF Add, AddMember, Sq!SaveMember
  <2>a. \A q : q # <<o, a>> => (q \in patched' <=> q \in patched)
    BY <1>1, <2>0
  <2>b. MemoryOK /\ m \in Slot
    BY <1>0, <1>1
  <2>2. /\ MemoryOK'
        /\ \A d \in Channels : Exists(d)' <=> Exists(d)
        /\ members'[o][a] = m
    BY <2>a, <2>b, <2>1, SlotStep, ZenonT(40)
  <2>3. \A x \in Objects, b \in Agents : <<x, b>> # <<o, a>> => Same(x, b)
    BY <2>a, <2>b, <2>1, SlotStep
  <2>4. ASSUME NEW d \in Channels, d # c PROVE SameMembers(d)
    <3>1. Exists(d) => live[d] \in Objects /\ live[d] # o
      BY <2>0, <2>4, OtherChannel DEF MemoryOK, Exists
    <3> QED
      BY <2>1, <2>2, <2>3, <3>1 DEF SameMembers, IsMember, Same
  <2>5. SqliteInv'
    <3>1. SqliteTypeOK'
      BY <1>0, <1>1, <2>1 DEF SqliteInv, SqliteTypeOK, Rows
    <3>2. /\ memberRows'[c][a] = m
          /\ \A b \in Agents \ {a} : memberRows'[c][b] = memberRows[c][b]
          /\ \A d \in Channels \ {c} : memberRows'[d] = memberRows[d]
          /\ unsaved'[c] = unsaved[c] \ {a}
          /\ \A d \in Channels \ {c} : unsaved'[d] = unsaved[d]
      BY <1>1, <2>1 DEF SqliteInv, SqliteTypeOK, Rows
    <3>3. ASSUME NEW d \in Channels PROVE SqliteAt(d)'
      <4>1. CASE d = c
        <5>1. Agrees(memberRows[c][a], live[c], a)'
          BY <1>0, <2>0, <2>1, <2>2, <3>2 DEF Agrees
        <5>2. ASSUME NEW b \in Agents, b # a, b \notin unsaved'[c]
              PROVE  Agrees(memberRows[c][b], live[c], b)'
          <6>1. Agrees(memberRows[c][b], o, b) /\ Same(o, b)
            BY <1>3, <2>0, <2>3, <3>2, <5>2 DEF SqliteInv, SqliteAt
          <6> QED
            BY <2>0, <2>1, <3>2, <5>2, <6>1 DEF Agrees, Same
        <5> QED
          BY <1>3, <2>1, <2>2, <4>1, <5>1, <5>2 DEF SqliteInv, SqliteAt
      <4>2. CASE d # c
        BY <2>1, <2>4, <3>2, <4>2, SameSqlite DEF SqliteInv
      <4> QED
        BY <4>1, <4>2
    <3> QED
      BY <3>1, <3>3 DEF SqliteInv
  <2>6. CopyInv'
    BY <1>1, <1>3, <2>0, <2>1, <2>3, CopyStep
  <2>7. GraphInv'
    <3>1. channelNodes[c] # Absent
      BY <1>3, <2>0, AbsentIsNothing DEF GraphInv, GraphAt
    <3>2. /\ agentNodes' = [agentNodes EXCEPT ![n] = [agent |-> a, url |-> m.url]]
          /\ memberships' = [memberships EXCEPT ![c][n] = [role |-> m.role, since |-> 0]]
          /\ channelNodes' = channelNodes
      BY <3>1 DEF Add, Co!SaveMember
    <3>3. /\ [agent |-> a, url |-> m.url] \in Node /\ [agent |-> a, url |-> m.url] # Absent
          /\ [role |-> m.role, since |-> 0] \in Membership
          /\ [role |-> m.role, since |-> 0] # Absent
      BY <1>0, AbsentIsNothing DEF Node, Membership
    <3>4. GraphTypeOK'
      <4>1. agentNodes' \in [Names -> Node \cup {Absent}]
        BY <3>2, <3>3 DEF GraphInv, GraphTypeOK
      <4>2. memberships' \in [Channels -> [Names -> Membership \cup {Absent}]]
        BY <3>2, <3>3 DEF GraphInv, GraphTypeOK
      <4>3. latestUrl' \in [Agents -> BOOLEAN]
        BY <1>0, <2>1 DEF GraphInv, GraphTypeOK
      <4>4. registered' \in SUBSET (Agents \X Names)
        BY <2>1 DEF GraphInv, GraphTypeOK
      <4> QED
        BY <3>2, <4>1, <4>2, <4>3, <4>4 DEF GraphInv, GraphTypeOK
    <3>a. /\ agentNodes'[n] = [agent |-> a, url |-> m.url]
          /\ latestUrl'[a] = m.url
          /\ \A k \in Names \ {n} : agentNodes'[k] = agentNodes[k]
          /\ \A b \in Agents \ {a} : latestUrl'[b] = latestUrl[b]
          /\ memberships'[c][n] = [role |-> m.role, since |-> 0]
          /\ \A k \in Names \ {n} : memberships'[c][k] = memberships[c][k]
          /\ \A d \in Channels \ {c} : memberships'[d] = memberships[d]
      <4>1. /\ agentNodes \in [Names -> Node \cup {Absent}]
            /\ memberships \in [Channels -> [Names -> Membership \cup {Absent}]]
            /\ latestUrl \in [Agents -> BOOLEAN]
        BY DEF GraphInv, GraphTypeOK
      <4>2. latestUrl' = [latestUrl EXCEPT ![a] = m.url]
        BY <2>1
      <4> QED
        BY <3>2, <4>1, <4>2
    (* The name just used is nobody's own but a's. *)
    <3>b. ASSUME NEW b \in Agents, NEW k \in Names, Own(b, k)'
          PROVE  Own(b, k) /\ (b = a <=> k = n)
      <4>1. <<a, n>> \in registered' /\ registered \subseteq registered'
        BY <2>1
      <4>2. <<a, n>>[1] = b <=> <<a, n>>[2] = k
        BY ONLY <3>b, <4>1 DEF Own
      <4> QED
        BY <3>b, <4>1, <4>2, OwnBefore
    <3>5. NodesInv'
      <4>1. ASSUME NEW k \in Names, agentNodes'[k] # Absent
            PROVE  /\ <<agentNodes'[k].agent, k>> \in registered'
                   /\ \A b \in Agents : Own(b, k)' => agentNodes'[k].url = latestUrl'[b]
        <5>1. CASE k = n
          BY <2>1, <3>a, <3>b, <5>1
        <5>2. CASE k # n
          BY <2>1, <3>a, <3>b, <4>1, <5>2 DEF GraphInv, NodesInv
        <5> QED
          BY <5>1, <5>2
      <4>2. ASSUME NEW d \in Channels, NEW k \in Names, memberships'[d][k] # Absent
            PROVE  agentNodes'[k] # Absent
        <5>1. CASE k = n
          BY <3>3, <3>a, <5>1
        <5>2. CASE k # n
          <6>1. memberships'[d][k] = memberships[d][k]
            BY <3>a, <5>2
          <6> QED
            BY <3>a, <4>2, <5>2, <6>1 DEF GraphInv, NodesInv
        <5> QED
          BY <5>1, <5>2
      <4> QED
        BY <4>1, <4>2 DEF NodesInv
    <3>7. ASSUME NEW d \in Channels PROVE GraphAt(d)'
      <4>1. CASE d # c
        BY <1>1, <2>1, <2>4, <3>2, <3>a, <4>1, SameGraph DEF GraphInv
      <4>2. CASE d = c
        <5>1. channelNodes'[c] = live'[c] /\ Exists(c)'
          BY <1>3, <2>1, <2>2, <3>2 DEF GraphInv, GraphAt
        <5>2. ASSUME c \notin late', NEW b \in Agents, NEW k \in Names, Own(b, k)'
              PROVE  MembershipAt(c, b, k)'
          <6>1. CASE b = a
            <7>1. k = n
              BY <3>b, <5>2, <6>1
            <7>2. IsMember(c, a)' /\ members'[live'[c]][a] = m
              BY <1>0, <2>0, <2>1, <2>2, <5>1 DEF IsMember
            <7>3. memberships'[c][n] # Absent /\ memberships'[c][n].role = m.role
              BY <3>3, <3>a
            <7> QED
              BY <6>1, <7>1, <7>2, <7>3 DEF MembershipAt
          <6>2. CASE b # a
            <7>1. k # n /\ Own(b, k)
              BY <3>b, <5>2, <6>2
            <7>2. MembershipAt(c, b, k)
              BY <1>1, <5>2, <7>1 DEF GraphInv, GraphAt
            <7>3. Same(o, b)
              BY <2>3, <6>2
            <7>4. memberships'[c][k] = memberships[c][k]
              BY <3>a, <7>1
            <7>5. IsMember(c, b)' <=> IsMember(c, b)
              BY <2>0, <2>1, <2>2, <7>3 DEF IsMember, Same
            <7> QED
              BY <1>1, <2>0, <2>1, <7>2, <7>3, <7>4, <7>5 DEF MembershipAt, Same
          <6> QED
            BY <6>1, <6>2
        <5> QED
          BY <4>2, <5>1, <5>2 DEF GraphAt
      <4> QED
        BY <4>1, <4>2
    <3> QED
      BY <3>4, <3>5, <3>7 DEF GraphInv
  <2> QED
    BY <2>2, <2>5, <2>6, <2>7
<1> QED
  BY <1>2, <1>3

LEMMA RemoveBackendInv ==
    ASSUME BackendInv, NEW c \in Channels, NEW a \in Agents, Remove(c, a)
    PROVE  BackendInv'
<1> USE DEF BackendInv
<1>0. Exists(c)
  BY DEF Remove, RemoveMember, Exists
<1>a. PICK o \in Objects : o = live[c]
  BY <1>0 DEF MemoryOK, Exists
<1>1. /\ members' = [members EXCEPT ![o][a] = NoMember]
      /\ UNCHANGED <<live, home, channelRows, channelNodes, agentNodes,
                     latestUrl, recreated, late, registered>>
      /\ patched' = patched \ {<<o, a>>}
      /\ memberRows' = [memberRows EXCEPT ![c][a] = Absent]
      /\ unsaved' = [unsaved EXCEPT ![c] = unsaved[c] \ {a}]
      /\ MembershipChanged(c, a)
  BY <1>a DEF Remove, RemoveMember, MembershipChanged, Sq!RemoveMember, Co!RemoveMember
<1>2. /\ MemoryOK'
      /\ \A d \in Channels : Exists(d)' <=> Exists(d)
      /\ members'[o][a] = NoMember
  BY <1>1, NoMemberIsNoProfile, SlotStep, ZenonT(40)
<1>3. \A x \in Objects, b \in Agents : <<x, b>> # <<o, a>> => Same(x, b)
  BY <1>1, NoMemberIsNoProfile, SlotStep
<1>4. ASSUME NEW d \in Channels, d # c PROVE SameMembers(d)
  <2>1. Exists(d) => live[d] \in Objects /\ live[d] # o
    BY <1>a, <1>4, OtherChannel DEF MemoryOK, Exists
  <2> QED
    BY <1>1, <1>2, <1>3, <2>1 DEF SameMembers, IsMember, Same
<1>5. SqliteInv'
  <2>1. SqliteTypeOK'
    BY <1>1 DEF SqliteInv, SqliteTypeOK, Rows
  <2>2. /\ memberRows'[c][a] = Absent
        /\ \A b \in Agents \ {a} : memberRows'[c][b] = memberRows[c][b]
        /\ \A d \in Channels \ {c} : memberRows'[d] = memberRows[d]
        /\ unsaved'[c] = unsaved[c] \ {a}
        /\ \A d \in Channels \ {c} : unsaved'[d] = unsaved[d]
    BY <1>1 DEF SqliteInv, SqliteTypeOK, Rows
  <2>3. ASSUME NEW d \in Channels PROVE SqliteAt(d)'
    <3>1. CASE d = c
      <4>1. Agrees(memberRows[c][a], live[c], a)'
        BY <1>a, <1>1, <1>2, <2>2 DEF Agrees
      <4>2. ASSUME NEW b \in Agents, b # a, b \notin unsaved'[c]
            PROVE  Agrees(memberRows[c][b], live[c], b)'
        <5>1. Agrees(memberRows[c][b], o, b) /\ Same(o, b)
          BY <1>0, <1>a, <1>3, <2>2, <4>2 DEF SqliteInv, SqliteAt
        <5> QED
          BY <1>a, <1>1, <2>2, <4>2, <5>1 DEF Agrees, Same
      <4> QED
        BY <1>0, <1>1, <1>2, <3>1, <4>1, <4>2 DEF SqliteInv, SqliteAt
    <3>2. CASE d # c
      BY <1>1, <1>4, <2>2, <3>2, SameSqlite DEF SqliteInv
    <3> QED
      BY <3>1, <3>2
  <2> QED
    BY <2>1, <2>3 DEF SqliteInv
<1>6. CopyInv'
  BY <1>0, <1>a, <1>1, <1>3, CopyStep
<1>7. GraphInv'
  <2>1. /\ \A d \in Channels, k \in Names :
             memberships'[d][k] = IF /\ d = c
                                     /\ agentNodes[k] # Absent
                                     /\ agentNodes[k].agent = a
                                  THEN Absent ELSE memberships[d][k]
        /\ memberships' \in [Channels -> [Names -> Membership \cup {Absent}]]
        /\ \A d \in Channels \ {c} : memberships'[d] = memberships[d]
    BY DEF Remove, Co!RemoveMember, GraphInv, GraphTypeOK
  <2>2. GraphTypeOK' /\ NodesInv'
    BY <1>1, <2>1 DEF GraphInv, GraphTypeOK, NodesInv, Own
  <2>3. \A b \in Agents, k \in Names : Own(b, k)' <=> Own(b, k)
    BY <1>1 DEF Own
  <2>4. ASSUME NEW d \in Channels PROVE GraphAt(d)'
    <3>1. CASE d # c
      BY <1>1, <1>4, <2>1, <3>1, SameGraph DEF GraphInv
    <3>2. CASE d = c
      <4>1. channelNodes'[c] = live'[c] /\ Exists(c)'
        BY <1>0, <1>1, <1>2 DEF GraphInv, GraphAt
      <4>2. ASSUME c \notin late', NEW b \in Agents, NEW k \in Names, Own(b, k)'
            PROVE  MembershipAt(c, b, k)'
        <5>1. Own(b, k) /\ NodesInv /\ (agentNodes[k] # Absent => agentNodes[k].agent = b)
          BY <2>3, <4>2, OwnNode DEF GraphInv
        <5>2. MembershipAt(c, b, k)
          BY <1>1, <4>2, <5>1 DEF GraphInv, GraphAt
        <5>3. CASE b = a
          <6>1. memberships'[c][k] = Absent
            BY <2>1, <5>1, <5>3 DEF NodesInv
          <6>2. ~IsMember(c, a)'
            BY <1>a, <1>1, <1>2 DEF IsMember
          <6> QED
            BY <5>3, <6>1, <6>2 DEF MembershipAt
        <5>4. CASE b # a
          <6>1. memberships'[c][k] = memberships[c][k]
            BY <2>1, <5>1, <5>4
          <6>2. Same(o, b)
            BY <1>3, <5>4
          <6>3. IsMember(c, b)' <=> IsMember(c, b)
            BY <1>a, <1>1, <1>2, <6>2 DEF IsMember, Same
          <6> QED
            BY <1>a, <1>1, <5>2, <6>1, <6>2, <6>3 DEF MembershipAt, Same
        <5> QED
          BY <5>3, <5>4
      <4> QED
        BY <3>2, <4>1, <4>2 DEF GraphAt
    <3> QED
      BY <3>1, <3>2
  <2> QED
    BY <2>2, <2>4 DEF GraphInv
<1> QED
  BY <1>2, <1>5, <1>6, <1>7

(* The member stays one, and the databases keep what they had of it.       *)
LEMMA PatchMemberBackendInv ==
    ASSUME BackendInv, NEW o \in Objects, NEW a \in Agents, NEW m \in Profiles,
           PatchMemberOf(o, a, m)
    PROVE  BackendInv'
<1> USE DEF BackendInv
<1>1. /\ members[o][a] # NoMember
      /\ members' = [members EXCEPT ![o][a] = m]
      /\ UNCHANGED <<live, home, channelRows, memberRows, channelNodes,
                     agentNodes, memberships, latestUrl, recreated, late, registered,
                     unsaved, found, copy, changed>>
      /\ patched' = patched \cup {<<o, a>>}
  BY DEF PatchMemberOf, PatchMember, sqliteVars, compositeVars, patchVars
<1>2. m \in Slot /\ m # NoMember
  BY ProfileIsMember
<1>3. /\ MemoryOK'
      /\ \A d \in Channels : Exists(d)' <=> Exists(d)
      /\ members'[o][a] = m
  BY <1>1, <1>2, SlotStep, ZenonT(40)
<1>4. \A x \in Objects, b \in Agents : <<x, b>> # <<o, a>> => Same(x, b)
  BY <1>1, <1>2, SlotStep
<1>5. \A x \in Objects, b \in Agents :
        /\ members'[x][b] # NoMember <=> members[x][b] # NoMember
        /\ <<x, b>> \notin patched' => Same(x, b)
  BY <1>1, <1>2, <1>3, <1>4 DEF Same
<1>6. \A d \in Channels : Exists(d) => live[d] \in Objects
  BY DEF MemoryOK, Exists
<1>7. \A d \in Channels, b \in Agents : IsMember(d, b)' <=> IsMember(d, b)
  BY <1>1, <1>3, <1>5, <1>6 DEF IsMember
<1>8. SqliteInv'
  <2>1. ASSUME NEW d \in Channels PROVE SqliteAt(d)'
    BY <1>1, <1>3, <1>5, <1>6 DEF SqliteInv, SqliteAt, Agrees, Same
  <2> QED
    BY <1>1, <2>1 DEF SqliteInv, SqliteTypeOK
<1>9. CopyInv'
  <2>1. ASSUME NEW p \in Patches PROVE CopyAt(p)'
    <3>1. CopyAt(p) /\ (found[p] # NoObject => found[p] \in Objects)
      BY DEF CopyInv, CopyTypeOK
    <3> QED
      BY <1>1, <1>5, <3>1 DEF CopyAt, Agrees, Same
  <2> QED
    BY <1>1, <2>1 DEF CopyInv, CopyTypeOK
<1>10. GraphInv'
  <2>1. GraphTypeOK' /\ NodesInv'
    BY <1>1 DEF GraphInv, GraphTypeOK, NodesInv, Own
  <2>2. ASSUME NEW d \in Channels PROVE GraphAt(d)'
    <3>1. channelNodes'[d] = (IF Exists(d) THEN live[d] ELSE Absent)' /\ (d \in late' => Exists(d)')
      BY <1>1, <1>3 DEF GraphInv, GraphAt
    <3>2. ASSUME d \notin late', NEW b \in Agents, NEW k \in Names, Own(b, k)'
          PROVE  MembershipAt(d, b, k)'
      <4>1. MembershipAt(d, b, k)
        BY <1>1, <3>2 DEF GraphInv, GraphAt, Own
      <4>2. IsMember(d, b) => live[d] \in Objects
        BY <1>6 DEF IsMember
      <4> QED
        BY <1>1, <1>5, <1>7, <4>1, <4>2 DEF MembershipAt, Same
    <3> QED
      BY <3>1, <3>2 DEF GraphAt
  <2> QED
    BY <2>1, <2>2 DEF GraphInv
<1> QED
  BY <1>3, <1>8, <1>9, <1>10

-----------------------------------------------------------------------------
LEMMA NextBackendInv ==
    ASSUME BackendInv, [Next]_vars
    PROVE  BackendInv'
<1>1. ASSUME UNCHANGED vars PROVE BackendInv'
  BY <1>1, StillBackendInv DEF vars, storeVars, sqliteVars, compositeVars, memberVars
<1>2. ASSUME NEW c \in Channels, NEW o \in Objects, Create(c, o) PROVE BackendInv'
  BY <1>2, CreateBackendInv
<1>3. ASSUME NEW c \in Channels, NEW p \in Patches, ReadToPatch(p, c) PROVE BackendInv'
  BY <1>3, ReadBackendInv
<1>4. ASSUME NEW c \in Channels, Delete(c) PROVE BackendInv'
  BY <1>4, DeleteBackendInv
<1>5. ASSUME NEW c \in Channels, NEW a \in Agents, NEW n \in Names, NEW m \in Profiles,
             Add(c, a, n, m)
      PROVE  BackendInv'
  BY <1>5, AddBackendInv
<1>6. ASSUME NEW c \in Channels, NEW a \in Agents, Remove(c, a) PROVE BackendInv'
  BY <1>6, RemoveBackendInv
<1>7. ASSUME NEW c \in Channels, NEW r \in Requests, Send(r, c) PROVE BackendInv'
  BY <1>7, StoringIsStill, StillBackendInv DEF Send
<1>8. ASSUME NEW r \in Requests, NEW a \in Agents, Reply(r, a) PROVE BackendInv'
  BY <1>8, StoringIsStill, StillBackendInv DEF Reply
<1>9. ASSUME NEW c \in Channels, NEW h \in Hooks, Subscribe(c, h) \/ Unsubscribe(c, h)
      PROVE  BackendInv'
  BY <1>9, WebhooksAreStill, StillBackendInv
<1>10. ASSUME NEW p \in Patches, Patch(p) PROVE BackendInv'
  BY <1>10, PatchBackendInv
<1>11. ASSUME NEW o \in Objects, NEW a \in Agents, NEW m \in Profiles, PatchMemberOf(o, a, m)
       PROVE  BackendInv'
  BY <1>11, PatchMemberBackendInv
<1> QED
  BY <1>1, <1>2, <1>3, <1>4, <1>5, <1>6, <1>7, <1>8, <1>9, <1>10, <1>11 DEF Next, Operation

LEMMA BackendsKeepMembers ==
    ASSUME BackendInv
    PROVE  SqliteKeepsMembers /\ GraphCoversMembers
<1> USE DEF BackendInv
<1>1. SqliteKeepsMembers
  <2> SUFFICES ASSUME NEW c \in Channels
               PROVE  /\ channelRows[c] = IF Exists(c) THEN live[c] ELSE Absent
                      /\ \A a \in Agents \ unsaved[c] :
                           /\ memberRows[c][a] # Absent <=> IsMember(c, a)
                           /\ IsMember(c, a) /\ <<live[c], a>> \notin patched
                                => memberRows[c][a] = members[live[c]][a]
    BY DEF SqliteKeepsMembers
  <2> QED
    BY DEF SqliteInv, SqliteAt, Agrees, IsMember
<1>2. ASSUME NEW c \in Channels, NEW a \in Agents, OwnName(a)
      PROVE  LET shown == {m \in Co!MembersOf(c) : m.agent = a}
             IN /\ \A m \in shown : m.url = latestUrl[a]
                /\ c \notin late /\ IsMember(c, a) =>
                     /\ shown # {}
                     /\ <<live[c], a>> \notin patched =>
                          \A m \in shown : m.role = members[live[c]][a].role
                /\ c \notin late /\ ~IsMember(c, a) /\ shown # {} => c \in recreated
  <2> DEFINE shown == {m \in Co!MembersOf(c) : m.agent = a}
             entry(k) == [agent |-> agentNodes[k].agent, url |-> agentNodes[k].url,
                          role |-> memberships[c][k].role]
  <2>1. PICK n \in Names : Own(a, n)
    BY <1>2 DEF OwnName, Own
  (* An entry is a membership of the agent's own name. *)
  <2>2. ASSUME NEW m \in shown
        PROVE  /\ memberships[c][n] # Absent
               /\ m.url = latestUrl[a]
               /\ m.role = memberships[c][n].role
    <3>1. PICK k \in Names : /\ memberships[c][k] # Absent
                             /\ m.agent = agentNodes[k].agent
                             /\ m.url = agentNodes[k].url
                             /\ m.role = memberships[c][k].role
      BY DEF Co!MembersOf
    <3>2. agentNodes[k] # Absent /\ agentNodes[k].agent = a /\ <<a, k>> \in registered
      BY <3>1 DEF GraphInv, NodesInv
    <3>3. k = n
      BY <2>1, <3>2 DEF Own
    <3> QED
      BY <2>1, <3>1, <3>2, <3>3 DEF GraphInv, NodesInv
  <2>3. ASSUME memberships[c][n] # Absent PROVE shown # {}
    <3>1. agentNodes[n] # Absent
      BY <2>3 DEF GraphInv, NodesInv
    <3>2. agentNodes[n].agent = a
      BY <2>1, <3>1, OwnNode DEF GraphInv
    <3>3. entry(n) \in Co!MembersOf(c)
      BY <2>3 DEF Co!MembersOf
    <3>4. entry(n).agent = a
      BY <3>2
    <3> HIDE DEF entry
    <3> QED
      BY <3>3, <3>4
  <2>4. c \notin late => MembershipAt(c, a, n)
    BY <2>1 DEF GraphInv, GraphAt
  <2> HIDE DEF shown
  <2>5. /\ \A m \in shown : m.url = latestUrl[a]
        /\ c \notin late /\ IsMember(c, a) =>
             /\ shown # {}
             /\ <<live[c], a>> \notin patched =>
                  \A m \in shown : m.role = members[live[c]][a].role
        /\ c \notin late /\ ~IsMember(c, a) /\ shown # {} => c \in recreated
    BY <2>2, <2>3, <2>4 DEF MembershipAt
  <2> QED
    BY <2>5 DEF shown
<1>3. \A c \in Channels : channelNodes[c] = IF Exists(c) THEN live[c] ELSE Absent
  BY DEF GraphInv, GraphAt
<1>4. GraphCoversMembers
  BY <1>2, <1>3 DEF GraphCoversMembers
<1> QED
  BY <1>1, <1>4

(* The inductive invariant of the three stores.                            *)
THEOREM BackendInvariant == Spec => []BackendInv
BY InitBackendInv, NextBackendInv, PTL DEF Spec

(* SQLite agrees with the memory store on which channels there are, their  *)
(* contexts and their members, and on the profile of each member that was  *)
(* not patched; it is out of date only in the agents who were added or     *)
(* removed while the PATCH that saved the channel last awaited its body    *)
(* (server.py:143-153, sqlite_backend.py:102-149).                         *)
THEOREM SqliteKeepsTheMembers == Spec => []SqliteKeepsMembers
BY BackendInvariant, BackendsKeepMembers, PTL

(* Whatever names members are given: the graph holds every member of the   *)
(* memory store whose name is its own, in a channel that no PATCH brought  *)
(* back, and one that is not there only in a channel that was created      *)
(* over; it has the url of its latest registration in any channel          *)
(* (server.py:171, neo4j_backend.py:37-160).                               *)
THEOREM GraphCoversTheMembers == Spec => []GraphCoversMembers
BY BackendInvariant, BackendsKeepMembers, PTL

-----------------------------------------------------------------------------
(* The webhooks of the three stores, by channel; each has the id its       *)
(* registration was given.                                                 *)
HooksTypeOK ==
    /\ hooks \in [Channels -> SUBSET Hooks]
    /\ webhookRows \in [Channels -> SUBSET [id : Ids, url : Hooks]]
    /\ webhookNodes = [c \in Channels |-> webhookNodes[c]]

NestedAt(c) ==
    /\ webhookRows[c] \subseteq DOMAIN webhookNodes[c]
    /\ \A g \in DOMAIN webhookNodes[c] : g.url \in hooks[c] /\ g.id = HookId[g.url]

HooksInv == HooksTypeOK /\ \A c \in Channels : NestedAt(c)

LEMMA InitHooksInv == Init => HooksInv
<1> SUFFICES ASSUME Init PROVE HooksInv
  OBVIOUS
<1>1. \A c \in Channels :
        hooks[c] = {} /\ webhookRows[c] = {} /\ DOMAIN webhookNodes[c] = {}
  BY DEF Init, StoreInit, Co!NoWebhooks, Co!EmptyBag, Co!SetToBag
<1>2. HooksTypeOK
  BY DEF Init, StoreInit, HooksTypeOK
<1> QED
  BY <1>1, <1>2 DEF HooksInv, NestedAt

(* The row of a channel that is saved again loses its webhooks. *)
LEMMA SavedHooksInv ==
    ASSUME HooksInv, NEW c \in Channels, UNCHANGED <<hooks, webhookNodes>>,
           webhookRows' = [webhookRows EXCEPT ![c] = {}]
    PROVE  HooksInv'
BY DEF HooksInv, HooksTypeOK, NestedAt

LEMMA CreateHooksInv ==
    ASSUME HooksInv, NEW c \in Channels, NEW o \in Objects, Create(c, o)
    PROVE  HooksInv'
BY SavedHooksInv DEF Create, CreateChannel, Sq!SaveChannel, Sq!Cascade, Co!SaveChannel

LEMMA PatchHooksInv ==
    ASSUME MemoryOK, CopyInv, HooksInv, NEW p \in Patches, Patch(p)
    PROVE  HooksInv'
<1>1. home[found[p]] \in Channels
  BY DEF Patch, CopyInv, CopyTypeOK, CopyAt, MemoryOK
<1> QED
  BY <1>1, SavedHooksInv
  DEF Patch, SaveRead, SaveChannel, Sq!SaveChannel, Sq!Cascade, Co!SaveChannel

LEMMA DeleteHooksInv ==
    ASSUME HooksInv, NEW c \in Channels, Delete(c)
    PROVE  HooksInv'
<1>1. /\ hooks' = [hooks EXCEPT ![c] = {}]
      /\ webhookNodes' = [webhookNodes EXCEPT ![c] = Co!NoWebhooks]
      /\ webhookRows' = [webhookRows EXCEPT ![c] = {}]
  BY DEF Delete, DeleteChannel, Sq!DeleteChannel, Sq!Cascade, Co!DeleteChannel
<1>2. DOMAIN Co!NoWebhooks = {}
  BY DEF Co!NoWebhooks, Co!EmptyBag, Co!SetToBag
<1>3. HooksTypeOK'
  BY <1>1 DEF HooksInv, HooksTypeOK
<1>4. ASSUME NEW d \in Channels PROVE NestedAt(d)'
  <2>1. CASE d = c
    BY <1>1, <1>2, <2>1 DEF HooksInv, HooksTypeOK, NestedAt
  <2>2. CASE d # c
    BY <1>1, <2>2 DEF HooksInv, HooksTypeOK, NestedAt
  <2> QED
    BY <2>1, <2>2
<1> QED
  BY <1>3, <1>4 DEF HooksInv

(* A channel that has a row in SQLite has a node in the graph: what the    *)
(* backends hold of channels is needed here.                               *)
LEMMA SubscribeHooksInv ==
    ASSUME BackendInv, HooksInv, NEW c \in Channels, NEW h \in Hooks, Subscribe(c, h)
    PROVE  HooksInv'
<1> DEFINE hook == Hook(h)
<1>1. hook \in [id : Ids, url : Hooks] /\ hook.id = HookId[h] /\ hook.url = h
  BY BackendAssumption DEF Hook
<1>2. hooks' = [hooks EXCEPT ![c] = hooks[c] \cup {h}]
  BY DEF Subscribe, SaveWebhook
<1>3. webhookRows' = webhookRows
        \/ /\ channelRows[c] # Absent
           /\ webhookRows' = [webhookRows EXCEPT ![c] =
                                {g \in webhookRows[c] : g.id # hook.id} \cup {hook}]
  BY <1>1 DEF Subscribe, Sq!HasChannel, Sq!SaveWebhook, sqliteVars
<1>4. channelRows[c] = channelNodes[c]
  BY DEF BackendInv, SqliteInv, GraphInv, SqliteAt, GraphAt
<1>5. IF channelNodes[c] = Absent THEN webhookNodes' = webhookNodes
      ELSE webhookNodes' = [webhookNodes EXCEPT ![c] =
                              Co!(+)(webhookNodes[c], Co!SetToBag({hook}))]
  BY DEF Subscribe, Co!SaveWebhook
<1>6. DOMAIN Co!(+)(webhookNodes[c], Co!SetToBag({hook}))
        = DOMAIN webhookNodes[c] \cup {hook}
  BY DEF Co!(+), Co!SetToBag
<1> HIDE DEF hook
<1>7. HooksTypeOK'
  BY <1>1, <1>2, <1>3, <1>5 DEF HooksInv, HooksTypeOK
<1>8. ASSUME NEW d \in Channels PROVE NestedAt(d)'
  <2>1. CASE d # c
    <3>1. /\ hooks'[d] = hooks[d] /\ webhookRows'[d] = webhookRows[d]
          /\ webhookNodes'[d] = webhookNodes[d]
      BY <1>2, <1>3, <1>5, <2>1 DEF HooksInv, HooksTypeOK
    <3> QED
      BY <3>1 DEF HooksInv, NestedAt
  <2>2. CASE d = c /\ channelNodes[c] = Absent
    <3>1. webhookRows' = webhookRows /\ webhookNodes' = webhookNodes
      BY <1>3, <1>4, <1>5, <2>2
    <3>2. hooks'[c] = hooks[c] \cup {h}
      BY <1>2 DEF HooksInv, HooksTypeOK
    <3> QED
      BY <2>2, <3>1, <3>2 DEF HooksInv, NestedAt
  <2>3. CASE d = c /\ channelNodes[c] # Absent
    <3>1. DOMAIN webhookNodes'[c] = DOMAIN webhookNodes[c] \cup {hook}
      BY <1>5, <1>6, <2>3 DEF HooksInv, HooksTypeOK
    <3>2. hooks'[c] = hooks[c] \cup {h}
      BY <1>2 DEF HooksInv, HooksTypeOK
    <3>3. \A g \in webhookRows'[c] : g \in webhookRows[c] \/ g = hook
      BY <1>3 DEF HooksInv, HooksTypeOK
    <3> QED
      BY <1>1, <2>3, <3>1, <3>2, <3>3 DEF HooksInv, NestedAt
  <2> QED
    BY <2>1, <2>2, <2>3
<1> QED
  BY <1>7, <1>8 DEF HooksInv

LEMMA UnsubscribeHooksInv ==
    ASSUME HooksInv, NEW c \in Channels, NEW h \in Hooks, Unsubscribe(c, h)
    PROVE  HooksInv'
<1> DEFINE kept == [g \in {f \in DOMAIN webhookNodes[c] : f.id # HookId[h]} |->
                      webhookNodes[c][g]]
<1>1. /\ hooks' = [hooks EXCEPT ![c] = hooks[c] \ {h}]
      /\ webhookRows' = [webhookRows EXCEPT ![c] = {g \in webhookRows[c] : g.id # HookId[h]}]
      /\ webhookNodes' = [webhookNodes EXCEPT ![c] = kept]
  BY DEF Unsubscribe, DeleteWebhook, Sq!DeleteWebhook, Co!DeleteWebhook
<1>2. DOMAIN kept = {f \in DOMAIN webhookNodes[c] : f.id # HookId[h]}
  OBVIOUS
<1> HIDE DEF kept
<1>3. HooksTypeOK'
  BY <1>1 DEF HooksInv, HooksTypeOK
<1>4. ASSUME NEW d \in Channels PROVE NestedAt(d)'
  <2>1. CASE d # c
    BY <1>1, <2>1 DEF HooksInv, HooksTypeOK, NestedAt
  <2>2. CASE d = c
    <3>1. /\ DOMAIN webhookNodes'[c] = {f \in DOMAIN webhookNodes[c] : f.id # HookId[h]}
          /\ webhookRows'[c] = {g \in webhookRows[c] : g.id # HookId[h]}
          /\ hooks'[c] = hooks[c] \ {h}
      BY <1>1, <1>2 DEF HooksInv, HooksTypeOK
    <3> QED
      BY <2>2, <3>1 DEF HooksInv, NestedAt
  <2> QED
    BY <2>1, <2>2
<1> QED
  BY <1>3, <1>4 DEF HooksInv

LEMMA StillHooksInv ==
    ASSUME HooksInv, UNCHANGED <<hooks, webhookRows, webhookNodes>>
    PROVE  HooksInv'
BY DEF HooksInv, HooksTypeOK, NestedAt

LEMMA MembersLeaveHooks ==
    ASSUME NEW c, NEW a, NEW n, NEW m,
           Add(c, a, n, m) \/ Remove(c, a) \/ PatchMemberOf(c, a, m)
    PROVE  UNCHANGED <<hooks, webhookRows, webhookNodes>>
BY DEF Add, Remove, PatchMemberOf, AddMember, RemoveMember, PatchMember, Sq!SaveMember,
   Sq!RemoveMember, Co!SaveMember, Co!RemoveMember, storeVars, sqliteVars, compositeVars

LEMMA StoringLeavesHooks ==
    ASSUME NEW c, NEW rec, Store(c, rec)
    PROVE  UNCHANGED <<hooks, webhookRows, webhookNodes>>
BY DEF Store, SaveMessages, Sq!SaveMessage, sqliteVars, Co!SaveMessage

LEMMA NextHooksInv ==
    ASSUME BackendInv, HooksInv, [Next]_vars
    PROVE  HooksInv'
<1>1. ASSUME UNCHANGED vars PROVE HooksInv'
  BY <1>1, StillHooksInv DEF vars, storeVars, sqliteVars, compositeVars
<1>2. ASSUME NEW c \in Channels, NEW o \in Objects, Create(c, o) PROVE HooksInv'
  BY <1>2, CreateHooksInv
<1>3. ASSUME NEW p \in Patches, Patch(p) PROVE HooksInv'
  BY <1>3, PatchHooksInv DEF BackendInv
<1>4. ASSUME NEW c \in Channels, Delete(c) PROVE HooksInv'
  BY <1>4, DeleteHooksInv
<1>5. ASSUME NEW c, NEW a, NEW n, NEW m, Add(c, a, n, m) \/ PatchMemberOf(c, a, m)
      PROVE  HooksInv'
  BY <1>5, MembersLeaveHooks, StillHooksInv
<1>6. ASSUME NEW c \in Channels, NEW a \in Agents, Remove(c, a) PROVE HooksInv'
  BY <1>6, MembersLeaveHooks, StillHooksInv
<1>7. ASSUME NEW c \in Channels, NEW r \in Requests, Send(r, c) PROVE HooksInv'
  BY <1>7, StoringLeavesHooks, StillHooksInv DEF Send
<1>8. ASSUME NEW r \in Requests, NEW a \in Agents, Reply(r, a) PROVE HooksInv'
  BY <1>8, StoringLeavesHooks, StillHooksInv DEF Reply
<1>9. ASSUME NEW c \in Channels, NEW h \in Hooks, Subscribe(c, h) \/ Unsubscribe(c, h)
      PROVE  HooksInv'
  BY <1>9, SubscribeHooksInv, UnsubscribeHooksInv
<1>10. ASSUME NEW c \in Channels, NEW p \in Patches, ReadToPatch(p, c) PROVE HooksInv'
  BY <1>10, StillHooksInv DEF ReadToPatch, storeVars, sqliteVars, compositeVars
<1> QED
  BY <1>1, <1>2, <1>3, <1>4, <1>5, <1>6, <1>7, <1>8, <1>9, <1>10 DEF Next, Operation

(* The webhooks of SQLite are in the graph, and those of the graph in the  *)
(* memory store, whatever is deleted, created over, given the same id and  *)
(* registered too late (sqlite_backend.py:65-72, neo4j_backend.py:191,     *)
(* server.py:230).                                                         *)
THEOREM WebhooksStayNested == Spec => []WebhooksNested
<1>1. HooksInv => WebhooksNested
  BY DEF HooksInv, NestedAt, WebhooksNested
<1> QED
  BY <1>1, BackendInvariant, InitHooksInv, NextHooksInv, PTL DEF Spec

-----------------------------------------------------------------------------
(* The rows of SQLite, and the points of Qdrant, with the message in each. *)
Row == {[id |-> MessageId(x), cid |-> c, rec |-> x] : c \in Channels, x \in Record}
Point == [cid : Channels, rec : Record]

RecordsOf(s) == [i \in DOMAIN s |-> s[i].rec]
Here(S, c) == {m \in S : m.cid = c}

(* The filters of the two backends, and that of IsSubsequence, keep the    *)
(* elements of a set.                                                      *)
LEMMA RowsElsewhere ==
    ASSUME NEW s \in Seq(Row), NEW c
    PROVE  Sq!Filter(s, LAMBDA m : m.cid # c) = Keep(s, Row \ Here(Row, c))
<1> DEFINE T == Row \ Here(Row, c)
           F == CHOOSE G : G = [i \in 0 .. Len(s) |->
                   IF i = 0 THEN <<>>
                   ELSE IF s[i].cid # c THEN Append(G[i - 1], s[i]) ELSE G[i - 1]]
<1>1. Sq!Filter(s, LAMBDA m : m.cid # c) = F[Len(s)]
  BY DEF Sq!Filter
<1>2. \A G : Filters(G, s, T) <=> G = [i \in 0 .. Len(s) |->
                   IF i = 0 THEN <<>>
                   ELSE IF s[i].cid # c THEN Append(G[i - 1], s[i]) ELSE G[i - 1]]
  BY DEF Filters, Here
<1> HIDE DEF T
<1>3. Filters(F, s, T)
  BY <1>2, FilterExists
<1> HIDE DEF F
<1> QED
  BY <1>1, <1>3, FilterIsKeep DEF T

LEMMA RowsOfOtherIds ==
    ASSUME NEW s \in Seq(Row), NEW id
    PROVE  Sq!Filter(s, LAMBDA m : m.id # id) = Keep(s, {m \in Row : m.id # id})
<1> DEFINE T == {m \in Row : m.id # id}
           F == CHOOSE G : G = [i \in 0 .. Len(s) |->
                   IF i = 0 THEN <<>>
                   ELSE IF s[i].id # id THEN Append(G[i - 1], s[i]) ELSE G[i - 1]]
<1>1. Sq!Filter(s, LAMBDA m : m.id # id) = F[Len(s)]
  BY DEF Sq!Filter
<1>2. \A G : Filters(G, s, T) <=> G = [i \in 0 .. Len(s) |->
                   IF i = 0 THEN <<>>
                   ELSE IF s[i].id # id THEN Append(G[i - 1], s[i]) ELSE G[i - 1]]
  BY DEF Filters
<1> HIDE DEF T
<1>3. Filters(F, s, T)
  BY <1>2, FilterExists
<1> HIDE DEF F
<1> QED
  BY <1>1, <1>3, FilterIsKeep DEF T

LEMMA RowsHere ==
    ASSUME NEW s \in Seq(Row), NEW c
    PROVE  Sq!Filter(s, LAMBDA m : m.cid = c) = Keep(s, Here(Row, c))
<1> DEFINE T == Here(Row, c)
           F == CHOOSE G : G = [i \in 0 .. Len(s) |->
                   IF i = 0 THEN <<>>
                   ELSE IF s[i].cid = c THEN Append(G[i - 1], s[i]) ELSE G[i - 1]]
<1>1. Sq!Filter(s, LAMBDA m : m.cid = c) = F[Len(s)]
  BY DEF Sq!Filter
<1>2. \A G : Filters(G, s, T) <=> G = [i \in 0 .. Len(s) |->
                   IF i = 0 THEN <<>>
                   ELSE IF s[i].cid = c THEN Append(G[i - 1], s[i]) ELSE G[i - 1]]
  BY DEF Filters, Here
<1> HIDE DEF T
<1>3. Filters(F, s, T)
  BY <1>2, FilterExists
<1> HIDE DEF F
<1> QED
  BY <1>1, <1>3, FilterIsKeep DEF T

LEMMA PointsHere ==
    ASSUME NEW s \in Seq(Point), NEW c
    PROVE  Co!Filter(s, LAMBDA m : m.cid = c) = Keep(s, Here(Point, c))
<1> DEFINE T == Here(Point, c)
           F == CHOOSE G : G = [i \in 0 .. Len(s) |->
                   IF i = 0 THEN <<>>
                   ELSE IF s[i].cid = c THEN Append(G[i - 1], s[i]) ELSE G[i - 1]]
<1>1. Co!Filter(s, LAMBDA m : m.cid = c) = F[Len(s)]
  BY DEF Co!Filter
<1>2. \A G : Filters(G, s, T) <=> G = [i \in 0 .. Len(s) |->
                   IF i = 0 THEN <<>>
                   ELSE IF s[i].cid = c THEN Append(G[i - 1], s[i]) ELSE G[i - 1]]
  BY DEF Filters, Here
<1> HIDE DEF T
<1>3. Filters(F, s, T)
  BY <1>2, FilterExists
<1> HIDE DEF F
<1> QED
  BY <1>1, <1>3, FilterIsKeep DEF T

(* What is kept of a sequence is the subsequence of its own elements.      *)
LEMMA KeptIsSubsequence ==
    ASSUME NEW t \in Seq(Record), NEW T
    PROVE  IsSubsequence(Keep(t, T), t)
<1> DEFINE s == Keep(t, T)
           U == RangeOf(s)
           F == CHOOSE G : G = [i \in 0 .. Len(t) |->
                   IF i = 0 THEN <<>>
                   ELSE IF t[i] \in RangeOf(s) THEN Append(G[i - 1], t[i]) ELSE G[i - 1]]
<1>1. Filter(t, LAMBDA x : x \in RangeOf(s)) = F[Len(t)]
  BY DEF Filter
<1>2. \A G : Filters(G, t, U) <=> G = [i \in 0 .. Len(t) |->
                   IF i = 0 THEN <<>>
                   ELSE IF t[i] \in RangeOf(s) THEN Append(G[i - 1], t[i]) ELSE G[i - 1]]
  BY DEF Filters
<1>3. s \in Seq(Record)
  BY KeepType
<1>4. \A x : x \in U <=> \E i \in 1 .. Len(s) : s[i] = x
  BY <1>3 DEF RangeOf
<1>5. \A i \in 1 .. Len(t) : t[i] \in T <=> t[i] \in U
  <2>1. \A x : (\E i \in 1 .. Len(s) : s[i] = x) <=> x \in T /\ \E i \in 1 .. Len(t) : t[i] = x
    BY KeepMembers
  <2> HIDE DEF s, U
  <2> QED
    BY <1>4, <2>1
<1> HIDE DEF U
<1>6. Filters(F, t, U)
  BY <1>2, FilterExists
<1>7. F[Len(t)] = Keep(t, U)
  <2> HIDE DEF F
  <2> QED
    BY <1>6, FilterIsKeep
<1>8. Keep(t, U) = s
  <2> HIDE DEF s
  <2>1. Keep(t, T) = Keep(t, U)
    BY <1>5, KeepSame
  <2> QED
    BY <2>1 DEF s
<1> QED
  BY <1>1, <1>7, <1>8 DEF IsSubsequence

(* Messages by their records. *)
LEMMA RecordsOfType ==
    ASSUME NEW S, NEW s \in Seq(S), \A m \in S : m.rec \in Record
    PROVE  /\ RecordsOf(s) \in Seq(Record)
           /\ Len(RecordsOf(s)) = Len(s)
           /\ \A i \in 1 .. Len(s) : RecordsOf(s)[i] = s[i].rec
<1>1. DOMAIN s = 1 .. Len(s) /\ Len(s) \in Nat /\ \A i \in 1 .. Len(s) : s[i] \in S
  OBVIOUS
<1>2. RecordsOf(s) = [i \in 1 .. Len(s) |-> s[i].rec]
  BY <1>1 DEF RecordsOf
<1>3. RecordsOf(s) \in [1 .. Len(s) -> Record]
  BY <1>1, <1>2
<1>4. RecordsOf(s) \in Seq(Record)
  BY <1>1, <1>3
<1> QED
  BY <1>1, <1>2, <1>4

LEMMA RecordsOfAppend ==
    ASSUME NEW S, NEW s \in Seq(S), NEW m \in S, \A e \in S : e.rec \in Record
    PROVE  RecordsOf(Append(s, m)) = Append(RecordsOf(s), m.rec)
<1> DEFINE t == Append(s, m)
           n == Len(s)
           u == RecordsOf(t)
           v == Append(RecordsOf(s), m.rec)
<1>1. /\ t \in Seq(S) /\ Len(t) = n + 1 /\ t[n + 1] = m /\ n \in Nat
      /\ \A i \in 1 .. n : t[i] = s[i]
  OBVIOUS
<1>2. u \in Seq(Record) /\ Len(u) = n + 1 /\ \A i \in 1 .. n + 1 : u[i] = t[i].rec
  <2> HIDE DEF t
  <2> QED
    BY <1>1, RecordsOfType
<1>3. /\ RecordsOf(s) \in Seq(Record) /\ Len(RecordsOf(s)) = n
      /\ \A i \in 1 .. n : RecordsOf(s)[i] = s[i].rec
  BY RecordsOfType
<1>4. m.rec \in Record
  OBVIOUS
<1> HIDE DEF u
<1>5. v \in Seq(Record) /\ Len(v) = n + 1 /\ v[n + 1] = m.rec
      /\ \A i \in 1 .. n : v[i] = s[i].rec
  BY <1>3, <1>4
<1> HIDE DEF v, t, n
<1>6. \A i \in 1 .. n + 1 : u[i] = v[i]
  <2> SUFFICES ASSUME NEW i \in 1 .. n + 1 PROVE u[i] = v[i]
    OBVIOUS
  <2>1. CASE i = n + 1
    BY <1>1, <1>2, <1>5, <2>1
  <2>2. CASE i # n + 1
    <3>1. i \in 1 .. n
      BY <1>1, <2>2
    <3> QED
      BY <1>1, <1>2, <1>5, <3>1
  <2> QED
    BY <2>1, <2>2
<1>7. u = v
  <2>1. u \in Seq(Record) /\ v \in Seq(Record) /\ Len(u) = Len(v)
    BY <1>2, <1>5
  <2>2. \A i \in 1 .. Len(u) : u[i] = v[i]
    BY <1>2, <1>6
  <2> QED
    BY <2>1, <2>2, SeqEqual
<1> QED
  BY <1>7 DEF u, v, t

LEMMA RecordsOfKeep ==
    ASSUME NEW S, \A e \in S : e.rec \in Record, NEW T
    PROVE  \A s \in Seq(S) :
             RecordsOf(Keep(s, {e \in S : e.rec \in T})) = Keep(RecordsOf(s), T)
<1> DEFINE U == {e \in S : e.rec \in T}
           P == {s \in Seq(S) : RecordsOf(Keep(s, U)) = Keep(RecordsOf(s), T)}
<1>1. <<>> \in P
  <2>1. RecordsOf(<<>>) = <<>>
    BY DEF RecordsOf
  <2> QED
    BY <2>1, KeepEmpty
<1>2. ASSUME NEW s \in Seq(S), NEW x \in S, s \in P PROVE Append(s, x) \in P
  <2>1. Keep(s, U) \in Seq(S) /\ RecordsOf(s) \in Seq(Record) /\ Append(s, x) \in Seq(S)
    BY KeepType, RecordsOfType
  <2>2. x.rec \in Record /\ (x \in U <=> x.rec \in T)
    OBVIOUS
  <2>3. RecordsOf(Keep(s, U)) = Keep(RecordsOf(s), T)
    BY <1>2
  <2> HIDE DEF U
  <2>4. RecordsOf(Append(s, x)) = Append(RecordsOf(s), x.rec)
    BY RecordsOfAppend
  <2>5. Keep(Append(s, x), U) = IF x \in U THEN Append(Keep(s, U), x) ELSE Keep(s, U)
    BY KeepAppend
  <2>6. Keep(Append(RecordsOf(s), x.rec), T)
          = IF x.rec \in T THEN Append(Keep(RecordsOf(s), T), x.rec) ELSE Keep(RecordsOf(s), T)
    <3> DEFINE q == RecordsOf(s)
               y == x.rec
    <3>1. q \in Seq(Record) /\ y \in Record
      BY <2>1, <2>2
    <3> HIDE DEF q, y
    <3>2. Keep(Append(q, y), T) = IF y \in T THEN Append(Keep(q, T), y) ELSE Keep(q, T)
      BY <3>1, KeepAppend
    <3> QED
      BY <3>2 DEF q, y
  <2>7. RecordsOf(Append(Keep(s, U), x)) = Append(RecordsOf(Keep(s, U)), x.rec)
    BY <2>1, RecordsOfAppend
  <2>8. RecordsOf(Keep(Append(s, x), U)) = Keep(RecordsOf(Append(s, x)), T)
    <3>1. CASE x \in U
      BY <2>2, <2>3, <2>4, <2>5, <2>6, <2>7, <3>1
    <3>2. CASE x \notin U
      BY <2>2, <2>3, <2>4, <2>5, <2>6, <2>7, <3>2
    <3> QED
      BY <3>1, <3>2
  <2> QED
    BY <2>1, <2>8
<1> HIDE DEF P
<1>3. \A s \in Seq(S) : s \in P
  BY <1>1, <1>2, SequenceInduct
<1> QED
  BY <1>3 DEF P

LEMMA SuffixAppend ==
    ASSUME NEW S, NEW s \in Seq(S), NEW t \in Seq(S), NEW x \in S, IsSuffix(s, t)
    PROVE  IsSuffix(Append(s, x), Append(t, x))
<1> DEFINE m == Len(s)
           n == Len(t)
           u == Append(s, x)
           v == Append(t, x)
           w == SubSeq(v, n - m + 1, n + 1)
<1>1. m \in Nat /\ n \in Nat /\ m <= n /\ s = SubSeq(t, n - m + 1, n)
  BY DEF IsSuffix
<1>2. /\ u \in Seq(S) /\ Len(u) = m + 1 /\ u[m + 1] = x /\ \A i \in 1 .. m : u[i] = s[i]
      /\ v \in Seq(S) /\ Len(v) = n + 1 /\ v[n + 1] = x /\ \A i \in 1 .. n : v[i] = t[i]
  OBVIOUS
<1> HIDE DEF u, v
<1>3. \A i \in 1 .. m : s[i] = t[n - m + i]
  BY <1>1
<1>4. w \in Seq(S) /\ Len(w) = m + 1 /\ \A i \in 1 .. m + 1 : w[i] = v[n - m + i]
  BY <1>1, <1>2
<1> HIDE DEF w, m, n
<1>5. \A i \in 1 .. m + 1 : u[i] = w[i]
  <2> SUFFICES ASSUME NEW i \in 1 .. m + 1 PROVE u[i] = w[i]
    OBVIOUS
  <2>1. CASE i = m + 1
    <3>1. n - m + i = n + 1
      BY <1>1, <2>1
    <3> QED
      BY <1>2, <1>4, <2>1, <3>1
  <2>2. CASE i # m + 1
    <3>1. i \in 1 .. m /\ n - m + i \in 1 .. n
      BY <1>1, <2>2
    <3> QED
      BY <1>2, <1>3, <1>4, <3>1
  <2> QED
    BY <2>1, <2>2
<1>6. u = w
  <2>1. Len(u) = Len(w) /\ \A i \in 1 .. Len(u) : u[i] = w[i]
    BY <1>2, <1>4, <1>5
  <2> QED
    BY <1>2, <1>4, <2>1, SeqEqual
<1>7. Len(u) <= Len(v) /\ Len(v) - Len(u) + 1 = n - m + 1 /\ Len(v) = n + 1
  BY <1>1, <1>2
<1>8. u = SubSeq(v, Len(v) - Len(u) + 1, Len(v))
  BY <1>6, <1>7 DEF w
<1>9. IsSuffix(u, v)
  BY <1>7, <1>8 DEF IsSuffix
<1> QED
  BY <1>9 DEF u, v

-----------------------------------------------------------------------------
(* The messages SQLite and Qdrant have of a channel. *)
InSqlite(c) == RecordsOf(Keep(messageRows, Here(Row, c)))
InQdrant(c) == RecordsOf(Keep(points, Here(Point, c)))

HistoryTypeOK ==
    /\ messageRows \in Seq(Row)
    /\ points \in Seq(Point)
    /\ history \in [Channels -> Seq(Record)]
    /\ sentTo \in [Requests -> Objects \cup {NoObject}]

(* A request was sent, and a reply is answered, before it is in a history: *)
(* so a message that is stored is new to every history.                    *)
Recorded(x) ==
    IF x.kind = "request" THEN sentTo[x.req] # NoObject
    ELSE <<x.req, x.from>> \in answered
HistoryIsRecorded ==
    \A c \in Channels : \A i \in 1 .. Len(history[c]) : Recorded(history[c][i])

(* The object a request was sent to has an id to save the replies under.   *)
SentHome == \A r \in Requests : sentTo[r] # NoObject => home[sentTo[r]] # NoChannel

HistoryAt(c) ==
    /\ \E T : InSqlite(c) = Keep(history[c], T)
    /\ IsSuffix(history[c], InQdrant(c))

HistoryInv ==
    /\ HistoryTypeOK /\ HistoryIsRecorded /\ SentHome
    /\ \A c \in Channels : HistoryAt(c)

LEMMA RowIsRecord ==
    /\ \A m \in Row : m.rec \in Record /\ m.id = MessageId(m.rec)
    /\ \A p \in Point : p.rec \in Record
BY DEF Row, Point

LEMMA EmptySuffix ==
    ASSUME NEW S, NEW t \in Seq(S)
    PROVE  IsSuffix(<<>>, t)
<1>1. Len(t) \in Nat /\ Len(<<>>) = 0
  OBVIOUS
<1>2. SubSeq(t, Len(t) - 0 + 1, Len(t)) = <<>>
  BY <1>1, SubSeqEmpty
<1> QED
  BY <1>1, <1>2 DEF IsSuffix

LEMMA InitHistoryInv == Init => HistoryInv
<1> SUFFICES ASSUME Init PROVE HistoryInv
  OBVIOUS
<1>1. /\ messageRows = <<>> /\ points = <<>> /\ \A c \in Channels : history[c] = <<>>
      /\ \A r \in Requests : sentTo[r] = NoObject
  BY DEF Init, StoreInit
<1>2. HistoryTypeOK
  BY DEF Init, StoreInit, HistoryTypeOK
<1>3. HistoryIsRecorded /\ SentHome
  BY <1>1 DEF HistoryIsRecorded, SentHome
<1>4. ASSUME NEW c \in Channels PROVE HistoryAt(c)
  <2>1. RecordsOf(<<>>) = <<>>
    BY DEF RecordsOf
  <2>2. InSqlite(c) = <<>> /\ InQdrant(c) = <<>>
    BY <1>1, <2>1, KeepEmpty DEF InSqlite, InQdrant
  <2>3. Keep(history[c], {}) = <<>>
    BY <1>1, KeepEmpty
  <2>4. IsSuffix(history[c], InQdrant(c))
    <3>1. IsSuffix(<<>>, <<>>)
      <4>1. <<>> \in Seq(Record)
        OBVIOUS
      <4> QED
        BY <4>1, EmptySuffix
    <3> QED
      BY <1>1, <2>2, <3>1
  <2> QED
    BY <2>2, <2>3, <2>4 DEF HistoryAt
<1> QED
  BY <1>2, <1>3, <1>4 DEF HistoryInv

(* What is left of the messages when those of c are removed with its row.  *)
LEMMA CascadeHistory ==
    ASSUME HistoryTypeOK, NEW c \in Channels, Sq!Cascade(c)
    PROVE  /\ messageRows' \in Seq(Row)
           /\ \A d \in Channels : InSqlite(d)' = IF d = c THEN <<>> ELSE InSqlite(d)
<1> DEFINE T == Row \ Here(Row, c)
<1>1. messageRows \in Seq(Row)
  BY DEF HistoryTypeOK
<1>2. messageRows' = Keep(messageRows, T)
  BY <1>1, RowsElsewhere DEF Sq!Cascade
<1>3. messageRows' \in Seq(Row)
  BY <1>1, <1>2, KeepType
<1>4. ASSUME NEW d \in Channels PROVE InSqlite(d)' = IF d = c THEN <<>> ELSE InSqlite(d)
  <2>1. Keep(messageRows', Here(Row, d)) = Keep(messageRows, T \cap Here(Row, d))
    <3> HIDE DEF T
    <3> QED
      BY <1>1, <1>2, KeepKeep
  <2>2. CASE d = c
    <3>1. T \cap Here(Row, d) = {}
      BY <2>2
    <3>2. Keep(messageRows', Here(Row, d)) = <<>>
      BY <1>1, <2>1, <3>1, KeepNone
    <3> QED
      BY <2>2, <3>2 DEF InSqlite, RecordsOf
  <2>3. CASE d # c
    <3>1. T \cap Here(Row, d) = Here(Row, d)
      BY <2>3 DEF Here
    <3> QED
      BY <2>1, <2>3, <3>1 DEF InSqlite
  <2> QED
    BY <2>2, <2>3
<1> QED
  BY <1>3, <1>4

(* The row of a channel is saved again: its messages go, in SQLite only.   *)
LEMMA SavedHistoryInv ==
    ASSUME HistoryInv, MemoryOK, NEW c \in Channels, Sq!Cascade(c),
           UNCHANGED <<history, points, sentTo, answered>>,
           home' = home \/ \E o \in Objects : home' = [home EXCEPT ![o] = c]
    PROVE  HistoryInv'
<1>1. /\ UNCHANGED <<history, points, sentTo, answered>>
      /\ Sq!Cascade(c)
  OBVIOUS
<1>2. home' = home \/ \E o \in Objects : home' = [home EXCEPT ![o] = c]
  OBVIOUS
<1>3. /\ messageRows' \in Seq(Row)
      /\ \A d \in Channels : InSqlite(d)' = IF d = c THEN <<>> ELSE InSqlite(d)
  BY <1>1, CascadeHistory DEF HistoryInv
<1>4. HistoryTypeOK' /\ HistoryIsRecorded'
  BY <1>1, <1>3 DEF HistoryInv, HistoryTypeOK, HistoryIsRecorded, Recorded
<1>5. SentHome'
  <2>1. \A p \in Objects : home[p] # NoChannel => home'[p] # NoChannel
    BY <1>2, StoreAssumption DEF MemoryOK
  <2> QED
    BY <1>1, <2>1 DEF HistoryInv, HistoryTypeOK, SentHome
<1>6. ASSUME NEW d \in Channels PROVE HistoryAt(d)'
  <2>1. IsSuffix(history[d], InQdrant(d))'
    BY <1>1 DEF HistoryInv, HistoryAt, IsSuffix, InQdrant
  <2>2. \E T : InSqlite(d)' = Keep(history'[d], T)
    <3>1. CASE d = c
      <4>1. Keep(history[d], {}) = <<>>
        BY KeepNone DEF HistoryInv, HistoryTypeOK
      <4> QED
        BY <1>1, <1>3, <3>1, <4>1
    <3>2. CASE d # c
      BY <1>1, <1>3, <3>2 DEF HistoryInv, HistoryAt
    <3> QED
      BY <3>1, <3>2
  <2> QED
    BY <2>1, <2>2 DEF HistoryAt
<1> QED
  BY <1>4, <1>5, <1>6 DEF HistoryInv

LEMMA CreateHistoryInv ==
    ASSUME HistoryInv, MemoryOK, NEW c \in Channels, NEW o \in Objects, Create(c, o)
    PROVE  HistoryInv'
BY SavedHistoryInv DEF Create, CreateChannel, Sq!SaveChannel, Co!SaveChannel, messageGhosts

LEMMA PatchHistoryInv ==
    ASSUME HistoryInv, MemoryOK, CopyInv, NEW p \in Patches, Patch(p)
    PROVE  HistoryInv'
<1>1. home[found[p]] \in Channels
  BY DEF Patch, CopyInv, CopyTypeOK, CopyAt, MemoryOK
<1> QED
  BY <1>1, SavedHistoryInv
  DEF Patch, SaveRead, SaveChannel, Sq!SaveChannel, Co!SaveChannel, messageGhosts

LEMMA DeleteHistoryInv ==
    ASSUME HistoryInv, NEW c \in Channels, Delete(c)
    PROVE  HistoryInv'
<1>1. /\ UNCHANGED <<home, points, sentTo, answered>>
      /\ history' = [history EXCEPT ![c] = <<>>]
      /\ Sq!Cascade(c)
  BY DEF Delete, DeleteChannel, Sq!DeleteChannel, Co!DeleteChannel, messageGhosts
<1>2. /\ messageRows' \in Seq(Row)
      /\ \A d \in Channels : InSqlite(d)' = IF d = c THEN <<>> ELSE InSqlite(d)
  BY <1>1, CascadeHistory DEF HistoryInv
<1>3. \A d \in Channels : history'[d] = IF d = c THEN <<>> ELSE history[d]
  BY <1>1 DEF HistoryInv, HistoryTypeOK
<1>4. HistoryTypeOK'
  BY <1>1, <1>2 DEF HistoryInv, HistoryTypeOK
<1>5. HistoryIsRecorded' /\ SentHome'
  <2>1. HistoryIsRecorded'
    <3> SUFFICES ASSUME NEW d \in Channels, NEW i \in 1 .. Len(history'[d])
                 PROVE  Recorded(history[d][i])'
      BY DEF HistoryIsRecorded
    <3>1. d # c
      BY <1>3
    <3> QED
      BY <1>1, <1>3, <3>1 DEF HistoryInv, HistoryIsRecorded, Recorded
  <2>2. SentHome'
    BY <1>1 DEF HistoryInv, SentHome
  <2> QED
    BY <2>1, <2>2
<1>6. ASSUME NEW d \in Channels PROVE HistoryAt(d)'
  <2>1. InQdrant(d)' = InQdrant(d)
    BY <1>1 DEF InQdrant
  <2>2. CASE d = c
    <3>1. InQdrant(d) \in Seq(Record)
      <4>1. Keep(points, Here(Point, d)) \in Seq(Point)
        BY KeepType DEF HistoryInv, HistoryTypeOK
      <4> QED
        BY <4>1, RowIsRecord, RecordsOfType DEF InQdrant
    <3>2. IsSuffix(<<>>, InQdrant(d))
      BY <3>1, EmptySuffix
    <3>3. IsSuffix(history[d], InQdrant(d))'
      BY <1>3, <2>1, <2>2, <3>2 DEF IsSuffix
    <3>4. InSqlite(d)' = Keep(history'[d], {})
      BY <1>2, <1>3, <2>2, KeepEmpty
    <3> QED
      BY <3>3, <3>4 DEF HistoryAt
  <2>3. CASE d # c
    <3>1. history'[d] = history[d] /\ InSqlite(d)' = InSqlite(d)
      BY <1>2, <1>3, <2>3
    <3>2. IsSuffix(history[d], InQdrant(d))'
      BY <2>1, <3>1 DEF HistoryInv, HistoryAt, IsSuffix
    <3>3. \E T : InSqlite(d)' = Keep(history'[d], T)
      BY <3>1 DEF HistoryInv, HistoryAt
    <3> QED
      BY <3>2, <3>3 DEF HistoryAt
  <2> QED
    BY <2>2, <2>3
<1> QED
  BY <1>4, <1>5, <1>6 DEF HistoryInv

(* A message Qdrant saves comes last in its channel.                       *)
LEMMA SaveInQdrant ==
    ASSUME HistoryTypeOK, NEW c \in Channels, NEW x \in Record, Co!SaveMessage(c, x)
    PROVE  /\ points' \in Seq(Point)
           /\ \A d \in Channels :
                /\ InQdrant(d) \in Seq(Record)
                /\ InQdrant(d)' = IF d = c THEN Append(InQdrant(d), x) ELSE InQdrant(d)
<1> DEFINE p == [cid |-> c, rec |-> x]
<1>1. p \in Point /\ p.cid = c /\ p.rec = x
  BY DEF Point
<1>2. points \in Seq(Point)
  BY DEF HistoryTypeOK
<1>3. points' = Append(points, p)
  BY DEF Co!SaveMessage
<1> HIDE DEF p
<1>4. points' \in Seq(Point)
  BY <1>1, <1>2, <1>3
<1>5. ASSUME NEW d \in Channels
      PROVE  /\ InQdrant(d) \in Seq(Record)
             /\ InQdrant(d)' = IF d = c THEN Append(InQdrant(d), x) ELSE InQdrant(d)
  <2> DEFINE T == Here(Point, d)
             s == Keep(points, T)
  <2>1. s \in Seq(Point)
    BY <1>2, KeepType
  <2>2. Keep(points', T) = IF p \in T THEN Append(s, p) ELSE s
    BY <1>1, <1>2, <1>3, KeepAppend
  <2>3. p \in T <=> d = c
    BY <1>1 DEF Here
  <2>4. InQdrant(d) = RecordsOf(s) /\ InQdrant(d)' = RecordsOf(Keep(points', T))
    BY DEF InQdrant
  <2> HIDE DEF s, T
  <2>5. RecordsOf(s) \in Seq(Record) /\ RecordsOf(Append(s, p)) = Append(RecordsOf(s), x)
    BY <1>1, <2>1, RowIsRecord, RecordsOfType, RecordsOfAppend
  <2> QED
    BY <2>2, <2>3, <2>4, <2>5
<1> QED
  BY <1>4, <1>5

(* A message SQLite saves replaces the one that has its id, in whatever    *)
(* channel, and comes last in its own.                                     *)
LEMMA SaveInSqlite ==
    ASSUME HistoryTypeOK, NEW c \in Channels, NEW x \in Record,
           Sq!SaveMessage(MessageId(x), c, x)
    PROVE  /\ messageRows' \in Seq(Row)
           /\ \E U : \A d \in Channels :
                InSqlite(d)' = IF d = c THEN Append(Keep(InSqlite(d), U), x)
                               ELSE Keep(InSqlite(d), U)
<1> DEFINE id == MessageId(x)
           m == [id |-> MessageId(x), cid |-> c, rec |-> x]
           U == {y \in Record : MessageId(y) # id}
           V == {r \in Row : r.rec \in U}
           s == Keep(messageRows, V)
<1>1. messageRows \in Seq(Row)
  BY DEF HistoryTypeOK
<1>2. m \in Row /\ m.cid = c /\ m.rec = x
  BY DEF Row
<1>3. V = {r \in Row : r.id # id}
  BY RowIsRecord
<1>4. messageRows' = Append(s, m)
  <2>1. messageRows' = Append(Sq!Filter(messageRows, LAMBDA r : r.id # id), m)
    BY DEF Sq!SaveMessage
  <2> HIDE DEF m, id, V
  <2>2. Sq!Filter(messageRows, LAMBDA r : r.id # id) = Keep(messageRows, {r \in Row : r.id # id})
    BY <1>1, RowsOfOtherIds
  <2> QED
    BY <1>3, <2>1, <2>2
<1> HIDE DEF m
<1>5. s \in Seq(Row)
  <2> HIDE DEF V
  <2> QED
    BY <1>1, KeepType
<1>6. messageRows' \in Seq(Row)
  <2> HIDE DEF s
  <2> QED
    BY <1>2, <1>4, <1>5
<1>7. ASSUME NEW d \in Channels
      PROVE  InSqlite(d)' = IF d = c THEN Append(Keep(InSqlite(d), U), x)
                            ELSE Keep(InSqlite(d), U)
  <2> DEFINE T == Here(Row, d)
             mine == Keep(messageRows, T)
             left == Keep(s, T)
  <2>1. m \in T <=> d = c
    BY <1>2 DEF Here
  <2>2. InSqlite(d) = RecordsOf(mine) /\ InSqlite(d)' = RecordsOf(Keep(messageRows', T))
    BY DEF InSqlite
  <2>3. left = Keep(mine, V)
    <3> HIDE DEF T, V
    <3>1. left = Keep(messageRows, V \cap T) /\ Keep(mine, V) = Keep(messageRows, T \cap V)
      BY <1>1, KeepKeep
    <3>2. V \cap T = T \cap V
      OBVIOUS
    <3> QED
      BY <3>1, <3>2
  <2> HIDE DEF T
  <2>4. mine \in Seq(Row) /\ left \in Seq(Row)
    <3> HIDE DEF s
    <3> QED
      BY <1>1, <1>5, KeepType
  <2>5. RecordsOf(left) = Keep(RecordsOf(mine), U)
    <3> HIDE DEF mine, left, U
    <3>1. \A e \in Row : e.rec \in Record
      BY RowIsRecord
    <3> QED
      BY <2>3, <2>4, <3>1, RecordsOfKeep
  <2>6. Keep(messageRows', T) = IF m \in T THEN Append(left, m) ELSE left
    <3> HIDE DEF s
    <3> QED
      BY <1>2, <1>4, <1>5, KeepAppend
  <2> HIDE DEF left, mine, U
  <2>7. RecordsOf(Append(left, m)) = Append(RecordsOf(left), x)
    BY <1>2, <2>4, RowIsRecord, RecordsOfAppend
  <2> QED
    BY <2>1, <2>2, <2>5, <2>6, <2>7
<1> HIDE DEF U
<1> QED
  BY <1>6, <1>7

(* What is stored in all three, the message being new.                     *)
LEMMA StoreHistoryAt ==
    ASSUME HistoryTypeOK, \A d \in Channels : HistoryAt(d),
           NEW c \in Channels, NEW x \in Record, Store(c, x),
           \A d \in Channels : \A i \in 1 .. Len(history[d]) : history[d][i] # x
    PROVE  /\ messageRows' \in Seq(Row)
           /\ points' \in Seq(Point)
           /\ history' = [history EXCEPT ![c] = Append(history[c], x)]
           /\ \A d \in Channels : HistoryAt(d)'
<1>1. history \in [Channels -> Seq(Record)]
  BY DEF HistoryTypeOK
<1>2. history' = [history EXCEPT ![c] = Append(history[c], x)]
  <2>1. history' = [history EXCEPT ![c] = history[c] \o <<x>>]
    BY DEF Store, SaveMessages
  <2>2. history[c] \o <<x>> = Append(history[c], x)
    BY <1>1, AppendIsConcat
  <2> QED
    BY <2>1, <2>2
<1>3. \A d \in Channels : history'[d] = IF d = c THEN Append(history[d], x) ELSE history[d]
  BY <1>1, <1>2
<1>4. /\ points' \in Seq(Point)
      /\ \A d \in Channels :
           /\ InQdrant(d) \in Seq(Record)
           /\ InQdrant(d)' = IF d = c THEN Append(InQdrant(d), x) ELSE InQdrant(d)
  BY SaveInQdrant DEF Store
<1>5. /\ messageRows' \in Seq(Row)
      /\ \/ UNCHANGED messageRows
         \/ \E U : \A d \in Channels :
              InSqlite(d)' = IF d = c THEN Append(Keep(InSqlite(d), U), x)
                             ELSE Keep(InSqlite(d), U)
  <2>1. CASE Sq!HasChannel(c)
    <3>1. Sq!SaveMessage(MessageId(x), c, x)
      BY <2>1 DEF Store
    <3> QED
      BY <3>1, SaveInSqlite
  <2>2. CASE ~Sq!HasChannel(c)
    BY <2>2 DEF Store, sqliteVars, HistoryTypeOK
  <2> QED
    BY <2>1, <2>2
<1>6. ASSUME NEW d \in Channels PROVE HistoryAt(d)'
  <2>1. history[d] \in Seq(Record) /\ \A i \in 1 .. Len(history[d]) : history[d][i] # x
    BY <1>1
  <2>2. PICK T : InSqlite(d) = Keep(history[d], T)
    BY DEF HistoryAt
  <2>3. IsSuffix(history[d], InQdrant(d))
    BY DEF HistoryAt
  <2>4. IsSuffix(history'[d], InQdrant(d)')
    <3>1. CASE d = c
      BY <1>3, <1>4, <2>1, <2>3, <3>1, SuffixAppend
    <3>2. CASE d # c
      BY <1>3, <1>4, <2>3, <3>2
    <3> QED
      BY <3>1, <3>2
  <2>5. \A R : /\ Keep(Append(history[d], x), R \ {x}) = Keep(history[d], R)
               /\ Keep(Append(history[d], x), R \cup {x}) = Append(Keep(history[d], R), x)
    <3>1. NewTo(history[d], x)
      BY <2>1 DEF NewTo
    <3> QED
      BY <2>1, <3>1, KeepNew
  <2>6. ASSUME UNCHANGED messageRows
        PROVE  \E R : InSqlite(d)' = Keep(history'[d], R)
    <3>1. InSqlite(d)' = InSqlite(d)
      BY <2>6 DEF InSqlite
    <3>2. CASE d = c
      <4>1. InSqlite(d)' = Keep(history'[d], T \ {x})
        BY <1>3, <2>2, <2>5, <3>1, <3>2
      <4> QED
        BY <4>1
    <3>3. CASE d # c
      BY <1>3, <2>2, <3>1, <3>3
    <3> QED
      BY <3>2, <3>3
  <2>7. ASSUME NEW U, InSqlite(d)' = IF d = c THEN Append(Keep(InSqlite(d), U), x)
                                     ELSE Keep(InSqlite(d), U)
        PROVE  \E R : InSqlite(d)' = Keep(history'[d], R)
    <3>1. Keep(InSqlite(d), U) = Keep(history[d], T \cap U)
      <4>1. Keep(Keep(history[d], T), U) = Keep(history[d], T \cap U)
        BY <2>1, KeepKeep
      <4> QED
        BY <2>2, <4>1
    <3>2. CASE d = c
      <4>1. InSqlite(d)' = Keep(history'[d], (T \cap U) \cup {x})
        BY <1>3, <2>5, <2>7, <3>1, <3>2
      <4> QED
        BY <4>1
    <3>3. CASE d # c
      BY <1>3, <2>7, <3>1, <3>3
    <3> QED
      BY <3>2, <3>3
  <2>8. \E R : InSqlite(d)' = Keep(history'[d], R)
    BY <1>5, <2>6, <2>7
  <2>9. IsSuffix(history[d], InQdrant(d))'
    BY <2>4 DEF IsSuffix
  <2> QED
    BY <2>8, <2>9 DEF HistoryAt
<1> QED
  BY <1>2, <1>4, <1>5, <1>6

LEMMA StoringHistoryInv ==
    ASSUME HistoryInv, UNCHANGED home, NEW c \in Channels, NEW x \in Record, Store(c, x),
           ~Recorded(x), Recorded(x)',
           \A y \in Record : Recorded(y) => Recorded(y)',
           (sentTo \in [Requests -> Objects \cup {NoObject}] /\ SentHome)'
    PROVE  HistoryInv'
<1>1. /\ HistoryTypeOK /\ HistoryIsRecorded /\ \A d \in Channels : HistoryAt(d)
      /\ history \in [Channels -> Seq(Record)]
  BY DEF HistoryInv, HistoryTypeOK
<1>2. \A d \in Channels : \A i \in 1 .. Len(history[d]) :
        history[d][i] # x /\ history[d][i] \in Record /\ Recorded(history[d][i])
  BY <1>1 DEF HistoryIsRecorded
<1>3. /\ messageRows' \in Seq(Row)
      /\ points' \in Seq(Point)
      /\ history' = [history EXCEPT ![c] = Append(history[c], x)]
      /\ \A d \in Channels : HistoryAt(d)'
  BY <1>1, <1>2, StoreHistoryAt
<1>4. HistoryTypeOK'
  BY <1>1, <1>3 DEF HistoryTypeOK
<1>5. HistoryIsRecorded'
  <2> SUFFICES ASSUME NEW d \in Channels, NEW i \in 1 .. Len(history'[d])
               PROVE  Recorded(history[d][i])'
    BY DEF HistoryIsRecorded
  <2>1. history[d] \in Seq(Record)
    BY <1>1
  <2>2. \/ history'[d][i] = x
        \/ i \in 1 .. Len(history[d]) /\ history'[d][i] = history[d][i]
    <3>1. CASE d # c
      BY <1>1, <1>3, <3>1
    <3>2. CASE d = c
      <4> DEFINE h == history[d]
      <4>1. h \in Seq(Record) /\ history'[d] = Append(h, x)
        BY <1>1, <1>3, <3>2
      <4> HIDE DEF h
      <4>2. /\ Len(Append(h, x)) = Len(h) + 1 /\ Len(h) \in Nat
            /\ Append(h, x)[Len(h) + 1] = x
            /\ \A j \in 1 .. Len(h) : Append(h, x)[j] = h[j]
        BY <4>1
      <4>3. i \in 1 .. Len(h) \/ i = Len(h) + 1
        BY <4>1, <4>2
      <4> QED
        BY <4>1, <4>2, <4>3 DEF h
    <3> QED
      BY <3>1, <3>2
  <2> QED
    BY <1>2, <2>2 DEF Recorded
<1> QED
  BY <1>3, <1>4, <1>5 DEF HistoryInv

LEMMA SendHistoryInv ==
    ASSUME HistoryInv, MemoryOK, NEW c \in Channels, NEW r \in Requests, Send(r, c)
    PROVE  HistoryInv'
<1>1. live[c] \in Objects /\ live[c] # NoObject /\ home[live[c]] = c /\ c # NoChannel
  BY StoreAssumption DEF Send, Exists, MemoryOK, Registered
<1>2. PICK x \in Record : x = [kind |-> "request", req |-> r, from |-> NoAgent, ctx |-> live[c]]
  BY <1>1 DEF Record
<1>3. /\ sentTo[r] = NoObject /\ sentTo' = [sentTo EXCEPT ![r] = live[c]]
      /\ answered' = answered /\ Store(c, x) /\ x.kind = "request" /\ x.req = r
  BY <1>2 DEF Send
<1>4. sentTo \in [Requests -> Objects \cup {NoObject}] /\ SentHome
  BY DEF HistoryInv, HistoryTypeOK
<1>5. home' = home
  BY <1>3 DEF Store, SaveMessages
<1>6. \A q \in Requests : sentTo'[q] = IF q = r THEN live[c] ELSE sentTo[q]
  BY <1>3, <1>4
<1>7. ~Recorded(x) /\ Recorded(x)'
  BY <1>1, <1>3, <1>6 DEF Recorded
<1>8. \A y \in Record : Recorded(y) => Recorded(y)'
  <2>1. \A y \in Record : y.req \in Requests
    BY DEF Record
  <2> QED
    BY <1>1, <1>3, <1>6, <2>1 DEF Recorded
<1>9. (sentTo \in [Requests -> Objects \cup {NoObject}] /\ SentHome)'
  <2>1. SentHome'
    BY <1>1, <1>4, <1>5, <1>6 DEF SentHome
  <2> QED
    BY <1>1, <1>3, <1>4, <2>1
<1> QED
  BY <1>2, <1>3, <1>5, <1>7, <1>8, <1>9, StoringHistoryInv

LEMMA ReplyHistoryInv ==
    ASSUME HistoryInv, MemoryOK, NEW r \in Requests, NEW a \in Agents, Reply(r, a)
    PROVE  HistoryInv'
<1>1. /\ sentTo \in [Requests -> Objects \cup {NoObject}] /\ SentHome
      /\ home \in [Objects -> Channels \cup {NoChannel}]
  BY DEF HistoryInv, HistoryTypeOK, MemoryOK
<1>2. sentTo[r] # NoObject /\ <<r, a>> \notin answered
  BY DEF Reply
<1>3. sentTo[r] \in Objects
  BY <1>1, <1>2
<1>4. PICK c \in Channels, x \in Record :
        /\ c = home[sentTo[r]]
        /\ x = [kind |-> "reply", req |-> r, from |-> a, ctx |-> sentTo[r]]
  BY <1>1, <1>2, <1>3 DEF SentHome, Record
<1>5. /\ Store(c, x) /\ answered' = answered \cup {<<r, a>>} /\ sentTo' = sentTo
      /\ x.kind # "request" /\ x.req = r /\ x.from = a
  BY <1>4 DEF Reply
<1>6. home' = home
  BY <1>5 DEF Store, SaveMessages
<1>7. ~Recorded(x) /\ Recorded(x)' /\ \A y \in Record : Recorded(y) => Recorded(y)'
  BY <1>2, <1>5 DEF Recorded
<1>8. (sentTo \in [Requests -> Objects \cup {NoObject}] /\ SentHome)'
  BY <1>1, <1>5, <1>6 DEF SentHome
<1> QED
  BY <1>3, <1>4, <1>5, <1>6, <1>7, <1>8, StoringHistoryInv

LEMMA StillHistoryInv ==
    ASSUME HistoryInv, UNCHANGED <<home, history, messageRows, points, sentTo, answered>>
    PROVE  HistoryInv'
BY DEF HistoryInv, HistoryTypeOK, HistoryIsRecorded, Recorded, SentHome, HistoryAt,
       InSqlite, InQdrant, IsSuffix

LEMMA OthersLeaveHistory ==
    ASSUME NEW c, NEW a, NEW n, NEW m,
           \/ Add(c, a, n, m) \/ Remove(c, a) \/ PatchMemberOf(c, a, m)
           \/ Subscribe(c, a) \/ Unsubscribe(c, a)
    PROVE  UNCHANGED <<home, history, messageRows, points, sentTo, answered>>
<1>1. Add(c, a, n, m) => UNCHANGED <<home, history, messageRows, points, sentTo, answered>>
  BY DEF Add, AddMember, Sq!SaveMember, Co!SaveMember, MembershipChanged, storeVars, sqliteVars,
         messageGhosts
<1>2. Remove(c, a) => UNCHANGED <<home, history, messageRows, points, sentTo, answered>>
  BY DEF Remove, RemoveMember, Sq!RemoveMember, Co!RemoveMember, MembershipChanged,
         messageGhosts
<1>3. PatchMemberOf(c, a, m)
        => UNCHANGED <<home, history, messageRows, points, sentTo, answered>>
  BY DEF PatchMemberOf, PatchMember, sqliteVars, compositeVars, messageGhosts
<1>4. Subscribe(c, a) => UNCHANGED <<home, history, messageRows, points, sentTo, answered>>
  BY DEF Subscribe, SaveWebhook, Sq!SaveWebhook, Co!SaveWebhook, sqliteVars, messageGhosts
<1>5. Unsubscribe(c, a)
        => UNCHANGED <<home, history, messageRows, points, sentTo, answered>>
  BY DEF Unsubscribe, DeleteWebhook, Sq!DeleteWebhook, Co!DeleteWebhook, messageGhosts
<1> QED
  BY <1>1, <1>2, <1>3, <1>4, <1>5

LEMMA NextHistoryInv ==
    ASSUME BackendInv, HistoryInv, [Next]_vars
    PROVE  HistoryInv'
<1>1. MemoryOK
  BY DEF BackendInv
<1>2. ASSUME UNCHANGED vars PROVE HistoryInv'
  BY <1>2, StillHistoryInv DEF vars, storeVars, sqliteVars, compositeVars, messageGhosts
<1>3. ASSUME NEW c \in Channels, NEW o \in Objects, Create(c, o) PROVE HistoryInv'
  BY <1>1, <1>3, CreateHistoryInv
<1>4. ASSUME NEW p \in Patches, Patch(p) PROVE HistoryInv'
  BY <1>1, <1>4, PatchHistoryInv DEF BackendInv
<1>5. ASSUME NEW c \in Channels, Delete(c) PROVE HistoryInv'
  BY <1>5, DeleteHistoryInv
<1>6. ASSUME NEW c, NEW a, NEW n, NEW m,
             \/ Add(c, a, n, m) \/ Remove(c, a) \/ PatchMemberOf(c, a, m)
             \/ Subscribe(c, a) \/ Unsubscribe(c, a)
      PROVE  HistoryInv'
  BY <1>6, OthersLeaveHistory, StillHistoryInv
<1>7. ASSUME NEW c \in Channels, NEW r \in Requests, Send(r, c) PROVE HistoryInv'
  BY <1>1, <1>7, SendHistoryInv
<1>8. ASSUME NEW r \in Requests, NEW a \in Agents, Reply(r, a) PROVE HistoryInv'
  BY <1>1, <1>8, ReplyHistoryInv
<1>9. ASSUME NEW c \in Channels, NEW p \in Patches, ReadToPatch(p, c) PROVE HistoryInv'
  BY <1>9, StillHistoryInv
  DEF ReadToPatch, storeVars, sqliteVars, compositeVars, messageGhosts
<1> QED
  BY <1>2, <1>3, <1>4, <1>5, <1>6, <1>7, <1>8, <1>9 DEF Next, Operation

(* What the two backends show of a channel. *)
LEMMA BackendHistories ==
    ASSUME HistoryTypeOK, NEW c \in Channels
    PROVE  /\ Sq!History(c) = InSqlite(c) /\ InSqlite(c) \in Seq(Record)
           /\ Co!History(c) = InQdrant(c) /\ InQdrant(c) \in Seq(Record)
<1>1. messageRows \in Seq(Row) /\ points \in Seq(Point)
  BY DEF HistoryTypeOK
<1>2. Sq!History(c) = RecordsOf(Sq!Filter(messageRows, LAMBDA m : m.cid = c))
  BY DEF Sq!History, RecordsOf
<1>3. Co!History(c) = RecordsOf(Co!Filter(points, LAMBDA m : m.cid = c))
  BY DEF Co!History, RecordsOf
<1>4. /\ Sq!Filter(messageRows, LAMBDA m : m.cid = c) = Keep(messageRows, Here(Row, c))
      /\ Co!Filter(points, LAMBDA m : m.cid = c) = Keep(points, Here(Point, c))
  BY <1>1, RowsHere, PointsHere
<1>5. Keep(messageRows, Here(Row, c)) \in Seq(Row) /\ Keep(points, Here(Point, c)) \in Seq(Point)
  BY <1>1, KeepType
<1>6. InSqlite(c) \in Seq(Record) /\ InQdrant(c) \in Seq(Record)
  BY <1>5, RowIsRecord, RecordsOfType DEF InSqlite, InQdrant
<1> QED
  BY <1>2, <1>3, <1>4, <1>6 DEF InSqlite, InQdrant

THEOREM HistoryInvariant == Spec => []HistoryInv
BY BackendInvariant, InitHistoryInv, NextHistoryInv, PTL DEF Spec

(* Whatever is deleted, created over and patched, however late a reply is  *)
(* saved and whichever message ids repeat: what SQLite shows of a channel  *)
(* is a subsequence of what the memory store has, and that is the latest   *)
(* part of what Qdrant has (sqlite_backend.py:154, memory.py:50,           *)
(* qdrant.py:80).                                                          *)
THEOREM HistoriesAreSandwiched == Spec => []HistorySandwich
<1>1. ASSUME HistoryInv PROVE HistorySandwich
  <2> SUFFICES ASSUME NEW c \in Channels
               PROVE  /\ IsSubsequence(Sq!History(c), history[c])
                      /\ IsSuffix(history[c], Co!History(c))
    BY DEF HistorySandwich
  <2>1. HistoryTypeOK /\ HistoryAt(c) /\ history[c] \in Seq(Record)
    BY <1>1 DEF HistoryInv, HistoryTypeOK
  <2>2. Sq!History(c) = InSqlite(c) /\ Co!History(c) = InQdrant(c)
    BY <2>1, BackendHistories
  <2>3. PICK T : InSqlite(c) = Keep(history[c], T)
    BY <2>1 DEF HistoryAt
  <2>4. IsSubsequence(InSqlite(c), history[c])
    BY <2>1, <2>3, KeptIsSubsequence
  <2> QED
    BY <2>1, <2>2, <2>4 DEF HistoryAt
<1> QED
  BY <1>1, HistoryInvariant, PTL

-----------------------------------------------------------------------------
(* A loop that starts empty and appends a page at each step ends with the  *)
(* concatenation of the pages.                                             *)
Concatenates(U, pages) ==
    U[0] = <<>> /\ \A i \in 1 .. Len(pages) : U[i] = U[i - 1] \o pages[i]

LEMMA ConcatenationLoop ==
    ASSUME NEW S, NEW pages \in Seq(Seq(S))
    PROVE  \E U : Concatenates(U, pages) /\ Concatenation(pages) = U[Len(pages)]
<1> DEFINE n == Len(pages)
           D == Seq(S)
           base == <<>>
           step == [i \in 1 .. n |-> [q \in D |-> q \o pages[i]]]
           IsUpto(U) == U = [i \in 0 .. Len(pages) |->
                               IF i = 0 THEN <<>> ELSE U[i - 1] \o pages[i]]
           Upto == CHOOSE U : IsUpto(U)
<1>1. n \in Nat /\ base \in D
  OBVIOUS
<1>2. step \in [1 .. n -> [D -> D]]
  <2>1. ASSUME NEW i \in 1 .. n, NEW q \in Seq(S) PROVE q \o pages[i] \in Seq(S)
    OBVIOUS
  <2> QED
    BY <2>1
<1>3. Concatenation(pages) = Upto[n]
  BY DEF Concatenation
<1> HIDE DEF n, D, base, step
<1>4. PICK F : Loop(F, n, D, base, step)
  BY <1>1, <1>2, LoopExists
<1>5. IsUpto(F)
  <2>1. F = [i \in 0 .. n |-> F[i]] /\ F[0] = <<>>
    BY <1>4 DEF Loop, base
  <2>2. ASSUME NEW i \in 1 .. n PROVE F[i] = F[i - 1] \o pages[i]
    <3>1. F[i - 1] \in D /\ F[i] = step[i][F[i - 1]]
      BY <1>1, <1>4 DEF Loop
    <3> QED
      BY <3>1 DEF step
  <2>3. ASSUME NEW i \in 0 .. n
        PROVE  F[i] = IF i = 0 THEN <<>> ELSE F[i - 1] \o pages[i]
    <3>1. i = 0 \/ i \in 1 .. n
      BY <1>1
    <3> QED
      BY <2>1, <2>2, <3>1
  <2> QED
    BY <2>1, <2>3 DEF n
<1>6. IsUpto(Upto)
  BY <1>5
<1>7. Concatenates(Upto, pages)
  <2> HIDE DEF Upto
  <2>1. Upto[0] = <<>>
    <3>1. 0 \in 0 .. Len(pages)
      BY <1>1 DEF n
    <3> QED
      BY <1>6, <3>1
  <2>2. ASSUME NEW i \in 1 .. Len(pages) PROVE Upto[i] = Upto[i - 1] \o pages[i]
    <3>1. i \in 0 .. Len(pages) /\ i # 0
      BY <1>1 DEF n
    <3> QED
      BY <1>6, <3>1
  <2> QED
    BY <2>1, <2>2 DEF Concatenates
<1> QED
  BY <1>3, <1>7 DEF n

LEMMA ConcatenationIs ==
    ASSUME NEW S, NEW pages \in Seq(Seq(S)), NEW V, Concatenates(V, pages)
    PROVE  Concatenation(pages) = V[Len(pages)]
<1>1. PICK U : Concatenates(U, pages) /\ Concatenation(pages) = U[Len(pages)]
  BY ConcatenationLoop
<1> DEFINE P == {i \in 0 .. Len(pages) : U[i] = V[i]}
<1>2. Len(pages) \in Nat /\ 0 \in P
  BY <1>1 DEF Concatenates
<1>3. ASSUME NEW i \in 1 .. Len(pages), i - 1 \in P PROVE i \in P
  <2>1. U[i] = U[i - 1] \o pages[i] /\ V[i] = V[i - 1] \o pages[i]
    BY <1>1 DEF Concatenates
  <2>2. U[i - 1] = V[i - 1]
    BY <1>3
  <2>3. U[i] = V[i]
    BY <2>1, <2>2
  <2> QED
    BY <2>3
<1>4. Len(pages) \in P
  <2> HIDE DEF P
  <2>1. \A i \in 0 .. Len(pages) : i \in P
    BY <1>2, <1>3, Induct
  <2> QED
    BY <1>2, <2>1
<1> QED
  BY <1>1, <1>4

(* Pages of `limit' messages that cover n of them: all are full but the    *)
(* last.                                                                   *)
LEMMA PageCount ==
    ASSUME NEW n \in Nat, NEW limit \in Nat \ {0}
    PROVE  LET k == n \div limit + 1
           IN k \in Nat \ {0} /\ (k - 1) * limit <= n /\ n < k * limit
<1> DEFINE q == n \div limit
<1>1. q \in Nat
  OBVIOUS
<1>2. q * limit <= n
  OBVIOUS
<1>3. n < q * limit + limit
  OBVIOUS
<1> QED
  BY <1>1, <1>2, <1>3

LEMMA PageOffset ==
    ASSUME NEW n \in Nat, NEW limit \in Nat \ {0}, NEW k \in Nat \ {0},
           (k - 1) * limit <= n, NEW i \in 1 .. k
    PROVE  (i - 1) * limit \in 0 .. n /\ (i - 1) * limit + limit = i * limit
<1>1. \A x, y \in Nat : x * y \in Nat
  OBVIOUS
<1>2. k - i \in Nat /\ i - 1 \in Nat
  OBVIOUS
<1>3. (k - 1) * limit = (i - 1) * limit + (k - i) * limit
  OBVIOUS
<1>4. (i - 1) * limit + limit = i * limit
  OBVIOUS
<1>5. (k - i) * limit \in Nat /\ (i - 1) * limit \in Nat
  BY <1>1, <1>2
<1> QED
  BY <1>3, <1>4, <1>5

LEMMA PartOf ==
    ASSUME NEW S, NEW h \in Seq(S), NEW a \in Nat \ {0}, NEW b \in Int, b <= Len(h)
    PROVE  SubSeq(h, a, b) \in Seq(S)
<1>1. CASE b < a
  <2>1. SubSeq(h, a, b) = <<>>
    BY <1>1, SubSeqEmpty
  <2> QED
    BY <2>1
<1>2. CASE a <= b
  BY <1>2
<1> QED
  BY <1>1, <1>2

(* Skip the oldest, take the next ones: memory.py. *)
LEMMA PagesFromTheOldest ==
    ASSUME NEW S, NEW h \in Seq(S), NEW limit \in Nat \ {0}
    PROVE  Concatenation([i \in 1 .. Len(h) \div limit + 1 |->
             SubSeq(h, (i - 1) * limit + 1,
                    IF (i - 1) * limit + limit < Len(h) THEN (i - 1) * limit + limit
                    ELSE Len(h))]) = h
<1> DEFINE n == Len(h)
           k == n \div limit + 1
           end(i) == IF (i - 1) * limit + limit < n THEN (i - 1) * limit + limit ELSE n
           page(i) == SubSeq(h, (i - 1) * limit + 1, end(i))
           pages == [i \in 1 .. k |-> page(i)]
           V == [i \in 0 .. k |-> IF i = 0 THEN <<>> ELSE SubSeq(h, 1, end(i))]
<1>1. n \in Nat
  OBVIOUS
<1>2. k \in Nat \ {0} /\ (k - 1) * limit <= n /\ n < k * limit
  BY <1>1, PageCount
<1> HIDE DEF n, k
<1>3. ASSUME NEW i \in 1 .. k
      PROVE  /\ (i - 1) * limit \in 0 .. n
             /\ (i - 1) * limit + limit = i * limit
             /\ end(i) \in (i - 1) * limit .. n
  <2>1. (i - 1) * limit \in 0 .. n /\ (i - 1) * limit + limit = i * limit
    BY <1>1, <1>2, PageOffset
  <2> DEFINE o == (i - 1) * limit
  <2>2. o \in 0 .. n => (IF o + limit < n THEN o + limit ELSE n) \in o .. n
    <3> HIDE DEF o
    <3> QED
      BY <1>1
  <2> QED
    BY <2>1, <2>2
<1>4. pages \in Seq(Seq(S)) /\ Len(pages) = k
  <2>1. ASSUME NEW i \in 1 .. k PROVE page(i) \in Seq(S)
    <3> DEFINE o == (i - 1) * limit
               e == end(i)
    <3>1. o \in 0 .. n /\ e \in o .. n
      BY <1>3
    <3> HIDE DEF o, e
    <3>2. o + 1 \in Nat \ {0} /\ e \in Int /\ e <= Len(h)
      BY <1>1, <3>1 DEF n
    <3>3. SubSeq(h, o + 1, e) \in Seq(S)
      BY <3>2, PartOf
    <3> QED
      BY <3>3 DEF o, e
  <2> HIDE DEF page
  <2> QED
    BY <1>2, <2>1
<1>5. V[0] = <<>> /\ \A i \in 1 .. k : V[i] = SubSeq(h, 1, end(i)) /\ V[i - 1] = SubSeq(h, 1, (i - 1) * limit)
  <2>1. 0 \in 0 .. k /\ \A i \in 1 .. k : i # 0 /\ i \in 0 .. k /\ i - 1 \in 0 .. k
    BY <1>2
  <2>2. V[0] = <<>>
    BY <2>1
  <2>3. ASSUME NEW i \in 1 .. k PROVE V[i] = SubSeq(h, 1, end(i))
    <3> HIDE DEF end
    <3> QED
      BY <2>1
  <2>4. ASSUME NEW i \in 1 .. k PROVE V[i - 1] = SubSeq(h, 1, (i - 1) * limit)
    <3>1. CASE i = 1
      <4>1. (i - 1) * limit = 0 /\ i - 1 = 0
        BY <3>1
      <4>2. SubSeq(h, 1, 0) = <<>>
        OBVIOUS
      <4> HIDE DEF V
      <4> QED
        BY <2>2, <4>1, <4>2
    <3>2. CASE i # 1
      <4> DEFINE j == i - 1
      <4>1. j \in 1 .. k /\ j - 1 \in Nat
        BY <1>2, <3>2
      <4>2. V[j] = SubSeq(h, 1, end(j))
        <5> HIDE DEF j, V
        <5> QED
          BY <2>3, <4>1
      <4>3. (j - 1) * limit + limit = j * limit /\ j * limit \in 0 .. n
        <5>1. (i - 1) * limit \in 0 .. n
          BY <1>3
        <5>2. (j - 1) * limit + limit = j * limit
          <6> HIDE DEF j
          <6> QED
            BY <1>3, <4>1
        <5> QED
          BY <5>1, <5>2
      <4>4. end(j) = j * limit
        <5> HIDE DEF j
        <5> QED
          BY <1>1, <4>3
      <4> HIDE DEF V, end
      <4> QED
        BY <4>2, <4>4
    <3> QED
      BY <3>1, <3>2
  <2> HIDE DEF V
  <2> QED
    BY <2>2, <2>3, <2>4
<1> HIDE DEF V
<1>6. ASSUME NEW i \in 1 .. k PROVE V[i] = V[i - 1] \o pages[i]
  <2> DEFINE o == (i - 1) * limit
             e == end(i)
  <2>1. o \in 0 .. n /\ e \in o .. n
    BY <1>3
  <2>2. V[i] = SubSeq(h, 1, e) /\ V[i - 1] = SubSeq(h, 1, o) /\ pages[i] = SubSeq(h, o + 1, e)
    BY <1>5
  <2> HIDE DEF o, e
  <2>3. 1 \in 1 .. Len(h) + 1 /\ o \in 1 - 1 .. Len(h) /\ e \in o .. Len(h)
    BY <1>1, <2>1 DEF n
  <2>4. SubSeq(h, 1, o) \o SubSeq(h, o + 1, e) = SubSeq(h, 1, e)
    BY <2>3, ConcatAdjacentSubSeq
  <2> HIDE DEF pages
  <2> QED
    BY <2>2, <2>4
<1>7. V[k] = h
  <2>1. k \in 1 .. k
    BY <1>2
  <2>2. end(k) = n
    <3> DEFINE o == (k - 1) * limit
               p == k * limit
    <3>1. o \in 0 .. n /\ o + limit = p /\ n < p
      BY <1>2, <1>3, <2>1
    <3> HIDE DEF o, p
    <3>2. (IF o + limit < n THEN o + limit ELSE n) = n
      BY <1>1, <3>1
    <3> QED
      BY <3>2 DEF o
  <2>3. V[k] = SubSeq(h, 1, n)
    <3> HIDE DEF end
    <3> QED
      BY <1>5, <2>1, <2>2
  <2> QED
    BY <2>3, SubSeqFull DEF n
<1> HIDE DEF pages
<1>8. Concatenates(V, pages)
  BY <1>4, <1>5, <1>6 DEF Concatenates
<1>9. Concatenation(pages) = h
  BY <1>4, <1>7, <1>8, ConcatenationIs
<1> QED
  BY <1>9 DEF pages, k, n

(* Skip from the newest back, and show the next ones oldest first: those   *)
(* pages, the last one first (sqlite_backend.py).                          *)
NewestPages(sq, h, limit) ==
    sq = [i \in 1 .. Len(h) \div limit + 1 |->
            SubSeq(h, IF Len(h) - (i - 1) * limit > limit
                      THEN Len(h) - (i - 1) * limit - limit + 1 ELSE 1,
                   Len(h) - (i - 1) * limit)]

LEMMA PagesFromTheNewest ==
    ASSUME NEW S, NEW h \in Seq(S), NEW limit \in Nat \ {0},
           NEW sq, NewestPages(sq, h, limit)
    PROVE  Concatenation([i \in DOMAIN sq |-> sq[Len(sq) + 1 - i]]) = h
<1> DEFINE n == Len(h)
           k == n \div limit + 1
           start(o) == IF n - o > limit THEN n - o - limit + 1 ELSE 1
           page(o) == SubSeq(h, start(o), n - o)
           offset(i) == ((k + 1 - i) - 1) * limit
           pages == [i \in DOMAIN sq |-> sq[Len(sq) + 1 - i]]
           V == [i \in 0 .. k |-> IF i = 0 THEN <<>> ELSE SubSeq(h, 1, n - offset(i))]
<1>1. n \in Nat
  OBVIOUS
<1>2. k \in Nat \ {0} /\ (k - 1) * limit <= n /\ n < k * limit
  BY <1>1, PageCount
<1>3. /\ DOMAIN sq = 1 .. k /\ Len(sq) = k
      /\ \A i \in 1 .. k : sq[i] = page((i - 1) * limit)
  <2>1. sq = [i \in 1 .. k |-> page((i - 1) * limit)]
    BY DEF NewestPages
  <2>2. k \in Nat
    BY <1>2
  <2> HIDE DEF k, page
  <2> QED
    BY <2>1, <2>2
<1> HIDE DEF n, k
<1>4. ASSUME NEW i \in 1 .. k
      PROVE  /\ offset(i) \in 0 .. n
             /\ i > 1 => offset(i - 1) = offset(i) + limit
             /\ i = 1 => n < offset(i) + limit
             /\ i = k => offset(i) = 0
  <2> DEFINE j == k + 1 - i
  <2>1. j \in 1 .. k
    BY <1>2
  <2>2. (j - 1) * limit \in 0 .. n /\ (j - 1) * limit + limit = j * limit
    <3> HIDE DEF j
    <3> QED
      BY <1>1, <1>2, <2>1, PageOffset
  <2>3. (k + 1 - (i - 1)) - 1 = j
    BY <1>2
  <2>4. i = 1 => j = k
    BY <1>2
  <2>5. i = k => (j - 1) * limit = 0
    BY <1>2
  <2>6. offset(i) = (j - 1) * limit
    OBVIOUS
  <2>7. offset(i - 1) = j * limit
    <3> HIDE DEF j
    <3> QED
      BY <2>3
  <2>8. i = 1 => n < j * limit
    BY <1>2, <2>4
  <2> HIDE DEF j, offset
  <2> QED
    BY <2>2, <2>5, <2>6, <2>7, <2>8
<1>5. \A i \in 1 .. k : pages[i] = page(offset(i))
  <2> SUFFICES ASSUME NEW i \in 1 .. k PROVE pages[i] = page(offset(i))
    OBVIOUS
  <2> DEFINE j == k + 1 - i
  <2>1. j \in 1 .. k
    BY <1>2
  <2>2. pages[i] = sq[j]
    BY <1>3
  <2>3. sq[j] = page((j - 1) * limit)
    <3> HIDE DEF j, page
    <3> QED
      BY <1>3, <2>1
  <2> QED
    BY <2>2, <2>3
<1> HIDE DEF offset
<1>6. pages \in Seq(Seq(S)) /\ Len(pages) = k
  <2>1. ASSUME NEW i \in 1 .. k PROVE page(offset(i)) \in Seq(S)
    <3> DEFINE o == offset(i)
    <3>1. o \in 0 .. n
      BY <1>4
    <3> HIDE DEF o
    <3>2. start(o) \in Nat \ {0} /\ n - o \in Int /\ n - o <= Len(h)
      BY <1>1, <3>1 DEF n
    <3>3. SubSeq(h, start(o), n - o) \in Seq(S)
      BY <3>2, PartOf
    <3> QED
      BY <3>3 DEF o
  <2>2. \A i \in 1 .. k : pages[i] \in Seq(S)
    BY <1>5, <2>1
  <2>3. pages = [i \in 1 .. k |-> pages[i]]
    <3>1. pages = [i \in 1 .. k |-> sq[Len(sq) + 1 - i]]
      BY <1>3
    <3> HIDE DEF pages
    <3> QED
      BY <3>1
  <2> HIDE DEF pages
  <2>4. pages \in [1 .. k -> Seq(S)]
    BY <2>2, <2>3
  <2> QED
    BY <1>2, <2>4
<1> HIDE DEF pages
<1>7. V[0] = <<>> /\ \A i \in 1 .. k : V[i] = SubSeq(h, 1, n - offset(i))
  <2>1. 0 \in 0 .. k /\ \A i \in 1 .. k : i # 0 /\ i \in 0 .. k
    BY <1>2
  <2> QED
    BY <2>1
<1> HIDE DEF V
<1>8. ASSUME NEW i \in 1 .. k PROVE V[i] = V[i - 1] \o pages[i]
  <2> DEFINE o == offset(i)
             m == n - o
  <2>1. o \in 0 .. n /\ (i = 1 => n < o + limit)
    BY <1>4
  <2>2. pages[i] = page(o) /\ V[i] = SubSeq(h, 1, n - o)
    BY <1>5, <1>7
  <2>3. V[i - 1] = IF n - o > limit THEN SubSeq(h, 1, n - o - limit) ELSE <<>>
    <3>1. CASE i = 1
      <4>1. i - 1 = 0 /\ ~(n - o > limit)
        <5> HIDE DEF o
        <5> QED
          BY <1>1, <2>1, <3>1
      <4> HIDE DEF o
      <4> QED
        BY <1>7, <4>1
    <3>2. CASE i # 1
      <4>1. i - 1 \in 1 .. k /\ i > 1
        BY <1>2, <3>2
      <4>2. offset(i - 1) = o + limit
        BY <1>4, <4>1
      <4>3. V[i - 1] = SubSeq(h, 1, n - (o + limit))
        BY <1>7, <4>1, <4>2
      <4> HIDE DEF o
      <4>4. n - (o + limit) = n - o - limit
        BY <1>1, <2>1
      <4>5. ~(n - o > limit) => n - o - limit < 1 /\ n - o - limit \in Int
        BY <1>1, <2>1
      <4>6. CASE n - o > limit
        BY <4>3, <4>4, <4>6
      <4>7. CASE ~(n - o > limit)
        <5> DEFINE e == n - o - limit
        <5>1. e < 1 /\ e \in Int /\ V[i - 1] = SubSeq(h, 1, e)
          BY <4>3, <4>4, <4>5, <4>7
        <5> HIDE DEF e
        <5>2. SubSeq(h, 1, e) = <<>>
          BY <5>1, SubSeqEmpty
        <5> QED
          BY <4>7, <5>1, <5>2
      <4> QED
        BY <4>6, <4>7
    <3> QED
      BY <3>1, <3>2
  <2> HIDE DEF o
  <2>4. CASE n - o > limit
    <3> DEFINE a == n - o - limit
               b == n - o
    <3>1. 1 \in 1 .. Len(h) + 1 /\ a \in 1 - 1 .. Len(h) /\ b \in a .. Len(h)
      BY <1>1, <2>1, <2>4 DEF n
    <3> HIDE DEF a, b
    <3>2. SubSeq(h, 1, a) \o SubSeq(h, a + 1, b) = SubSeq(h, 1, b)
      BY <3>1, ConcatAdjacentSubSeq
    <3> QED
      BY <2>2, <2>3, <2>4, <3>2 DEF a, b
  <2>5. CASE ~(n - o > limit)
    <3> DEFINE b == n - o
    <3>1. b \in Int /\ b <= Len(h) /\ 1 \in Nat \ {0}
      BY <1>1, <2>1 DEF n
    <3> HIDE DEF b
    <3>2. SubSeq(h, 1, b) \in Seq(S)
      BY <3>1, PartOf
    <3>3. <<>> \o SubSeq(h, 1, b) = SubSeq(h, 1, b)
      BY <3>2, ConcatEmptySeq
    <3> QED
      BY <2>2, <2>3, <2>5, <3>3 DEF b
  <2> QED
    BY <2>4, <2>5
<1>9. V[k] = h
  <2>1. k \in 1 .. k /\ offset(k) = 0
    BY <1>2, <1>4
  <2>2. V[k] = SubSeq(h, 1, n - 0)
    BY <1>7, <2>1
  <2>3. n - 0 = Len(h)
    BY <1>1 DEF n
  <2> QED
    BY <2>2, <2>3, SubSeqFull
<1>10. Concatenates(V, pages)
  BY <1>6, <1>7, <1>8 DEF Concatenates
<1>11. Concatenation(pages) = h
  BY <1>6, <1>9, <1>10, ConcatenationIs
<1> QED
  BY <1>11 DEF pages

(* Every message is on one page, and only there, whatever the size of the  *)
(* pages: the memory store's from the oldest on, SQLite's from the newest  *)
(* back (memory.py:50, sqlite_backend.py:166).                             *)
THEOREM PagesShowEveryMessage == Spec => []PagesCoverHistory
<1>1. ASSUME HistoryTypeOK PROVE PagesCoverHistory
  <2> SUFFICES ASSUME NEW c \in Channels, NEW limit \in 1 .. 3
               PROVE  LET pages(Page(_, _, _), h) ==
                            [i \in 1 .. Len(h) \div limit + 1 |-> Page(c, limit, (i - 1) * limit)]
                          mem == pages(MessagePage, history[c])
                          sq == pages(Sq!MessagePage, Sq!History(c))
                      IN /\ Concatenation(mem) = history[c]
                         /\ Concatenation([i \in DOMAIN sq |-> sq[Len(sq) + 1 - i]]) = Sq!History(c)
    BY DEF PagesCoverHistory
  <2>1. limit \in Nat \ {0}
    OBVIOUS
  <2>2. history[c] \in Seq(Record) /\ Sq!History(c) \in Seq(Record)
    BY <1>1, BackendHistories DEF HistoryTypeOK
  <2> DEFINE mem == [i \in 1 .. Len(history[c]) \div limit + 1 |->
                       MessagePage(c, limit, (i - 1) * limit)]
             sq == [i \in 1 .. Len(Sq!History(c)) \div limit + 1 |->
                      Sq!MessagePage(c, limit, (i - 1) * limit)]
  <2>3. Concatenation(mem) = history[c]
    <3> DEFINE h == history[c]
    <3>1. h \in Seq(Record)
      BY <2>2
    <3>2. mem = [i \in 1 .. Len(h) \div limit + 1 |->
             SubSeq(h, (i - 1) * limit + 1,
                    IF (i - 1) * limit + limit < Len(h) THEN (i - 1) * limit + limit
                    ELSE Len(h))]
      BY DEF MessagePage
    <3> HIDE DEF h, mem
    <3>3. Concatenation(mem) = h
      BY <2>1, <3>1, <3>2, PagesFromTheOldest
    <3> QED
      BY <3>3 DEF h
  <2>4. Concatenation([i \in DOMAIN sq |-> sq[Len(sq) + 1 - i]]) = Sq!History(c)
    <3> DEFINE h == Sq!History(c)
    <3>1. h \in Seq(Record)
      BY <2>2
    <3>2. NewestPages(sq, h, limit)
      BY DEF Sq!MessagePage, NewestPages
    <3> HIDE DEF h, sq
    <3>3. Concatenation([i \in DOMAIN sq |-> sq[Len(sq) + 1 - i]]) = h
      BY <2>1, <3>1, <3>2, PagesFromTheNewest
    <3> QED
      BY <3>3 DEF h
  <2> QED
    BY <2>3, <2>4
<1>2. HistoryInv => HistoryTypeOK
  BY DEF HistoryInv
<1> QED
  BY <1>1, <1>2, HistoryInvariant, PTL
=============================================================================
