--------------------------- MODULE BootstrapProofs ---------------------------
(***************************************************************************)
(* A start over either backend takes nothing away but what the exceptions  *)
(* of its properties name, ends with everything in place, and writes       *)
(* nothing but new times when everything was: for any topology, any        *)
(* environments, and any number of crashes and of administrators' and      *)
(* clients' calls, whatever names, ids and urls these give.                *)
(***************************************************************************)
EXTENDS Bootstrap, TLAPS

HookBags == UNION {[S -> Nat \ {0}] : S \in SUBSET Hook}

SqliteTypeOK ==
    /\ channelRows \in [Channels -> {"context", Absent}]
    /\ memberRows \in [Channels -> [Agents -> MemberRow \cup {Absent}]]
    /\ webhookRows \in [Channels -> SUBSET Hook]

GraphTypeOK ==
    /\ channelNodes \in [Channels -> {"context", Absent}]
    /\ agentNodes \in [Names -> AgentNode \cup {Absent}]
    /\ memberships \in [Channels -> [Names -> Membership \cup {Absent}]]
    /\ webhookNodes \in [Channels -> HookBags]

ProcessTypeOK ==
    /\ backend \in {"sqlite", "composite"}
    /\ phase \in {"down", "bootstrap", "webhooks", "serving"}
    /\ template \in Templates \cup {NoUrl}
    /\ webhookUrl \in Urls \cup {NoUrl}
    /\ existing \in [Channels -> [Agents -> MemberRow \cup {Absent}] \cup {Absent}]
    /\ pos \in 1 .. Len(Plan) + 1
    /\ pending \in SUBSET Channels
    /\ wasInPlace \in BOOLEAN
    /\ crashes \in 0 .. MaxCrashes

(* No row refers to a channel that has none, and a webhook id is a key;    *)
(* only the lifespan registers what no client subscribed.                  *)
SqliteRows ==
    \A c \in Channels :
       /\ channelRows[c] = Absent =>
            webhookRows[c] = {} /\ \A a \in Agents : memberRows[c][a] = Absent
       /\ \A g, h \in webhookRows[c] : g.id = h.id => g = h
       /\ \A h \in webhookRows[c] : h.url \notin subscribed[c] => h = BrainHook(h.url)

(* An agent is there under the name the plan has for it, or under one a    *)
(* client gave it; and whoever is in a channel has a node.                 *)
Named(a, n) == <<a, n>> \in registered \/ (a \in Planned /\ n = PlanName[a])

GraphNodes ==
    /\ \A n \in Names : agentNodes[n] # Absent => Named(agentNodes[n].agent, n)
    /\ \A c \in Channels, n \in Names :
         memberships[c][n] # Absent => agentNodes[n] # Absent
    /\ \A c \in Channels : \A h \in DOMAIN webhookNodes[c] :
         h.url \notin subscribed[c] => h = BrainHook(h.url) /\ webhookNodes[c][h] = 1

SqliteInv == SqliteTypeOK /\ SqliteRows
GraphInv == GraphTypeOK /\ GraphNodes
AskedOK == subscribed \in [Channels -> SUBSET Urls]
BothInv == SqliteInv /\ GraphInv /\ AskedOK

(* Nobody takes back what was asked. *)
AskedGrows ==
    /\ registered \subseteq registered'
    /\ \A c \in Channels : subscribed[c] \subseteq subscribed'[c]
    /\ AskedOK'

(* A member is stored in the channel as this start wants it.               *)
Expected(a, role) == BuildMember(template, a, role)
Placed(c, a, role) == StoredAs(c, a, Expected(a, role))

PlacedUpTo(n) ==
    \A i \in DOMAIN Plan :
       i < n =>
         /\ Exists(Plan[i].cid)
         /\ Plan[i].agent # NoAgent => Placed(Plan[i].cid, Plan[i].agent, Plan[i].role)

HasUrl(c, w) == \E h \in DOMAIN Webhooks(c) : h.url = w

(* What the listing says is still so, for the entries that are left: a     *)
(* channel that it did not have is not there, and a member is as listed.   *)
ListingHolds ==
    /\ \A c \in Channels : existing[c] # Absent => Exists(c)
    /\ \A i \in DOMAIN Plan :
         LET c == Plan[i].cid
             a == Plan[i].agent
         IN i >= pos =>
              IF a = NoAgent THEN existing[c] = Absent => ~Exists(c)
              ELSE existing[c] # Absent =>
                     existing[c][a] = IF backend = "sqlite" THEN memberRows[c][a]
                                      ELSE Absent

StartInv ==
    /\ phase = "bootstrap" => PlacedUpTo(pos) /\ ListingHolds
    /\ phase = "webhooks" =>
         /\ PlacedUpTo(Len(Plan) + 1)
         /\ \A c \in pending : Exists(c) /\ webhookUrl # NoUrl
         /\ webhookUrl # NoUrl =>
              \A c \in Channels : Exists(c) /\ c \notin pending => HasUrl(c, webhookUrl)
    /\ wasInPlace =>
         /\ phase \in {"bootstrap", "webhooks"}
         /\ InPlace(template, webhookUrl)
         /\ phase = "bootstrap" => existing = ListChannels

BootInv == ProcessTypeOK /\ BothInv /\ StartInv

-----------------------------------------------------------------------------
(* What each operation of a backend keeps, whoever asks for it.            *)
LEMMA NoMembersRow == Sq!NoMembers \in [Agents -> MemberRow \cup {Absent}]
BY DEF Sq!NoMembers

LEMMA SqliteChannelInv ==
    ASSUME SqliteInv, AskedGrows, NEW c \in Channels,
           NEW row \in {"context", Absent},
           NEW ms \in [Agents -> MemberRow \cup {Absent}],
           row = Absent => \A a \in Agents : ms[a] = Absent,
           channelRows' = [channelRows EXCEPT ![c] = row],
           memberRows' = [memberRows EXCEPT ![c] = ms],
           Sq!Cascade(c)
    PROVE  SqliteInv'
<1> USE DEF SqliteInv, SqliteTypeOK, SqliteRows, AskedGrows, Sq!Cascade
<1>1. SqliteTypeOK'
  OBVIOUS
<1>2. SqliteRows'
  OBVIOUS
<1> QED
  BY <1>1, <1>2

LEMMA SqliteMemberInv ==
    ASSUME SqliteInv, AskedGrows, NEW c \in Channels, NEW a \in Agents,
           NEW v \in MemberRow \cup {Absent},
           v # Absent => channelRows[c] # Absent,
           memberRows' = [memberRows EXCEPT ![c][a] = v],
           UNCHANGED <<channelRows, webhookRows>>
    PROVE  SqliteInv'
<1> USE DEF SqliteInv, SqliteTypeOK, SqliteRows, AskedGrows
<1>1. SqliteTypeOK'
  OBVIOUS
<1>2. SqliteRows'
  OBVIOUS
<1> QED
  BY <1>1, <1>2

LEMMA SqliteHookInv ==
    ASSUME SqliteInv, AskedGrows, NEW c \in Channels, NEW hook \in Hook,
           hook.url \notin subscribed'[c] => hook = BrainHook(hook.url),
           Sq!SaveWebhook(c, hook)
    PROVE  SqliteInv'
<1> USE DEF SqliteInv, SqliteTypeOK, SqliteRows, AskedGrows
<1>1. /\ webhookRows' = [webhookRows EXCEPT ![c] =
                           {h \in webhookRows[c] : h.id # hook.id} \cup {hook}]
      /\ channelRows[c] # Absent
      /\ UNCHANGED <<channelRows, memberRows>>
  BY DEF Sq!SaveWebhook, Sq!HasChannel
<1>2. SqliteTypeOK'
  BY <1>1
<1>3. SqliteRows'
  BY <1>1
<1> QED
  BY <1>2, <1>3

LEMMA SqliteUnhookInv ==
    ASSUME SqliteInv, AskedGrows, NEW c \in Channels, NEW id, Sq!DeleteWebhook(c, id)
    PROVE  SqliteInv'
<1> USE DEF SqliteInv, SqliteTypeOK, SqliteRows, AskedGrows, Sq!DeleteWebhook
<1>1. SqliteTypeOK'
  OBVIOUS
<1>2. SqliteRows'
  OBVIOUS
<1> QED
  BY <1>1, <1>2

LEMMA SqliteStill ==
    ASSUME SqliteInv, AskedGrows, UNCHANGED sqlite
    PROVE  SqliteInv'
BY DEF SqliteInv, SqliteTypeOK, SqliteRows, AskedGrows, sqlite

LEMMA BagOfHooks ==
    ASSUME NEW B \in HookBags
    PROVE  /\ DOMAIN B \subseteq Hook
           /\ \A h \in DOMAIN B : B[h] \in Nat \ {0}
BY DEF HookBags

LEMMA NoHooksBag == Co!NoWebhooks \in HookBags /\ DOMAIN Co!NoWebhooks = {}
<1>1. Co!NoWebhooks = [h \in {} |-> 1]
  BY DEF Co!NoWebhooks, Co!EmptyBag, Co!SetToBag
<1>2. [h \in {} |-> 1] \in [{} -> Nat \ {0}]
  OBVIOUS
<1> QED
  BY <1>1, <1>2 DEF HookBags

LEMMA AddedHook ==
    ASSUME NEW B \in HookBags, NEW hook \in Hook
    PROVE  LET A == Co!(+)(B, Co!SetToBag({hook}))
           IN /\ A \in HookBags
              /\ DOMAIN A = DOMAIN B \cup {hook}
              /\ A[hook] = IF hook \in DOMAIN B THEN B[hook] + 1 ELSE 1
              /\ \A h \in DOMAIN B \ {hook} : A[h] = B[h]
<1> DEFINE A == Co!(+)(B, Co!SetToBag({hook}))
<1>1. DOMAIN Co!SetToBag({hook}) = {hook} /\ Co!SetToBag({hook})[hook] = 1
  BY DEF Co!SetToBag
<1>2. A = [e \in DOMAIN B \cup {hook} |->
             (IF e \in DOMAIN B THEN B[e] ELSE 0)
           + (IF e \in DOMAIN Co!SetToBag({hook}) THEN Co!SetToBag({hook})[e] ELSE 0)]
  BY <1>1 DEF Co!(+)
<1> HIDE DEF A
<1>3. DOMAIN B \subseteq Hook /\ \A h \in DOMAIN B : B[h] \in Nat \ {0}
  BY BagOfHooks
<1>4. DOMAIN A = DOMAIN B \cup {hook}
  BY <1>2
<1>5. A[hook] = IF hook \in DOMAIN B THEN B[hook] + 1 ELSE 1
  BY <1>1, <1>2, <1>3
<1>6. ASSUME NEW h \in DOMAIN B \ {hook} PROVE A[h] = B[h]
  BY <1>1, <1>2, <1>3
<1>7. \A h \in DOMAIN A : A[h] \in Nat \ {0}
  BY <1>3, <1>4, <1>5, <1>6
<1>8. A = [h \in DOMAIN A |-> A[h]]
  BY <1>2, <1>4
<1>9. A \in HookBags
  BY <1>3, <1>4, <1>7, <1>8 DEF HookBags
<1> QED
  BY <1>4, <1>5, <1>6, <1>9 DEF A

LEMMA KeptHooks ==
    ASSUME NEW B \in HookBags, NEW id
    PROVE  LET K == [h \in {g \in DOMAIN B : g.id # id} |-> B[h]]
           IN /\ K \in HookBags
              /\ DOMAIN K \subseteq DOMAIN B
              /\ \A h \in DOMAIN K : K[h] = B[h]
<1> DEFINE S == {g \in DOMAIN B : g.id # id}
           K == [h \in S |-> B[h]]
<1>1. DOMAIN B \subseteq Hook /\ \A h \in DOMAIN B : B[h] \in Nat \ {0}
  BY BagOfHooks
<1>2. S \subseteq DOMAIN B
  OBVIOUS
<1> HIDE DEF S
<1>3. K \in [S -> Nat \ {0}] /\ S \in SUBSET Hook
  BY <1>1, <1>2
<1>4. K \in HookBags
  BY <1>3 DEF HookBags
<1> QED
  BY <1>2, <1>4 DEF S

LEMMA GraphStill ==
    ASSUME GraphInv, AskedGrows, UNCHANGED composite
    PROVE  GraphInv'
BY DEF GraphInv, GraphTypeOK, GraphNodes, Named, AskedGrows, composite

LEMMA GraphChannelInv ==
    ASSUME GraphInv, AskedGrows, NEW c \in Channels,
           Co!SaveChannel(c, "context") \/ Co!DeleteChannel(c)
    PROVE  GraphInv'
<1>1. CASE Co!SaveChannel(c, "context")
  BY <1>1 DEF Co!SaveChannel, GraphInv, GraphTypeOK, GraphNodes, Named, AskedGrows
<1>2. CASE Co!DeleteChannel(c)
  <2>1. /\ channelNodes' = [channelNodes EXCEPT ![c] = Absent]
        /\ memberships' = [memberships EXCEPT ![c] = [n \in Names |-> Absent]]
        /\ webhookNodes' = [webhookNodes EXCEPT ![c] = Co!NoWebhooks]
        /\ agentNodes' = agentNodes
    BY <1>2 DEF Co!DeleteChannel
  <2>2. GraphTypeOK'
    BY <2>1, NoHooksBag DEF GraphInv, GraphTypeOK
  <2>3. \A d \in Channels, n \in Names :
          memberships'[d][n] # Absent => memberships[d][n] # Absent
    BY <2>1 DEF GraphInv, GraphTypeOK
  <2>4. \A d \in Channels : webhookNodes'[d] = webhookNodes[d]
                              \/ DOMAIN webhookNodes'[d] = {}
    BY <2>1, NoHooksBag DEF GraphInv, GraphTypeOK
  <2> QED
    BY <2>1, <2>2, <2>3, <2>4 DEF GraphInv, GraphNodes, Named, AskedGrows
<1> QED
  BY <1>1, <1>2

(* What becomes of the graph when a member is saved.                       *)
LEMMA GraphMemberSaved ==
    ASSUME GraphInv, NEW c \in Channels, NEW a \in Agents, NEW n \in Names,
           NEW m \in MemberRow, NEW now \in 0 .. MaxCrashes,
           channelNodes[c] # Absent, Co!SaveMember(c, a, n, m, now)
    PROVE  LET node == [agent |-> a, url |-> m.url]
               membership == [role |-> m.role, since |-> now]
           IN /\ agentNodes' = [agentNodes EXCEPT ![n] = node]
              /\ memberships' = [memberships EXCEPT ![c][n] = membership]
              /\ UNCHANGED <<channelNodes, webhookNodes, points>>
              /\ node \in AgentNode /\ node # Absent /\ node.agent = a
              /\ membership \in Membership /\ membership # Absent
              /\ membership.role = m.role
<1>1. m.role \in MemberRoles /\ m.url \in Templates \cup {NoUrl}
  BY DEF MemberRow
<1>2. [agent |-> a, url |-> m.url] \in AgentNode
  BY <1>1 DEF AgentNode
<1>3. [role |-> m.role, since |-> now] \in Membership
  BY <1>1 DEF Membership
<1> QED
  BY <1>2, <1>3, BootstrapAssumption DEF Co!SaveMember

LEMMA GraphMemberInv ==
    ASSUME GraphInv, AskedGrows, NEW c \in Channels, NEW a \in Agents, NEW n \in Names,
           NEW m \in MemberRow, NEW now \in 0 .. MaxCrashes,
           Named(a, n)', Co!SaveMember(c, a, n, m, now)
    PROVE  GraphInv'
<1>1. CASE channelNodes[c] = Absent
  BY <1>1, GraphStill DEF Co!SaveMember, composite
<1>2. CASE channelNodes[c] # Absent
  <2> DEFINE node == [agent |-> a, url |-> m.url]
             membership == [role |-> m.role, since |-> now]
  <2>1. /\ agentNodes' = [agentNodes EXCEPT ![n] = node]
        /\ memberships' = [memberships EXCEPT ![c][n] = membership]
        /\ UNCHANGED <<channelNodes, webhookNodes>>
        /\ node \in AgentNode /\ node # Absent /\ node.agent = a
        /\ membership \in Membership /\ membership # Absent
    BY <1>2, GraphMemberSaved
  <2> HIDE DEF node, membership
  <2>2. GraphTypeOK'
    BY <2>1 DEF GraphInv, GraphTypeOK
  <2>3. \A k \in Names : agentNodes'[k] = IF k = n THEN node ELSE agentNodes[k]
    BY <2>1 DEF GraphInv, GraphTypeOK
  <2>4. \A d \in Channels, k \in Names :
          memberships'[d][k] = memberships[d][k] \/ k = n
    BY <2>1 DEF GraphInv, GraphTypeOK
  <2>5. \A k \in Names : agentNodes[k]' # Absent => Named(agentNodes[k].agent, k)'
    BY <2>1, <2>3 DEF GraphInv, GraphNodes, Named, AskedGrows
  <2>6. \A d \in Channels, k \in Names :
          memberships'[d][k] # Absent => agentNodes'[k] # Absent
    BY <2>1, <2>3, <2>4 DEF GraphInv, GraphNodes
  <2>7. \A d \in Channels : \A h \in DOMAIN webhookNodes'[d] :
          h.url \notin subscribed'[d] => h = BrainHook(h.url) /\ webhookNodes'[d][h] = 1
    BY <2>1 DEF GraphInv, GraphNodes, AskedGrows
  <2> QED
    BY <2>2, <2>5, <2>6, <2>7 DEF GraphInv, GraphNodes, BrainHook
<1> QED
  BY <1>1, <1>2

LEMMA GraphRemoveInv ==
    ASSUME GraphInv, AskedGrows, NEW c \in Channels, NEW a \in Agents, Co!RemoveMember(c, a)
    PROVE  GraphInv'
<1>1. /\ \A d \in Channels, n \in Names :
           memberships'[d][n] = memberships[d][n] \/ memberships'[d][n] = Absent
      /\ memberships' \in [Channels -> [Names -> Membership \cup {Absent}]]
  BY DEF Co!RemoveMember, GraphInv, GraphTypeOK
<1>2. UNCHANGED <<channelNodes, agentNodes, webhookNodes>>
  BY DEF Co!RemoveMember
<1> QED
  BY <1>1, <1>2 DEF GraphInv, GraphTypeOK, GraphNodes, Named, AskedGrows

(* A url no client subscribed is registered only where no webhook has it.  *)
LEMMA GraphHookInv ==
    ASSUME GraphInv, AskedGrows, NEW c \in Channels, NEW hook \in Hook,
           hook.url \notin subscribed'[c] =>
             /\ hook = BrainHook(hook.url)
             /\ \A h \in DOMAIN webhookNodes[c] : h.url # hook.url,
           Co!SaveWebhook(c, hook)
    PROVE  GraphInv'
<1>1. CASE channelNodes[c] = Absent
  BY <1>1, GraphStill DEF Co!SaveWebhook, composite
<1>2. CASE channelNodes[c] # Absent
  <2> DEFINE A == Co!(+)(webhookNodes[c], Co!SetToBag({hook}))
  <2>1. /\ webhookNodes' = [webhookNodes EXCEPT ![c] = A]
        /\ UNCHANGED <<channelNodes, agentNodes, memberships>>
    BY <1>2 DEF Co!SaveWebhook
  <2>2. webhookNodes[c] \in HookBags
    BY DEF GraphInv, GraphTypeOK
  <2>3. /\ A \in HookBags
        /\ DOMAIN A = DOMAIN webhookNodes[c] \cup {hook}
        /\ A[hook] = IF hook \in DOMAIN webhookNodes[c] THEN webhookNodes[c][hook] + 1
                     ELSE 1
        /\ \A h \in DOMAIN webhookNodes[c] \ {hook} : A[h] = webhookNodes[c][h]
    BY <2>2, AddedHook
  <2> HIDE DEF A
  <2>4. GraphTypeOK'
    BY <2>1, <2>3 DEF GraphInv, GraphTypeOK
  <2>5. \A d \in Channels : webhookNodes'[d] = IF d = c THEN A ELSE webhookNodes[d]
    BY <2>1 DEF GraphInv, GraphTypeOK
  <2>6. ASSUME NEW h \in DOMAIN A, h.url \notin subscribed'[c]
        PROVE  h = BrainHook(h.url) /\ A[h] = 1
    <3>1. CASE h = hook
      BY <2>3, <2>6, <3>1
    <3>2. CASE h # hook
      BY <2>3, <2>6, <3>2 DEF GraphInv, GraphNodes, AskedGrows
    <3> QED
      BY <3>1, <3>2
  <2>7. \A d \in Channels : \A h \in DOMAIN webhookNodes'[d] :
          h.url \notin subscribed'[d] => h = BrainHook(h.url) /\ webhookNodes'[d][h] = 1
    BY <2>5, <2>6 DEF GraphInv, GraphNodes, AskedGrows
  <2> QED
    BY <2>1, <2>4, <2>7 DEF GraphInv, GraphNodes, Named, AskedGrows, BrainHook
<1> QED
  BY <1>1, <1>2

LEMMA GraphUnhookInv ==
    ASSUME GraphInv, AskedGrows, NEW c \in Channels, NEW id, Co!DeleteWebhook(c, id)
    PROVE  GraphInv'
<1> DEFINE K == [h \in {g \in DOMAIN webhookNodes[c] : g.id # id} |-> webhookNodes[c][h]]
<1>1. /\ webhookNodes' = [webhookNodes EXCEPT ![c] = K]
      /\ UNCHANGED <<channelNodes, agentNodes, memberships>>
  BY DEF Co!DeleteWebhook
<1>2. webhookNodes[c] \in HookBags
  BY DEF GraphInv, GraphTypeOK
<1>3. /\ K \in HookBags /\ DOMAIN K \subseteq DOMAIN webhookNodes[c]
      /\ \A h \in DOMAIN K : K[h] = webhookNodes[c][h]
  BY <1>2, KeptHooks
<1> HIDE DEF K
<1>4. GraphTypeOK'
  BY <1>1, <1>3 DEF GraphInv, GraphTypeOK
<1>5. \A d \in Channels : webhookNodes'[d] = IF d = c THEN K ELSE webhookNodes[d]
  BY <1>1 DEF GraphInv, GraphTypeOK
<1>6. \A d \in Channels : \A h \in DOMAIN webhookNodes'[d] :
        h.url \notin subscribed'[d] => h = BrainHook(h.url) /\ webhookNodes'[d][h] = 1
  BY <1>3, <1>5 DEF GraphInv, GraphNodes, AskedGrows
<1> QED
  BY <1>1, <1>4, <1>6 DEF GraphInv, GraphNodes, Named, AskedGrows, BrainHook

-----------------------------------------------------------------------------
(* The same of the backend that is configured.                             *)
LEMMA SaveChannelInv ==
    ASSUME BothInv, AskedGrows, NEW c \in Channels,
           NEW ms \in [Agents -> MemberRow \cup {Absent}], SaveChannel(c, ms)
    PROVE  BothInv'
<1>1. CASE Sq!SaveChannel(c, "context", ms) /\ UNCHANGED composite
  <2>1. "context" # Absent
    BY BootstrapAssumption
  <2>2. /\ channelRows' = [channelRows EXCEPT ![c] = "context"]
        /\ memberRows' = [memberRows EXCEPT ![c] = ms]
        /\ Sq!Cascade(c)
    BY <1>1 DEF Sq!SaveChannel
  <2>3. SqliteInv'
    BY <2>1, <2>2, SqliteChannelInv DEF BothInv
  <2> QED
    BY <1>1, <2>3, GraphStill DEF BothInv, AskedGrows
<1>2. CASE Co!SaveChannel(c, "context") /\ UNCHANGED sqlite
  BY <1>2, GraphChannelInv, SqliteStill DEF BothInv, AskedGrows
<1> QED
  BY <1>1, <1>2 DEF SaveChannel

LEMMA DeleteChannelInv ==
    ASSUME BothInv, AskedGrows, NEW c \in Channels, DeleteChannel(c)
    PROVE  BothInv'
<1>1. CASE Sq!DeleteChannel(c) /\ UNCHANGED composite
  <2>1. /\ channelRows' = [channelRows EXCEPT ![c] = Absent]
        /\ memberRows' = [memberRows EXCEPT ![c] = Sq!NoMembers]
        /\ Sq!Cascade(c)
    BY <1>1 DEF Sq!DeleteChannel
  <2>2. \A a \in Agents : Sq!NoMembers[a] = Absent
    BY DEF Sq!NoMembers
  <2>3. SqliteInv'
    BY <2>1, <2>2, NoMembersRow, SqliteChannelInv DEF BothInv
  <2> QED
    BY <1>1, <2>3, GraphStill DEF BothInv, AskedGrows
<1>2. CASE Co!DeleteChannel(c) /\ UNCHANGED sqlite
  BY <1>2, GraphChannelInv, SqliteStill DEF BothInv, AskedGrows
<1> QED
  BY <1>1, <1>2 DEF DeleteChannel

LEMMA SaveMemberInv ==
    ASSUME BothInv, AskedGrows, crashes \in 0 .. MaxCrashes,
           NEW c \in Channels, NEW a \in Agents, NEW n, NEW m \in MemberRow,
           backend = "composite" => n \in Names /\ Named(a, n)', SaveMember(c, a, n, m)
    PROVE  BothInv'
<1>1. CASE Sq!SaveMember(c, a, m) /\ UNCHANGED composite
  <2>1. SqliteInv'
    BY <1>1, SqliteMemberInv DEF Sq!SaveMember, Sq!HasChannel, BothInv
  <2> QED
    BY <1>1, <2>1, GraphStill DEF BothInv, AskedGrows
<1>2. CASE backend = "composite" /\ Co!SaveMember(c, a, n, m, crashes) /\ UNCHANGED sqlite
  BY <1>2, GraphMemberInv, SqliteStill DEF BothInv, AskedGrows
<1> QED
  BY <1>1, <1>2 DEF SaveMember, Now

LEMMA RemoveMemberInv ==
    ASSUME BothInv, AskedGrows, NEW c \in Channels, NEW a \in Agents, RemoveMember(c, a)
    PROVE  BothInv'
<1>1. CASE Sq!RemoveMember(c, a) /\ UNCHANGED composite
  <2>1. SqliteInv'
    BY <1>1, SqliteMemberInv DEF Sq!RemoveMember, BothInv
  <2> QED
    BY <1>1, <2>1, GraphStill DEF BothInv, AskedGrows
<1>2. CASE Co!RemoveMember(c, a) /\ UNCHANGED sqlite
  BY <1>2, GraphRemoveInv, SqliteStill DEF BothInv, AskedGrows
<1> QED
  BY <1>1, <1>2 DEF RemoveMember

LEMMA SaveWebhookInv ==
    ASSUME BothInv, AskedGrows, NEW c \in Channels, NEW hook \in Hook,
           hook.url \notin subscribed'[c] =>
             /\ hook = BrainHook(hook.url)
             /\ \A h \in DOMAIN Webhooks(c) : h.url # hook.url,
           SaveWebhook(c, hook)
    PROVE  BothInv'
<1>1. CASE backend = "sqlite" /\ Sq!SaveWebhook(c, hook) /\ UNCHANGED composite
  BY <1>1, SqliteHookInv, GraphStill DEF BothInv, AskedGrows
<1>2. CASE backend = "composite" /\ Co!SaveWebhook(c, hook) /\ UNCHANGED sqlite
  <2>1. Webhooks(c) = webhookNodes[c]
    BY <1>2 DEF Webhooks
  <2> QED
    BY <1>2, <2>1, GraphHookInv, SqliteStill DEF BothInv, AskedGrows
<1> QED
  BY <1>1, <1>2 DEF SaveWebhook

LEMMA DeleteWebhookInv ==
    ASSUME BothInv, AskedGrows, NEW c \in Channels, NEW id, DeleteWebhook(c, id)
    PROVE  BothInv'
BY SqliteUnhookInv, GraphStill, GraphUnhookInv, SqliteStill
   DEF DeleteWebhook, BothInv, AskedGrows

LEMMA BothStill ==
    ASSUME BothInv, UNCHANGED <<sqlite, composite, asked>>
    PROVE  BothInv'
<1>1. AskedGrows
  BY DEF BothInv, AskedOK, AskedGrows, asked
<1> QED
  BY <1>1, SqliteStill, GraphStill DEF BothInv, AskedGrows

(* Administrators and clients keep the stores as they should be.           *)
LEMMA AdministerInv ==
    ASSUME BothInv, crashes \in 0 .. MaxCrashes, NEW c \in Channels, Administer(c)
    PROVE  BothInv'
<1> DEFINE NoRows == [a \in Agents |-> Absent]
<1>0. ASSUME UNCHANGED asked PROVE AskedGrows
  BY <1>0 DEF BothInv, AskedOK, AskedGrows, asked
<1>1. CASE UNCHANGED asked /\ SaveChannel(c, NoRows)
  BY <1>0, <1>1, SaveChannelInv
<1>2. CASE UNCHANGED asked /\ SaveChannel(c, memberRows[c])
  <2>1. memberRows[c] \in [Agents -> MemberRow \cup {Absent}]
    BY DEF BothInv, SqliteInv, SqliteTypeOK
  <2> QED
    BY <1>0, <1>2, <2>1, SaveChannelInv
<1>3. CASE UNCHANGED asked /\ DeleteChannel(c)
  BY <1>0, <1>3, DeleteChannelInv
<1>4. ASSUME NEW a \in Agents, NEW n \in Names, NEW role \in Roles, NEW url \in Templates,
             AddMember(c, a, n, [role |-> role, url |-> url])
      PROVE  BothInv'
  <2>1. PICK m \in MemberRow : m = [role |-> role, url |-> url]
    BY DEF MemberRow, MemberRoles
  <2>2. AddMember(c, a, n, m)
    BY <1>4, <2>1
  <2>3. AskedGrows /\ (backend = "composite" => Named(a, n)')
    BY <2>2 DEF AddMember, AskedGrows, AskedOK, BothInv, Named
  <2> QED
    BY <2>2, <2>3, SaveMemberInv DEF AddMember
<1>5. ASSUME NEW a \in Agents, RemoveMember(c, a), UNCHANGED asked PROVE BothInv'
  BY <1>0, <1>5, RemoveMemberInv
<1>6. ASSUME NEW hook \in Hook, Subscribe(c, hook) PROVE BothInv'
  <2>1. hook.url \in Urls
    BY DEF Hook
  <2>2. AskedGrows /\ hook.url \in subscribed'[c]
    BY <1>6, <2>1 DEF Subscribe, AskedGrows, AskedOK, BothInv
  <2> QED
    BY <1>6, <2>2, SaveWebhookInv DEF Subscribe
<1>7. ASSUME NEW id \in {"brain", "own"}, DeleteWebhook(c, id), UNCHANGED asked
      PROVE  BothInv'
  BY <1>0, <1>7, DeleteWebhookInv
<1> QED
  BY <1>1, <1>2, <1>3, <1>4, <1>5, <1>6, <1>7 DEF Administer, Change

-----------------------------------------------------------------------------
(* The plan of a start, and what it wants of a member.                     *)
LEMMA PlanEntry ==
    /\ Len(Plan) \in Nat /\ DOMAIN Plan = 1 .. Len(Plan)
    /\ \A i \in DOMAIN Plan :
         /\ Plan[i].cid \in Channels
         /\ Plan[i].agent \in Agents \cup {NoAgent}
         /\ Plan[i].role \in MemberRoles
<1> DEFINE Entry == [cid : Channels, agent : Agents \cup {NoAgent}, role : MemberRoles]
<1>1. Plan \in Seq(Entry)
  BY BootstrapAssumption
<1> HIDE DEF Entry
<1>2. Len(Plan) \in Nat /\ DOMAIN Plan = 1 .. Len(Plan)
  BY <1>1
<1>3. \A i \in DOMAIN Plan : Plan[i] \in Entry
  BY <1>1, <1>2
<1> QED
  BY <1>2, <1>3 DEF Entry

(* Whichever entry comes first for a channel is the one that creates it.   *)
LEMMA ChannelComesFirst ==
    ASSUME NEW i \in DOMAIN Plan, NEW j \in DOMAIN Plan, i < j,
           Plan[i].cid = Plan[j].cid
    PROVE  Plan[j].agent # NoAgent
<1>1. PICK k \in 1 .. i : Plan[k].cid = Plan[i].cid /\ Plan[k].agent = NoAgent
  BY BootstrapAssumption
<1>2. k \in DOMAIN Plan /\ k # j
  BY PlanEntry
<1> QED
  BY <1>1, <1>2, BootstrapAssumption

LEMMA PlannedAgent ==
    ASSUME NEW i \in DOMAIN Plan, Plan[i].agent # NoAgent
    PROVE  /\ Plan[i].agent \in Agents /\ Plan[i].agent \in Planned
           /\ PlanName[Plan[i].agent] \in Names
<1>1. Plan[i].agent \in Agents /\ Plan[i].agent \in Planned
  BY PlanEntry DEF Planned
<1> QED
  BY <1>1, BootstrapAssumption

LEMMA PlannedNames ==
    ASSUME NEW a \in Planned
    PROVE  /\ a \in Agents /\ PlanName[a] \in Names /\ Named(a, PlanName[a])
           /\ \A b \in Planned : PlanName[b] = PlanName[a] => b = a
<1>1. a \in Agents
  BY PlanEntry DEF Planned
<1> QED
  BY <1>1, BootstrapAssumption DEF Named

LEMMA ExpectedRow ==
    ASSUME ProcessTypeOK, NEW a \in Agents, NEW role \in MemberRoles
    PROVE  /\ Expected(a, role) \in MemberRow
           /\ Expected(a, role) # Absent
           /\ Expected(a, role).role = role
<1>1. Expected(a, role) \in MemberRow
  BY DEF Expected, BuildMember, MemberRow, ProcessTypeOK
<1>2. Expected(a, role).role = role
  BY DEF Expected, BuildMember
<1> QED
  BY <1>1, <1>2, BootstrapAssumption

(* The url that is expected of an agent is the same in every channel.      *)
LEMMA OneUrl ==
    \A a \in Agents, r, s \in MemberRoles : Expected(a, r).url = Expected(a, s).url
BY DEF Expected, BuildMember

LEMMA StoresStill ==
    ASSUME UNCHANGED <<backend, sqlite, composite, template>>
    PROVE  /\ \A c \in Channels : Exists(c)' <=> Exists(c)
           /\ \A c \in Channels : Webhooks(c)' = Webhooks(c)
           /\ \A c \in Channels, a \in Planned, r \in MemberRoles :
                Placed(c, a, r)' <=> Placed(c, a, r)
<1>1. \A c \in Channels : Exists(c)' <=> Exists(c)
  BY DEF sqlite, composite, Exists
<1>2. \A c \in Channels : Webhooks(c)' = Webhooks(c)
  BY DEF sqlite, composite, Webhooks
<1>3. \A c \in Channels, a \in Planned, r \in MemberRoles :
        Placed(c, a, r)' <=> Placed(c, a, r)
  BY DEF sqlite, composite, Placed, StoredAs, Expected, BuildMember
<1> QED
  BY <1>1, <1>2, <1>3

(* A channel that is created had nothing, and no other channel changes.    *)
LEMMA Created ==
    ASSUME BootInv, NEW c \in Channels, SaveChannel(c, [a \in Agents |-> Absent]),
           UNCHANGED <<backend, template>>
    PROVE  /\ \A d \in Channels : Exists(d)' <=> d = c \/ Exists(d)
           /\ \A d \in Channels, a \in Planned, r \in MemberRoles :
                d # c => (Placed(d, a, r)' <=> Placed(d, a, r))
           /\ backend = "sqlite" => \A d \in Channels \ {c} : memberRows'[d] = memberRows[d]
<1> USE DEF BootInv, BothInv
<1>1. "context" # Absent
  BY BootstrapAssumption
<1>2. CASE backend = "sqlite"
  <2>1. /\ channelRows' = [channelRows EXCEPT ![c] = "context"]
        /\ memberRows' = [memberRows EXCEPT ![c] = [a \in Agents |-> Absent]]
    BY <1>2 DEF SaveChannel, Sq!SaveChannel
  <2>2. \A d \in Channels : Exists(d)' <=> d = c \/ Exists(d)
    BY <1>1, <1>2, <2>1 DEF Exists, SqliteInv, SqliteTypeOK
  <2>3. \A d \in Channels \ {c} : memberRows'[d] = memberRows[d]
    BY <2>1 DEF SqliteInv, SqliteTypeOK
  <2>4. \A a \in Planned : a \in Agents
    BY PlannedNames
  <2> QED
    BY <1>2, <2>2, <2>3, <2>4 DEF Placed, StoredAs, Expected, BuildMember
<1>3. CASE backend = "composite"
  <2>1. /\ channelNodes' = [channelNodes EXCEPT ![c] = "context"]
        /\ UNCHANGED <<memberships, agentNodes>>
    BY <1>3 DEF SaveChannel, Co!SaveChannel
  <2>2. \A d \in Channels : Exists(d)' <=> d = c \/ Exists(d)
    BY <1>1, <1>3, <2>1 DEF Exists, GraphInv, GraphTypeOK
  <2> QED
    BY <1>3, <2>1, <2>2 DEF Placed, StoredAs, Expected, BuildMember
<1> QED
  BY <1>2, <1>3 DEF ProcessTypeOK

(* A member that is saved in a channel that is there is in its place, and  *)
(* no other leaves its own.                                                *)
LEMMA Saved ==
    ASSUME BootInv, NEW c \in Channels, NEW a \in Planned, NEW role \in MemberRoles,
           Exists(c), SaveMember(c, a, PlanName[a], Expected(a, role)),
           UNCHANGED <<backend, template>>
    PROVE  /\ \A d \in Channels : Exists(d)' <=> Exists(d)
           /\ Placed(c, a, role)'
           /\ \A d \in Channels, b \in Planned, r \in MemberRoles :
                <<d, b>> # <<c, a>> /\ Placed(d, b, r) => Placed(d, b, r)'
           /\ backend = "sqlite" =>
                \A d \in Channels, b \in Agents :
                  <<d, b>> # <<c, a>> => memberRows'[d][b] = memberRows[d][b]
<1> USE DEF BootInv, BothInv
<1>a. a \in Agents /\ \A b \in Planned : b \in Agents /\ PlanName[b] \in Names
  BY PlannedNames
<1>0. PICK m \in MemberRow : m = Expected(a, role) /\ m.role = role
  BY <1>a, ExpectedRow
<1>1. SaveMember(c, a, PlanName[a], m) /\ m = Expected(a, role) /\ m.role = role
  BY <1>0
<1>2. \A b \in Agents, r \in MemberRoles : Expected(b, r)' = Expected(b, r)
  BY DEF Expected, BuildMember
<1>3. CASE backend = "sqlite"
  <2>1. memberRows' = [memberRows EXCEPT ![c][a] = m] /\ channelRows' = channelRows
    BY <1>1, <1>3 DEF SaveMember, Sq!SaveMember
  <2>2. \A d \in Channels : Exists(d)' <=> Exists(d)
    BY <1>3, <2>1 DEF Exists
  <2>3. /\ memberRows'[c][a] = m
        /\ \A d \in Channels, b \in Agents :
             <<d, b>> # <<c, a>> => memberRows'[d][b] = memberRows[d][b]
    BY <1>a, <2>1 DEF SqliteInv, SqliteTypeOK
  <2>4. Placed(c, a, role)'
    BY <1>a, <1>1, <1>2, <1>3, <2>3 DEF Placed, StoredAs
  <2>5. \A d \in Channels, b \in Planned, r \in MemberRoles :
          <<d, b>> # <<c, a>> /\ Placed(d, b, r) => Placed(d, b, r)'
    BY <1>a, <1>2, <1>3, <2>3 DEF Placed, StoredAs
  <2> QED
    BY <2>2, <2>3, <2>4, <2>5
<1>4. CASE backend = "composite"
  <2> DEFINE n == PlanName[a]
             node == [agent |-> a, url |-> m.url]
             membership == [role |-> m.role, since |-> crashes]
  <2>1. channelNodes[c] # Absent /\ Co!SaveMember(c, a, n, m, crashes)
    BY <1>1, <1>4 DEF Exists, SaveMember, Now
  <2>2. /\ agentNodes' = [agentNodes EXCEPT ![n] = node]
        /\ memberships' = [memberships EXCEPT ![c][n] = membership]
        /\ channelNodes' = channelNodes
        /\ membership # Absent /\ membership.role = role
    BY <1>a, <1>1, <2>1, GraphMemberSaved DEF ProcessTypeOK
  <2> HIDE DEF n, node, membership
  <2>3. \A d \in Channels : Exists(d)' <=> Exists(d)
    BY <1>4, <2>2 DEF Exists
  <2>0. n \in Names /\ n = PlanName[a]
    BY <1>a DEF n
  <2>4. /\ memberships'[c][n] = membership
        /\ \A d \in Channels, k \in Names :
             <<d, k>> # <<c, n>> => memberships'[d][k] = memberships[d][k]
        /\ \A k \in Names : agentNodes'[k] = IF k = n THEN node ELSE agentNodes[k]
    BY <2>0, <2>2 DEF GraphInv, GraphTypeOK
  <2>5. \A r \in MemberRoles : node = [agent |-> a, url |-> Expected(a, r).url]
    BY <1>a, <1>1, OneUrl DEF node
  <2>6. Placed(c, a, role)'
    BY <1>a, <1>1, <1>2, <1>4, <2>0, <2>2, <2>4, <2>5 DEF Placed, StoredAs
  <2>7. ASSUME NEW d \in Channels, NEW b \in Planned, NEW r \in MemberRoles,
               <<d, b>> # <<c, a>>, Placed(d, b, r)
        PROVE  Placed(d, b, r)'
    <3>1. /\ memberships[d][PlanName[b]] # Absent
          /\ memberships[d][PlanName[b]].role = Expected(b, r).role
          /\ agentNodes[PlanName[b]] = [agent |-> b, url |-> Expected(b, r).url]
      BY <1>4, <2>7 DEF Placed, StoredAs
    <3>2. PlanName[b] \in Names /\ (PlanName[b] = n => b = a)
      BY <1>a, <2>0, PlannedNames
    <3>3. memberships'[d][PlanName[b]] = memberships[d][PlanName[b]]
      BY <2>4, <2>7, <3>2
    <3>4. agentNodes'[PlanName[b]] = [agent |-> b, url |-> Expected(b, r).url]
      BY <2>4, <2>5, <3>1, <3>2
    <3> QED
      BY <1>a, <1>2, <1>4, <3>1, <3>3, <3>4 DEF Placed, StoredAs
  <2> QED
    BY <1>4, <2>3, <2>6, <2>7
<1> QED
  BY <1>3, <1>4 DEF ProcessTypeOK

-----------------------------------------------------------------------------
(* One entry of the plan.                                                  *)
LEMMA ChannelStep ==
    ASSUME BootInv, PlacedUpTo(pos), ListingHolds,
           NEW n \in DOMAIN Plan, n = pos, Plan[n].agent = NoAgent,
           CreateMissing(Plan[n].cid), pos' = pos + 1,
           UNCHANGED <<backend, template, existing>>
    PROVE  PlacedUpTo(pos)' /\ ListingHolds' /\ \A d \in Channels : Exists(d) => Exists(d)'
<1> DEFINE c == Plan[n].cid
<1>0. c \in Channels /\ n \in Nat /\ DOMAIN Plan \subseteq Nat
  BY PlanEntry
<1>1. CASE existing[c] # Absent
  <2>1. UNCHANGED <<sqlite, composite>>
    BY <1>1 DEF CreateMissing
  <2>2. Exists(c)
    BY <1>0, <1>1 DEF ListingHolds
  <2>3. /\ \A d \in Channels : Exists(d)' <=> Exists(d)
        /\ \A d \in Channels, b \in Planned, r \in MemberRoles :
             Placed(d, b, r)' <=> Placed(d, b, r)
    BY <2>1, StoresStill
  <2>4. PlacedUpTo(pos)'
    <3>1. ASSUME NEW i \in DOMAIN Plan, i < pos + 1
          PROVE  /\ Exists(Plan[i].cid)'
                 /\ Plan[i].agent # NoAgent =>
                      Placed(Plan[i].cid, Plan[i].agent, Plan[i].role)'
      BY <1>0, <2>2, <2>3, <3>1, PlanEntry, PlannedAgent DEF PlacedUpTo
    <3> QED
      BY <3>1 DEF PlacedUpTo
  <2>5. ListingHolds'
    BY <1>0, <2>1, <2>3, PlanEntry DEF ListingHolds, sqlite
  <2> QED
    BY <2>3, <2>4, <2>5
<1>2. CASE existing[c] = Absent
  <2>1. SaveChannel(c, [a \in Agents |-> Absent])
    BY <1>2 DEF CreateMissing
  <2>2. /\ \A d \in Channels : Exists(d)' <=> d = c \/ Exists(d)
        /\ \A d \in Channels, a \in Planned, r \in MemberRoles :
             d # c => (Placed(d, a, r)' <=> Placed(d, a, r))
        /\ backend = "sqlite" => \A d \in Channels \ {c} : memberRows'[d] = memberRows[d]
    BY <1>0, <2>1, Created
  (* No entry for this channel came before. *)
  <2>3. \A i \in DOMAIN Plan : i < n => Plan[i].cid # c
    BY ChannelComesFirst
  <2>4. \A i \in DOMAIN Plan : i > n /\ Plan[i].cid = c => Plan[i].agent # NoAgent
    BY BootstrapAssumption, PlanEntry
  <2>5. PlacedUpTo(pos)'
    <3>1. ASSUME NEW i \in DOMAIN Plan, i < pos + 1
          PROVE  /\ Exists(Plan[i].cid)'
                 /\ Plan[i].agent # NoAgent =>
                      Placed(Plan[i].cid, Plan[i].agent, Plan[i].role)'
      <4>1. CASE i = n
        BY <1>0, <2>2, <4>1
      <4>2. CASE i < n
        BY <2>2, <2>3, <4>2, PlanEntry, PlannedAgent DEF PlacedUpTo
      <4> QED
        BY <1>0, <3>1, <4>1, <4>2
    <3> QED
      BY <3>1 DEF PlacedUpTo
  <2>6. ListingHolds'
    <3>1. ASSUME NEW d \in Channels, existing[d] # Absent PROVE Exists(d)'
      BY <2>2, <3>1 DEF ListingHolds
    <3>2. ASSUME NEW i \in DOMAIN Plan, i >= pos + 1
          PROVE  IF Plan[i].agent = NoAgent
                 THEN existing[Plan[i].cid] = Absent => ~Exists(Plan[i].cid)'
                 ELSE existing[Plan[i].cid] # Absent =>
                        existing[Plan[i].cid][Plan[i].agent] =
                          IF backend = "sqlite"
                          THEN memberRows'[Plan[i].cid][Plan[i].agent] ELSE Absent
      <4>1. i > n /\ i >= pos /\ Plan[i].cid \in Channels
        BY <1>0, <3>2, PlanEntry
      <4>2. CASE Plan[i].agent = NoAgent
        BY <2>2, <2>4, <4>1, <4>2 DEF ListingHolds
      <4>3. CASE Plan[i].agent # NoAgent
        BY <1>2, <2>2, <4>1, <4>3 DEF ListingHolds
      <4> QED
        BY <4>2, <4>3
    <3> QED
      BY <3>1, <3>2 DEF ListingHolds
  <2> QED
    BY <2>2, <2>5, <2>6
<1> QED
  BY <1>1, <1>2

LEMMA MemberStep ==
    ASSUME BootInv, PlacedUpTo(pos), ListingHolds,
           NEW n \in DOMAIN Plan, n = pos, Plan[n].agent # NoAgent,
           AddOrUpdate(Plan[n].cid, Plan[n].agent, Plan[n].role), pos' = pos + 1,
           UNCHANGED <<backend, template, existing>>
    PROVE  PlacedUpTo(pos)' /\ ListingHolds' /\ \A d \in Channels : Exists(d) => Exists(d)'
<1> DEFINE c == Plan[n].cid
           a == Plan[n].agent
           role == Plan[n].role
<1>0. /\ c \in Channels /\ a \in Agents /\ a \in Planned /\ role \in MemberRoles
      /\ n \in Nat /\ DOMAIN Plan \subseteq Nat
  BY PlanEntry, PlannedAgent
<1>1. Exists(c)
  <2>1. PICK j \in 1 .. n : Plan[j].cid = c /\ Plan[j].agent = NoAgent
    BY BootstrapAssumption
  <2>2. j \in DOMAIN Plan /\ j < n
    BY <2>1, PlanEntry
  <2> QED
    BY <2>1, <2>2 DEF PlacedUpTo
<1>2. \A i \in DOMAIN Plan : i # n => <<Plan[i].cid, Plan[i].agent>> # <<c, a>>
  BY BootstrapAssumption
<1>3. /\ \A d \in Channels : Exists(d)' <=> Exists(d)
      /\ Placed(c, a, role)'
      /\ \A d \in Channels, b \in Planned, r \in MemberRoles :
           <<d, b>> # <<c, a>> /\ Placed(d, b, r) => Placed(d, b, r)'
      /\ backend = "sqlite" =>
           \A d \in Channels, b \in Agents :
             <<d, b>> # <<c, a>> => memberRows'[d][b] = memberRows[d][b]
  <2>1. CASE Known(c, a) # Expected(a, role)
    BY <1>0, <1>1, <2>1, Saved DEF AddOrUpdate, Expected
  <2>2. CASE Known(c, a) = Expected(a, role)
    <3>1. UNCHANGED <<sqlite, composite>>
      BY <2>2 DEF AddOrUpdate, Expected
    <3>2. Expected(a, role) # Absent
      BY <1>0, ExpectedRow DEF BootInv
    <3>3. existing[c] # Absent /\ existing[c][a] = Expected(a, role)
      BY <2>2, <3>2 DEF Known
    <3>4. backend = "sqlite" /\ memberRows[c][a] = Expected(a, role)
      BY <1>0, <3>2, <3>3 DEF ListingHolds
    <3>5. Placed(c, a, role)
      BY <3>4 DEF Placed, StoredAs
    <3> QED
      BY <1>0, <3>1, <3>5, StoresStill DEF sqlite
  <2> QED
    BY <2>1, <2>2
<1> HIDE DEF c, a, role
<1>4. PlacedUpTo(pos)'
  <2>1. ASSUME NEW i \in DOMAIN Plan, i < pos + 1
        PROVE  /\ Exists(Plan[i].cid)'
               /\ Plan[i].agent # NoAgent =>
                    Placed(Plan[i].cid, Plan[i].agent, Plan[i].role)'
    <3>1. CASE i = n
      BY <1>0, <1>1, <1>3, <3>1 DEF c, a, role
    <3>2. CASE i < n
      <4>1. /\ Plan[i].cid \in Channels /\ Exists(Plan[i].cid)
            /\ <<Plan[i].cid, Plan[i].agent>> # <<c, a>>
            /\ Plan[i].agent # NoAgent =>
                 /\ Plan[i].agent \in Planned /\ Plan[i].role \in MemberRoles
                 /\ Placed(Plan[i].cid, Plan[i].agent, Plan[i].role)
        BY <1>2, <3>2, PlanEntry, PlannedAgent DEF PlacedUpTo
      <4> QED
        BY <1>3, <4>1
    <3> QED
      BY <1>0, <2>1, <3>1, <3>2
  <2> QED
    BY <2>1 DEF PlacedUpTo
<1>5. ListingHolds'
  <2>1. ASSUME NEW d \in Channels, existing[d] # Absent PROVE Exists(d)'
    BY <1>3, <2>1 DEF ListingHolds
  <2>2. ASSUME NEW i \in DOMAIN Plan, i >= pos + 1
        PROVE  IF Plan[i].agent = NoAgent
               THEN existing[Plan[i].cid] = Absent => ~Exists(Plan[i].cid)'
               ELSE existing[Plan[i].cid] # Absent =>
                      existing[Plan[i].cid][Plan[i].agent] =
                        IF backend = "sqlite"
                        THEN memberRows'[Plan[i].cid][Plan[i].agent] ELSE Absent
    <3>1. i # n /\ i >= pos /\ Plan[i].cid \in Channels
            /\ Plan[i].agent \in Agents \cup {NoAgent}
      BY <1>0, <2>2, PlanEntry
    <3>2. CASE Plan[i].agent = NoAgent
      BY <1>3, <3>1, <3>2 DEF ListingHolds
    <3>3. CASE Plan[i].agent # NoAgent
      BY <1>2, <1>3, <3>1, <3>3 DEF ListingHolds
    <3> QED
      BY <3>2, <3>3
  <2> QED
    BY <2>1, <2>2 DEF ListingHolds
<1> QED
  BY <1>3, <1>4, <1>5

-----------------------------------------------------------------------------
LEMMA InPlaceMeansPlaced ==
    ASSUME BootInv
    PROVE  InPlace(template, webhookUrl) <=>
             /\ PlacedUpTo(Len(Plan) + 1)
             /\ \A c \in Channels : Exists(c) /\ webhookUrl # NoUrl => HasUrl(c, webhookUrl)
<1>1. \A i \in DOMAIN Plan : i < Len(Plan) + 1
  BY PlanEntry
<1> QED
  BY <1>1 DEF InPlace, PlacedUpTo, Placed, Expected, HasUrl

-----------------------------------------------------------------------------
(* Where a url no client subscribed is registered there is no second.      *)
RegisteredOnce ==
    \A c \in Channels : \A h \in DOMAIN Webhooks(c) :
       h.url \notin subscribed[c] => PostsOnce(c, h.url)

LEMMA AtMostOnce == BothInv /\ ProcessTypeOK => RegisteredOnce
<1> SUFFICES ASSUME BothInv, ProcessTypeOK, NEW c \in Channels,
                    NEW h \in DOMAIN Webhooks(c), h.url \notin subscribed[c]
             PROVE  PostsOnce(c, h.url)
  BY DEF RegisteredOnce
<1>0. BrainHook(h.url).message
  BY DEF BrainHook
<1>1. CASE backend = "sqlite"
  <2>1. DOMAIN Webhooks(c) = webhookRows[c] /\ Webhooks(c)[h] = 1
    BY <1>1 DEF Webhooks, SetToBag
  <2>2. \A g \in webhookRows[c] : g.url = h.url => g = BrainHook(h.url)
    BY <2>1 DEF BothInv, SqliteInv, SqliteRows
  <2> QED
    BY <1>0, <2>1, <2>2 DEF PostsOnce
<1>2. CASE backend = "composite"
  <2>1. Webhooks(c) = webhookNodes[c]
    BY <1>2 DEF Webhooks
  <2>2. \A g \in DOMAIN webhookNodes[c] :
          g.url = h.url => g = BrainHook(h.url) /\ webhookNodes[c][g] = 1
    BY DEF BothInv, GraphInv, GraphNodes
  <2> QED
    BY <1>0, <2>1, <2>2 DEF PostsOnce
<1> QED
  BY <1>1, <1>2 DEF ProcessTypeOK

(* What the registration leaves: the dashboard's webhook, and every other  *)
(* as it was but, in SQLite, one of the same id.                           *)
Kept(c, h) == h \in DOMAIN Webhooks(c)' /\ Webhooks(c)'[h] = Webhooks(c)[h]

LEMMA HookSaved ==
    ASSUME BothInv, ProcessTypeOK, NEW c \in Channels, NEW hook \in Hook,
           hook.id = "brain", hook \notin DOMAIN Webhooks(c),
           Exists(c), SaveWebhook(c, hook), backend' = backend
    PROVE  /\ hook \in DOMAIN Webhooks(c)'
           /\ \A h \in DOMAIN Webhooks(c) :
                backend = "composite" \/ h.id # "brain" => Kept(c, h)
           /\ \A d \in Channels \ {c} : Webhooks(d)' = Webhooks(d)
           /\ UNCHANGED <<channelRows, memberRows, channelNodes, agentNodes, memberships>>
<1>1. CASE backend = "sqlite"
  <2>1. webhookRows' = [webhookRows EXCEPT ![c] =
                          {h \in webhookRows[c] : h.id # hook.id} \cup {hook}]
    BY <1>1 DEF SaveWebhook, Sq!SaveWebhook
  <2>2. webhookRows'[c] = {h \in webhookRows[c] : h.id # hook.id} \cup {hook}
    BY <2>1 DEF BothInv, SqliteInv, SqliteTypeOK
  <2>3. \A d \in Channels \ {c} : webhookRows'[d] = webhookRows[d]
    BY <2>1 DEF BothInv, SqliteInv, SqliteTypeOK
  <2>4. \A d \in Channels :
          /\ Webhooks(d) = [h \in webhookRows[d] |-> 1]
          /\ Webhooks(d)' = [h \in webhookRows'[d] |-> 1]
    BY <1>1 DEF Webhooks, SetToBag
  <2>5. UNCHANGED <<channelRows, memberRows, channelNodes, agentNodes, memberships>>
    BY <1>1 DEF SaveWebhook, Sq!SaveWebhook, composite
  <2>6. hook \in DOMAIN Webhooks(c)'
    BY <2>2, <2>4
  <2>7. ASSUME NEW h \in DOMAIN Webhooks(c), h.id # "brain"
        PROVE  Kept(c, h)
    <3>1. h \in webhookRows[c] /\ h \in webhookRows'[c]
      BY <2>2, <2>4, <2>7
    <3> QED
      BY <2>4, <3>1 DEF Kept
  <2> QED
    BY <1>1, <2>3, <2>4, <2>5, <2>6, <2>7
<1>2. CASE backend = "composite"
  <2> DEFINE A == Co!(+)(webhookNodes[c], Co!SetToBag({hook}))
  <2>1. webhookNodes' = [webhookNodes EXCEPT ![c] = A]
          /\ UNCHANGED <<channelNodes, agentNodes, memberships, channelRows, memberRows>>
    BY <1>2 DEF Exists, SaveWebhook, Co!SaveWebhook, sqlite
  <2>2. webhookNodes[c] \in HookBags
    BY DEF BothInv, GraphInv, GraphTypeOK
  <2>3. /\ DOMAIN A = DOMAIN webhookNodes[c] \cup {hook}
        /\ \A h \in DOMAIN webhookNodes[c] \ {hook} : A[h] = webhookNodes[c][h]
    BY <2>2, AddedHook
  <2> HIDE DEF A
  <2>4. \A d \in Channels : webhookNodes'[d] = IF d = c THEN A ELSE webhookNodes[d]
    BY <2>1 DEF BothInv, GraphInv, GraphTypeOK
  <2>5. \A d \in Channels :
          Webhooks(d) = webhookNodes[d] /\ Webhooks(d)' = webhookNodes'[d]
    BY <1>2 DEF Webhooks
  <2>6. hook \in DOMAIN Webhooks(c)' /\ \A h \in DOMAIN Webhooks(c) : Kept(c, h)
    BY <2>3, <2>4, <2>5 DEF Kept
  <2> QED
    BY <2>1, <2>4, <2>5, <2>6
<1> QED
  BY <1>1, <1>2 DEF ProcessTypeOK

LEMMA HookStepStores ==
    ASSUME BootInv, NEW c \in Channels, HookStep(c)
    PROVE  /\ BothInv' /\ ProcessTypeOK'
           /\ \A d \in Channels : Exists(d)' <=> Exists(d)
           /\ \A d \in Channels, a \in Planned, r \in MemberRoles :
                Placed(d, a, r)' <=> Placed(d, a, r)
           /\ HasUrl(c, webhookUrl)'
           /\ \A d \in Channels \ {c} : Webhooks(d)' = Webhooks(d)
           /\ \A h \in DOMAIN Webhooks(c) :
                backend = "composite" \/ h.id # "brain" => Kept(c, h)
           /\ UNCHANGED <<memberRows, agentNodes, memberships>>
<1>1. Exists(c) /\ webhookUrl # NoUrl /\ webhookUrl \in Urls
  BY DEF BootInv, StartInv, HookStep, ProcessTypeOK
<1>2. ProcessTypeOK'
  BY DEF BootInv, ProcessTypeOK, HookStep
<1>3. BothInv
  BY DEF BootInv
<1>4. UNCHANGED <<backend, template, webhookUrl, asked>>
  BY DEF HookStep
<1>5. CASE \E h \in DOMAIN Webhooks(c) : h.url = webhookUrl
  <2>1. UNCHANGED <<sqlite, composite>>
    BY <1>5 DEF HookStep, RegisterMissing
  <2>2. \A d \in Channels : Webhooks(d)' = Webhooks(d)
    BY <1>4, <2>1, StoresStill
  <2>3. HasUrl(c, webhookUrl)' /\ \A h \in DOMAIN Webhooks(c) : Kept(c, h)
    BY <1>4, <1>5, <2>2 DEF HasUrl, Kept
  <2>4. UNCHANGED <<memberRows, agentNodes, memberships>>
    BY <2>1 DEF sqlite, composite
  <2> QED
    BY <1>2, <1>3, <1>4, <2>1, <2>2, <2>3, <2>4, BothStill, StoresStill
<1>6. CASE ~ \E h \in DOMAIN Webhooks(c) : h.url = webhookUrl
  <2>1. PICK hook : hook = BrainHook(webhookUrl)
    OBVIOUS
  <2>2. /\ hook \in Hook /\ hook.id = "brain" /\ hook.url = webhookUrl
        /\ SaveWebhook(c, hook) /\ hook = BrainHook(hook.url)
    BY <1>1, <1>6, <2>1 DEF HookStep, RegisterMissing, BrainHook, Hook
  <2>3. BothInv'
    <3>1. AskedGrows
      BY <1>3, <1>4 DEF BothInv, AskedOK, AskedGrows, asked
    <3> QED
      BY <1>3, <1>6, <2>2, <3>1, SaveWebhookInv
  <2>4. /\ hook \in DOMAIN Webhooks(c)'
        /\ \A h \in DOMAIN Webhooks(c) :
             backend = "composite" \/ h.id # "brain" => Kept(c, h)
        /\ \A d \in Channels \ {c} : Webhooks(d)' = Webhooks(d)
        /\ UNCHANGED <<channelRows, memberRows, channelNodes, agentNodes, memberships>>
    BY <1>1, <1>3, <1>4, <1>6, <2>2, HookSaved DEF BootInv
  <2>5. HasUrl(c, webhookUrl)'
    BY <1>4, <2>2, <2>4 DEF HasUrl
  <2>6. /\ \A d \in Channels : Exists(d)' <=> Exists(d)
        /\ \A d \in Channels, a \in Planned, r \in MemberRoles :
             Placed(d, a, r)' <=> Placed(d, a, r)
    BY <1>4, <2>4 DEF Exists, Placed, StoredAs, Expected, BuildMember
  <2> QED
    BY <1>2, <2>3, <2>4, <2>5, <2>6
<1> QED
  BY <1>5, <1>6

-----------------------------------------------------------------------------
LEMMA Listing ==
    ASSUME BothInv, ProcessTypeOK, NEW c \in Channels
    PROVE  /\ ListChannels[c] \in [Agents -> MemberRow \cup {Absent}] \cup {Absent}
           /\ ListChannels[c] # Absent <=> Exists(c)
           /\ Exists(c) =>
                \A a \in Agents :
                  ListChannels[c][a] = IF backend = "sqlite" THEN memberRows[c][a]
                                       ELSE Absent
<1> DEFINE Rows == [Agents -> MemberRow \cup {Absent}]
           listed == IF backend = "sqlite" THEN memberRows[c] ELSE [a \in Agents |-> Absent]
<1>1. listed \in Rows
  BY DEF BothInv, SqliteInv, SqliteTypeOK
<1>2. listed # Absent
  BY <1>1, BootstrapAssumption
<1>3. ListChannels[c] = IF Exists(c) THEN listed ELSE Absent
  BY DEF ListChannels
<1>4. \A a \in Agents : listed[a] = IF backend = "sqlite" THEN memberRows[c][a]
                                    ELSE Absent
  OBVIOUS
<1> HIDE DEF listed, Rows
<1>5. ListChannels[c] \in Rows \cup {Absent}
  BY <1>1, <1>3
<1> QED
  BY <1>2, <1>3, <1>4, <1>5 DEF Rows

(* A start that found everything in place has nothing to write, or writes  *)
(* what is already there.                                                  *)
LEMMA Unwritten ==
    ASSUME UNCHANGED <<sqlite, composite>>
    PROVE  OnlyTimesChange /\ UNCHANGED composite
BY DEF OnlyTimesChange, sqlite, composite

LEMMA MemberRewritten ==
    ASSUME BootInv, NEW n \in DOMAIN Plan, Plan[n].agent # NoAgent,
           backend = "composite", Exists(Plan[n].cid),
           NEW m \in MemberRow, StoredAs(Plan[n].cid, Plan[n].agent, m),
           SaveMember(Plan[n].cid, Plan[n].agent, PlanName[Plan[n].agent], m)
    PROVE  OnlyTimesChange
<1> DEFINE c == Plan[n].cid
           a == Plan[n].agent
           k == PlanName[a]
<1>1. c \in Channels /\ a \in Agents /\ k \in Names /\ crashes \in 0 .. MaxCrashes
  BY PlanEntry, PlannedAgent DEF BootInv, ProcessTypeOK
<1>2. /\ channelNodes[c] # Absent /\ Co!SaveMember(c, a, k, m, crashes)
      /\ UNCHANGED sqlite /\ GraphInv
  BY DEF Exists, SaveMember, BootInv, BothInv, Now
<1>3. /\ memberships[c][k] # Absent /\ memberships[c][k].role = m.role
      /\ agentNodes[k] = [agent |-> a, url |-> m.url]
  BY DEF StoredAs
<1> HIDE DEF c, a, k
<1>4. /\ agentNodes' = [agentNodes EXCEPT ![k] = [agent |-> a, url |-> m.url]]
      /\ memberships' = [memberships EXCEPT ![c][k] = [role |-> m.role, since |-> crashes]]
      /\ UNCHANGED <<channelNodes, webhookNodes, points>>
  <2>1. LET node == [agent |-> a, url |-> m.url]
            membership == [role |-> m.role, since |-> crashes]
        IN /\ agentNodes' = [agentNodes EXCEPT ![k] = node]
           /\ memberships' = [memberships EXCEPT ![c][k] = membership]
           /\ UNCHANGED <<channelNodes, webhookNodes, points>>
    BY <1>1, <1>2 DEF Co!SaveMember
  <2> QED
    BY <2>1
<1>5. agentNodes' = agentNodes
  BY <1>1, <1>2, <1>3, <1>4 DEF GraphInv, GraphTypeOK
<1>6. memberships[c][k] \in Membership
  BY <1>1, <1>2, <1>3 DEF GraphInv, GraphTypeOK
<1>7. [role |-> m.role, since |-> crashes] = [memberships[c][k] EXCEPT !.since = crashes]
  BY <1>3, <1>6 DEF Membership
<1>8. \A d \in Channels, l \in Names :
        memberships'[d][l] = IF d = c /\ l = k THEN [memberships[c][k] EXCEPT !.since = crashes]
                             ELSE memberships[d][l]
  BY <1>1, <1>2, <1>4, <1>7 DEF GraphInv, GraphTypeOK
<1>9. \E i \in DOMAIN Plan : /\ Plan[i].cid = c /\ Plan[i].agent # NoAgent
                             /\ PlanName[Plan[i].agent] = k
  BY DEF c, a, k
<1> QED
  BY <1>2, <1>4, <1>5, <1>8, <1>9 DEF OnlyTimesChange, Now

LEMMA NothingToWrite ==
    ASSUME BootInv, wasInPlace, BootStep \/ \E c \in Channels : HookStep(c)
    PROVE  OnlyTimesChange /\ (backend = "sqlite" => UNCHANGED composite)
<1>1. BothInv /\ ProcessTypeOK
  BY DEF BootInv
<1>2. /\ PlacedUpTo(Len(Plan) + 1)
      /\ \A c \in Channels : Exists(c) /\ webhookUrl # NoUrl => HasUrl(c, webhookUrl)
      /\ phase = "bootstrap" => existing = ListChannels
  BY InPlaceMeansPlaced DEF BootInv, StartInv
<1>3. ASSUME NEW c \in Channels, HookStep(c) PROVE UNCHANGED <<sqlite, composite>>
  <2>1. Exists(c) /\ webhookUrl # NoUrl
    BY <1>3 DEF BootInv, StartInv, HookStep
  <2>2. \E h \in DOMAIN Webhooks(c) : h.url = webhookUrl
    BY <1>2, <2>1 DEF HasUrl
  <2> QED
    BY <1>3, <2>2 DEF HookStep, RegisterMissing
<1>4. ASSUME BootStep
      PROVE  OnlyTimesChange /\ (backend = "sqlite" => UNCHANGED composite)
  <2>1. PICK n \in DOMAIN Plan : n = pos
    BY <1>4 DEF BootStep
  <2>2. PICK c \in Channels, a \in Agents \cup {NoAgent}, r \in MemberRoles :
          c = Plan[n].cid /\ a = Plan[n].agent /\ r = Plan[n].role
    BY PlanEntry
  <2>3. /\ Exists(c) /\ (a # NoAgent => Placed(c, a, r))
        /\ existing[c] = ListChannels[c] /\ existing[c] # Absent
    <3>1. n < Len(Plan) + 1
      BY PlanEntry
    <3>2. Exists(c) /\ (a # NoAgent => Placed(c, a, r))
      BY <1>2, <2>2, <3>1 DEF PlacedUpTo
    <3>3. existing = ListChannels
      BY <1>2, <1>4 DEF BootStep
    <3> QED
      BY <1>1, <3>2, <3>3, Listing
  <2>4. CASE a = NoAgent
    <3>1. UNCHANGED <<sqlite, composite>>
      BY <1>4, <2>1, <2>2, <2>3, <2>4 DEF BootStep, CreateMissing
    <3> QED
      BY <3>1, Unwritten
  <2>5. CASE a # NoAgent
    <3>1. a \in Agents
      BY <2>5
    <3>2. PICK m \in MemberRow : m = Expected(a, r) /\ m # Absent
      BY <1>1, <3>1, ExpectedRow
    <3>3. IF Known(c, a) # m THEN SaveMember(c, a, PlanName[a], m)
          ELSE UNCHANGED <<sqlite, composite>>
      BY <1>4, <2>1, <2>2, <2>5, <3>2 DEF BootStep, AddOrUpdate, Expected
    <3>4. Known(c, a) = IF backend = "sqlite" THEN memberRows[c][a] ELSE Absent
      BY <1>1, <2>3, <3>1, Listing DEF Known
    <3>5. CASE backend = "sqlite"
      <4>1. memberRows[c][a] = m
        BY <2>3, <2>5, <3>2, <3>5 DEF Placed, StoredAs
      <4> QED
        BY <3>3, <3>4, <3>5, <4>1, Unwritten
    <3>6. CASE backend = "composite"
      <4>1. SaveMember(c, a, PlanName[a], m) /\ StoredAs(c, a, m)
        BY <2>3, <2>5, <3>2, <3>3, <3>4, <3>6 DEF Placed
      <4> QED
        BY <2>2, <2>3, <2>5, <3>6, <4>1, MemberRewritten
    <3> QED
      BY <1>1, <3>5, <3>6 DEF ProcessTypeOK
  <2> QED
    BY <2>4, <2>5
<1> QED
  BY <1>3, <1>4, Unwritten

(* Times say nothing about whether everything is in place.                 *)
LEMMA InPlaceStays ==
    ASSUME BootInv, wasInPlace, OnlyTimesChange,
           UNCHANGED <<backend, template, webhookUrl>>
    PROVE  /\ InPlace(template, webhookUrl)'
           /\ phase = "bootstrap" /\ existing' = existing => existing' = ListChannels'
<1>1. InPlace(template, webhookUrl)
        /\ (phase = "bootstrap" => existing = ListChannels)
  BY DEF BootInv, StartInv
<1>2. UNCHANGED <<channelRows, memberRows, webhookRows, channelNodes, agentNodes, webhookNodes>>
  BY DEF OnlyTimesChange, sqlite
<1>3. \A c \in Channels : /\ Exists(c)' <=> Exists(c)
                          /\ Webhooks(c)' = Webhooks(c)
  BY <1>2 DEF Exists, Webhooks
<1>4. ASSUME NEW c \in Channels, NEW n \in Names, memberships[c][n] # Absent
      PROVE  memberships'[c][n] # Absent /\ memberships'[c][n].role = memberships[c][n].role
  <2>1. memberships[c][n] \in Membership /\ crashes \in 0 .. MaxCrashes
    BY <1>4 DEF BootInv, BothInv, GraphInv, GraphTypeOK, ProcessTypeOK
  <2>2. \/ memberships'[c][n] = memberships[c][n]
        \/ memberships'[c][n] = [memberships[c][n] EXCEPT !.since = crashes]
    BY DEF OnlyTimesChange, Now
  <2>3. CASE memberships'[c][n] = [memberships[c][n] EXCEPT !.since = crashes]
    <3>1. memberships'[c][n] \in Membership
      BY <2>1, <2>3 DEF Membership
    <3>2. memberships'[c][n].role = memberships[c][n].role
      BY <2>1, <2>3 DEF Membership
    <3> QED
      BY <3>1, <3>2, BootstrapAssumption
  <2> QED
    BY <1>4, <2>2, <2>3
<1>5. ASSUME NEW c \in Channels, NEW a \in Planned, NEW m, StoredAs(c, a, m)
      PROVE  StoredAs(c, a, m)'
  <2>1. PlanName[a] \in Names
    BY PlannedNames
  <2> QED
    BY <1>2, <1>4, <1>5, <2>1 DEF StoredAs
<1>6. InPlace(template, webhookUrl)'
  <2>1. \A i \in DOMAIN Plan :
          /\ Plan[i].cid \in Channels
          /\ Plan[i].agent # NoAgent => Plan[i].agent \in Planned
    BY PlanEntry, PlannedAgent
  <2>2. \A t, a, role : BuildMember(t, a, role)' = BuildMember(t, a, role)
    BY DEF BuildMember
  <2> QED
    BY <1>1, <1>3, <1>5, <2>1 DEF InPlace, BuildMember
<1>7. ListChannels' = ListChannels
  BY <1>2, <1>3 DEF ListChannels
<1> QED
  BY <1>1, <1>6, <1>7

-----------------------------------------------------------------------------
(* The invariant, action by action.                                        *)
LEMMA InitBootInv == Init => BootInv
<1> SUFFICES ASSUME Init PROVE BootInv
  OBVIOUS
<1>1. ProcessTypeOK
  <2>1. 1 \in 1 .. Len(Plan) + 1
    BY PlanEntry
  <2>2. 0 \in 0 .. MaxCrashes
    BY BootstrapAssumption
  <2> QED
    BY <2>1, <2>2 DEF Init, ProcessTypeOK
<1>2. SqliteInv
  BY NoMembersRow DEF Init, SqliteInv, SqliteTypeOK, SqliteRows, Sq!NoMembers
<1>3. GraphInv
  <2>1. GraphTypeOK
    BY NoHooksBag DEF Init, GraphTypeOK
  <2>2. GraphNodes
    BY NoHooksBag DEF Init, GraphNodes, BrainHook
  <2> QED
    BY <2>1, <2>2 DEF GraphInv
<1>4. StartInv
  BY DEF Init, StartInv
<1>5. AskedOK
  BY DEF Init, AskedOK
<1> QED
  BY <1>1, <1>2, <1>3, <1>4, <1>5 DEF BootInv, BothInv

LEMMA StartBootInv ==
    ASSUME BootInv, NEW t \in Templates, NEW w \in Urls \cup {NoUrl}, Start(t, w)
    PROVE  BootInv'
<1>0. BothInv /\ ProcessTypeOK
  BY DEF BootInv
<1>1. BothInv'
  BY <1>0, BothStill DEF Start
<1>2. ProcessTypeOK'
  <2>1. existing' \in [Channels -> [Agents -> MemberRow \cup {Absent}] \cup {Absent}]
    <3>1. existing' = [c \in Channels |-> ListChannels[c]]
      BY DEF Start, ListChannels
    <3> QED
      BY <1>0, <3>1, Listing
  <2>2. pos' \in 1 .. Len(Plan) + 1
    BY PlanEntry DEF Start
  <2>3. wasInPlace' \in BOOLEAN
    BY DEF Start, InPlace
  <2> QED
    BY <1>0, <2>1, <2>2, <2>3 DEF ProcessTypeOK, Start
<1>3. \A c \in Channels : Exists(c)' <=> Exists(c)
  BY DEF Exists, Start, sqlite, composite
<1>4. PlacedUpTo(pos)'
  BY PlanEntry, PlannedAgent DEF PlacedUpTo, Start
<1>5. ListingHolds'
  <2>1. existing' = ListChannels /\ backend' = backend /\ memberRows' = memberRows
    BY DEF Start, sqlite
  <2>2. \A c \in Channels : existing'[c] # Absent <=> Exists(c)'
    BY <1>0, <1>3, <2>1, Listing
  <2>3. \A c \in Channels, a \in Agents :
          existing'[c] # Absent =>
            existing'[c][a] = IF backend' = "sqlite" THEN memberRows'[c][a] ELSE Absent
    BY <1>0, <2>1, Listing
  <2> QED
    BY <2>2, <2>3, PlanEntry DEF ListingHolds
<1>6. wasInPlace' =>
        InPlace(template, webhookUrl)' /\ existing' = ListChannels'
  <2>1. InPlace(template, webhookUrl)' <=> InPlace(t, w)
    BY DEF Start, InPlace, Exists, StoredAs, BuildMember, Webhooks, sqlite, composite
  <2>2. ListChannels' = ListChannels
    BY DEF Start, ListChannels, Exists, sqlite, composite
  <2> QED
    BY <2>1, <2>2 DEF Start
<1>7. StartInv'
  BY <1>4, <1>5, <1>6 DEF StartInv, Start
<1> QED
  BY <1>1, <1>2, <1>7 DEF BootInv

LEMMA BootStepWorks ==
    ASSUME BootInv, BootStep
    PROVE  /\ BothInv'
           /\ PlacedUpTo(pos)' /\ ListingHolds'
           /\ \A d \in Channels : Exists(d) => Exists(d)'
<1>1. PICK n \in DOMAIN Plan : n = pos
  BY DEF BootStep
<1>2. BothInv /\ ProcessTypeOK /\ PlacedUpTo(pos) /\ ListingHolds
  BY DEF BootInv, StartInv, BootStep
<1>3. pos' = pos + 1 /\ UNCHANGED <<backend, template, existing, asked>>
  BY DEF BootStep
<1>a. AskedGrows /\ crashes \in 0 .. MaxCrashes
  BY <1>2, <1>3 DEF BothInv, AskedOK, AskedGrows, asked, ProcessTypeOK
<1>4. Plan[n].cid \in Channels /\ Plan[n].role \in MemberRoles
  BY PlanEntry
<1>5. CASE Plan[n].agent = NoAgent
  <2>1. CreateMissing(Plan[n].cid)
    BY <1>1, <1>5 DEF BootStep
  <2>2. BothInv'
    BY <1>2, <1>3, <1>4, <1>a, <2>1, SaveChannelInv, BothStill DEF CreateMissing
  <2> QED
    BY <1>1, <1>2, <1>3, <1>5, <2>1, <2>2, ChannelStep
<1>6. CASE Plan[n].agent # NoAgent
  <2>1. AddOrUpdate(Plan[n].cid, Plan[n].agent, Plan[n].role)
    BY <1>1, <1>6 DEF BootStep
  <2>2. /\ Plan[n].agent \in Agents /\ PlanName[Plan[n].agent] \in Names
        /\ Named(Plan[n].agent, PlanName[Plan[n].agent])'
    BY <1>6, PlannedAgent DEF Named
  <2>3. PICK m \in MemberRow : m = Expected(Plan[n].agent, Plan[n].role)
    BY <1>2, <1>4, <2>2, ExpectedRow
  <2>4. \/ SaveMember(Plan[n].cid, Plan[n].agent, PlanName[Plan[n].agent], m)
        \/ UNCHANGED <<sqlite, composite>>
    BY <2>1, <2>3 DEF AddOrUpdate, Expected
  <2>5. BothInv'
    BY <1>2, <1>3, <1>4, <1>a, <2>2, <2>4, SaveMemberInv, BothStill
  <2> QED
    BY <1>1, <1>2, <1>3, <1>6, <2>1, <2>5, MemberStep
<1> QED
  BY <1>5, <1>6

LEMMA BootStepInv ==
    ASSUME BootInv, BootStep
    PROVE  BootInv'
<1>1. BothInv' /\ PlacedUpTo(pos)' /\ ListingHolds'
  BY BootStepWorks
<1>2. ProcessTypeOK'
  <2>1. pos' \in 1 .. Len(Plan) + 1
    BY PlanEntry DEF BootStep
  <2> QED
    BY <2>1 DEF BootInv, ProcessTypeOK, BootStep
<1>3. wasInPlace' =>
        InPlace(template, webhookUrl)' /\ existing' = ListChannels'
  BY NothingToWrite, InPlaceStays DEF BootStep
<1>4. phase' = "bootstrap" /\ wasInPlace' = wasInPlace
  BY DEF BootStep
<1>5. StartInv'
  BY <1>1, <1>3, <1>4 DEF StartInv
<1> QED
  BY <1>1, <1>2, <1>5 DEF BootInv

LEMMA BootDoneInv ==
    ASSUME BootInv, BootDone
    PROVE  BootInv'
<1>1. BothInv'
  BY BothStill DEF BootInv, BootDone
<1>2. ProcessTypeOK'
  BY DEF BootInv, ProcessTypeOK, BootDone
<1>3. UNCHANGED <<backend, sqlite, composite, template, webhookUrl, wasInPlace>>
        /\ phase' = "webhooks"
  BY DEF BootDone
<1>4. pos = Len(Plan) + 1
  BY PlanEntry DEF BootInv, ProcessTypeOK, BootDone
<1>5. PlacedUpTo(Len(Plan) + 1)'
  <2>1. PlacedUpTo(Len(Plan) + 1)
    BY <1>4 DEF BootInv, StartInv, BootDone
  <2>2. /\ \A c \in Channels : Exists(c)' <=> Exists(c)
        /\ \A c \in Channels, a \in Planned, r \in MemberRoles :
             Placed(c, a, r)' <=> Placed(c, a, r)
    BY <1>3, StoresStill
  <2> QED
    BY <2>1, <2>2, PlanEntry, PlannedAgent DEF PlacedUpTo
<1>6. \A c \in Channels : c \in pending' <=> webhookUrl' # NoUrl /\ Exists(c)'
  BY <1>3, StoresStill DEF BootDone
<1>7. wasInPlace' => InPlace(template, webhookUrl)'
  BY <1>3, Unwritten, InPlaceStays
<1>8. pending' \in SUBSET Channels
  BY <1>2 DEF ProcessTypeOK
<1>9. StartInv'
  BY <1>3, <1>5, <1>6, <1>7, <1>8 DEF StartInv
<1> QED
  BY <1>1, <1>2, <1>9 DEF BootInv

LEMMA HookStepInv ==
    ASSUME BootInv, NEW c \in Channels, HookStep(c)
    PROVE  BootInv'
<1>1. /\ BothInv' /\ ProcessTypeOK'
      /\ \A d \in Channels : Exists(d)' <=> Exists(d)
      /\ \A d \in Channels, a \in Planned, r \in MemberRoles :
           Placed(d, a, r)' <=> Placed(d, a, r)
      /\ HasUrl(c, webhookUrl)'
      /\ \A d \in Channels \ {c} : Webhooks(d)' = Webhooks(d)
  BY HookStepStores
<1>2. /\ phase = "webhooks" /\ phase' = "webhooks" /\ pending' = pending \ {c}
      /\ UNCHANGED <<backend, template, webhookUrl, wasInPlace>>
  BY DEF HookStep
<1>3. PlacedUpTo(Len(Plan) + 1)'
  BY <1>1, <1>2, PlanEntry, PlannedAgent DEF BootInv, StartInv, PlacedUpTo
<1>4. \A d \in pending' : Exists(d)' /\ webhookUrl' # NoUrl
  BY <1>1, <1>2 DEF BootInv, StartInv, ProcessTypeOK
<1>5. ASSUME NEW d \in Channels, webhookUrl' # NoUrl, Exists(d)', d \notin pending'
      PROVE  HasUrl(d, webhookUrl)'
  <2>1. CASE d = c
    BY <1>1, <2>1
  <2>2. CASE d # c
    <3>1. HasUrl(d, webhookUrl)
      BY <1>1, <1>2, <1>5, <2>2 DEF BootInv, StartInv
    <3>2. Webhooks(d)' = Webhooks(d)
      BY <1>1, <2>2
    <3> QED
      BY <1>2, <3>1, <3>2 DEF HasUrl
  <2> QED
    BY <2>1, <2>2
<1>6. wasInPlace' => InPlace(template, webhookUrl)'
  BY <1>2, NothingToWrite, InPlaceStays
<1>7. StartInv'
  BY <1>2, <1>3, <1>4, <1>5, <1>6 DEF StartInv
<1> QED
  BY <1>1, <1>7 DEF BootInv

(* Nothing of a start is left once it serves or stopped.                   *)
LEMMA AwayBootInv ==
    ASSUME BootInv, BothInv', ProcessTypeOK', phase' \in {"down", "serving"},
           ~wasInPlace'
    PROVE  BootInv'
BY DEF BootInv, StartInv

LEMMA NextBootInv == BootInv /\ [Next]_vars => BootInv'
<1> SUFFICES ASSUME BootInv, [Next]_vars PROVE BootInv'
  OBVIOUS
<1>0. BothInv /\ crashes \in 0 .. MaxCrashes
  BY DEF BootInv, ProcessTypeOK
<1>1. ASSUME UNCHANGED vars PROVE BootInv'
  <2>1. BothInv' /\ ProcessTypeOK'
    BY <1>0, <1>1, BothStill DEF vars, process, BootInv, ProcessTypeOK
  <2>2. UNCHANGED <<backend, sqlite, composite, template, webhookUrl, existing, pos,
                    pending, phase, wasInPlace, asked>>
    BY <1>1 DEF vars, process
  <2>3. /\ \A c \in Channels : Exists(c)' <=> Exists(c)
        /\ \A c \in Channels : \A w : HasUrl(c, w)' <=> HasUrl(c, w)
        /\ \A c \in Channels, a \in Planned, r \in MemberRoles :
             Placed(c, a, r)' <=> Placed(c, a, r)
    BY <2>2, StoresStill DEF HasUrl
  <2>4. \A i \in 1 .. Len(Plan) + 1 : PlacedUpTo(i) => PlacedUpTo(i)'
    BY <2>3, PlanEntry, PlannedAgent DEF PlacedUpTo
  <2>5. PlacedUpTo(pos)' <=> PlacedUpTo(pos)
    BY <2>2, <2>3, PlanEntry, PlannedAgent DEF PlacedUpTo
  <2>6. PlacedUpTo(Len(Plan) + 1)' <=> PlacedUpTo(Len(Plan) + 1)
    BY <2>3, PlanEntry, PlannedAgent DEF PlacedUpTo
  <2>7. ListingHolds => ListingHolds'
    BY <2>2, <2>3, PlanEntry DEF ListingHolds, sqlite
  <2>8. wasInPlace => /\ InPlace(template, webhookUrl)'
                      /\ phase = "bootstrap" => existing' = ListChannels'
    BY <2>2, Unwritten, InPlaceStays
  <2>9. StartInv'
    BY <2>2, <2>3, <2>5, <2>6, <2>7, <2>8 DEF BootInv, StartInv, ProcessTypeOK
  <2> QED
    BY <2>1, <2>9 DEF BootInv
<1>2. ASSUME NEW e \in Environments, Start(e[1], e[2]) PROVE BootInv'
  <2>1. e[1] \in Templates /\ e[2] \in Urls \cup {NoUrl}
    BY BootstrapAssumption
  <2> QED
    BY <1>2, <2>1, StartBootInv
<1>3. ASSUME BootStep PROVE BootInv'
  BY <1>3, BootStepInv
<1>4. ASSUME BootDone PROVE BootInv'
  BY <1>4, BootDoneInv
<1>5. ASSUME NEW c \in Channels, HookStep(c) PROVE BootInv'
  BY <1>5, HookStepInv
<1>6. ASSUME Serve \/ Crash PROVE BootInv'
  <2>1. BothInv'
    BY <1>0, <1>6, BothStill DEF Serve, Crash, Stop
  <2>2. ProcessTypeOK'
    <3>1. CASE Serve
      BY <3>1 DEF BootInv, ProcessTypeOK, Serve
    <3>2. CASE Crash
      <4>1. 1 \in 1 .. Len(Plan) + 1
        BY PlanEntry
      <4>2. crashes' \in 0 .. MaxCrashes
        BY <1>0, <3>2, BootstrapAssumption DEF Crash
      <4> QED
        BY <3>2, <4>1, <4>2 DEF BootInv, ProcessTypeOK, Crash, Stop
    <3> QED
      BY <1>6, <3>1, <3>2
  <2> QED
    BY <1>6, <2>1, <2>2, AwayBootInv DEF Serve, Crash, Stop
<1>7. ASSUME NEW c \in Channels, Administer(c) PROVE BootInv'
  <2>1. BothInv'
    BY <1>0, <1>7, AdministerInv
  <2>2. ProcessTypeOK' /\ phase' = "serving" /\ ~wasInPlace'
    BY <1>7 DEF BootInv, ProcessTypeOK, StartInv, Administer, process
  <2> QED
    BY <2>1, <2>2, AwayBootInv
<1> QED
  BY <1>1, <1>2, <1>3, <1>4, <1>5, <1>6, <1>7 DEF Next

(* The type invariant with what the two backends keep and what a start has *)
(* put in place so far.  Code: bootstrap.py, the lifespan of hub/server.py *)
(* and the two backends under it.                                          *)
THEOREM BootInvariant == Spec => []BootInv
<1> QED
  BY InitBootInv, NextBootInv, PTL DEF Spec

-----------------------------------------------------------------------------
(* What get_channel shows of a is what the nodes of a and its memberships  *)
(* hold.                                                                   *)
LEMMA GraphShows ==
    ASSUME backend # "sqlite", NEW c \in Channels, NEW a
    PROVE  /\ \A n \in Names :
                memberships[c][n] # Absent /\ agentNodes[n].agent = a
                  => [role |-> memberships[c][n].role, url |-> agentNodes[n].url]
                       \in Shows(c, a)
           /\ \A s \in Shows(c, a) : \E n \in Names :
                /\ memberships[c][n] # Absent /\ agentNodes[n].agent = a
                /\ s = [role |-> memberships[c][n].role, url |-> agentNodes[n].url]
<1> DEFINE read(n) == [agent |-> agentNodes[n].agent, url |-> agentNodes[n].url,
                       role |-> memberships[c][n].role]
<1>1. \A n \in Names : /\ read(n).agent = agentNodes[n].agent
                       /\ read(n).url = agentNodes[n].url
                       /\ read(n).role = memberships[c][n].role
  OBVIOUS
<1>2. \A m : m \in Co!MembersOf(c) <=>
               \E n \in Names : memberships[c][n] # Absent /\ m = read(n)
  BY DEF Co!MembersOf
<1>3. \A s : s \in Shows(c, a) <=>
               \E m \in Co!MembersOf(c) : m.agent = a /\ s = [role |-> m.role, url |-> m.url]
  BY DEF Shows
<1> HIDE DEF read
<1> QED
  BY <1>1, <1>2, <1>3

(* What get_channel shows of a member that is in its place.                *)
LEMMA ShownMember ==
    ASSUME BootInv, NEW c \in Channels, NEW a \in Planned, NEW r \in MemberRoles,
           Placed(c, a, r)
    PROVE  /\ Expected(a, r) \in Shows(c, a)
           /\ ~OtherNamed(a) => Shows(c, a) = {Expected(a, r)}
<1>0. PICK m \in MemberRow : m = Expected(a, r) /\ m # Absent
  BY PlannedNames, ExpectedRow DEF BootInv
<1>1. StoredAs(c, a, m)
  BY <1>0 DEF Placed
<1>2. CASE backend = "sqlite"
  BY <1>0, <1>1, <1>2 DEF StoredAs, Shows
<1>3. CASE backend = "composite"
  <2> DEFINE k == PlanName[a]
             shown(n) == [role |-> memberships[c][n].role, url |-> agentNodes[n].url]
  <2>1. k \in Names
    BY PlannedNames
  <2>2. /\ \A n \in Names : memberships[c][n] # Absent /\ agentNodes[n].agent = a
                              => shown(n) \in Shows(c, a)
        /\ \A s \in Shows(c, a) : \E n \in Names :
             memberships[c][n] # Absent /\ agentNodes[n].agent = a /\ s = shown(n)
    BY <1>3, GraphShows
  <2>3. memberships[c][k] # Absent /\ agentNodes[k].agent = a /\ shown(k) = m
    BY <1>1, <1>3 DEF StoredAs, MemberRow
  <2>4. m \in Shows(c, a)
    BY <2>1, <2>2, <2>3
  <2>5. ASSUME ~OtherNamed(a), NEW l \in Names, memberships[c][l] # Absent,
               agentNodes[l].agent = a
        PROVE  l = k
    <3>1. Named(a, l)
      BY <2>5 DEF BootInv, BothInv, GraphInv, GraphNodes
    <3> QED
      BY <2>5, <3>1 DEF Named, OtherNamed
  <2> HIDE DEF shown, k
  <2>6. ASSUME ~OtherNamed(a), NEW s \in Shows(c, a) PROVE s = m
    BY <2>2, <2>3, <2>5, <2>6
  <2> QED
    BY <1>0, <2>4, <2>6
<1> QED
  BY <1>2, <1>3 DEF BootInv, ProcessTypeOK

(* A start that gets to serving, whatever the last one left unfinished and *)
(* whatever clients registered, shows every channel and member of the plan *)
(* as planned, and has the dashboard's webhook; with nothing else for a    *)
(* member, and no second posting, but where a client asked for them        *)
(* (bootstrap.py, the lifespan of hub/server.py).                          *)
THEOREM StartsEndConfigured == Spec => ServesConfigured
<1> DEFINE Configured ==
      /\ \A i \in DOMAIN Plan :
           LET c == Plan[i].cid
               a == Plan[i].agent
               expected == BuildMember(template, a, Plan[i].role)
           IN /\ Exists(c)
              /\ a # NoAgent => expected \in Shows(c, a)
              /\ a # NoAgent /\ ~OtherNamed(a) => Shows(c, a) = {expected}
      /\ \A c \in Channels :
           Exists(c) /\ webhookUrl # NoUrl =>
             /\ \E h \in DOMAIN Webhooks(c) : h.url = webhookUrl
             /\ webhookUrl \notin subscribed[c] => PostsOnce(c, webhookUrl)
    Serving == phase # "serving" /\ phase' = "serving" => Configured
<1>1. BootInv /\ [Next]_vars => [Serving]_vars
  <2> SUFFICES ASSUME BootInv, Next, phase # "serving", phase' = "serving"
               PROVE  Configured
    OBVIOUS
  <2>1. Serve
    BY DEF Next, Start, BootStep, BootDone, HookStep, Crash, Stop, Administer, process
  <2>2. /\ PlacedUpTo(Len(Plan) + 1)
        /\ webhookUrl # NoUrl => \A c \in Channels : Exists(c) => HasUrl(c, webhookUrl)
    BY <2>1 DEF BootInv, StartInv, Serve
  <2>3. ASSUME NEW i \in DOMAIN Plan
        PROVE  LET c == Plan[i].cid
                   a == Plan[i].agent
                   expected == BuildMember(template, a, Plan[i].role)
               IN /\ Exists(c)
                  /\ a # NoAgent => expected \in Shows(c, a)
                  /\ a # NoAgent /\ ~OtherNamed(a) => Shows(c, a) = {expected}
    <3>1. /\ i < Len(Plan) + 1
          /\ Plan[i].cid \in Channels /\ Plan[i].role \in MemberRoles
      BY PlanEntry
    <3>2. /\ Exists(Plan[i].cid)
          /\ Plan[i].agent # NoAgent => Placed(Plan[i].cid, Plan[i].agent, Plan[i].role)
      BY <2>2, <3>1 DEF PlacedUpTo
    <3>3. CASE Plan[i].agent # NoAgent
      BY <3>1, <3>2, <3>3, PlannedAgent, ShownMember DEF Expected
    <3> QED
      BY <3>2, <3>3
  <2>4. ASSUME NEW c \in Channels, Exists(c), webhookUrl # NoUrl
        PROVE  /\ \E h \in DOMAIN Webhooks(c) : h.url = webhookUrl
               /\ webhookUrl \notin subscribed[c] => PostsOnce(c, webhookUrl)
    BY <2>2, <2>4, AtMostOnce DEF HasUrl, RegisteredOnce, BootInv
  <2> QED
    BY <2>3, <2>4
<1> QED
  BY <1>1, BootInvariant, PTL DEF Spec, ServesConfigured

(* A start that found everything in place leaves the stores as they are,   *)
(* but for the times of the plan's members in Neo4j: no row, node or       *)
(* webhook, and no role is written anew (bootstrap.py, lifespan).          *)
THEOREM RestartsChangeOnlyTimes == Spec => SecondStartChangesNothing
<1> DEFINE Unchanging == wasInPlace /\ phase \in {"bootstrap", "webhooks"}
                           => /\ OnlyTimesChange
                              /\ backend = "sqlite" => UNCHANGED composite
<1>1. BootInv /\ [Next]_vars => [Unchanging]_vars
  <2> SUFFICES ASSUME BootInv, Next, wasInPlace, phase \in {"bootstrap", "webhooks"}
               PROVE  OnlyTimesChange /\ (backend = "sqlite" => UNCHANGED composite)
    OBVIOUS
  <2>1. CASE BootStep \/ \E c \in Channels : HookStep(c)
    BY <2>1, NothingToWrite
  <2>2. CASE BootDone \/ Serve \/ Crash
    BY <2>2, Unwritten DEF BootDone, Serve, Crash, Stop
  <2> QED
    BY <2>1, <2>2 DEF Next, Start, Administer
<1> QED
  BY <1>1, BootInvariant, PTL DEF Spec, SecondStartChangesNothing

-----------------------------------------------------------------------------
(* Who is in a channel, said of the rows and of the nodes.                 *)
StoredIn(c, a) ==
    IF backend = "sqlite" THEN memberRows[c][a] # Absent
    ELSE \E n \in Names : memberships[c][n] # Absent /\ agentNodes[n].agent = a

ShownIsStored ==
    \A c \in Channels, a \in Agents : Shows(c, a) # {} <=> StoredIn(c, a)

LEMMA ShownMeansStored == ShownIsStored
<1> SUFFICES ASSUME NEW c \in Channels, NEW a \in Agents
             PROVE  Shows(c, a) # {} <=> StoredIn(c, a)
  BY DEF ShownIsStored
<1>1. CASE backend = "sqlite"
  BY <1>1 DEF Shows, StoredIn
<1>2. CASE backend # "sqlite"
  BY <1>2, GraphShows DEF StoredIn
<1> QED
  BY <1>1, <1>2

(* Webhooks that are all kept, but for those a bag leaves out.             *)
LEMMA LastingHooksKept ==
    ASSUME BothInv, ProcessTypeOK, NEW c \in Channels, backend' = backend,
           \A h \in DOMAIN Webhooks(c) :
             backend = "composite" \/ h.id # "brain" => Kept(c, h)
    PROVE  LastingHooks(c) \sqsubseteq LastingHooks(c)'
<1>1. \A h \in DOMAIN Webhooks(c) : Webhooks(c)[h] \in Nat
  <2>1. CASE backend = "sqlite"
    BY <2>1 DEF Webhooks, SetToBag
  <2>2. CASE backend = "composite"
    <3>1. Webhooks(c) = webhookNodes[c] /\ webhookNodes[c] \in HookBags
      BY <2>2 DEF Webhooks, BothInv, GraphInv, GraphTypeOK
    <3> QED
      BY <3>1, BagOfHooks
  <2> QED
    BY <2>1, <2>2 DEF ProcessTypeOK
<1> DEFINE Lasting(h) == backend = "composite" \/ h.id # "brain"
<1>2. /\ DOMAIN LastingHooks(c) = {h \in DOMAIN Webhooks(c) : Lasting(h)}
      /\ DOMAIN LastingHooks(c)' = {h \in DOMAIN Webhooks(c)' : Lasting(h)}
      /\ \A h \in DOMAIN LastingHooks(c) : LastingHooks(c)[h] = Webhooks(c)[h]
      /\ \A h \in DOMAIN LastingHooks(c)' : LastingHooks(c)'[h] = Webhooks(c)'[h]
  BY DEF LastingHooks
<1>3. \A h \in DOMAIN LastingHooks(c) :
        /\ h \in DOMAIN LastingHooks(c)'
        /\ LastingHooks(c)[h] \in Nat
        /\ LastingHooks(c)'[h] = LastingHooks(c)[h]
  BY <1>1, <1>2 DEF Kept
<1> QED
  BY <1>3 DEF \sqsubseteq

(* A channel is created where nothing is, and a member that is saved takes *)
(* over the node of another only where a client had given that one its     *)
(* name.                                                                   *)
LEMMA BootStepKeeps ==
    ASSUME BootInv, BootStep, NEW c \in Channels
    PROVE  /\ \A a \in Agents :
                ~NameTaken(a) /\ Shows(c, a) # {} => Shows(c, a)' # {}
           /\ Webhooks(c)' = Webhooks(c)
<1>1. PICK n \in DOMAIN Plan : n = pos
  BY DEF BootStep
<1>2. BothInv /\ ProcessTypeOK /\ ListingHolds
  BY DEF BootInv, StartInv, BootStep
<1>3. backend' = backend
  BY DEF BootStep
<1>4. PICK d \in Channels, b \in Agents \cup {NoAgent}, r \in MemberRoles :
        d = Plan[n].cid /\ b = Plan[n].agent /\ r = Plan[n].role
  BY PlanEntry
<1>5. ASSUME /\ \A a \in Agents : memberRows[c][a] # Absent => memberRows'[c][a] # Absent
             /\ \A a \in Agents, l \in Names :
                  /\ ~NameTaken(a)
                  /\ memberships[c][l] # Absent /\ agentNodes[l].agent = a
                  => memberships'[c][l] # Absent /\ agentNodes'[l].agent = a
             /\ webhookRows' = webhookRows /\ webhookNodes' = webhookNodes
      PROVE  /\ \A a \in Agents :
                  ~NameTaken(a) /\ Shows(c, a) # {} => Shows(c, a)' # {}
             /\ Webhooks(c)' = Webhooks(c)
  <2>1. Webhooks(c)' = Webhooks(c)
    BY <1>3, <1>5 DEF Webhooks
  <2>2. ASSUME NEW a \in Agents, ~NameTaken(a), Shows(c, a) # {}
        PROVE  Shows(c, a)' # {}
    <3>1. ShownIsStored /\ ShownIsStored'
      BY ShownMeansStored, PTL
    <3>2. /\ Shows(c, a) # {} <=> StoredIn(c, a)
          /\ (Shows(c, a) # {} <=> StoredIn(c, a))'
      BY <3>1 DEF ShownIsStored
    <3> QED
      BY <1>3, <1>5, <2>2, <3>2 DEF StoredIn
  <2> QED
    BY <2>1, <2>2
<1>6. CASE UNCHANGED <<sqlite, composite>>
  BY <1>5, <1>6 DEF sqlite, composite
<1>7. CASE b = NoAgent /\ SaveChannel(d, [a \in Agents |-> Absent]) /\ existing[d] = Absent
  <2>1. ~Exists(d)
    <3>1. n >= pos
      BY <1>1, <1>2, PlanEntry DEF ProcessTypeOK
    <3>2. Plan[n].agent = NoAgent
      BY <1>4, <1>7
    <3>3. existing[Plan[n].cid] = Absent => ~Exists(Plan[n].cid)
      BY <1>2, <3>1, <3>2 DEF ListingHolds
    <3> QED
      BY <1>4, <1>7, <3>3
  <2>2. CASE backend = "sqlite"
    <3>1. channelRows[d] = Absent
      BY <2>1, <2>2 DEF Exists
    <3>2. webhookRows[d] = {} /\ \A a \in Agents : memberRows[d][a] = Absent
      BY <1>2, <3>1 DEF BothInv, SqliteInv, SqliteRows
    <3>3. /\ memberRows' = [memberRows EXCEPT ![d] = [a \in Agents |-> Absent]]
          /\ webhookRows' = [webhookRows EXCEPT ![d] = {}]
          /\ UNCHANGED composite
      BY <1>7, <2>2 DEF SaveChannel, Sq!SaveChannel, Sq!Cascade
    <3>4. webhookRows' = webhookRows
      BY <1>2, <3>2, <3>3 DEF BothInv, SqliteInv, SqliteTypeOK
    <3>5. \A a \in Agents : memberRows[c][a] # Absent => memberRows'[c][a] # Absent
      BY <1>2, <3>2, <3>3 DEF BothInv, SqliteInv, SqliteTypeOK
    <3> QED
      BY <1>5, <3>3, <3>4, <3>5 DEF composite
  <2>3. CASE backend = "composite"
    BY <1>5, <1>7, <2>3 DEF SaveChannel, Co!SaveChannel, sqlite
  <2> QED
    BY <1>2, <2>2, <2>3 DEF ProcessTypeOK
<1>8. CASE b # NoAgent /\ SaveMember(d, b, PlanName[b], Expected(b, r))
  <2>0. b \in Agents /\ b \in Planned /\ PlanName[b] \in Names
    BY <1>4, <1>8, PlannedAgent
  <2>1. PICK m \in MemberRow : m = Expected(b, r) /\ m # Absent
    BY <1>2, <2>0, ExpectedRow
  <2>2. SaveMember(d, b, PlanName[b], m)
    BY <1>8, <2>1
  <2>3. CASE backend = "sqlite"
    <3>1. /\ memberRows' = [memberRows EXCEPT ![d][b] = m]
          /\ webhookRows' = webhookRows
          /\ UNCHANGED composite
      BY <2>2, <2>3 DEF SaveMember, Sq!SaveMember
    <3>2. \A a \in Agents : memberRows[c][a] # Absent => memberRows'[c][a] # Absent
      BY <1>2, <2>1, <3>1 DEF BothInv, SqliteInv, SqliteTypeOK
    <3> QED
      BY <1>5, <3>1, <3>2 DEF composite
  <2>4. CASE backend = "composite"
    <3>1. Co!SaveMember(d, b, PlanName[b], m, crashes) /\ UNCHANGED sqlite
      BY <2>2, <2>4 DEF SaveMember, Now
    <3>2. CASE channelNodes[d] = Absent
      BY <1>5, <3>1, <3>2 DEF Co!SaveMember, sqlite
    <3>3. CASE channelNodes[d] # Absent
      <4> DEFINE k == PlanName[b]
                 node == [agent |-> b, url |-> m.url]
                 membership == [role |-> m.role, since |-> crashes]
      <4>1. /\ agentNodes' = [agentNodes EXCEPT ![k] = node]
            /\ memberships' = [memberships EXCEPT ![d][k] = membership]
            /\ UNCHANGED <<channelNodes, webhookNodes, points>>
            /\ membership # Absent /\ node.agent = b
        BY <1>2, <2>0, <3>1, <3>3, GraphMemberSaved DEF BothInv, ProcessTypeOK
      <4>0. k \in Names /\ k = PlanName[b]
        BY <2>0
      <4> HIDE DEF k, node, membership
      <4>2. /\ \A l \in Names : agentNodes'[l] = IF l = k THEN node ELSE agentNodes[l]
            /\ \A l \in Names : memberships[c][l] # Absent => memberships'[c][l] # Absent
        BY <1>2, <4>0, <4>1 DEF BothInv, GraphInv, GraphTypeOK
      <4>3. ASSUME NEW a \in Agents, NEW l \in Names, ~NameTaken(a),
                   memberships[c][l] # Absent, agentNodes[l].agent = a
            PROVE  memberships'[c][l] # Absent /\ agentNodes'[l].agent = a
        <5>1. Named(a, l)
          BY <1>2, <4>3 DEF BothInv, GraphInv, GraphNodes
        <5>2. l = k => a = b
          BY <2>0, <4>0, <4>3, <5>1, BootstrapAssumption DEF Named, NameTaken
        <5> QED
          BY <4>1, <4>2, <4>3, <5>2
      <4> QED
        BY <1>5, <3>1, <4>1, <4>3 DEF sqlite
    <3> QED
      BY <3>2, <3>3
  <2> QED
    BY <1>2, <2>3, <2>4 DEF ProcessTypeOK
<1> QED
  BY <1>1, <1>4, <1>6, <1>7, <1>8 DEF BootStep, CreateMissing, AddOrUpdate, Expected

(* No step of a start takes away a channel, nor a member or a webhook but  *)
(* those whose name, or whose id in SQLite, a client had taken from the    *)
(* plan (bootstrap.py, the lifespan of hub/server.py), on either backend.  *)
THEOREM BootstrapKeepsWhatIsThere == Spec => BootstrapNeverDeletes
<1> DEFINE Kept1(c) ==
      /\ Exists(c) => Exists(c)'
      /\ \A a \in Agents : ~NameTaken(a) /\ Shows(c, a) # {} => Shows(c, a)' # {}
      /\ LastingHooks(c) \sqsubseteq LastingHooks(c)'
    Keeping == phase # "serving" => \A c \in Channels : Kept1(c)
<1>1. BootInv /\ [Next]_vars => [Keeping]_vars
  <2> SUFFICES ASSUME BootInv, Next, phase # "serving", NEW c \in Channels
               PROVE  Kept1(c)
    OBVIOUS
  <2>0. BothInv /\ ProcessTypeOK
    BY DEF BootInv
  <2>1. CASE BootStep
    <3>1. /\ Exists(c) => Exists(c)'
          /\ \A a \in Agents : ~NameTaken(a) /\ Shows(c, a) # {} => Shows(c, a)' # {}
          /\ Webhooks(c)' = Webhooks(c)
      BY <2>1, BootStepWorks, BootStepKeeps
    <3>2. LastingHooks(c) \sqsubseteq LastingHooks(c)'
      BY <2>0, <2>1, <3>1, LastingHooksKept DEF Kept, BootStep
    <3> QED
      BY <3>1, <3>2
  <2>2. ASSUME NEW d \in Channels, HookStep(d)
        PROVE  Kept1(c)
    <3>1. /\ \A e \in Channels : Exists(e)' <=> Exists(e)
          /\ \A e \in Channels \ {d} : Webhooks(e)' = Webhooks(e)
          /\ \A h \in DOMAIN Webhooks(d) :
               backend = "composite" \/ h.id # "brain" => Kept(d, h)
          /\ UNCHANGED <<memberRows, agentNodes, memberships, backend>>
      BY <2>2, HookStepStores DEF HookStep
    <3>2. LastingHooks(c) \sqsubseteq LastingHooks(c)'
      <4>1. CASE c = d
        BY <2>0, <3>1, <4>1, LastingHooksKept
      <4>2. CASE c # d
        BY <2>0, <3>1, <4>2, LastingHooksKept DEF Kept
      <4> QED
        BY <4>1, <4>2
    <3>3. \A a \in Agents : Shows(c, a)' = Shows(c, a)
      BY <3>1 DEF Shows, Co!MembersOf
    <3> QED
      BY <3>1, <3>2, <3>3
  <2>3. CASE UNCHANGED <<backend, sqlite, composite>>
    <3>1. Exists(c)' <=> Exists(c)
      BY <2>3 DEF Exists, sqlite, composite
    <3>2. Webhooks(c)' = Webhooks(c)
      BY <2>3 DEF Webhooks, sqlite, composite
    <3>3. \A a \in Agents : Shows(c, a)' = Shows(c, a)
      BY <2>3 DEF Shows, Co!MembersOf, sqlite, composite
    <3>4. LastingHooks(c) \sqsubseteq LastingHooks(c)'
      BY <2>0, <2>3, <3>2, LastingHooksKept DEF Kept
    <3> QED
      BY <3>1, <3>3, <3>4
  <2> QED
    BY <2>1, <2>2, <2>3 DEF Next, Start, BootDone, Serve, Crash, Stop, Administer
<1> QED
  BY <1>1, BootInvariant, PTL DEF Spec, BootstrapNeverDeletes
=============================================================================
