------------------------------ MODULE Bootstrap ------------------------------
(***************************************************************************)
(* The start of the hub over a persistent backend: bootstrap_channels      *)
(* (bootstrap.py) and then the registration of the dashboard's webhook     *)
(* (the lifespan of hub/server.py), both before the first request is       *)
(* served; and what can come between two starts: administrators' calls, a  *)
(* changed environment, and a crash, also in the middle of a start.  Each  *)
(* write is durable on its own.  Clients choose the names of the members   *)
(* and the ids, urls and events of the webhooks they register freely.      *)
(*                                                                         *)
(* With the memory backend every start begins with an empty store, so it   *)
(* is like the first start here.                                           *)
(***************************************************************************)
EXTENDS Integers, Sequences, Bags

CONSTANTS
    Channels, Agents, Names, Absent, NoAgent,
    Plan,           \* the bootstrap's loops laid out in order: an entry per
                    \* channel (agent NoAgent), then one per desired member
    PlanName,       \* the name the bootstrap gives an agent: its id capitalized
    Human,          \* the agent that has no url
    Templates,      \* AGENT_URL_TEMPLATE, and what clients give as urls
    Urls,           \* webhook urls: WEBHOOK_URL, and what clients subscribe
    Environments,   \* the two variables of a start, as <<template, url>>
    Roles,          \* the roles administrators give
    NoUrl,
    MaxCrashes, MaxCalls     \* bounds

Planned == {Plan[i].agent : i \in DOMAIN Plan} \ {NoAgent}

(* What is stored of a member: its row, or its Agent node and its          *)
(* membership.                                                             *)
MemberRoles == Roles \cup {Plan[i].role : i \in DOMAIN Plan}
MemberRow == [role : MemberRoles, url : Templates \cup {NoUrl}]
AgentNode == [agent : Agents, url : Templates \cup {NoUrl}]
Membership == [role : MemberRoles, since : 0 .. MaxCrashes]

(* Both topologies of bootstrap.py name a channel once and an agent once   *)
(* in each channel, the loop creates a channel before its members, and the *)
(* ids differ in more than their case.                                     *)
ASSUME BootstrapAssumption ==
    /\ Plan \in Seq([cid : Channels, agent : Agents \cup {NoAgent},
                     role : MemberRoles])
    /\ \A i, j \in DOMAIN Plan :
         Plan[i].cid = Plan[j].cid /\ Plan[i].agent = Plan[j].agent => i = j
    /\ \A i \in DOMAIN Plan :
         \E j \in 1 .. i : Plan[j].cid = Plan[i].cid /\ Plan[j].agent = NoAgent
    /\ PlanName \in [Planned -> Names]
    /\ \A a, b \in Planned : PlanName[a] = PlanName[b] => a = b
    /\ NoAgent \notin Agents
    /\ NoUrl \notin Templates \cup Urls
    /\ Environments \subseteq Templates \X (Urls \cup {NoUrl})
    /\ MaxCrashes \in Nat
    /\ Absent \notin {"context"} \cup MemberRow \cup AgentNode \cup Membership
                       \cup [Agents -> MemberRow \cup {Absent}]

VARIABLES
    backend,        \* "sqlite" or "composite"
    channelRows, memberRows, messageRows, webhookRows,                \* SQLite
    channelNodes, agentNodes, memberships, webhookNodes, points,      \* composite
    (* the process *)
    phase,          \* "down", "bootstrap", "webhooks" or "serving"
    template,       \* the environment of this start
    webhookUrl,
    existing,       \* the channels list_channels returned, with their members
    pos,            \* the next entry of Plan
    pending,        \* the channels whose webhook is still to be checked
    (* bounds, and for the properties *)
    crashes, calls,
    wasInPlace,     \* this start found everything as it leaves it
    registered,     \* whom clients saved in the graph under which name
    subscribed      \* the urls clients subscribed in a channel

Sq == INSTANCE SqliteStorage
Co == INSTANCE CompositeStorage

sqlite == <<channelRows, memberRows, messageRows, webhookRows>>
composite == <<channelNodes, agentNodes, memberships, webhookNodes, points>>
process == <<phase, template, webhookUrl, existing, pos, pending, wasInPlace>>
asked == <<registered, subscribed>>
vars == <<backend, sqlite, composite, process, crashes, calls, asked>>

Init ==
    /\ backend \in {"sqlite", "composite"}
    /\ channelRows = [c \in Channels |-> Absent]
    /\ memberRows = [c \in Channels |-> Sq!NoMembers]
    /\ messageRows = <<>>
    /\ webhookRows = [c \in Channels |-> {}]
    /\ channelNodes = [c \in Channels |-> Absent]
    /\ agentNodes = [n \in Names |-> Absent]
    /\ memberships = [c \in Channels |-> [n \in Names |-> Absent]]
    /\ webhookNodes = [c \in Channels |-> Co!NoWebhooks]
    /\ points = <<>>
    /\ phase = "down"
    /\ template = NoUrl
    /\ webhookUrl = NoUrl
    /\ existing = [c \in Channels |-> Absent]
    /\ pos = 1
    /\ pending = {}
    /\ wasInPlace = FALSE
    /\ crashes = 0
    /\ calls = 0
    /\ registered = {}
    /\ subscribed = [c \in Channels |-> {}]

-----------------------------------------------------------------------------
(* The backend that is configured. *)

SaveChannel(c, members) ==
    \/ /\ backend = "sqlite"
       /\ Sq!SaveChannel(c, "context", members)
       /\ UNCHANGED composite
    \/ /\ backend = "composite"
       /\ Co!SaveChannel(c, "context")
       /\ UNCHANGED sqlite

(* The clock is coarse: it goes on with every crash.                       *)
Now == crashes

SaveMember(c, a, n, m) ==
    \/ /\ backend = "sqlite"
       /\ Sq!SaveMember(c, a, m)
       /\ UNCHANGED composite
    \/ /\ backend = "composite"
       /\ Co!SaveMember(c, a, n, m, Now)
       /\ UNCHANGED sqlite

SaveWebhook(c, hook) ==
    \/ /\ backend = "sqlite"
       /\ Sq!SaveWebhook(c, hook)
       /\ UNCHANGED composite
    \/ /\ backend = "composite"
       /\ Co!SaveWebhook(c, hook)
       /\ UNCHANGED sqlite

Exists(c) == (IF backend = "sqlite" THEN channelRows ELSE channelNodes)[c] # Absent

(* The webhooks of a channel: with Neo4j there may be copies. *)
Webhooks(c) == IF backend = "sqlite" THEN SetToBag(webhookRows[c]) ELSE webhookNodes[c]

(* list_channels, with members only where the backend loads them.          *)
ListChannels ==
    [c \in Channels |->
       IF ~Exists(c) THEN Absent
       ELSE IF backend = "sqlite" THEN memberRows[c] ELSE [a \in Agents |-> Absent]]

-----------------------------------------------------------------------------
(* _build_member, with the template t *)
BuildMember(t, a, role) == [role |-> role, url |-> IF a = Human THEN NoUrl ELSE t]

(* a is stored in c the way save_member stores it with the plan's name.    *)
StoredAs(c, a, m) ==
    IF backend = "sqlite" THEN memberRows[c][a] = m
    ELSE /\ memberships[c][PlanName[a]] # Absent
         /\ memberships[c][PlanName[a]].role = m.role
         /\ agentNodes[PlanName[a]] = [agent |-> a, url |-> m.url]

(* Everything is stored as a start with this environment stores it.        *)
InPlace(t, w) ==
    /\ \A i \in DOMAIN Plan :
         LET c == Plan[i].cid
             a == Plan[i].agent
         IN /\ Exists(c)
            /\ a # NoAgent => StoredAs(c, a, BuildMember(t, a, Plan[i].role))
    /\ \A c \in Channels :
         Exists(c) /\ w # NoUrl => \E h \in DOMAIN Webhooks(c) : h.url = w

(* The process starts, with whatever environment it is given now.          *)
Start(t, w) ==
    /\ phase = "down"
    /\ phase' = "bootstrap"
    /\ template' = t
    /\ webhookUrl' = w
    /\ existing' = ListChannels
    /\ pos' = 1
    /\ wasInPlace' = InPlace(t, w)
    /\ UNCHANGED <<backend, sqlite, composite, pending, crashes, calls, asked>>

(* mutant *)
CreatePlanned(c) == SaveChannel(c, [a \in Agents |-> Absent])

(* A channel of the plan that the listing did not have is created.         *)
CreateMissing(c) ==
    IF existing[c] = Absent THEN SaveChannel(c, [a \in Agents |-> Absent])
    ELSE UNCHANGED <<sqlite, composite>>

(* The members of the channel as bootstrap knows them. *)
Known(c, a) == IF existing[c] = Absent THEN Absent ELSE existing[c][a]

(* mutant *)
AddMissing(c, a, role) ==
    IF Known(c, a) = Absent THEN SaveMember(c, a, PlanName[a], BuildMember(template, a, role))
    ELSE UNCHANGED <<sqlite, composite>>

(* A desired member that is missing, or whose url or role differs, is      *)
(* saved as expected.                                                      *)
AddOrUpdate(c, a, role) ==
    LET expected == BuildMember(template, a, role)
    IN IF Known(c, a) # expected THEN SaveMember(c, a, PlanName[a], expected)
       ELSE UNCHANGED <<sqlite, composite>>

(* What the process had not written is lost. *)
Stop ==
    /\ phase' = "down"
    /\ template' = NoUrl
    /\ webhookUrl' = NoUrl
    /\ existing' = [c \in Channels |-> Absent]
    /\ pos' = 1
    /\ pending' = {}
    /\ wasInPlace' = FALSE
    /\ UNCHANGED <<backend, sqlite, composite, calls, asked>>

(* mutant *)
BootStepUnlessPresent ==
    /\ phase = "bootstrap"
    /\ pos \in DOMAIN Plan
    /\ LET e == Plan[pos]
       IN IF e.agent # NoAgent /\ Known(e.cid, e.agent) # Absent
          THEN Stop
          ELSE /\ IF e.agent = NoAgent THEN CreateMissing(e.cid)
                  ELSE AddOrUpdate(e.cid, e.agent, e.role)
               /\ pos' = pos + 1
               /\ UNCHANGED <<backend, phase, template, webhookUrl, existing, pending,
                              wasInPlace, calls, asked>>
    /\ UNCHANGED crashes

BootStep ==
    /\ phase = "bootstrap"
    /\ pos \in DOMAIN Plan
    /\ LET e == Plan[pos]
       IN IF e.agent = NoAgent THEN CreateMissing(e.cid)
          ELSE AddOrUpdate(e.cid, e.agent, e.role)
    /\ pos' = pos + 1
    /\ UNCHANGED <<backend, phase, template, webhookUrl, existing, pending,
                   wasInPlace, crashes, calls, asked>>

(* bootstrap_channels returns; the lifespan lists the channels again.      *)
BootDone ==
    /\ phase = "bootstrap"
    /\ pos \notin DOMAIN Plan
    /\ phase' = "webhooks"
    /\ pending' = {c \in Channels : webhookUrl # NoUrl /\ Exists(c)}
    /\ existing' = [c \in Channels |-> Absent]
    /\ UNCHANGED <<backend, sqlite, composite, template, webhookUrl, pos,
                   wasInPlace, crashes, calls, asked>>

BrainHook(w) == [id |-> "brain", url |-> w, message |-> TRUE]

(* mutant *)
RegisterAlways(c) == SaveWebhook(c, BrainHook(webhookUrl))

(* The dashboard's webhook is registered where no webhook has its url,     *)
(* whoever registered that and for whichever events.                       *)
RegisterMissing(c) ==
    IF \E h \in DOMAIN Webhooks(c) : h.url = webhookUrl
    THEN UNCHANGED <<sqlite, composite>>
    ELSE SaveWebhook(c, BrainHook(webhookUrl))

HookStep(c) ==
    /\ phase = "webhooks"
    /\ c \in pending
    /\ RegisterMissing(c)
    /\ pending' = pending \ {c}
    /\ UNCHANGED <<backend, phase, template, webhookUrl, existing, pos,
                   wasInPlace, crashes, calls, asked>>

Serve ==
    /\ phase = "webhooks"
    /\ pending = {}
    /\ phase' = "serving"
    /\ wasInPlace' = FALSE
    /\ UNCHANGED <<backend, sqlite, composite, template, webhookUrl, existing, pos,
                   pending, crashes, calls, asked>>

(* The process stops, in the middle of a start or later. *)
Crash ==
    /\ phase # "down"
    /\ crashes < MaxCrashes
    /\ crashes' = crashes + 1
    /\ Stop

-----------------------------------------------------------------------------
(* The calls of administrators and clients between two starts.             *)

DeleteChannel(c) ==
    \/ backend = "sqlite" /\ Sq!DeleteChannel(c) /\ UNCHANGED composite
    \/ backend = "composite" /\ Co!DeleteChannel(c) /\ UNCHANGED sqlite

RemoveMember(c, a) ==
    \/ backend = "sqlite" /\ Sq!RemoveMember(c, a) /\ UNCHANGED composite
    \/ backend = "composite" /\ Co!RemoveMember(c, a) /\ UNCHANGED sqlite

DeleteWebhook(c, id) ==
    \/ backend = "sqlite" /\ Sq!DeleteWebhook(c, id) /\ UNCHANGED composite
    \/ backend = "composite" /\ Co!DeleteWebhook(c, id) /\ UNCHANGED sqlite

(* POST of a member: the body gives its name.  Over SQLite the name is a   *)
(* column that nothing reads here.                                         *)
AddMember(c, a, n, m) ==
    /\ Exists(c)
    /\ SaveMember(c, a, n, m)
    /\ registered' = IF backend = "sqlite" THEN registered ELSE registered \cup {<<a, n>>}
    /\ UNCHANGED subscribed

(* POST of a webhook: the body gives its id, its url and its events.       *)
Subscribe(c, hook) ==
    /\ Exists(c)
    /\ SaveWebhook(c, hook)
    /\ subscribed' = [subscribed EXCEPT ![c] = @ \cup {hook.url}]
    /\ UNCHANGED registered

Hook == [id : {"brain", "own"}, url : Urls, message : BOOLEAN]

(* (A PATCH of a channel that saves rows it read earlier leaves rows that  *)
(* other calls leave as well.)                                             *)
Change(c) ==
    \/ SaveChannel(c, [a \in Agents |-> Absent])                   \* POST
    \/ Exists(c) /\ SaveChannel(c, memberRows[c])                  \* PATCH
    \/ Exists(c) /\ DeleteChannel(c)
    \/ \E a \in Agents : RemoveMember(c, a)
    \/ \E id \in {"brain", "own"} : DeleteWebhook(c, id)

Administer(c) ==
    /\ phase = "serving"
    /\ calls < MaxCalls
    /\ calls' = calls + 1
    /\ \/ Change(c) /\ UNCHANGED asked
       \/ \E a \in Agents, n \in Names, role \in Roles, url \in Templates :
             AddMember(c, a, n, [role |-> role, url |-> url])
       \/ \E hook \in Hook : Subscribe(c, hook)
    /\ UNCHANGED <<backend, process, crashes>>

Next ==
    \/ \E e \in Environments : Start(e[1], e[2])
    \/ BootStep
    \/ BootDone
    \/ \E c \in Channels : HookStep(c)
    \/ Serve
    \/ Crash
    \/ \E c \in Channels : Administer(c)

Spec == Init /\ [][Next]_vars

(* A start runs to its end unless the process crashes, and a process that  *)
(* stopped is started again (docker-compose.yml: restart unless-stopped).  *)
Fairness ==
    /\ WF_vars(\E e \in Environments : Start(e[1], e[2]))
    /\ WF_vars(BootStep)
    /\ WF_vars(BootDone)
    /\ WF_vars(\E c \in Channels : HookStep(c))
    /\ WF_vars(Serve)

FairSpec == Spec /\ Fairness

-----------------------------------------------------------------------------
(* What get_channel may show of agent a in channel c: over Neo4j an agent  *)
(* that is there under several names is one of them.                       *)
Shows(c, a) ==
    IF backend = "sqlite" THEN {memberRows[c][a]} \ {Absent}
    ELSE {[role |-> m.role, url |-> m.url] : m \in {k \in Co!MembersOf(c) : k.agent = a}}

(* A client saved a in the graph under the name of another planned agent.  *)
NameTaken(a) == \E b \in Planned \ {a} : <<a, PlanName[b]>> \in registered

(* A client saved a planned agent under a name that the plan has not.      *)
OtherNamed(a) == \E n \in Names \ {PlanName[a]} : <<a, n>> \in registered

(* Messages in the channel are posted to w by one webhook, once.           *)
PostsOnce(c, w) ==
    \E h \in DOMAIN Webhooks(c) :
       /\ h.url = w /\ h.message /\ Webhooks(c)[h] = 1
       /\ \A g \in DOMAIN Webhooks(c) : g.url = w => g = h

(* A webhook that RegisterMissing cannot replace.                          *)
LastingHooks(c) ==
    LET W == Webhooks(c)
    IN [h \in {g \in DOMAIN W : backend = "composite" \/ g.id # "brain"} |-> W[h]]

(* No step of a start, nor a crash in it, takes away a channel, a member   *)
(* or a webhook, whatever administrators did, except: over Neo4j a member  *)
(* a client saved under the name of an agent of the plan, whose node the   *)
(* start takes over; over SQLite a client's webhook of the dashboard's id, *)
(* when the dashboard's url is missing (bootstrap.py:216-228, the lifespan *)
(* of hub/server.py, neo4j_backend.py:131-133, sqlite_backend.py).         *)
BootstrapNeverDeletes ==
    [][phase # "serving" =>
         \A c \in Channels :
            /\ Exists(c) => Exists(c)'
            /\ \A a \in Agents :
                 ~NameTaken(a) /\ Shows(c, a) # {} => Shows(c, a)' # {}
            /\ LastingHooks(c) \sqsubseteq LastingHooks(c)']_vars

(* Whatever the last start left unfinished and administrators changed, at  *)
(* a start that gets to serving every channel of the plan is there and     *)
(* shows every member of the plan with its role and url, and nothing else  *)
(* for it unless a client saved it in the graph under a name of its own    *)
(* choice; and each channel has a webhook for WEBHOOK_URL, which posts     *)
(* messages exactly once unless a client subscribed that url there.        *)
ServesConfigured ==
    [][phase # "serving" /\ phase' = "serving" =>
         /\ \A i \in DOMAIN Plan :
              LET c == Plan[i].cid
                  a == Plan[i].agent
                  expected == BuildMember(template, a, Plan[i].role)
              IN /\ Exists(c)
                 /\ a # NoAgent => expected \in Shows(c, a)
                 /\ a # NoAgent /\ ~OtherNamed(a) => Shows(c, a) = {expected}
         /\ \A c \in Channels :
              Exists(c) /\ webhookUrl # NoUrl =>
                /\ \E h \in DOMAIN Webhooks(c) : h.url = webhookUrl
                /\ webhookUrl \notin subscribed[c] => PostsOnce(c, webhookUrl)]_vars

(* Nothing but the times when members of the plan were saved changes.      *)
OnlyTimesChange ==
    /\ UNCHANGED <<sqlite, channelNodes, agentNodes, webhookNodes, points>>
    /\ \A c \in Channels, n \in Names :
         memberships[c][n]' # memberships[c][n] =>
           /\ \E i \in DOMAIN Plan : /\ Plan[i].cid = c /\ Plan[i].agent # NoAgent
                                     /\ PlanName[Plan[i].agent] = n
           /\ memberships[c][n]' = [memberships[c][n] EXCEPT !.since = Now]

(* A start that finds everything in place changes nothing in SQLite, and   *)
(* in Neo4j, whose listing has no members, only when the members of the    *)
(* plan were saved (bootstrap.py:185, 219, neo4j_backend.py:79, 136-138).  *)
SecondStartChangesNothing ==
    [][wasInPlace /\ phase \in {"bootstrap", "webhooks"}
         => OnlyTimesChange /\ (backend = "sqlite" => UNCHANGED composite)]_vars

(* Once it stops crashing the hub comes to serve, under FairSpec.          *)
EventuallyServes == <>[](phase = "serving")

-----------------------------------------------------------------------------
(* What the documentation says and the code does not do.                   *)

(* bootstrap.py:2, 181: "Idempotent".  A start that finds everything as    *)
(* the last one left it leaves the store alone.                            *)
Idempotent ==
    [][wasInPlace /\ phase \in {"bootstrap", "webhooks"}
         => UNCHANGED <<sqlite, composite>>]_vars
=============================================================================
