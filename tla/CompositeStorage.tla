-------------------------- MODULE CompositeStorage --------------------------
(***************************************************************************)
(* storage/composite.py: channels, members and webhooks in a Neo4j graph   *)
(* (storage/neo4j_backend.py), messages as points of a Qdrant collection   *)
(* (storage/qdrant.py).  Each method is one query to one of the services;  *)
(* what a query does is modelled from its text.                            *)
(*                                                                         *)
(* An Agent node is found by the name a member is registered under and     *)
(* shared by all channels; only the role belongs to the membership, and    *)
(* the time it was last saved (joined_at, and messages_sent and            *)
(* last_active, which are reset with it).                                  *)
(***************************************************************************)
EXTENDS Naturals, Sequences, Bags, Filters

CONSTANTS
    Agents,
    Names,
    Absent          \* the value of a node or a relationship that is not there

VARIABLES
    channelNodes,   \* the context_id of a channel id, or Absent
    agentNodes,     \* the Agent node [agent, url] of a name, or Absent
    memberships,    \* HAS_MEMBER [role, since] of a name in a channel, or Absent
    webhookNodes,   \* HAS_WEBHOOK: a channel's webhooks [id, url], a node each
    points          \* the messages [cid, rec] by timestamp

(* Webhook nodes have no key: a channel has a bag of them. *)
NoWebhooks == EmptyBag

(* MERGE: an existing node keeps its relationships. *)
SaveChannel(c, ctx) ==
    /\ channelNodes' = [channelNodes EXCEPT ![c] = ctx]
    /\ UNCHANGED <<agentNodes, memberships, webhookNodes, points>>

(* mutant *)
DeleteChannelNode(c) ==
    /\ channelNodes' = [channelNodes EXCEPT ![c] = Absent]
    /\ UNCHANGED <<agentNodes, memberships, webhookNodes, points>>

(* DETACH DELETE: the relationships go with the node, the messages stay.   *)
DeleteChannel(c) ==
    /\ channelNodes' = [channelNodes EXCEPT ![c] = Absent]
    /\ memberships' = [memberships EXCEPT ![c] = [n \in Names |-> Absent]]
    /\ webhookNodes' = [webhookNodes EXCEPT ![c] = NoWebhooks]
    /\ UNCHANGED <<agentNodes, points>>

(* mutant *)
SaveMemberOnCreate(c, a, n, member, now) ==
    IF channelNodes[c] = Absent
    THEN UNCHANGED <<channelNodes, agentNodes, memberships, webhookNodes, points>>
    ELSE /\ agentNodes' = IF agentNodes[n] # Absent THEN agentNodes
                          ELSE [agentNodes EXCEPT ![n] = [agent |-> a, url |-> member.url]]
         /\ memberships' = [memberships EXCEPT ![c][n] = [role |-> member.role, since |-> now]]
         /\ UNCHANGED <<channelNodes, webhookNodes, points>>

(* Agent a is saved under the name n: a node of that name becomes a's,     *)
(* whoever's it was.  Without a channel to MATCH, a query does nothing.    *)
SaveMember(c, a, n, member, now) ==
    IF channelNodes[c] = Absent
    THEN UNCHANGED <<channelNodes, agentNodes, memberships, webhookNodes, points>>
    ELSE /\ agentNodes' = [agentNodes EXCEPT ![n] = [agent |-> a, url |-> member.url]]
         /\ memberships' = [memberships EXCEPT ![c][n] = [role |-> member.role, since |-> now]]
         /\ UNCHANGED <<channelNodes, webhookNodes, points>>

RemoveMember(c, a) ==
    /\ memberships' = [memberships EXCEPT ![c] =
                         [n \in Names |-> IF /\ agentNodes[n] # Absent
                                             /\ agentNodes[n].agent = a
                                          THEN Absent ELSE @[n]]]
    /\ UNCHANGED <<channelNodes, agentNodes, webhookNodes, points>>

(* Every message becomes a new point; nothing ever removes one. *)
SaveMessage(c, rec) ==
    /\ points' = Append(points, [cid |-> c, rec |-> rec])
    /\ UNCHANGED <<channelNodes, agentNodes, memberships, webhookNodes>>

SaveWebhook(c, hook) ==
    /\ webhookNodes' = IF channelNodes[c] = Absent THEN webhookNodes
                       ELSE [webhookNodes EXCEPT ![c] = @ (+) SetToBag({hook})]
    /\ UNCHANGED <<channelNodes, agentNodes, memberships, points>>

DeleteWebhook(c, id) ==
    /\ webhookNodes' = [webhookNodes EXCEPT ![c] =
                          [h \in {g \in DOMAIN @ : g.id # id} |-> @[h]]]
    /\ UNCHANGED <<channelNodes, agentNodes, memberships, points>>

(* get_channel: the members of a channel.  An agent of two names may be    *)
(* there twice; which of the two the code takes is up to the database.     *)
MembersOf(c) ==
    {[agent |-> agentNodes[n].agent, url |-> agentNodes[n].url,
      role |-> memberships[c][n].role] : n \in {m \in Names : memberships[c][m] # Absent}}

History(c) ==
    LET here == Filter(points, LAMBDA p : p.cid = c)
    IN [i \in DOMAIN here |-> here[i].rec]
=============================================================================
