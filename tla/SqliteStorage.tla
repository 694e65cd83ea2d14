---------------------------- MODULE SqliteStorage ----------------------------
(***************************************************************************)
(* storage/sqlite_backend.py: four tables.  The members, messages and      *)
(* webhooks of a channel refer to its row ON DELETE CASCADE, foreign keys  *)
(* are on, and every method is one transaction on the event loop's thread, *)
(* so one atomic, durable step.  An action that a row's foreign key would  *)
(* reject is not enabled: the method raises and changes nothing.           *)
(***************************************************************************)
EXTENDS Integers, Sequences, Filters

CONSTANTS
    Agents,
    Absent          \* the value of a row that is not there

VARIABLES
    channelRows,    \* the context_id of a channel id, or Absent
    memberRows,     \* the member of a channel id and an agent id, or Absent
    messageRows,    \* the messages [id, cid, rec] by timestamp; id is the key
    webhookRows     \* a channel's webhooks [id, url]; id is the key

NoMembers == [a \in Agents |-> Absent]

HasChannel(c) == channelRows[c] # Absent

(* What disappears with the row of a channel, besides its members.         *)
Cascade(c) ==
    /\ messageRows' = Filter(messageRows, LAMBDA m : m.cid # c)
    /\ webhookRows' = [webhookRows EXCEPT ![c] = {}]

(* mutant *)
SaveChannelRowOnly(c, ctx, members) ==
    /\ channelRows' = [channelRows EXCEPT ![c] = ctx]
    /\ memberRows' = [memberRows EXCEPT ![c] = NoMembers]
    /\ Cascade(c)

(* INSERT OR REPLACE deletes the row it replaces, and with it all that     *)
(* refers to it; only the members of the saved channel are inserted again. *)
SaveChannel(c, ctx, members) ==
    /\ channelRows' = [channelRows EXCEPT ![c] = ctx]
    /\ memberRows' = [memberRows EXCEPT ![c] = members]
    /\ Cascade(c)

(* mutant *)
DeleteChannelWithoutCascade(c) ==
    /\ channelRows' = [channelRows EXCEPT ![c] = Absent]
    /\ memberRows' = [memberRows EXCEPT ![c] = NoMembers]
    /\ UNCHANGED <<messageRows, webhookRows>>

DeleteChannel(c) ==
    /\ channelRows' = [channelRows EXCEPT ![c] = Absent]
    /\ memberRows' = [memberRows EXCEPT ![c] = NoMembers]
    /\ Cascade(c)

SaveMember(c, a, member) ==
    /\ HasChannel(c)
    /\ memberRows' = [memberRows EXCEPT ![c][a] = member]
    /\ UNCHANGED <<channelRows, messageRows, webhookRows>>

RemoveMember(c, a) ==
    /\ memberRows' = [memberRows EXCEPT ![c][a] = Absent]
    /\ UNCHANGED <<channelRows, messageRows, webhookRows>>

(* A message replaces the one with its id, whatever channel that is in.    *)
SaveMessage(id, c, rec) ==
    /\ HasChannel(c)
    /\ messageRows' = Append(Filter(messageRows, LAMBDA m : m.id # id),
                             [id |-> id, cid |-> c, rec |-> rec])
    /\ UNCHANGED <<channelRows, memberRows, webhookRows>>

SaveWebhook(c, hook) ==
    /\ HasChannel(c)
    /\ webhookRows' = [webhookRows EXCEPT ![c] =
                         {h \in @ : h.id # hook.id} \cup {hook}]
    /\ UNCHANGED <<channelRows, memberRows, messageRows>>

DeleteWebhook(c, id) ==
    /\ webhookRows' = [webhookRows EXCEPT ![c] = {h \in @ : h.id # id}]
    /\ UNCHANGED <<channelRows, memberRows, messageRows>>

(* A channel's messages, oldest first. *)
History(c) ==
    LET rows == Filter(messageRows, LAMBDA m : m.cid = c)
    IN [i \in DOMAIN rows |-> rows[i].rec]

(* mutant *)
MessagePageAscending(c, limit, offset) ==
    LET h == History(c)
    IN SubSeq(h, offset + 1, IF offset + limit < Len(h) THEN offset + limit ELSE Len(h))

(* get_messages: skip `offset' messages from the newest back, take `limit' *)
(* more, and show those oldest first.                                      *)
MessagePage(c, limit, offset) ==
    LET h == History(c)
        last == Len(h) - offset
    IN SubSeq(h, IF last > limit THEN last - limit + 1 ELSE 1, last)
=============================================================================
