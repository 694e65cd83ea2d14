# A2A Group Chat Hub: formal model

TLA+ specifications of the group chat hub under `src/` (package directory
`src/src`, demo agents in `src/agents`), the TLC configurations that check them
on small instances, and TLAPS proofs of theorems about them. Paths below are
relative to `src/src` unless they start with `src/`, `tests/`, `docs/` or `agents/`.

The hub receives a message for a channel, stores it, sends it to every other
member of the channel over HTTP, stores the answers and returns them. It is one
Python process with one asyncio event loop; everything hard about it comes from
what other requests, administrators, clients and agents do while a request is
suspended.

## 1. Inventory

| Component | State | Operations | Correct when |
|---|---|---|---|
| In-memory store (`storage/memory.py`, `channels/`) | channels by id, their members (shared mutable objects), messages and webhooks by id | create, save, delete channel; add, remove, patch member; save message; save, delete webhook | history is append-only until its channel is deleted; an id names one conversation |
| Request handlers (`hub/handler.py`) | per-request locals across suspension points; `_tasks`, `_background_tasks`; `message_count` | blocking, async and streaming send; background dispatch; cancel; close | replies are stored after their message and contiguously, all of them by a send that ends normally and none by one that is dropped or cancelled; counts agree with broadcasts; no request survives close; every send ends |
| Fan-out engine (`hub/fanout.py`) | snapshot of the targets, results so far, observer tasks | `fan_out`, `_send_to_agent` | every target of the snapshot is called once; no echo to the sender; observers are told apart from peers |
| Webhook dispatcher (`notifications/webhooks.py`) | POST tasks in flight | `dispatch`, `_deliver` | each stored message is posted to the webhooks registered then, unless it raises |
| REST API (`hub/server.py`) | none of its own; values read before `await request.json()` | 13 endpoints | overlapping calls look as if made one after the other |
| Aggregator (`hub/aggregator.py`) | none (pure) | `all`, `first`, `voting` | success counts and the chosen artifacts agree with the results |
| SQLite backend (`storage/sqlite_backend.py`) | four tables with foreign keys | the storage interface | agrees with the in-memory store on channels and, but for stale PATCHes, on members; shows no message that store lacks |
| Composite backend (`storage/composite.py`, `neo4j_backend.py`, `qdrant.py`) | a graph and a vector collection | the storage interface | shows every member that has a name of its own; forgets no message |
| Bootstrap (`bootstrap.py`, `lifespan` in `hub/server.py`) | what it listed when it began; runs at each start | creates channels, adds and updates members, registers the dashboard's webhook | repairs what a crash left half done, takes nothing away, changes nothing when all is in place (it does: section 3) |
| LLM agent (`agents/llm_agent.py`) | one capped conversation history per context | `execute` | turns alternate again after an overlap; the cap holds |
| Metrics (`observability/metrics.py`) | counters, a window of 1000 samples | `record_*`, `to_prometheus` | percentiles are samples of the window |
| Telegram bridge (`telegram/`) | two routing tables | both directions | a message reaches the hub or the topic it names |
| Demo agent, runner (`agents/`) | none | echo | nothing to check |

Interactions: the REST API and the A2A endpoint call the handlers; handlers read
and write the store through the registry and call the fan-out engine and the
webhook dispatcher; dispatches, observer notifications and webhook POSTs are
separate asyncio tasks that report back through done callbacks or not at all;
shutdown goes through `lifespan`, which calls `GroupChatHub.close`.

Hard behaviours: a handler keeps a Channel *object* across suspensions while the
id may be deleted, replaced or its members edited; a dispatch resolves its
channel again after the client had its 202; three handlers keep different
subsets of the results; a generator may be dropped at any `yield`; close cancels
tasks wherever they are; webhook tasks overtake each other; the webhook dispatcher
may raise in the middle of a loop of saves; over a database a handler saves the copy
it read before it awaited its body; clients choose names and ids by which other
things are found. `PROJECT.json` lists
each hazard at its line, with the properties that watch it.

## 2. Modules

### ChannelStore

The store as `storage/memory.py` keeps it. None of its coroutines suspends, so an
operation is one step. A Channel is an object shared by reference: `live[c]` is
the object registered under id `c`, `home[o]` the id of an object, `members[o]`
its members (role, and whether the url is empty). Each object is created with a
fresh `context_id`, so the object stands for its context. `history[c]` is the list
of messages under an id and `hooks[c]` its webhooks for the `message` event.

### GroupChatHub

Handlers, fan-out and webhook dispatcher over `ChannelStore`. One action is the
code between two real suspension points:

| `pc[r]` | suspended at | goes on with |
|---|---|---|
| `idle` | not arrived | `Refuse`, `OnMessageSend`, `SendAsync`, `OnMessageSendStream` |
| `scheduled` | `create_task(dispatch_async)` | `DispatchStart` |
| `announced` | first `yield` of the stream | `StreamFanOut` |
| `sending` | `client.send_message` (`hub/fanout.py`:149) | `AgentAnswers`, `LastAgentAnswers`, `LastAgentAnswersStream` |
| `pausing` | `asyncio.sleep(fan_out_delay)` | `PauseOver` |
| `emitting` | `yield` of an artifact | `StreamEmit`, `StreamFinish` |

A request ends as `done` (ran to its end), `saved` (async from another sender than
the human: stored only), `dropped` (a dispatch whose channel is gone), `rejected`,
`cancelled`, or with the exception of the webhook dispatcher: `unsent` when its own
message was being posted, `cut` when its first reply was. The dispatcher tests
`event.event in wh.events` (`notifications/webhooks.py`:34), which raises where a
client registered a webhook with `"events": null`; `Broken` are such webhooks.
`Raises` says that one is registered, `Reached` which webhooks the message was posted
to by then: all, or, because the model keeps no order of webhooks, any part of those
that are not broken. (SQLite stores and returns the null as memory does; Neo4j drops
it and reads `["message"]`.) `FanOut` is what `fan_out` does up to its first await, and is part
of whichever action reaches it; with no target the handler finishes in the same
step. `LastAgentAnswers` contains the whole save loop (`SaveReplies`), its webhooks, the
count and the Task, because no await in it suspends on the in-memory store. `Deliver`,
`ObserverNotified` and `DispatchDone` are the tasks nobody waits for. `RestApi` is
the environment: any operation of the store at any moment before shutdown. It is
more general than the REST handlers (it may save or patch an object read at any
earlier time), so what holds under it holds under them.

`Deliver` ends a POST, with or without success: the code does not look. A POST's task
is referenced by nobody, so shutdown may drop it; no property is about what becomes
of a POST. Tasks that notify observers are not cancelled by `close` either.

Abstractions, all of data: a message is its request; a result is `text`, `error`
or `blank` (an empty text or an exception with an empty message, which the
handlers treat alike); a sender that resolves through `context_id` or not at all
uses the same metadata; members are iterated in dictionary order in the code and
in any order here; the aggregated Task is its status only. Each request id stands
for one request, so `Requests` bounds how many are made.

Two facts come from outside `src/`: uvicorn lets the HTTP requests it serves
finish before the shutdown half of `lifespan` runs (the guard of `Close`), and
Starlette cancels a streaming response's generator when its client leaves
(`StreamDisconnect`) but not a plain handler.

### Aggregator

What a blocking send does with its results (`hub/aggregator.py`): `Collect` appends
results in call order, `Aggregate` computes the Task. The voting Counter is a
sequence of ballots in insertion order, because `most_common` breaks ties by it; the
normalisation of an answer (`strip().lower()`) is a function `Normal` onto ballots.
A result is a text, an error, or neither, which is what truth-value tests see.
`MCAggregator` gives two spellings of one ballot and one of another.

### MCGroupChatHub

The instance TLC checks: one channel `c1`, booted as object `o1` with a human
owner without url and two peers; `o2` is free for a second creation.

### Broadcast and HubBroadcast

`Broadcast` is the abstract specification of a send, without channels, storage,
modes or suspension points: the targets are fixed once, asked one at a time and
each once, and the send is complete when all have answered, unless it is given up
before. `HubBroadcast` maps the hub onto it: `Phase` folds the `pc` of the three
handlers into its five phases, `targets` is the snapshot `sendable`, `asked` the
answered agents and the awaited one. A stream whose client leaves between two
artifacts stays complete: its fan-out was over. The abstract behaviour is checked
as a property of the hub (`ImplementsBroadcast`), and the abstract promise that
every target is heard under the hub's fairness (`HearsEveryTarget`).

### RestApi

The administrative endpoints over `ChannelStore`. `create_channel`,
`patch_channel`, `add_member`, `patch_member` and `create_webhook` suspend in
`await request.json()`, so each is two steps: `Finds` (what it looked up; a `404`
is `FindsNothing`) and, with the body, `Create`, `Patch`, `Add`,
`PatchFound`/`PatchRefused` or `AddHook`; `BadBody` is a body without JSON or
without a required field. The handlers without a body are one step. `held[q]` is the Channel object a
suspended handler keeps. `patch_member` keeps a ChannelMember object too;
`attached[q]` says whether the channel still holds that very object, and `Detach`
clears it when the member is removed or replaced. It assigns the role before the url
(`FieldOrder`), so a role that is none raises before anything is assigned
(`Assigned`): `Patched` with the fields in the other order would leave the url behind
on a call that is refused, and the linearizability below would fail.

`book` is the linearizability witness: what each id would hold if every call took
effect at once at its reply. `raced` becomes true when a call answers "ok" although
the channel or member it found is gone, which the code does in four places.
`ImplementsStore` ties the module to the hub: its steps on the store are
`StoreOperation`s, the environment `GroupChatHub` is checked and proved under.

### SqliteStorage, CompositeStorage, StorageBackends

`SqliteStorage` is the four tables of `storage/sqlite_backend.py` with the cascade
of their foreign keys; an insert the foreign key rejects is not enabled (the method
raises). `CompositeStorage` is the effect of each Cypher query on the graph (MERGE
keeps relationships, DETACH DELETE drops them, a MATCH that finds nothing does
nothing, Agent nodes are found by name, each save of a membership sets its times
anew) and the Qdrant collection, which only grows.
The webhooks of a channel are a bag: their nodes have no key, so one that is saved
again is there twice, and `list_webhooks` returns them in no particular order.
`StorageBackends` makes the same calls of the in-memory store of `ChannelStore` and
of both, handler by handler, and states how far they agree. A PATCH of a channel is
two steps: `ReadToPatch` (`hub/server.py`:143) takes the object of the memory store,
and the copies the databases give; `Patch` (:146-154), when the body is there, saves
each. A late one brings a deleted channel back: with its members in memory and in
SQLite, as a bare node in the graph. The name of a member is part of the call, so an
agent may have several nodes in the graph, and a node may pass from one agent to
another. What then holds: SQLite agrees on channels, contexts and members, except
(`unsaved`) on the members that were added or removed while the PATCH that saved the
channel last awaited its body; the graph, for the agents that have a name of their own
and the channels no late PATCH brought back (`late`), shows the members, others only
in a channel created over, and one url per agent in all channels; the histories as a sandwich (SQLite's is part of the in-memory one, which is
the latest part of Qdrant's); the webhooks nested likewise, whichever ids clients give twice. `Add` and `Subscribe`
may come to a channel that is gone, and `Reply` comes whenever it likes: these are
the late calls that the other modules show to happen. A member's PATCH changes the
in-memory object alone, so `patched` exempts its profile. `Filters` holds the one
operator they share, `SelectSeq` written as a recursive function so that it can be
proved about.

### Bootstrap

A start of the server over either persistent backend: `Start` lists the channels,
`BootStep` makes one iteration of the loops of `bootstrap_channels` (the constant
`Plan` is the topology laid out in order), `HookStep` one of the webhook
registration in `lifespan`, then `Serve`. Each write is durable by itself and
`Crash` may come between any two. `Administer` is a call while serving, with any
name for a member, and any id, url and events for a webhook: also a planned agent's
name for another agent, the id `brain-<channel>` and the url of the dashboard. Each
start may get another `AGENT_URL_TEMPLATE` and `WEBHOOK_URL`. `PlanName` is the name
`_build_member` gives an agent (`capitalize`; the ids of either topology keep apart
under it). The listing of Neo4j has no members, so over it every member is saved
again, which takes over a node of the planned name and sets the times of the
membership anew (`since`; the clock goes on with every crash).

### LlmAgent

`execute` of `agents/llm_agent.py`: `Execute` up to the call of the model,
`ModelAnswers` from there to the cap (a failure is an answer), `ExecuteEcho` when
there is no API key. The history of a context is the sequence of its roles. Which
of several awaited executions is answered makes no difference to roles, so they are
a number. `calm` counts the executions since the last overlap.

### Proof modules

`GroupChatHubProofs`, `HubDeliveryProofs`, `RestApiProofs` (which begins with the
store), `StorageBackendsProofs`, `BootstrapProofs`, `LlmAgentProofs` and
`AggregatorProofs` each extend the module they are about and hold the theorems of
section 4. `SequenceLemmas` is what the last of them and the backends need of loops
over sequences: an induction rule for the installed provers, which cannot
instantiate the library's.

Definitions marked `mutant` are bugs the code might have had. Each property of
a passing run has one; put in the place of the definition it varies, it makes TLC find the property
violated, which shows that the property can see such a bug.

## 3. What is checked

| Run | Instance | Shows |
|---|---|---|
| `HubSends.cfg` | 2 requests in any mode, a pause between calls, 1 storage operation (a webhook of null events among them), shutdown | `FanOutPartition`, `RepliesAreKeptAnswers`, `HistoryOrder`, `RepliesFitTheEnd`, `CountIsCompletedBroadcasts`, `ClosedIsQuiet`, `ImplementsBroadcast` |
| `HubRaces.cfg` | 1 request by the human, a peer or nobody, broadcast or directed, 3 storage operations, a webhook and one of null events | `TypeOK`, `NoEcho`, `TasksComeLate`, `RepliesFitTheEnd`, `HistoryOnlyGrows`, `StoredIsPosted` |
| `HubLiveness.cfg` | 1 request in any mode, 2 storage operations, a webhook of null events, fairness | `SendsEnd`, `BackgroundDrains`, `HearsEveryTarget` |
| `Aggregation.cfg` | every sequence of up to 4 results, every strategy | `VotingIsPlurality`, `FirstAnswers`, `CountsMatchArtifacts` |
| `RestApi.cfg` | 4 calls of any kind, 2 channel ids, 3 objects, 2 agents, 2 webhooks | `TypeOK`, `AtomicUnlessStale`, `OnlyPatchRevives`, `ImplementsStore` |
| `StorageBackends.cfg` | 7 steps, 2 channel ids, 3 objects, 2 agents, 2 names, 1 PATCH of a channel in flight, 2 requests with one message id, 2 webhooks with one id | `SqliteKeepsMembers`, `GraphCoversMembers`, `HistorySandwich`, `WebhooksNested`, `PagesCoverHistory` |
| `Bootstrap.cfg` | 2 channels that share their owner, both backends, 3 names, 2 webhook ids and urls, the dashboard's among them, 3 starts, 2 crashes, 2 administrative calls, fairness | `BootstrapNeverDeletes`, `ServesConfigured`, `SecondStartChangesNothing`, `EventuallyServes` |
| `LlmAgent.cfg` | 10 messages in 2 contexts, caps 1 to 4 and 6 | `HistoryBounded`, `TurnsRecover` |
| `SqlitePatch.cfg` | `StorageBackends` with 1 channel, 1 request, 5 calls | `SqlitePatchKeepsHistory` is violated |
| `HubContext.cfg` | 1 async request, 2 storage operations | `OneContextPerChannel` is violated |
| `HubFinalEvent.cfg` | 1 stream, no storage operation | `FinalEventCountsResults` is violated |
| `BootstrapIdempotent.cfg` | as `Bootstrap.cfg`, with 2 starts and no call | `Idempotent` is violated |

Bounds. Two requests are what interference between sends needs: the store and the
counters are the only state they share, and each shared step is atomic. Two peers
give a first, a last and a pause between; together with the human they are enough
for an observer (by patching a peer) next to a target. Three storage operations
allow delete, create again and add a member during one send, the longest sequence
the hazards name; two objects allow one re-creation. The bounds in guards
are `MaxStoreOps` (the hub), `MaxSteps` (storage), `MaxCrashes` and `MaxCalls`
(bootstrap) and `MaxExecutions` (LLM agent). Both outcomes that differ for
the handlers appear in one of the runs: `error` in `HubSends`, `blank` in
`HubRaces`.

Four results allow a two-to-two tie, a
majority and a late valid answer after blanks and errors.

Four overlapping calls are enough for the longest race of the endpoints: a PATCH
that waits for its body while the channel is deleted and created again and a member
is added. Seven steps on the storage allow a channel created, filled, deleted, created
again and written to late, a member added or removed between the two steps of a
PATCH and looked for after another, and an agent that is registered under the name of
another. Two crashes leave a start
that was interrupted, interrupted again, and one that completes; two administrative
calls allow deleting and adding, or taking a name or the dashboard's url and then its
id. Three names are the plan's two and one of a client's. Ten executions allow an overlap to fill a cap of 6
and three calm ones to clear it. `SYMMETRY` is used where neither a definition nor an input
names a member of the permuted sets, and never in a run with a liveness property
(the refinement in `HubSends.cfg` is the safety part only).

`CHECK_DEADLOCK FALSE`: requests are finite and the server may be shut down, after
which the system stops for good; an aggregation ends with its Task.

Fairness (`FairSpec`). Weak fairness of each request's progress, of the done
callbacks and of observer tasks: the event loop runs every ready task, the fan-out
client's timeout (600 s, `hub/fanout.py`:37) ends a call to an agent that says
nothing, and a stream is consumed by the server's own response task. The timeout is
of each read, not of the call: an agent that sends a byte now and then is outside this
assumption, and can hold its request for ever. Nothing is assumed of webhook POSTs,
clients, administrators or shutdown.

`Bootstrap` assumes that a start goes on unless it crashes and that a stopped
process is started again (`restart: unless-stopped` in `src/docker-compose.yml`);
crashes are bounded by `MaxCrashes`, without which no start need ever end.

### Disagreements between the repository and its code

* `SqlitePatchKeepsHistory`: docs/api-reference.md:74 says that a PATCH of a channel
  updates only the fields it is given. Over SQLite, `save_channel` replaces the
  channel's row (`storage/sqlite_backend.py`:104), and the cascade of the replaced
  row deletes the channel's messages and webhooks.
* `OneContextPerChannel`: README.md:155 says that all messages in a channel share a
  `contextId`. Creating a channel again under its id keeps the history and changes
  the context; an async send in flight then has its message and its replies stored
  under two contexts.
* `FinalEventCountsResults`: a stream ends with "All N agents responded"
  (`hub/handler.py`:357). N counts the peers before the first yield; a directed
  message reaches one.
* `Idempotent`: `bootstrap.py`:2 and :181 call the bootstrap idempotent. Over Neo4j a
  second start of the same environment saves every member again, because the listing
  has no members, and each save sets `joined_at`, `messages_sent` and `last_active`
  anew (`storage/neo4j_backend.py`:136-138). `SecondStartChangesNothing` says what is
  true instead: nothing else changes, and over SQLite nothing at all.

Exceptions that properties name, and the documents do not: `bootstrap.py`:6 says that
a start "never deletes", but over Neo4j it takes over the node of another agent that a
client registered under the name of an agent of the topology, and over SQLite it
replaces a client's webhook that has the id `brain-<channel>`
(`BootstrapNeverDeletes`); a client that subscribed the dashboard's url, for whichever
events, keeps the dashboard's own webhook from being registered
(`ServesConfigured`).

Seen while reading, not checked by a run: "All errored — return first error"
(`hub/aggregator.py`:99), where `first` returns `results[0]` whatever it is, so with an
empty answer before an error it shows "[No response]"; `tests/test_permissions.py`:29 expects
non-members to be refused, which `check_can_send` allows; README.md:77 says
the fan-out runs in parallel with `asyncio.gather` and README.md:564 that a stream
yields as each peer responds, while the engine calls agents in turn and the stream
waits for the last; a stream stores neither message nor replies; `agent_timeout`
is stored and never used; `docs/architecture.md` says that the aggregated result
is persisted, while the replies are, one by one; `get_channel_messages` calls
`isoformat` on the timestamp, which Qdrant returns as a string; a changed
`WEBHOOK_URL` leaves the webhook with the old one registered in Neo4j.

## 4. What is proved

TLAPS checks the following for every value of the constants that satisfies the
assumptions of the module. The bounds of the runs are constants too, so a theorem
holds whatever they are.

| Module | Theorem | Property |
|---|---|---|
| `GroupChatHubProofs` | `TypeCorrect` | `TypeOK` |
| | `FanOutPartitions` | `FanOutPartition` |
| | `NeverEchoes` | `NoEcho` |
| | `CloseQuiets` | `ClosedIsQuiet` |
| | `TasksFollowBroadcasts` | `TasksComeLate` |
| | `RepliesListAnswers` | `RepliesAreKeptAnswers` |
| | `CountsBroadcasts` | `CountIsCompletedBroadcasts` |
| | `HistoryIsAppendOnly` | `HistoryOnlyGrows` |
| `HubDeliveryProofs` | `HubImplementsBroadcast` | `ImplementsBroadcast` |
| | `HistoriesAreOrdered` | `HistoryOrder` |
| | `RepliesFitTheirEnd` | `RepliesFitTheEnd` |
| | `StoredMessagesArePosted` | `StoredIsPosted` |
| `RestApiProofs` | `StoreInvariant` | (any sequence of storage operations) |
| | `RestTypeCorrect` | `TypeOK` |
| | `CallsAreAtomic` | `AtomicUnlessStale` |
| | `EndpointsImplementStore` | `ImplementsStore` |
| | `OnlyPatchesRevive` | `OnlyPatchRevives` |
| `StorageBackendsProofs` | `SqliteKeepsTheMembers` | `SqliteKeepsMembers` |
| | `GraphCoversTheMembers` | `GraphCoversMembers` |
| | `WebhooksStayNested` | `WebhooksNested` |
| | `HistoriesAreSandwiched` | `HistorySandwich` |
| | `PagesShowEveryMessage` | `PagesCoverHistory` |
| `BootstrapProofs` | `StartsEndConfigured` | `ServesConfigured` |
| | `RestartsChangeOnlyTimes` | `SecondStartChangesNothing` |
| | `BootstrapKeepsWhatIsThere` | `BootstrapNeverDeletes` |
| `LlmAgentProofs` | `HistoriesAreBounded` | `HistoryBounded` |
| | `TurnsAlternateAgain` | `TurnsRecover` |
| `AggregatorProofs` | `FirstIsTheEarliest` | `FirstAnswers` |
| | `AllCountsItsArtifacts` | `CountsMatchArtifacts` |
| | `VotingFindsAPlurality` | `VotingIsPlurality` |

**The hub.** The argument goes in layers, each inductive relative to those before it.

1. `TypeInv` is `TypeOK` with `Located`: a registered object knows its id, and a
   request that holds an object holds a constructed one. Without it, the id a
   handler stores under need not be a channel id, and `TypeOK` is not inductive.
2. `FanOutInv` joins `Split` (the partition of the snapshot), `Apart` (the
   snapshot against sender, observers and recipient) and `NotBegun` (before the
   fan-out all of this is empty). `NotBegun` is what makes a fan-out start clean;
   the other two then follow from step to step.
3. `LifeInv` ties a request's mode to where it can be suspended, which gives the
   theorems on close and on Tasks.
4. `RepliesAreKeptAnswers` is inductive given `FanOutInv`: the awaited agent has
   not answered yet, so appending it repeats nobody.
5. `CountInv` adds that the set of broadcasts completed on an object is finite,
   so that adding one raises its cardinality by one.
6. `HistoryOnlyGrows` is an action property: only `SaveMessages` and
   `DeleteChannel` change a history.
7. `MapInv` adds to these that a stream emits only if it had targets. Under it each
   action of the hub moves one request in the abstract as an action of `Broadcast`
   does and leaves the others (lemmas `ArrivalMaps` to `CloseMaps`).
8. `RecordInv` is about the history. `HistoryOrder` and `RepliesFitTheEnd` are
   not inductive: nothing in them says where the replies of a request under way
   will go. `HistInv` says that a request's message is only under the id its
   parameters name, that there are no replies before it is `Over` (done or cut), and
   that then they stand as one `Block` after the message, all or the first; `HeldInv` that the object the
   handler holds is of that id, although the id may meanwhile name another object
   or none; `PostsInv` that what is being posted of an unfinished request is its
   message. Each step stores a message, stores one request's replies, or keeps every
   history but one that is erased (`WhatChangesHistory`).

**The store and its endpoints.** `StoreInv` adds to the types that a registered
object knows its id, hence is registered once. `RestInv` adds `KnowsChannel`: the
object a suspended call holds was registered under the id it was called with. With
that, the store after each reply is what `book` says, until a call is `raced`.

**The backends.** Neither `SqliteKeepsMembers` nor `GraphCoversMembers` is inductive.
A PATCH saves a copy it read earlier, so `CopyAt` says of each PATCH in flight what
`SqliteAt` says of each channel: the copy `Agrees` with the object it was read from,
except on the members `changed` since; when it is saved, those become the channel's
`unsaved`. The graph finds members through Agent nodes, so `NodesInv` says that a node
is of an agent registered under its name, that one that is the agent's `Own` has the
url of its latest registration, and that whoever is in a channel has a node;
`MembershipAt` states the property by an agent and its own name, not by the set that
the query returns. Neither invariant needs names to be fixed: an agent that loses its
name to another is no longer `Own`.

For the histories, `HistoryInv` says how the three came about: SQLite's is the
in-memory one filtered by some set of records, and the in-memory one is the end of
Qdrant's. That makes `HistorySandwich` inductive but for one case: a record stored
twice would be in the set already, and appending it to memory alone would put it in
the filtered history too. So `HistoryIsRecorded` says that the records of a request
that has not stored them are in no history, and `SentHome` that the object a request
was sent to has an id. A filter is handled through its recursion equation (`Keep` and
`NewTo` in `SequenceLemmas`): what it makes of an appended element, of a set that
grows by an element new to the sequence, and of a filtered sequence.

`PagesCoverHistory` needs no state, only the page arithmetic: pages from the oldest
join to a prefix of the history that grows by a page, up to all of it; pages from the
newest join, last page first, to a suffix. `PagesFromTheOldest` and
`PagesFromTheNewest` hold for every page size, the property is about 1 to 3.

**A start.** `BootInv` has what the stores keep (`SqliteRows`: no row without its
channel, one webhook of an id; `GraphNodes`: an agent is there under the plan's name or
under one a client gave it; both: a webhook whose url no client subscribed in the
channel is the dashboard's, and there once) and what the start has done:
`PlacedUpTo(pos)` says that the entries before `pos` are in place, `ListingHolds` that
what the listing said of the entries left is still so. The latter is needed because
every decision is taken on a listing made when the start began; it is why a channel
that is created had nothing to lose. Placing a member never displaces one that is
placed: the plan's agents have different names, and an Agent node that is shared by
channels gets the same url in each. `registered` and `subscribed`, what clients ever
asked for, only grow (`AskedGrows`), so an exception once claimed stays claimed. For
`BootstrapNeverDeletes` the only nodes a start touches are those of planned names: what
was there under one either stays that agent's or was registered by a client under
another agent's name (`NameTaken`).

**The LLM agent.** `CalmTurns` says which of the newest turns alternate while
executions do not overlap; `WholePairs` that with an even cap a history consists of
whole exchanges, except when overlapping executions meet a full history.

**The aggregator.** `first` and `all` need only the definition of `SelectInSeq` and
cardinalities of intervals. For `voting`, `CounterInv` says what the Counter is after
any results: its entries are the ballots cast, each once, in the order of their first
vote, with their numbers of votes, and its total is that of the valid answers.
`CounterIsExact` shows it by induction on the results (an answer starts an entry at
the end or raises one by one), and `MostCommonIs` that the entry `most_common`
chooses is then the plurality's.

**Induction.** The library's induction rules take a predicate as a parameter, which the
provers here cannot instantiate. `SequenceLemmas` names a predicate by the set of the
numbers that satisfy it (`Induct`, from the well-foundedness of the order on the
naturals) and a loop by a function of its step (`LoopExists`), so that a recursive
function's definition can be unfolded.

### Assumptions of the theorems

The constants are arbitrary but for these, which TLC evaluates in every run.

* `StoreAssumption`, `HubAssumption`, `AgentAssumption`: the sets of values the
  parameters are drawn from; a channel object is booted under one id. Caps of the
  LLM agent are positive (section 5).
* `RestAssumption`: the profiles are some roles with and without url, and the
  objects of the start have such profiles. `patch_member` validates the role and
  the url separately, so a profile it leaves combines any of both.
* `BackendAssumption`: the stores start empty, each webhook registration has an id, and
  the value for what is not there differs from all others. Nothing is assumed of names.
* `BootstrapAssumption`: `Plan` names a channel once and an agent once in each channel,
  a channel's entry precedes its members', and the agents of the plan have different
  names (both topologies of `bootstrap.py` and its loops do). Nothing is assumed of
  the names, ids, urls and events that clients give.
* `AggregatorAssumption`: an answer's ballot is a string, and an answer is told from
  an error. `_strategy_all` shows an
  error as `[Error from ...]: ...` and `_strategy_first` under the name
  `Error from ...`; an answer that imitates the label would not be told apart.

### Only model-checked

* Liveness: `SendsEnd`, `BackgroundDrains`, `HearsEveryTarget`,
  `EventuallyServes`. Fairness and `ENABLED` are out of the prover's reach.
* The four properties that the code violates, each with TLC's counterexample.

Every safety property of a run that passes is proved.

## 5. Not modelled

* The wording of artifacts, message search, authentication headers, logging, the
  agent card, the prompts and model parameters of the LLM agent.
* Handlers over the composite backend suspend inside a storage call as well. The
  runs on the hub are about the in-memory backend, whose operations do not suspend;
  `StorageBackends` and `Bootstrap` take each query as one atomic effect, so the loops of
  saves of two sends over Qdrant, which may interleave, are not covered by `HistoryOrder`. SQLite's
  do not suspend either, but `save_message` raises for a channel that is gone: what
  the handlers do then (a dispatch ends without counting) is not modelled.
* What becomes of a webhook POST: a refused or failed one, or one whose task is dropped
  at shutdown. Events other than `message`, and the order of a channel's webhooks.
* Which of two memberships of one agent `get_channel` takes from the graph, where it
  has two names: the properties speak of all of them.
* A failure of the backend, or of the Telegram bridge, during a start, which ends it
  with an exception; `BRAIN_MODE` changed between two starts (`Plan` is the topology of
  all the starts of an instance).
* `update_member_activity` (no caller); paging in Qdrant, which is the service's
  own; two messages with equal timestamps.
* The composition of `RestApi` with the hub in one state space: `ImplementsStore`
  shows that the endpoints make only the steps the hub's environment has.
* `max_history = 0` of the LLM agent, with which the slice keeps everything; no
  caller passes it.
* Metrics (`observability/metrics.py`): no code of the hub constructs the collector.
  It is sequential, and only its tests reach it.
* Telegram bridge: `TelegramConfig.from_env` does not set `channel_topic_map`, so
  no Telegram message finds a channel; `on_hub_message` has no caller; the POST it
  would make goes to a route registered for GET. As wired it changes no state of
  the hub, and a model would be of a configuration that does not exist.
* The demo agent and the runner, which keep no state.

## 6. Plan

1. Done: `ChannelStore`, `GroupChatHub`, its runs and its first theorems; `Aggregator`.
2. Done: `RestApi`, `Broadcast` and the refinement by the hub, `SqliteStorage` and
   `CompositeStorage` against the in-memory store, `Bootstrap`, `LlmAgent`.
3. Done: proofs of the refinement and of every safety property of the runs that pass.
4. To come: the safety steps that the liveness properties rest on (the awaited agent
   leaves the pending set, a start's `pos` only grows), which a fairness argument
   could use; the composite backend's queries as suspension points of the handlers.
