# TLA+ models of super-line

super-line is a realtime framework: typed requests, events, topics and rooms
over WebSocket (and other transports) between clients and a cluster of Node
servers that share a pub/sub adapter, with row and CRDT collections, presence
queries, and plugins (job queue, workflows, chat, auth) on top. This directory
holds TLA+ models of its concurrent parts, the TLC configurations that check
them, and TLAPS proofs of every safety property that the passing runs check.

    tlc -workers 2 -config MCJobQueue.cfg MCJobQueue
    tlapm JobQueueProofs.tla

`PROJECT.json` ties everything together: which lines each definition models,
the runs, the mutant that breaks each property, the findings, the hazards.

## 1. Inventory

Paths are under `src/packages`. A *node* is one server process.

| component | state it keeps | operations | talks to |
|---|---|---|---|
| **Channel registry and bus** (`server/src/index.ts`) | per node: `conns`, `members` (channel to connections), `busListeners` (channel to callbacks), `conn.channels` | `sub`/`unsub` frames, `room.add/remove`, `srv.subscribe`, `publish`, `room.broadcast`, the socket's close handler | adapter `subscribe`/`unsubscribe`/`publish`, `adapter.onMessage` |
| **Presence directory** (`adapter-redis`, written to by `server`) | Redis: one descriptor per connection, index sets, room sets, one liveness key per node with a TTL | `set`, `del`, `addRoom`, `removeRoom`, `beat`, `clearNode`, `list`, `byUser` | one Redis connection per node, FIFO |
| **Job queue** (`plugin-queue`) | rows `__queue_jobs`, `__queue_slots`; in memory: `running`, `controllers`, `closing`, `abandoning` | `enqueue`, `cancel`, `retry`, `tick` (`reap`, `claim`), `run`, `heartbeat`, `settle`, `close` | `conditionalBatch` of the row store; channels `wake`, `cancel` |
| **Schedules** (`plugin-queue`) | rows `__queue_schedules`, cron position | `scheduleTick`, `advanceSchedule`, pause/resume/run now | job rows, `conditionalBatch` |
| **Gossip presence** (`adapter-rabbitmq`, `-zeromq`, `-libp2p`) | per node: a replica per peer, the last sequence applied | deltas, snapshots, leave messages, ageing out | lossy or reordering pub/sub |
| **Server-to-client requests** (`server`) | `originWaiters`, `ownerRouting` | `requestConn`, personal channels, replies, timeouts | adapter, clients |
| **Hibernation** (`server/src/snapshot.ts`, `transport-cloudflare`) | subscription set of a connection | `snapshotChanged`, `adoptConn` with muted replay | the host's storage |
| **Row collections** (`server/src/collections/rows.ts`) | subscribers per collection, principal policies | `csub`, `cuns`, `cbat`, feed, relay, `conditionalBatch` | row stores, adapter |
| **CRDT documents** (`server/src/collections/crdt.ts`) | open documents, subscribers | open, write, relay, close | CRDT stores, adapter |
| **Client runtime** (`client`) | socket state, requests in flight, topics, row and CRDT replicas | connect, reconnect with backoff, re-subscribe, request, batch | one server connection |
| **Workflows** (`plugin-workflows`) | projected runs, watches | poll, project, list | an external engine |
| **Chat**, **auth** (`plugin-chat`, `plugin-auth`) | rows; streams in progress | stream start/append/finalise; CRUD | row collections |
| **Stores, transports, serializers, inspector, UI** | storage, sockets, bounded logs | — | — |

### What is hard

* **Two registries, one subscription.** `members` and `busListeners` decide
  together whether a node holds a channel at the adapter, and the adapter
  answers later. Joins run after `await`s, of connections that may have gone.
* **Deliver-at-source.** The publishing node calls its own bus handlers and
  also receives its own frame back.
* **Read, await, write.** Presence reads a descriptor and writes all of it
  back; the queue does so with job and slot rows, under fences.
* **Crashes.** A node may end between any two commands; liveness keys and
  leases have to make up for it.
* **Clocks.** The reaper and the claimer of one tick read the clock at two
  moments; a worker renews its lease between a reaper's read and its write.
* **Shutdown.** `close()` runs while ticks, runs, announcements and sockets are
  still in flight.

`PROJECT.json` lists the hazards one by one with their lines.

## 2. The modules

| module | what it is |
|---|---|
| `ChannelRegistry` | the registry and the bus over an asynchronous adapter that may fail a command |
| `ChannelRegistryProofs` | its invariants of membership, proved |
| `ChannelDeliveryProofs` | its invariants of delivery, proved |
| `Presence` | the directory in Redis, command by command, and the server code that writes to it |
| `PresenceProofs` | its invariants, proved |
| `JobLifecycle` | what the queue promises of one job: numbered attempts, one at a time |
| `JobQueue` | the queue; it implements `JobLifecycle` |
| `JobQueueProofs` | its safety properties and the refinement, proved |
| `Schedules` | cron schedules advanced by several nodes |
| `SchedulesProofs` | their safety properties, proved |
| `RowRelay` | the stores of a `relay` collection backend, and the batches between them |
| `RowRelayProofs` | the convergence of the replicas, proved |
| `RowFeed` | live row subscriptions, server and client, on top of `RowRelay` |
| `RowFeedProofs` | that it implements `RowRelay`, and that a live subscription is complete, proved |
| `GossipPresence` | the presence directory of the adapters that have no shared store |
| `GossipPresenceProofs` | its safety properties, proved |
| `MC*` | instances of these for TLC |

Definitions named `...Ignoring...`, `...Unfenced`, `...Swapped` and so on under a
comment that begins with *Faulty* are mutated forms of the definition that
follows them. No specification uses them; substituting one for its definition
must make TLC report the property `PROJECT.json` names with it.

### 2.1 ChannelRegistry

Code to model: `conns` is `open`; `conn.channels` is `channels`; `members` and
`busListeners` are `members` and `bus`, where a channel that is not in the Map
has the empty set; the asynchronous part of `handleSub` is `task` (`deciding`
during middleware and `authorizeSubscribe`, `joining` while it awaits the
adapter, `joined` before the answer is sent). `pipe[n][ch]` are the adapter
commands a node has issued for a channel and the broker has not applied, `live`
is what the broker routes. A publication goes to `outbox`, is fanned out to the
`inbox` of the nodes that are routed at that moment, and spends the time of
`validate` in `validating`.

`JoinChannel`, `LeaveChannels`, `BusSubscribe` and `BusUnsubscribe` are the four
places that look at the other registry. `SocketClosed` leaves every channel in
one step, as the synchronous close handler does. `CommandFailed` is a rejected
command: a failed `subscribe` surfaces as `err` and leaves the membership in
place; a failed `unsubscribe` is swallowed. `drift` records the channels such a
failure left different from what the node wants, until the next command. `FrameRefused` is
a bus frame whose payload does not validate: members got it raw, the node's
handlers do not get it, and are no longer owed it.

Ghosts: `wanted` (the last word of the client), `acked` (it holds a `res`, or
`ready` has resolved), `delivered`, and `owed`: the pairs of a publication and
a listener that was established when it was published. Topics and rooms share
the code and so the module; `BusChannels` are those with handlers. `NodeOf` is
fixed, since a connection never moves. Middleware and hooks decide arbitrarily.

### 2.2 Presence

ioredis sends the commands of a node over one connection: `pipe[n]` are the
commands Redis has not executed, `answers[n]` what it answered and the event
loop has not handled. `del`, `addRoom`, `removeRoom` and each round of
`clearNode` are a `get` and, when its answer is handled, a write computed from
it, appended behind whatever was issued meanwhile. A pipeline is one
command: the nodes write disjoint keys (but for the index sets, each its own
members), so nothing another node sends in between changes its effect.

`registered` follows `conn.registered`: `joining` (personal channels being
subscribed), `setting` (the announcement is on its way), `done`. `deferred` are
the writes `afterRegistered` has chained behind it. `SocketClosed` chains the
room removals and does not chain the `del`, as the code; even when the
announcement is long done, chaining costs a microtask, so the `get` of the `del`
is issued before those of the removals, although the handler calls them in the
other order. A removal that has read the descriptor may then write it back
behind the `drop`. The descriptor that results is in no index: the queries that go
by the index (`Listed`) do not find it, `get` does (`Described`). `Close` asks the
sockets to close and starts `clearNode`; connections are still accepted, since
the transports stop last (`Stopped`). `Crash` may happen at any point.
`AliveExpires` is the TTL: it does not fire while a node beats, because the
option's own documentation requires the TTL to exceed the heartbeat interval.
The index sets `sl:conns`, `sl:node:*` and `sl:user:*` are always written
together and are one set, `index`. A room is left at the close in an arbitrary
but fixed order.

`overlap` is a ghost: connections with two room writes in progress at once. For
those the read-modify-write of the descriptor may lose one, so
`RoomsAreListed` excludes them; the limitation is the code's, and listed as a
hazard.

### 2.3 JobQueue and JobLifecycle

A row is a record; a missing field is `NoSlot` or `NoRun`. A claim is the only
writer that creates a `runId`, and it increments `attempt`, so `<<job, attempt>>`
names a run. A batch that has been computed from rows that were read is a value
of its own (`beating`, `settling`, `tick[k].write`) and is applied by a later
step, if the fences of `conditionalBatch` hold then: `revision` and status for
claims and cancels, `runId` for heartbeats and settlements, `runId` and the
lease for reapers. The store applies conditions and operations atomically.

Time is what leases are compared with. Each run's leases are numbered by the
heartbeat that set them, `lapsed[r]` of them are over, and `LeaseExpires` lets
one more pass. A `now` sampled earlier is an earlier value of `lapsed`.
`TickState` follows a tick: `reaping` (with the clock and the list `reap` read),
`expiring` (a settlement computed), `reaped`, `claiming` (with the slot rows as
they were read, which is why claims need their fences) and `chosen`.
Several ticks of a node may be in flight, as the poll timer, the wake channel
and `enqueue` each start one.

Left to chance, because it only enables what may happen at any time anyway: the
order of candidates, `availableAt` and the abort signal (an aborted worker is
one that ends in an error). Merged into one step: the two reads a settlement
makes with no effect in between, and the clock sample of `reap` with the read
that follows it. One heartbeat of a run is in flight at a time. `retry()` is an
`enqueue` under a new id.

Nodes in `Mortal` may close (`closing`, then `abandoning` when the grace period
ends with runs left) or end at any moment. After `Close` no tick starts, but one
in flight goes on, and even claims: the code looks at `closing` only once.

`CancelRead` and `CancelWrite` are the two halves of `cancel()`: it reads the
row, and writes all of it back with its mark, if revision and status are still
those it read; otherwise it starts again. Neither says which attempt is
running, and revisions are used again, because `settle` numbers from the row it
read: two heartbeats that reach the store between that read and its batch
use numbers which it and the next claim then use a second time. So `cancel()` may
take the next attempt for the one it read:

1. attempt 1 runs; its `settle` has read the row at revision *r*;
2. two heartbeats write *r*+1 and *r*+2;
3. `cancel()` reads the row at *r*+2, `running`;
4. `settle` writes *r*+1, `queued`, and a claim writes *r*+2, `running`, attempt 2;
5. the fence of `cancel()` holds, and attempt 1, its slot and its lease are in the
   row again, while attempt 2 runs and the slot row names it.

The model takes this step, and `lost[j]` is the row that it overwrote
(`Intact(j)` as long as there is none). From then on nobody's fences fit: neither run
can renew or settle, a reaper skips the job, and it stays `running`. The
properties of the queue answer for a job up to that write: `SlotRunsItsJob` and
`LeaseProtects` speak of intact jobs, and the refinement reads `Lived(j)`, the row
of an intact job and otherwise the row that was lost. Without two heartbeats
inside one settlement no job is ever lost. Another `cancel()` under a number used
again, but of the same attempt, only takes the lease in the job row back;
`SlotRunsItsJob` therefore asks that the job row have no *later* lease than the
slot row.

A slot's revision is used again in the same way (section 4). `RevisionReused` names
the state in which a claimer may then mistake the row for the one it read, and
`LeaseProtects` excludes it.

### 2.4 Schedules

`row` is `__queue_schedules` and `job` what `__queue_jobs` holds of each
schedule. Time is one clock in ticks. A cron expression is the set of times at
which it fires in a zone (`Fires`), and `Key` is `occurrenceKey`: the
occurrence in local time, on which the job's id depends. Two occurrences may
have one key, where the clock is set back or the schedule moves to a zone.

A `tick` is one `scheduleTick`: `due` (with the rows as listed), `reckoned` (an
occurrence set and the next `nextRunAt`), `ready` (the overlap policy has looked
for active jobs) and then the batch, which is applied (`Advance`), refused by
the revision fence (`Overtaken`) or undone by a job id that exists
(`Conflict`, which ends the tick). `Crash` stands for whatever else ends a tick
early: the process, the store, or `definition()`, which throws on a node that
does not know the schedule's queue. `EditRead` and `EditWrite` are
`updateSchedule` and `deleteSchedule`, with their fence and their retry. A tick
in `Mortal` may be cut short anywhere. `created` (jobs made for an occurrence)
and `since` (the last edit that moved `nextRunAt`) are history.

### 2.5 RowRelay and RowFeed

`RowRelay` is `commit` and `onRelay` of `collections/rows.ts` over the stores of
`collections-memory`, one per node: a batch is applied whole or refused,
broadcast, and applied by the others in the order of its publisher. `raced` is
history: rows written on a node while another node's batch with them was under
way, for which the code promises nothing.

`RowFeed` adds one connection and its client. On the server, `serving[s]` is
the handler of a `csub`: `asked` (the policy is deciding), `reading`
(registered, the snapshot is being read), `read`. `Write` and `Ingest` apply a
batch and route it to the connection (`Routed`, `Told`: the policy, the filters
of all its subscriptions together, and the row before, which a shared backend
may not know: `PrevKnown`). On the client, `sub`, `map` and `pending` are the
`LiveSub`; `OnOpen` asks again for every subscription, `ReceiveSnapshot` is
`seedCollection`, `ReceiveChange` buffers or applies. `OnClose` loses what was
under way. `intact` is history: a subscription is intact from its registration
until one of the ways in which the code does lose a change (`Buffered`,
`Loses`, a lost connection, a failed subscribe).

### 2.6 GossipPresence

One class in three copies (`adapter-rabbitmq`, `-zeromq`, `-libp2p`).
`replica[n][p]` is what node `n` has of the slice of `p`, `appliedSeq` and
`heard` the rest of its peer record (`heard` is `lastSeen` within the TTL).
`set`, `del`, `addRoom`, `removeRoom`, `clearNode` and `sendSnapshot` are the
owner's operations, `receiveLeave`, `receiveSnapshot` and `receiveDelta` the
three branches of `receive`. `wire` is a set: messages are lost and overtake
each other. `past` (the slice after each write) and `whole` (no write missed
since the last snapshot) are history.

## 3. The runs

| run | question | instance |
|---|---|---|
| `registry` | does the subscription follow the members, is anything lost or delivered twice, is every join answered? | 1 topic; on one node 2 connections and 1 handler; a second node that publishes; 1 publication, 1 failure, 2 commands in flight per channel |
| `registry_active` | does an acknowledged client have a live subscription? **No** | the same, no failures |
| `presence` | is what is listed reachable and complete, is a gone node forgotten? | 1 node, 2 connections, 1 room, 2 room calls of one connection |
| `presence_ghost` | is a closed connection unlisted? **No** | the same |
| `queue` | do the tables agree, does a lease protect its run, is the lifecycle kept? | 2 jobs of 2 attempts, 1 slot, 2 nodes with a tick each, 2 heartbeats, 1 cancel, cut down by the constraint `Bounded` |
| `queue_recovery` | does a job that waits for the slot of a dead run get it, and is the slot given away once? | 2 jobs of 1 attempt, 1 slot, 2 nodes with a tick each, one of them mortal |
| `queue_orphan` | is a job whose lease is over always taken up? **No** | 2 jobs of 1 attempt, 1 slot |
| `queue_cancel` | does a cancel request stay while the attempt runs? **No** | 1 job, 1 heartbeat, 1 cancel |
| `schedules` | is an occurrence created once, and is none forgotten? does a pause, or an active run, hold? | 1 schedule under one of 3 policies, 2 ticks (one may be cut short), 1 edit, 2 occurrences with one key in one of 2 zones |
| `rows` | does a subscription show what the store holds, whatever happens while it is set up? | 1 subscription, 2 nodes, 2 rows, 2 batches, 1 lost connection, 1 failure |
| `rows_reconnect` | ... without exception? **No** | 1 node, 1 row, 2 batches, 1 lost connection |
| `gossip` | does a replica follow its node, forget what is gone and list what is there? | 2 nodes, 2 connections and 1 room of one, which may close or crash; 3 writes, 3 messages under way |

Why the bounds are enough. *Registry*: the decisions are per node and channel,
and depend on whether each of the two registries is empty, has one member or
more; two connections and a handler reach all of these and every transition.
Two commands in flight is the least at which an unsubscribe overtaken by a
rejoin shows, and one publication is enough for a property of each publication
(they do not interact). The proofs of section 5 do not depend on the bounds.
*Presence*: nodes write disjoint keys except for the index, where each touches
only its own connections, so one node is representative; two connections are
needed for `clearNode` and for one's deletion beside the other's registration;
two room calls (a room joined in `onConnection` is one) for a join and a leave,
overlapping or not; a call for a closed connection uses up the rest. *Queue*: contention is for one slot or for
one job. In `queue` two heartbeats are the least at which a revision is used
again, two attempts the least at which that deceives anybody, and one `cancel()`
meets every state of the job it finds. All of it together, for two jobs and two
nodes, is beyond TLC, so the constraint `Bounded` admits three parts: one job with everything on one node; first attempts of
two jobs, without `cancel()` and deletion; and one job of two attempts with
`cancel()` but without heartbeats, whose node closes or crashes, whereupon a second
node takes over. TLC reaches a state with `lost[j]` set in 17 steps. `queue_recovery` has two
jobs, so that one does wait for the slot the other holds, and two ticks
that work it at once, and checks liveness. `queue` uses the
symmetry of the jobs; it checks no liveness property. The proofs of section 5.2
have none of these bounds.
*Schedules*: schedules do not share rows or job ids, so one is enough but for
the order within a tick; two ticks and an edit are three writers of one row,
two occurrences give a first and a later one, a key shared or not, a run still
active or not. The three policies are `all` with room for everything, `latest` with
`skip` on overlap, and misfire `skip`; the last two stop at a `maxCatchUp` of 1.
With one schedule, what a failing one does to those behind it in the list is
not run. *Rows*: rows meet only in a batch, so two rows and a batch with
both suffice; with two batches a row is written and then changed or deleted,
on one node or on both; one lost connection separates an old registration from
a new one. A second subscription of the connection widens `Effective`, which
the values outside `Filter` do for one. *Gossip*: nodes write
their own slice only and receivers do not talk to each other, so one sender
and one receiver are representative; three writes are a `set`, a change and a
`del`, or two connections and a change, and three messages under way let a
snapshot and deltas overtake each other in every order.

`CHECK_DEADLOCK FALSE` is said where the system may stop: of the presence runs
and `gossip` (all connections and nodes may have gone), of `rows` and
`rows_reconnect` (the bounds on batches and connections are used up, and the
subscription is closed) and of `schedules` (the clock stops at `MaxTime`).

### Properties

Registry. `SubscriptionTracksInterest`: counted to the last command in flight,
the node asks for exactly the channels its members and handlers need.
`AtMostOnce`, `OwedIsDelivered`: no duplicate in spite of the echo; a member
whose channel was established when something was published gets it.
`AckedAndQuietIsLive`: an acknowledged listener is a member, and routed once no
command is in flight. `BrokerFollowsInterest`, `JoinIsAnswered`: liveness.

Presence. `ListedIsReachable`, `OpenIsListed`, `RoomsAreListed`,
`GoneNodeIsForgotten` (a crashed or closed node's connections drop out of all
queries, those by id included, and stay out, although writes of it may still be
executed, and its close handlers may have raced with `clearNode`).

Queue. `SlotRunsItsJob` (a slot row and the job row it names agree),
`LeaseProtects` (while a lease lasts nobody takes the job or the slot from the
run that holds it, but for `RevisionReused`), `KeepsLifecycle` (refinement of
`JobLifecycle`: no attempt too many, none skipped or repeated, no terminal job
revived), all three but for a job that is not `Intact`; `QueueDrains`,
`SlotsComeBack`.

Schedules. `OccurrencesOnce` (over the whole history: also when the job row has
been deleted and its id is free), `NothingMissed` (`nextRunAt` never passes an
occurrence that has no job, under `all`), `PausedStaysQuiet` and
`SkipsWhileActive` (what was read long before the batch still holds when it is
applied), `DueSchedulesAdvance` (a schedule whose batch is refused again and again,
because a job has the key of one of its occurrences, moves on when that job's row
is deleted).

Rows. `ReplicasAgree` (rows written on one node at a time are the same on all
nodes that have received everything), `FeedIsComplete` (an intact subscription:
the client's rows and the frames under way make the store's rows, at every
moment of its life), `SubscribesAreSettled`.

Gossip. `ReplicaIsPast` and `NothingComesBack` (reordering never takes a replica
back), `GoneIsForgotten`, `OpenIsListed`.

### Fairness

* Registry: the adapter answers every command and a resolved promise continues.
  Nothing is assumed of hooks, clients or publications.
* Presence: Redis executes and answers, the event loop runs, keys expire, and
  the adapter subscribes the personal channels. None is needed of connections,
  closing or crashing.
* Queue: the poll timer's ticks make progress on nodes that are not `Mortal` (the
  timer runs until `close`), a run ends (`timeoutMs` aborts every worker, and its
  batch is answered), and time passes. Nothing of the ticks of a node that may
  close or crash. `Mortal` leaves one node that stays up; without one, no queue can
  drain.
* Schedules: every tick goes on, as the poll timer starts one again and again;
  one that crashes is started again. `Retention`: the queue ends every job of an
  occurrence and deletes its row, as it does by default (`DEFAULT_RETENTION`; with a
  retention of `null` a key stays taken for ever). Nothing of editors.
* Rows: the client reconnects for ever (its backoff has no limit by default),
  frames arrive, and the policy and the store answer. A connection may still be
  lost at any time, and requests may time out.
* Gossip: the snapshot timer runs on a node that is up; a message does not stay
  under way for ever, though it may be lost; a node that is silent is silent
  for the TTL. Strong fairness of `SnapshotArrives`: of the snapshots that are
  sent again and again one is not lost.

## 4. Findings

Each is a run TLC ends with a counterexample.

1. **`registry_active`** — `handleSub` awaits `joinChannel` "so ready == active"
   (`server/src/index.ts:1496`), but only the first member's join returns the
   adapter's promise. A second subscriber is answered while the first one's
   `subscribe` is still in flight. The same holds of `srv.subscribe(...).ready`.
2. **`presence_ghost`** — a connection that closes before its personal channels
   are subscribed is deleted first and announced afterwards. It stays in the
   directory while its node lives.
3. **`queue_orphan`** — `reap` uses a clock sampled earlier than the slot check
   of the same tick. A lease that expires between the two is not reaped, its
   slot is given to another job, and from then on every reaper skips the old
   job, whose slot names another run. It stays `running` for ever if its worker
   is gone.
4. **`queue_cancel`** — a heartbeat writes back the whole job row it read,
   fenced by `runId` only, over a cancel request written in between.
5. **`rows_reconnect`** — changes that a subscription buffered before its first
   snapshot survive the loss of the connection, and are replayed over the
   snapshot of the next connection, which is newer. A row that was changed or
   deleted in between shows its old value until it is written again.

Read off the models and the code, without a run of their own:

* `rows_reconnect` has two more causes: on a re-subscription a change sent
  between the reading of the snapshot and the answer is overwritten by the
  answer; and a row that leaves the read policy is sent as changed, for the
  client to drop, which only knows the filter of the subscription. `Loses` names
  both.
* Nodes of a `relay` backend stay different on a row written on two of them at
  once (`raced`); `docs/how-to/choose-a-collection-backend.md:33` says as much.
* A `cancel()` that is deceived by a revision used twice writes one attempt of a job
  over the next one, and the job stays `running` (the five steps of section 2.3).
  `MCJobQueue` reaches it; the state is `~ Intact(j)`. Like the next one, it takes a
  settlement that lasts longer than two heartbeat intervals.
* The close of a connection that is in a room may leave its descriptor behind:
  `removeRoom` reads it before the `del` of the same handler drops it, and writes it
  back after. `cluster.connectionById` (`server/src/index.ts:1955`) reports the
  connection for as long as its node lives; the lists, which go by the index, do not.
  TLC reaches it in `MCPresence` with one room.
* A schedule whose queue is no longer defined on any node makes every tick throw, and
  holds up all schedules that come behind it in the list.
* `settle` numbers the slot's revision from the row it read. If two heartbeats of
  the run reach the store between that read and its batch, the number falls
  back, and the next claim uses one again that another claimer may have read
  under. That claimer passes its fence and takes the slot from a run whose lease
  is good; two jobs then run in one slot. TLC finds it with `MaxBeats = 2`, 2
  jobs, 2 attempts and 2 ticks.
* `latest` takes the last of the first `maxCatchUp` missed occurrences.
* A gossiping node sends no snapshot of an empty slice: if the `del` of its last
  connection is lost, only the TTL removes it. A delta or a snapshot overtaken
  by the leave of its node brings connections back until the TTL.

## 5. Proofs

Each proof module states one inductive invariant (`PresenceProofs` two, the
second on top of the first), proves that it holds initially and that every action
keeps it, and draws the theorems from it. The only assumptions are those on the
constants. The invariants of sections 5.5 to 5.8 were checked with TLC before they
were proved; the instances are named there.

### 5.1 ChannelRegistryProofs

From `RegistryConstants` (each listener has one node, connections and handlers
are distinct, bounds are naturals):

* `TypeCorrect == Spec => []TypeOK`
* `SubscriptionCorrect == Spec => []SubscriptionTracksInterest`
* `AcknowledgedCorrect == Spec => []AckedAndQuietIsLive`

`SubscriptionTracksInterest` is inductive together with `TypeOK`. The lemmas
`IssueTracks` and `PopTracks` say what a command added to, or taken from, a
pipe does to its last operation; `LeaveTracks` covers the close handler, which
leaves many channels at once.

`AckedAndQuietIsLive` is not inductive: an acknowledgement may come long after
the join. The invariant is

    IInv == TypeOK /\ SubscriptionTracksInterest /\ Mirror /\ HandlersAtHome
            /\ JoinsAreMembers /\ AckedAreListeners /\ AnswersAwaited

`Mirror`: `conn.channels` and `members` are two views of one relation, so the
close handler, which iterates the first, empties the second. `HandlersAtHome`:
handlers are registered on their own node. `AnswersAwaited`: the command in
flight that names a connection is one its `task` still waits for, and there is
at most one. `JoinsAreMembers`: a client that wants a channel and has passed
`joinChannel` is a member. `AckedAreListeners`: so is the holder of an
acknowledgement. With the pipe empty and no drift, `SubscriptionTracksInterest`
turns membership into `live`.

### 5.2 JobQueueProofs

From `QueueConstants` (there is an attempt, ticks belong to nodes, the markers
`NoSlot`, `NoRun`, `NoNode` are none of the things they stand for) and
`NoWriteIsNoRow` (nor is `NoWrite` a job row):

* `TypeCorrect == Spec => []TypeOK`
* `SlotsCorrect == Spec => []SlotRunsItsJob`
* `LifecycleCorrect == Spec => KeepsLifecycle`: `JobQueue` implements `JobLifecycle`
* `LeaseCorrect == Spec => LeaseProtects`

for any number of jobs, slots, ticks, heartbeats and calls of `cancel()`. The last
three make the exception the code makes: they answer for a job until a `cancel()`
has written one attempt over another (`Intact`), and `LeaseProtects` also excepts
`RevisionReused`. The exception is as narrow as the step that causes it: `lost`
is set by no other, and when it is set it holds the row as it was before that step.

The difficulty is what is in flight: batches that were computed from rows which
have changed since, written under fences that look at a part of the row only.

    IInv == TypeOK /\ RowsSound /\ SlotRunsItsJob /\ WritesSound
            /\ ChoicesSound /\ CallsSound

`WritesSound`: a batch in flight for a run (of its heartbeat, its settlement or
a reaper) is of that attempt, and is a `Renewal`, which leaves the run where it
is, or an `Outcome`, which ends it and frees its slot; so whenever the `runId`
fence lets it through it does one step of the attempt's life, however old the
rest of the row is. `CallsSound` says what a `cancel()` holds: a row of the
present attempt or of an earlier one, with a lease no later than the slot's; so
its write is a step of that attempt, or the one step that `lost` tells of.
`ChoicesSound`: a claim's fence is the revision, which
settlements and heartbeats may take back; but never below what it was when the
attempt began, so a job that is still `queued` under the revision a claimer read
is the row it read. `LifecycleStep`, proved beside `IInv'` for each action, is
the step of the refinement, on `Lived`.

Invariant with it is `InFlightSound`: `KindsSound` (heartbeats renew, settlements
and reapers do not) and `BeatsSound` (a heartbeat in flight has no earlier lease
than the slot of its run). `LeaseCorrect` adds `ClocksSound`: a lease that a reaper or a claimer takes for
over, by the clock it sampled, is over, unless the run is `Finished`. A reaper's
batch asks for the lease again, so it ends no lease that lasts; a claimer's fence
makes the slot the one it judged by, unless its revision has been used twice.

### 5.3 SchedulesProofs

From `ScheduleConstants`:

* `TypeCorrect`, `OnceCorrect == Spec => []OccurrencesOnce`,
  `NothingMissedCorrect == Spec => []NothingMissed`
* `PausedCorrect == Spec => PausedStaysQuiet`, `SkipCorrect == Spec => SkipsWhileActive`

`Known` says that a row somebody has read is older than the row there is, or is
that row: a fence that holds makes everything concluded from it true again.
`PlansHold` says of a reckoned plan that it lies between the occurrence the row
waits for and the next one, leaves none out under a `Thorough` policy, and that
under `skip` no job is active as long as the row is as it was read (only an
advance makes jobs, and it changes the revision). `JobsArePast` and `AllServed`
then make an advance create each occurrence once, and all of them.
`NothingMissed` accepts the job of a later occurrence that has the same key.

### 5.4 GossipPresenceProofs

From `GossipConstants`:

* `TypeCorrect`, `ReplicaCorrect == Spec => []ReplicaIsPast`,
  `NothingResurrected == Spec => NothingComesBack`

`MessagesAreTrue`: whenever it was sent, a snapshot under way is the slice after
the write it is numbered by, and a delta is the step from one write to the next.
`OwnIsLast` ties the slice to the last write, `NotAhead` bounds what is followed
by what was written. Every message can then be judged by `past` alone, in
whatever order it arrives.

### 5.5 ChannelDeliveryProofs

From `RegistryConstants`, on top of section 5.1:

* `DeliveredAtMostOnce == Spec => []AtMostOnce`
* `OwedDelivered == Spec => []OwedIsDelivered`

A node that publishes calls its own handlers at once, and gets its frame back
from the adapter. `Frames` says why nobody hears a publication twice: one number
is one publication, it is in one of the outbox, an inbox or a validation per node at a
time, and wherever it still is, the listeners it would reach there have not heard
it (for the handlers of the publishing node: the echo is not delivered to them).

`OwedIsDelivered` says of a listener that is owed a frame that the frame exists
somewhere; the inductive form says that it will find its way. `OwedToMembers`: who is
owed is a member of the channel, and not a handler that was called at once.
`OwedIsRouted`: as long as the frame is in the outbox, the broker routes the channel to
the node of that member, and no command in flight ends that, since an
`unsubscribe` is issued only when a channel has lost its last member and
handler. `OwedComes` follows the frame from outbox to inbox to validation to delivery.
Checked on 1 connection and 2 handlers on 2 nodes, with 2 publications.

### 5.6 PresenceProofs

From `PresenceConstants`, which say that the rooms of a run are finitely many (the
close handler enumerates those of the connection):

* `PresenceTypeCorrect`, `AdvertisedIsReachable == Spec => []ListedIsReachable`
* `RegisteredStaysListed == Spec => []OpenIsListed`
* `RoomsStayListed == Spec => []RoomsAreListed`

The two queues between a node and Redis hold what was decided earlier.
`DirInv` says what may be in them: a command or an answer under way concerns a
connection of its own node (`Queues`), a `clearNode` is under way only of a node that
closes (`UpIsNotCleared`), a `del` only of a connection that has closed
(`OpenIsNotDeleted`), and the announcement once (`SetOnce`). So Redis knows nothing of a
connection before it is announced (`Unannounced`), and what the announcement wrote
stays (`Kept`), although `addRoom` and `removeRoom` write whole descriptors back
that they read before: while it is open nobody deletes the descriptor in between.

`RoomInv` is about connections whose room writes have not overlapped: at most
one write is under way (`OneWrite`), and at every stage of it, deferred, read,
computed or written, carrying it out makes the descriptor and the room
sets what the node holds (`RoomsFollow`). Checked on one node with 2 connections, with
1 room and 2 or 3 room calls, and with 2 rooms and 2 calls.

### 5.7 RowRelayProofs

From `RowConstants`:

* `RelayTypeCorrect`, `ReplicasConverge == RelaySpec => []ReplicasAgree`

Stores refuse batches, so agreement is not a matter of counting messages.
`OneWriter`: the batches under way that touch a row which was not raced are of
one publisher. `Carried`: the last of them leads to the row of that publisher's
store. `Fitting`: the receiver, whose row is where the queue starts, will accept
each of them in turn (`Fits`). So a batch is never refused on account of such a
row, and if it is refused for another, that row is raced and `raced` gets all rows
of the batch. Checked on 3 nodes, 2 rows and 4 writes.

### 5.8 RowFeedProofs

From `RowConstants` and `FeedConstants`:

* `FeedImplementsRelay == Spec => RelaySpec`, and by it
  `FeedReplicasConverge == Spec => []ReplicasAgree`
* `FeedTypeCorrect == Spec => []TypeOK`
* `LiveFeedIsComplete == Spec => []FeedIsComplete`

`FeedIsComplete` speaks of a subscription that is live; what makes it true happens
before. The invariant follows an intact subscription from its registration:

    OnCourse(s) == Reading(s) \/ HasRead(s) \/ Sent(s) \/ Rejected(s) \/ Held(s)

and says at each stage that the changes buffered and under way *lead* from the rows
of that stage to the rows that are due (`Leads`): from the store's own rows
while they are being read, since a change that is told meanwhile is newer; then from the
rows that were read, those in the answer under way, and those the client holds. For a
client that already has rows, which the answer will replace, only the frames
behind the answer count (`Beyond`). `Protocol` keeps the stages
apart: a connection asks once for a subscription and is answered once, and a lost
connection leaves nothing behind.

`After` takes the last change of a row in a queue, with `CHOOSE`. The lemmas
`AfterAppend` and `AfterTail` say what a frame that joins or leaves the queue does
to it, by way of `HasLast`, a set of positions that has a greatest element.
`RoutedIsDue` is the link to the server: what `Routed` leaves out of a
batch would not have changed what is due, and what it tells is due, but for a row
that leaves the read policy (`Loses`). Checked on 2 nodes and 2 rows with 1
subscription, 2 writes, 1 lost connection and 1 failure, and on 1 node and 1 row with 2
subscriptions.

### 5.9 What is only model-checked

All liveness: `BrokerFollowsInterest`, `JoinIsAnswered`, `GoneNodeIsForgotten`,
`QueueDrains`, `SlotsComeBack`, `SubscribesAreSettled`, `DueSchedulesAdvance`,
`GoneIsForgotten` and `OpenIsListed` of `GossipPresence`. It is out of the
prover's reach, as are ENABLED and induction over data. And the five properties that
the code violates, of course.

## 6. Not modelled, and the plan

Not modelled for good: transports, serializers, query evaluation, SQL
generation, the merge of CRDTs (a library's), inspector and UI (observers), and
auth (CRUD and cryptography).

Next, in this order:

1. `ServerRequests` — one settlement per request, whatever replies, timeouts
   and node ends do.
2. `Hibernation`, on top of `RowFeed` and `ChannelRegistry` — a connection that
   is adopted has the subscriptions it had, and gets no frame twice.
3. `CrdtRelay`, `WorkflowProjection`, `MessageStream`, as far as their state
   allows.
4. The rest of the client: topics, requests in flight, CRDT replicas.

Theorems planned: what each planned module promises, and refinements of abstract
specifications: the directory of `Presence` and of `GossipPresence` as one abstract
directory, the delivery of `ChannelRegistry` as a channel that loses only what
`drift` names.
