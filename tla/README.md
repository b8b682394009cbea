# A TLA+ verification of wshub

`wshub` is a Go library for WebSocket servers: a `Hub` owns the connected
clients, groups them in rooms, broadcasts to them, drains and shuts down, and can
be joined with hubs on other nodes through an adapter. This directory holds TLA+
models of its concurrent core, the TLC configurations that check them, and TLAPS
proofs of the central invariants. Paths like `hub.go:773` are relative to `src/`.

## 1. Inventory

| Component | State | Operations | Talks to |
|---|---|---|---|
| Hub lifecycle (`hub.go`, `client.go`) | `state`, `alive`, `clients`, `clientCount`, `clientsSnapshot`, channels `register`, `unregister`, `ctx`, `drainDone`, `wg` | `Run`, `handleRegister`, `handleUnregister`, `drainAndRebuildSnapshot`, `UpgradeConnection`, `Drain`, `runDrainReaper`, `Shutdown` | HTTP handlers, pumps, rooms, user index |
| Connection (`client.go`) | `closed`, `graceful`, `done`, the connection | `readPump`, its context watcher, `writePump`, `CloseWithCode` | hub channels, send queue |
| Send path (`hub.go`, `client.go`) | channel `send`, `sendMu`, `DropPolicy` | `trySendErr`, `trySendDropOldest`, `trySendWithContext`, `SendMessageWithContext`, `drainQueued`, `writeCloseFrame` | broadcasts, write pump, `handleUnregister` |
| Rooms (`hub.go`) | `rooms`, `Room.clients`, `Room.snapshot`, `client.rooms`, `roomVersion` | `JoinRoom`, `LeaveRoom`, `LeaveAllRooms`, `removeClientFromAllRoomsWithHooks`, `deleteRoomIfEmpty` | application goroutines, `Run`, presence |
| User index (`hub.go`) | `userIndex`, `client.userID` | `addToUserIndex`, `removeFromUserIndex`, `setClientUserID` | registration, application |
| Broadcast and worker pool (`workerpool.go`) | task queue, workers | `parallelSend`, `submit`, `shutdown`, `ensurePool` | send path, `Shutdown` |
| Presence (`presence.go`) | cache of node statistics, last counts and room version | `runPresence`, `publishPresence`, `handlePresenceMessage`, `evictStaleNodes`, `GlobalClientCount`, `GlobalRoomCount` | rooms, adapter |
| Cluster delivery (`adapter.go`, `hub.go`) | `nodeID` | `publishToAdapter`, `handleAdapterMessage` | adapters, send path |
| NATS and Redis adapters (`adapter/`) | current subscription or cancel function, generation or WaitGroup, closed flag | `Publish`, `Subscribe`, `Close` | broker |
| Inbound messages (`client.go`) | token bucket | `processMessage`, `checkRateLimit` | hooks, handlers |
| Log limiter (`hub.go`) | time of the last line | `allow` | failing handshakes |
| Middleware, router, configuration, metrics, health, logger | configuration, counters | sequential helpers | hub |

What is hard in this code:

* **Rooms.** Membership is kept three times, under three mutexes that are taken
  one after the other, and a goroutine may hold a pointer to a room that has been
  deleted. Correct means: limits hold, nobody is dropped from a room by somebody
  else, no empty room leaks, and a room lists the clients that have joined it.
* **Lifecycle.** Six kinds of goroutines meet on two bounded channels, two atomics
  and three channels that are closed. Correct means: the counter follows the map,
  limits hold, no drain completion is lost, every connection has an owner, and
  every call returns whatever Drain and Shutdown do meanwhile.
* **Send path.** Senders, an evictor, the write pump and the purge of
  `handleUnregister` share one channel, and only some of them take `sendMu`.
  Correct means: a message is in one place at a time, what a full buffer costs is
  reported, order is kept, and a graceful close flushes.
* **Worker pool.** A broadcast is split among workers while Shutdown closes their
  channel. Correct means: every client exactly once, whoever sends to it, and
  everybody returns, Shutdown within its own context.
* **User index.** `handleUnregister` reads a user ID, then takes the lock of the index;
  `SetUserID` may come between the two or after both. Correct means: a user's messages
  reach that user's connections and no dead ones, and the limit per user holds.
* **Presence.** Counts are read without a common lock and only if something seems to
  have changed, reports are lost, nodes die silently. Correct means: once things are
  quiet the global counts are right, and dead nodes are not in them.
* **Adapters.** Subscribe, Subscribe and Close overlap, and each of them may find the
  work of another half done. Correct means: one current subscription, nothing left
  after Close, and nobody waits for a goroutine that nobody stops.
* **Clocks.** The token bucket, the log limiter and the reaper compare times that were
  read earlier. Correct means: no burst beyond the rate and no conforming message
  dropped, lines an interval apart, idle clients closed when they should be.
* **Cluster.** The same call runs on the sender's node and, later, on the others,
  which see other members. Correct means: nobody twice, nobody wrongly, nobody
  forgotten who was there all the time, and each sender's order.

`PROJECT.json` lists each hazard at its line with the properties that cover it.

## 2. Modules

| Module | Content |
|---|---|
| `Rooms` | JoinRoom, LeaveRoom, LeaveAllRooms and the room part of handleUnregister |
| `RoomsProofs` | its proofs, and that it implements `RoomCounts` |
| `HubLifecycle` | Run, UpgradeConnection, pumps, Drain, Shutdown |
| `HubLifecycleProofs` | its proofs |
| `RoomCounts` | abstract: what the rooms promise to a reader without a lock; `Rooms` implements it, `Presence` uses it |
| `Presence` | a hub that publishes its counts and a hub that adds them up |
| `UserIndex` | the user index against registration, unregistration and SetUserID |
| `AdapterContract` | abstract: the life of subscriptions that a hub may expect of an adapter |
| `NatsAdapter`, `RedisAdapter` | Subscribe and Close of the two adapters; both implement `AdapterContract` |
| `RateLimit` | the read loop of a client with its token bucket |
| `LogLimiter` | `logLimiter.allow` called concurrently |
| `DrainReaper` | `runDrainReaper` with discrete time |
| `AdapterProofs` | proofs that the two adapters implement the contract |
| `SendQueue` | the send buffer of one client and everybody who touches it |
| `SendQueueProofs` | its proofs |
| `WorkerPool` | parallelSend and sendWithContext on the pool, and its shutdown |
| `WorkerPoolProofs` | its proofs |
| `Cluster` | broadcasts and sends on several nodes joined by a bus |
| `ClusterProofs` | its proofs |
| `StandaloneProofs` | proofs about `UserIndex`, `RateLimit`, `LogLimiter` and `DrainReaper` |
| `SequenceLemmas` | what Append and Tail do to a sequence without repetitions |
| `Membership` | `Rooms` and `UserIndex` together, with the handlers of Run that work on both |
| `MCCluster` | symmetry sets for TLC |
| `MCSafety` | `Rooms`, `SendQueue` and `HubLifecycle` side by side: a behaviour is one of a single part, chosen at the start |
| `MCStandalone` | the other modules of a node that share no state, side by side in the same way |

The operators next to an action with a telling name (`DeleteUnchecked`,
`SignalOffByOne`, `RecheckGoesOn`, ...) are variants of that action with a plausible
bug. No specification uses them; `PROJECT.json` pairs each with the property that
rejects it.

### Rooms

One step is one critical section. `op[p]` is the call goroutine `p` is in, with its
local variables: the room pointer, whether it created the room (`created`), and for
the loop over a client's rooms the names still to do and the names left.
`RoomObj` is a heap: `JoinCreate` takes an object that neither `h.rooms` nor a local
variable refers to. `rooms`, `members`, `clientRooms` and `roomVersion` are
`h.rooms`, `room.clients`, `client.rooms` and `h.roomVersion`; `room.snapshot` is
rebuilt under the same lock as `room.clients`, so it has no variable of its own.
`status` says whether a client is in `h.clients`. Hooks run between the steps,
where every other goroutine may run as well; `BeforeRoomJoin` may veto. Calls may
overlap in any way, also calls about one client.

`RoomCounts` is what `presence.go` may rely on: the number of clients each room lists,
the version, and the set of callers that still owe the version an increment. A
section of JoinRoom or of the cleanup loop moves one count and owes (`Touch`),
LeaveRoom moves a count and the version together (`TouchAndBump`), `Bump` pays.
`RoomsImplementCounts` maps the counts to `Cardinality(Listed(n))`, the debtors to the
goroutines in `joinBump` or with rooms left in their loop; every other step of `Rooms`,
the creation and the deletion of room objects included, must stutter.

### HubLifecycle

`run` is the Run goroutine: `select`, `drain` (inside `drainAndRebuildSnapshot`), or
inside a handler between the map update and the counter update, between the counter
and the drain signal, and between that and the close. Channels are sets with the
capacity `QCap`, because each client is sent at most once on each of them and Go
guarantees no order among blocked senders. A larger set of behaviours than a FIFO
channel is checked. `closing[c]` merges `closed`, `graceful` and `done`, which are set
in one critical section; `framed` and `notified` record what a peer or the
application observes. `UpgradeAbort` is enabled whenever the context is done, also
when an answer is ready, as in Go's `select`. `hub.wg` is derived: `GoroutinesDone`.
`WatchContext` is the goroutine that `readPump` starts. `Reaps` is the idle reaper
with the clock abstracted away: it may close any open client of the snapshot.
`CloseWithCode` is the application, which may get hold of a client as soon as it is
in the map. The refusal of the per-user limit is an unconditional alternative
(`RefuseRegister`), as the user index is not part of this module.

### SendQueue

A message stands for the call that sends it. Every channel operation is one step.
`budget` is `n` in `drainQueued`. A message that leaves the path is kept apart by how it
left: `reported` are those `notifySendDropped` has logged, counted and handed to
OnSendDropped, evicted or refused; `failed` were lost in a failed write; `purged` were
thrown away by `handleUnregister` (`hub.go:639-646`), which tells nobody. `victims`, `prior`
and `flushDue` are history variables. `PeerBreaks` lets
writes fail and the read pump end at any time; with `FALSE` only this side closes.

### Presence

There is one publisher and one observer, because the entries of different nodes do
not interact. `PresenceTick`, `LoadVersion` and `Gather` (one room at a time) are the
reads of `publishPresence`, in its order; `pub` holds `presenceState`. The rooms are
those of `RoomCounts`. `bus` holds reports on their way, of which any may be lost
(`PublishLost`); `HubStops` is a shutdown or a crash at any point. The observer's clock
is its tick: `EvictStale` makes an entry older and drops it after `TTL` ticks.
`WithPresence` fixes `presenceTTL` to three intervals.

### UserIndex

`handler` is what Run is doing to one client. The index is a function from users to
sets; `removeFromUserIndex` is two steps, the read of the ID and the deletion under
`userIndexMu`, and `setClientUserID` may come between them. The application may use a
client it got from a callback, also after that client has gone, or from a lookup by user
ID, which finds it before it is in `h.clients`.

### Membership

`HandleRegister`, `LeaveRooms` and `HandleUnregister` join the steps of the two modules that are one
step of Run, in the order of the code: index, then `h.clients`; and index, rooms, `h.clients`. All
other steps are those of one module and leave the other alone. `RoomClient` and `IndexedClient` are
the same clients there.

### AdapterContract, NatsAdapter, RedisAdapter

In the contract a Subscribe call is `calling`, its subscription then `serving`, `retiring`
once it is replaced or closed, `draining` if the client library has messages left to
handle (`Drains`), and `ended`; at most one serves, and once Close and the calls have
returned nothing receives and no goroutine of the adapter is left. `LetsGo` says that
Close returns and that what retires or drains ends. `adapter.go:12` asks callers not to call Subscribe concurrently; both
adapters claim to stand it ("safe for concurrent use"), so it is checked.

`NatsAdapter` has a step for each section under `a.mu` and for each thing done without it:
`release` (close of the stop channel, wait for the watcher), `drain`, `conn.Subscribe`
(which may fail), the installation that compares the generation, and the drain of a
subscription that was overtaken. `drainOnce` and `stopOnce` make these idempotent, so they
are sets and states here. `sub.Drain` is asynchronous (`nats_integration_test.go:328`):
`StartDrain` ends the subscription at the server only, its handler may still run, beside
the one of its successor, until the NATS client is through with what has arrived
(`NatsFinishDrain`, external). A subscription is released when it is not live and its
watcher is gone; it has ended when it is also not draining.

`RedisAdapter` has the claim (exchange of `a.cancel`, two slots of `a.wg`), the call of the
previous cancel function, the dial, the two goroutines, and Close with its wait.
`redisWg` is the counter itself, not derived from the goroutines. A dial may succeed although its
context is done, and `a.cancel` of a failed call stays in place, as in the code.

### RateLimit, LogLimiter, DrainReaper

Time is discrete. `RateLimit` counts tokens in fractions of `1/Second`, which makes the
refill exact; `accepted` and `dropped` are the history `RateExact` is about. `LogLimiter` has
the clock read, the load and the compare-and-swap as three steps of each caller; the
clock does not go back. While processMessage runs no message is read, for however
long; what its hooks and handlers do is left out. `DrainReaper` follows one client, since clients do not meet in
`firstIdleAt`; a tick is handled in the unit of time in which it fires, and the buffer fills
and empties at any time between two ticks, also between the look and the close.

### WorkerPool

A call has a snapshot of some size, its clients numbered by their place in the slice,
and walks through submit batch by batch: the check of `stopped`, the send on the
channel (which waits while it is full and panics into `Fallback` when it is closed),
the inline loop, `wg.Wait`. `pending` is the counter of the call's WaitGroup, `attempts`
counts the sends to each client. A send on a closed client is an attempt like any
other. Only sends with a context wait for a slow client (`Stuck`).

### Cluster

`Begin` is the lookup of the target on the calling node, `Deliver` the send to one
client, `Publish` the adapter call at the end. `inbox[n]` is what the bus holds for a
node: both brokers keep the order of one publisher, deliver at most once, return a
message to its sender, and call the handler one message at a time. Losing a message,
failing to publish, and a hub whose Subscribe failed are all possible. Clients join,
leave, change their user and disconnect at any time. `owed`,
`audience` and `before` are history variables.

## 3. Runs

Passing runs (deadlock checking is off: a hub that is shut down, a client that has
gone and callers that have finished really may stop):

| Run | Bounds | Shows |
|---|---|---|
| `Safety` | rooms: 3 clients, 2 names, 4 objects, 2 goroutines and Run, 2 clients per room, 1 room per client, version < 2 | `Limits`, `NoEmptyRoomLeak`, `OnlyLeaversLeave`, `RoomsImplementCounts` |
| | send path: 2 senders and a blocking one, capacity 2, either policy, failing peer | `ExactlyOnePlace`, `WireInOrder` |
| | hub: 2 clients, 2 drainers, `MaxConnections` 1, channel capacity 1 | `CountTracksClients`, `PumpedIsRegistered`, `ConnHasOwner`, `ConnectionLimit`, `NoLostDrainSignal`, `StateNeverRegresses` |
| `HubLive` | 2 clients, Shutdown, capacity 1, no limit, fair | `UpgradeReturns`, `ShutdownClosesAll`, `ShutdownTerminates`, `EventuallyReachable`, `DisconnectIsNotified` |
| `HubDrain` | 2 clients, 1 drainer, reaper, healthy peers, no limit, fair | `CloseFrameSent`, `DrainTerminates` |
| `PoolShutdown` | a plain call and one with a context, batches of 2 for 2 or 3 clients of which one is slow, 2 workers, channel of 2 (`PerWorker` = 1 instead of 4), 2 Shutdown calls, fair | `NothingOutlivesCall`, `EveryClientOnce`, `ShutdownDrains`, `CallReturns`, `ShutdownFollowsCalls` |
| `ClusterDelivery` | 2 nodes, 2 clients, 2 calls of any kind, 1 room, 1 user, `MaxLeaves` 1 | `AtMostOnce`, `OnlyAudience`, `NobodyForgotten`, `SenderOrder` |
| `Standalone`, fair | send path: 3 senders, capacity 1, either policy, healthy peer | `GracefulFlush`, `TrySendReturns` |
| | presence: 1 room, 2 callers, version < 2, 1 registration, 1 report in flight, TTL of 1 tick | `PresenceConverges` |
| | user index: 3 clients, 2 users, 1 connection per user | `UserLimit`, `IndexTracksUsers` |
| | adapters: 3 Subscribe calls and Close, each | `NatsImplements`, `RedisImplements`, `AdaptersLetGo` |
| | rate limit: 2 messages per second of 3 ticks, 6 ticks | `RateExact` |
| | log limiter: 3 callers, interval 2, clock up to 5 | `LinesSpaced` |
| | reaper: timeout 3, ticks 2 apart, 9 units of time | `TicksDecide` |

Why the bounds are enough to be interesting: with two goroutines and Run, three calls
overlap on one room, one of them holding a deleted object; `MaxVersion` counts
completed joins and leaves and only stops new calls, so the calls in flight still
delete, re-create and fill a room. Heap objects never run out: each name and each
goroutine refers to one at most. A channel of capacity one fills with two clients.
Two upgrades pass the fast path together and compete for one connection. Three
messages overflow a buffer of two, where a blocking sender waits for the room an
evictor makes. Four batches on a channel of two leave
a sender waiting when the close comes, and the last batch is a partial one. Two nodes
are enough because a node never passes on what it receives; `MaxLeaves` lets a client
leave its room or the hub or change its user once, at any point of a delivery. Presence compares counts
and versions for equality only, so one change at each point of a tick is what matters; with
one room both kinds of call and an overlap of two occur. Three Subscribe calls are the
least in which one is installed, the second has taken it over, and the third overtakes
the second. A third of a second gives fractions of tokens, and six ticks refill the
bucket twice. The reaper's interval does not divide its timeout, so that the tick that
falls due is late.

Runs in which the code does not keep what a comment or a document of the repository
promises, each a finding in `PROJECT.json` with the quoted line:

| Run | What happens |
|---|---|
| `RoomsOrphan` | JoinRoom succeeds on a room that was just removed from `h.rooms`; the client is in a room that RoomClients and BroadcastToRoom cannot find |
| `HubDrainNil` | an upgrade in flight registers after Drain has returned nil |
| `QueueBothLost` | a DropOldest send evicts two messages and is dropped itself |
| `LookupsRemoved` | a SetUserID after `removeFromUserIndex` has read the old ID, and a JoinRoom past its check of `h.clients`, leave a removed client in the user index and in a room, for good (`hub.go:588-591`); AfterConnect runs in a goroutine of its own, and its calls can be that late |
| `ReaperTimeout` | an idle client stays open longer than `WithDrainTimeout`, by up to two intervals (`options.go:132`), and a buffer that fills and empties between two ticks counts as continuously empty (`hub.go:842-843`) |
| `PoolShutdownHangs` | Shutdown waits in `pool.shutdown`, past its own context, for a broadcast whose context never ends (`website/docs/hub.md:261`) |

They use the bounds of the passing runs or smaller ones. `LookupsFindRegistered` and
`TimeoutAsDocumented` are disjunctions, so that one counterexample breaks both of the lookups, or
both of the comments, that they join. `ReaperTimeout` has a timeout of 8 and ticks 2 apart, the
quarter that the code takes. It and `PoolShutdownHangs` are temporal counterexamples under
fairness: time passes, and every goroutine that can run does.

Some properties carry a condition because the code does not guarantee more, and a
reader should know which:

* `ExactlyOnePlace` does not say that every lost message is reported: those that
  `handleUnregister` purges, and those sent after its purge, which stay in the channel of a
  dead client, are lost without a trace.
* `CloseFrameSent` excludes a hub that shuts down: there the context watcher
  (`client.go:410`) may close the connection before `writePump` has sent the frame.
* `DisconnectIsNotified` excludes it too: Run returns without unregistering its clients,
  so their OnClose and AfterDisconnect never run.
* `EventuallyReachable` says eventually: `handleRegister` answers before the snapshot is
  rebuilt, so a client may miss a Broadcast made at once.
* `ShutdownTerminates` does not say that no pump starts afterwards: an upgrade whose
  answer is ready may choose it after `wg.Wait` has returned (`hub.go:1128`).
  `ShutdownClosesAll` covers its connection.
* `ShutdownTerminates` is about a hub whose Run was called: `NewHub` counts Run in `wg`, so
  Shutdown of a hub that nobody runs returns only when its context expires.
* `CallReturns` and `ShutdownFollowsCalls` have the premise `ContextsOver`: the contexts given to
  BroadcastWithContext have ended. `PoolShutdownHangs` shows the second without it.
* `IndexTracksUsers` says nothing of clients that have left; `LookupsRemoved` shows why.
* `TicksDecide` is about what the ticks see; `ReaperTimeout` shows what that costs.
* `NatsImplements` promises nothing live and no watcher when Close **and** the Subscribe calls
  have returned, and allows handlers of pending messages to run after that. Close alone does
  not wait for a watcher that a concurrent Subscribe has taken over, although `nats.go:222-223`
  says that no goroutine outlives it; that Subscribe ends it before it returns.
* `RedisImplements` and `AdaptersLetGo` take it that `sub.Receive` and the handlers return. A
  handler that calls Close waits for itself.
* `PresenceConverges` needs a broker that does not lose every report; until a report
  arrives the observer may have forgotten a live node.
* `SenderOrder` is about calls on one node. A call on another node that was made later
  may arrive earlier.

## 4. Fairness

Only what Go's scheduler and mutexes give: a goroutine inside a call takes its next
step when it can (weak fairness per goroutine; a mutex that is taken a bounded number
of times reaches every waiter); Run, once called, takes events from its channels.
Hooks are assumed to return. Nothing is assumed of peers, of the callers' contexts,
or that anybody ever calls an operation, Run included; a property that needs the contexts
of callers to end says so in its premise. `DrainTerminates` needs the reaper to find each
client idle at some time, which the code guarantees only for clients whose send
buffer stays empty, and it is stated for those. In `WorkerPool` a sender that waits for
room in the task channel gets its turn (Go serves blocked senders first come, first
served: strong fairness of `SubmitSend`). In `Presence` the tickers of running hubs keep
firing, and of the reports a hub publishes for ever infinitely many arrive (strong
fairness of `Publish`); a hub may stop at any time. In the adapters nothing is assumed of
the callers' contexts: a subscription that is replaced or closed ends without them. The
handlers of the messages that are pending when a NATS subscription is drained return, so
that the drain ends (weak fairness of `NatsFinishDrain`).

## 5. Proofs

Every invariant, action property and refinement that a passing run checks is also a
theorem, for all values of the constants that satisfy the module's named assumption:
any number of clients, goroutines, nodes, messages and calls, every limit, capacity,
rate, interval and batch size, and every value of the bounds TLC needs (`MaxVersion`,
`MaxTick`, `MaxLeaves`, ...). The assumptions are type facts (limits are naturals, a channel
has room for one item, nil is no client) and the finiteness of the sets that are
counted. `PROJECT.json` lists the theorems with the property each one states. Each
inductive invariant was first checked by TLC as an invariant of the module, on instances
of the size of the runs.

**`HubLifecycleProofs`** (`LifecycleAssumption`): `TypeCorrect`, `CountCorrect`, `LimitHolds`,
`DrainSignalNotLost`, `PumpsRegistered`, `NoRegress`, `ConnOwned`, `CloseFramesSent`. The inductive
invariant joins the types with the count equation and the limit (the check of
`handleRegister` reads the map that it then extends), the drain signal, and `Admission`,
two relations that tie a client's upgrade, its entry in the channels, the answer, its
pumps and its membership together: a client is in the register channel only while its
request is unanswered, an accepted client is registered until its read pump has handed
it over, and Run's current client is in the map or out of it as its program counter
says. Without them `TakeUnregister` could remove a client twice, and the counter would
go negative. `CloseFramesSent` adds `Wiring`: Run closes a connection only after its read pump
has ended, an abrupt close is one of those, and with healthy peers and a hub that is up
the read pump ends only after the write pump has closed the connection, frame first.

**`RoomsProofs`** (`ConstantsAssumption`): `TypeCorrect`, `LimitsHold`, `NoLeak`, `NobodyElseRemoves`,
`RoomsKeepCounts`. The strengthening is `OneName`: a registered object has one
name, and a goroutine that holds a registered object holds it under that name. It makes
`deleteRoomIfEmpty`, which compares pointers, delete only what it was called for, and it
survives because a new room takes an object nobody refers to. Pointers to deleted
objects stay unconstrained, as in the code. `RoomsKeepCounts` is the refinement of `RoomCounts`; it
needs `Stages` (which kind of call can be at which point, with what collected), so that the set
of debtors changes exactly when a section moves a count or pays.

**`SendQueueProofs`** (`QueueAssumption`): `TypeCorrect`, `AcceptedOnce`, `SentInOrder`, `FlushedBeforeFrame`. `Placed`
says that channel, pump, wire and the three ways of being lost are disjoint, hold nothing twice
and together hold the accepted and the dropped messages; `InLine` that along wire, pump and channel nothing is behind a message
that began after it was accepted; `Flushing` that on a healthy connection whatever is owed
to the flush is still ahead of the pump, and once it flushes within the first `budget`
places of the channel. Evictions take from the head and so only move it forward.

**`WorkerPoolProofs`** (`PoolAssumption`): `TypeCorrect`, `NoTaskOutlivesCall`, `SentOnce`, `DrainedOnShutdown`. A task
is queued once or with one worker (`OneHolder`); the WaitGroup counts the batches that are out
and those still to be submitted (`Counted`), so that zero means none; a batch is unsent in
the channel, sent up to where its worker is, and sent when it is over (`BatchOK`); the loop of the
fallback begins where the first refused batch begins (`InLoop`). Arithmetic lemmas show that the
batches of `parallelSend` cover a snapshot of any size without overlap.

**`ClusterProofs`** (`ClusterAssumption`): `TypeCorrect`, `DeliveredAtMostOnce`, `DeliveredToAudience`, `NoneForgotten`,
`DeliveredInOrder`. A message is in an inbox once, only after its call is over on its own node, and
no longer when the node has begun to handle it (`OncePerNode`); whoever is owed it has it, is about
to be tried, or its node still has to hear of it (`OnItsWay`); an earlier call of the same node is ahead
in every inbox and over on every node that has begun the later one (`InTurn`).

**`StandaloneProofs`** (`UserIndexAssumption`, `RateAssumption`, `LogAssumption`, `ReaperAssumption`): `UserLimitHolds`,
`IndexExact`, `BucketExact`, `LogLinesSpaced`, `TicksBoundTheClose`. The index lists a client under its own ID
only, and `Listing` says at which points of a handler it is listed. The bucket holds the least of what a
bucket that was full before some accepted message would hold now, and as much as one of
these: the first half bounds every window, the second shows that a drop was due. A caller about
to swap has read a time an interval after the one it compares with. The reaper's entry was
made at most an interval after the client fell idle and at least one after the last tick that found it
busy, and its last tick did not find the timeout over.

**`AdapterProofs`** (`NatsAssumption`, `RedisAssumption`): `NatsKeepsContract`, `RedisKeepsContract`, the refinements of
`AdapterContract`. NATS: an installed subscription is the current one, has been taken by a call or by
Close that will drain it, or is released (`NatsOwned`), and a call that finds its own generation in `a.gen`
finds nothing in `a.cur` (`NatsGens`), so that an installation overwrites nothing. Redis: the counter of
`a.wg` is the number of slots that are reserved or have a running goroutine (`RedisCounted`), so that Close
returns only when neither is left and no call can still start one.

Only model-checked: the liveness properties (`UpgradeReturns`, `ShutdownClosesAll`, `ShutdownTerminates`,
`EventuallyReachable`, `DisconnectIsNotified`, `DrainTerminates`, `TrySendReturns`, `CallReturns`, `ShutdownFollowsCalls`,
`PresenceConverges`, `AdaptersLetGo`), because the prover handles neither fairness nor `ENABLED`; and the six
counterexamples of section 3. `Presence` has no theorem: all that is promised of it is eventual.
Facts about sequences are proved element by element, since induction over data is not available.

## 6. Not modelled, and the plan

To prove next: for `Presence` the safety half of its convergence (a report that was gathered under the
current version and client count, with no increment owed, has the current sizes), which today is
only seen through `PresenceConverges`; and the conditions under which the findings
cannot happen, for example that `JoinedIsListed` holds if no call overlaps the deletion of its room.

Not modelled, although it has behaviour over time:

* coalesced writes (`drainQueuedCoalesced`): the same queue operations as `drainQueued`, with
  frames that hold several messages;
* hooks that call back into the hub: an OnSendDropped hook that sends to the same client under
  DropOldest waits for `sendMu` (`hub.go:1223`), one that broadcasts in parallel from a pool
  worker may wait for the pool it occupies (`hub.go:1477`);
* the creation of the pool against Shutdown (`hub.go:924`), and adapter.Close and
  pool.shutdown (`hub.go:914-927`) as steps of Shutdown in `HubLifecycle`: `ShutdownTerminates` starts
  at the wait that follows them, and what they may wait for is in the adapter modules and in
  `WorkerPool`;
* the rounding of float64 in the token bucket, and wall clocks that go back.

Left out for good: configuration and options (set before Run), middleware and router
(sequential composition), metrics and their exposition (nothing reads them), logging,
health views (read-only), message constructors, Publish of the adapters (it keeps no
state), the load-test tool and the examples.
