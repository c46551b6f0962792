# zero-kit in TLA+

zero-kit is a Go toolkit of independent packages.  Most of them wrap a
third-party client.  Four hold protocols of their own, and these are what this
directory specifies: the Redis work queue (`queue`), the message broker
(`broker`), the distributed lock (`locker`) and the SQL script migrator
(`migrate`).  All four are modelled, model-checked and proved about.

Paths such as `queue/redis.go:42` are relative to the repository.

## 1. Inventory

| component | state | operations | who else touches the state |
|---|---|---|---|
| `queue` Redis queue (`redis.go`, `task.go`, `interface.go`, `config.go`) | seven kinds of Redis key: IMMEDIATE, DELAYED, PROCESSING, DEAD, TASK:{id}, TIMEOUT:{id}, STATS | Enqueue, EnqueueWithDelay, Dequeue, Ack, Nack, Purge; GetTask and GetStats read | every process that uses the queue name; the clock; key expiry |
| `queue` worker loop and pool (`worker.go`) | per worker a context and a polling timer; per pool `workers`, `running`, a mutex | Worker.Start/Stop/run/processOne, pool Start/Stop/IsRunning | handlers run inside `processOne` and may call back |
| `queue` manager (`manager.go`) | maps of queues and pools, a mutex | GetOrCreateQueue, RegisterWorkerPool, StartAll, StopAll, EnqueueTask, GetQueueStats | any goroutine |
| `broker` (`broker.go`, `peer.go`, `room.go`, `event.go`) | maps of peers and rooms, each peer's room id and `closed` flag, three bounded channels, one send channel per peer | Start, Stop, Accept, Broadcast, SendTo, SendToRoom, Room.Broadcast, CreateRoom, JoinRoom, LeaveRoom; the goroutines `run`, `readLoop`, `writeLoop` | one run loop, two goroutines per peer, callers, event and message handlers |
| `broker` transports (`tcp`, `quic`, `ws`) | a socket | ReadMessage, WriteMessage, Close | the two loops of the peer |
| `locker` (`redis_locker.go`) | one Redis key per lock with a TTL; a watchdog goroutine | Lock, Unlock, Extend, watchdog renewal | other processes; key expiry |
| `migrate` (`migrate.go`) | the script, the progress record (table or file), the database | Migrate (parse from the last line, then Exec and Save per statement) | a crash between any two steps; a second migrator; an edited script |
| `mailer` | one client pointer | Send, Close | callers |
| `httpclient`, `logger`, `baserepo`, `bind`, `apperror`, `gormutil`, `helper` | none that survives a call | wrapping, formatting, query building | nobody |
| `redis`, `mysql`, `sqlite`, `mongodb` | none | constructors of clients | nobody |

How they interact.  Producers and workers meet only in Redis; a worker calls
the queue and the handler in turn, all under one 30 s context; a pool starts
and stops workers, the manager starts and stops pools.  In the broker the read
loop of a peer feeds the `receive` and `unregister` channels, the run loop
empties them and calls the handlers, and everybody writes to the peers' send
channels, which the write loops empty.

What is hard, and what makes each component correct:

* **queue** - every call is several Redis commands; the process, the context or
  the connection may go between two of them; the client may send a command
  twice; `Dequeue` writes back a copy it read two commands earlier; `Purge` is
  not atomic.  Correct means: a task is in one place, is never lost, is
  delivered to one worker at a time, is tried at most MaxRetries + 1 times and
  ends completed or dead-lettered.
* **pool, manager** - `Stop` cancels the context its tasks settle with, and
  holds the mutex while it waits.  Correct means: no worker runs after `Stop`,
  no task is stranded by it (which the code does not keep, section 6), `Stop`
  returns.
* **broker** - connection, disconnection, room membership and shutdown race.
  Correct means: no send on a closed channel, the peer and room maps agree with
  the peers that are alive, every accepted peer is closed in the end, `Stop`
  returns.
* **locker** - the lock expires on its own; renewal races expiry and release.
  Correct means: one holder whose lease has not ended, only the holder's token
  releases, a lock is never orphaned for longer than its TTL.
* **migrate** - a crash between Exec and Save, and a script that grows between
  two runs.  Correct means: every statement is executed, in order, and exactly
  once if nothing crashed.

PROJECT.json lists the hazards one by one with their lines.

## 2. Plan

| order | modules | composes / implements | runs | theorems |
|---|---|---|---|---|
| 1 (done) | `RedisQueue`, `RedisQueueProperties`, `TaskLifecycle`, `RedisQueueLifecycle`, `MCRedisQueue`, `RedisQueueProof`, `RedisQueueLifecycleProof`, `RedisQueueKeptProof` | the queue with its workers implements `TaskLifecycle` | `queue_safety`, `queue_live`, `queue_retry_budget` | type correctness, every safety property of the two passing runs, and the refinement |
| 2 (done) | `Broker`, `BrokerProperties`, `MCBroker`, `BrokerProof` | run loop, read and write loops, acceptors, callers | `broker_safety`, `broker_live`, `broker_zombie`, `broker_panic`, `broker_stop` | type correctness; Broadcast never sends on a closed channel; no live peer is dropped; one disconnect per peer; after Stop the peers that reached the map are shut down |
| 3 (done) | `WorkerPool`, `WorkerPoolProperties`, `MCWorkerPool`, `WorkerPoolProof` | pools, manager, application goroutines and handlers that call back, over `TaskLifecycle`, which `RedisQueue` implements | `pool`, `pool_stop` | type correctness; a stopped pool has no running worker; only an ended context strands a task |
| 4 (done) | `Locker`, `LockerProperties`, `MCLocker`, `LockerProof` | Redis key with TTL, watchdogs, several callers | `locker` | type correctness; mutual exclusion; the watchdog keeps the lock |
| 5 (done) | `Migrate`, `MigrateProperties`, `MCMigrate`, `MigrateProof` | script and its releases, progress record, concurrent processes, calls that end early | `migrate` | types; the record never passes what was executed; order; success means done; repeats are bounded |
| 6 (open) | `RetryDelay` | `calculateRetryDelay` in 64-bit arithmetic against its documented meaning | one run over the retry counts | monotone below the overflow |

Bounds in all of them are constants named `Max...` that appear in guards.

The theorems state every safety and action property of the passing runs and the
refinement.  What stays with TLC are the liveness properties, which hold under
fairness and are out of the prover's reach: `EveryTaskSettles`,
`DisconnectIsHandled`, `EverythingRuns`, `CallsEnd`, `QueuedIsServed`,
`WatchDogEnds` and `FreedInTheEnd`.

## 3. The Redis queue

### State and actions

| variable of `RedisQueue` | in the code |
|---|---|
| `immediate`, `delayed`, `processing`, `dead` | the keys of `NewRedisQueue` (`redis.go:105`); IMMEDIATE is a sequence read from its RPOP end, DELAYED the ticks left until each id's score, PROCESSING and DEAD bags because the code only searches them by id or counts them |
| `task` | TASK:{id}: status and RetryCount of the stored JSON |
| `timeout`, `stats` | the TIMEOUT:{id} keys that exist; the STATS hash |
| `pc`, `held` | where each worker is in `processOne`, and its copy of the task |
| `purger`, `scanned` | where `Purge` is, and the keys its SCAN returned |
| `faults`, `purges` | used up from MaxFaults and MaxPurges |
| `enqueued`, `attempts`, `succeeded`, `acked` | history, read by properties and by the two bounds only |

A Lua script or a command is one action.  `Dequeue` is `MoveDelayed`, then
`DequeueEmpty`, `DequeueOrphan` or `DequeueTask`, then `MarkProcessing`, with
which the handler starts.  `HandlerSucceeds` leads to `Ack`; `HandlerFails`
leads to `NackGet` (GET and the choice between retry and dead letter) and then
`NackRetry` or `NackDead`.  `NotProcessing` is the early return of the three
settling scripts, `NackGetMissing` that of `Nack`.  `Purge` is `PurgeStart`
followed by one action per command.

Failures are of two kinds and both cost one of `MaxFaults`.  `Abandon`: a
command is never executed, because the context ended, the connection broke or
the process died (another worker then takes the place of the dead one).  The
second and third disjuncts of `Reply`: the command took effect and its reply
was lost; the call fails, or, when `Resends` holds, go-redis sends the command
again.  `redis.New` leaves go-redis at its default, which resends, so
`Resends = TRUE` is the code as shipped and `FALSE` is a client with retries
switched off.  An Enqueue that its caller or the client repeats is
`MaxEnqueues[t] = 2`.

`TaskLifecycle` says what the `Queue` interface promises without lists or
workers: new, queued, running, done, dead or purged, and how often tried.
`RedisQueueLifecycle` maps the queue to it.

### What the runs check

`MCRedisQueue` has two tasks and two workers; MaxRetries is 1, so every task
sees a first try, a retry and a dead letter; BatchLimit is 1, so two due tasks
exceed a batch; one delay of one tick makes due and not yet due differ.

* `queue_safety` - each id enqueued once, one fault anywhere, one `Purge`
  interleaved anywhere, a client that does not resend.  `OnePlace`,
  `NothingLost`, `SingleDelivery`, `AttemptsBounded`, `DeadIsExhausted`,
  `DataIffReferenced`, `RetryCountIsAttempts`, `LeakNeedsFault`, `NeverRerun`
  and the refinement `ImplementsLifecycle`.  One fault and one purge are enough
  to meet every pair (fault, purge) at every two points of a worker's cycle
  while the other worker is anywhere in its own.  The workers are symmetric.
* `queue_live` - t2 is enqueued twice, t1 once, one fault: `HeldIsProcessing`
  and `DataIsReferenced` hold even for the id that is in IMMEDIATE twice, and
  `EveryTaskSettles`: without a fault every task enqueued once is completed or
  dead-lettered.
* `queue_retry_budget` (violated) - `RetryBudget` with the resending client:
  a Nack whose reply is lost is sent twice, the second LREM removes the entry
  of the worker that dequeued the retried task meanwhile, and the handler runs
  more often than MaxRetries + 1 times.

The visibility timeout of `config.go:11` and `redis.go:114` has no run: the key
TIMEOUT:{id} is set and deleted (`timeout`, `ExpireTimeout`) and read by nothing,
so a task whose worker lost it stays in PROCESSING for ever, as `EveryTaskSettles`
has to allow after a fault.

Properties that speak of lost or duplicated tasks are restricted to `Once`, the
ids enqueued at most once, where the code does not promise more: `NewTask`
draws a fresh UUID for each task.  Those with `purges = 0` are about a queue
nobody purges, since Purge deletes what they count.

`MaxFailures` (2 or 3, above MaxRetries) only matters where an id is enqueued twice;
for an id enqueued once the handler is never called so often.

### Fairness

`FairSpec` has weak fairness of each worker's next command and of the clock.
`Worker.run` polls until it is stopped, and a handler is assumed to return (the
30 s context is what the code offers it; one that does not return is the fault
`Abandon`).  Nothing is assumed of producers, Purge, faults or key expiry.

### What is proved

Three modules, each on top of the one before: `RedisQueueProof`,
`RedisQueueLifecycleProof`, `RedisQueueKeptProof`.  All theorems are for every
set of workers, every finite set of tasks, every limit, delay and number of
faults and purges, from `ConstantsAssumption` alone, and differ in the client
they allow:

| holds | theorems |
|---|---|
| with any client | `TypeCorrect`, `OnePlaceAlways`, `NothingLostAlways`, `LeakNeedsFaultAlways` |
| as long as no command was executed twice (`Unrepeated`: a client that does not resend, or any client before the first fault) | `InductiveInvariant`, `SingleDeliveryAlways`, `AttemptsBoundedAlways`, `DeadIsExhaustedAlways`; `KeptAlways`, `DataIffReferencedAlways`, `RetryCountAlways`, `HeldIsProcessingAlways`, `DataIsReferencedAlways` |
| with a client that does not resend (`~Resends`) | `NeverRerunAlways`, `LifecycleImplemented` |

The conditions are not there to get the proofs through: `queue_retry_budget`
shows that with a resending client a fault takes the entry of another worker
out of PROCESSING, and from there single delivery, the bound on the attempts
and the life cycle are lost.  What survives even then is that an id is in one
place and is not lost.

None of these properties is inductive.

* `Inv` (safety of the workers).  That two workers never have the same task
  needs that a task in hand is in no list it could be taken from; that the
  attempts are bounded needs that the count stored with a waiting task, and the
  one in a worker's copy at each of its commands, is the number of handler
  runs; and a Nack after a Purge must still find either no entry or the right
  one.  Per task: `Exclusive` (one place, and the holder excludes the waiting
  lists), `Fresh` (nothing before the Enqueue), `Counted` (attempts against both
  copies of the count, per command of the holder) and `Finished` (after a
  success only the Ack is left).  The lemmas first compute what the list
  operations do to the occurrences of an id (`AppendId`, `TailId`, `MoveId`),
  then show for each action that the four parts survive it; `IdleSafe` covers
  the steps that touch nothing of a task.
* `Life` (the refinement).  An acknowledged id is in no list and with no worker,
  so it stays done, and a worker that is past the start of the handler counts as
  one try, so no task completes or goes back untried.  Each action has an effect
  lemma, which says where the id goes and that every other id is `Unmoved`;
  `StateValues` reads the mapped state off `Inv` and `Life`, and each action then
  is one step of `TaskLifecycle` or none.
* `Placed` and `Lossless` (one place, nothing lost).  These speak of the lists
  alone: every script that puts an id into a list takes one entry of it out of
  another, and does nothing when there is none to take out, so a script that is
  executed a second time does no harm here whatever the workers think they have.
  `LosslessInv` adds that until a Purge an id that is not acknowledged is in a
  list and has its data.
* `Backed` and `Kept` (until a Purge).  PROCESSING has an entry for each worker
  with the id, also for an id enqueued twice; data has an entry in some list;
  a dead task has its final count; without a fault an id in PROCESSING has a
  worker.

Only model-checked: `EveryTaskSettles`, which is liveness, and the two
violations.

### Left out

Payload, metadata, error text and timestamps; the order of due tasks within a
batch (Redis sorts by score; the model allows any order); a SCAN that needs
several pages; stored JSON that does not parse (only `Marshal` writes it); the
seconds of the polling interval; `GetTask` and `GetStats`, which change
nothing; the TTL arithmetic of TIMEOUT keys (they may expire at any time, and
nothing reads them).  `config.go` has fields nothing reads (scan intervals,
DeadLetterMaxRetries, EnableDeadLetter, and MaxRetries, which is the task's).

## 4. The broker

### State and actions

`Broker` has one process per goroutine: `loop` (and `loopPeer`, the peer in its
hands) for `run`, `reader[p]` and `writer[p]` for the two loops of a peer,
`accept[p]` for the call of `Accept`, `stopper` for that of `Stop`, and
`call[c]` for a call of an operation by a caller or by a handler inside the run
loop.  `register`, `unregister` and `receive` are the channels, of capacity
`ChannelBuf`; a send channel is the number of messages in it.  `peers` and
`peersMu` are the peer map and the readers of its lock, `room`, `members` and
`roomOf` the rooms, `conn` the transports.

A step is one channel operation or one section under a lock, so `Send` is two
(`SendCheck`, `SendPush`), `JoinRoom` three and `LeaveRoom` six (`LeaveFind`,
`LeaveMember`, `LeaveCleanup`).  `Room.Broadcast` keeps the lock of its room
while it sends (`RoomIsLocked`), so nobody enters or leaves meanwhile.  `LoopSelect`
is Go's `select`: any ready case, the cancelled context among them.
`unregister` runs LeaveRoom, HandleDisconnect, the deletion and the shutdown as
separate steps, with everybody else in between.  A send on a closed channel
sets `crash`, after which nothing happens: a panic ends the process.

### What the runs check

* `broker_safety` - one connection with one message, a caller that makes two
  calls of any operation and a handler that makes one, the context cancelled or
  `Stop` called at any time: `BroadcastIsSafe` and `RoomIdMeansMember`.  For the
  second, the join of a handler, the LeaveRoom of the run loop and a join of the
  caller are what it takes to break a wrong order of the writes.
* `broker_live` - two connections, so that the two channels of the run loop are
  contended and one peer can be in each of two of its steps; channels of
  capacity 1, so that each is met empty and full; writes that fail at any time;
  a handler that broadcasts or closes the peer it is called for.
  `LivePeerStays`, `OneDisconnect`, `StopLeavesNothing`, which is about the peers
  that reached the map, and `DisconnectIsHandled`.
* `broker_zombie` (violated) - `DisconnectedIsGone` of `broker_test.go:235`.
* `broker_panic` (violated) - `SendNeverPanics`: ErrPeerClosed is not the only
  answer to a send that meets a shutdown.  `BroadcastIsSafe` shows that
  `Broadcast`, which keeps the map locked, has no such race.
* `broker_stop` (violated) - `StopEnds`.

A write may fail while the read side works (a deadline, one direction of the
connection): `Write` ends the write loop at any time, and nothing else.  Such a
peer stays in the map with a send channel that nobody empties until its read
loop ends, which `DisconnectIsHandled` then answers for.

`RoomIdMeansMember` is what concurrent callers are left with: a peer's room id
and that room's member list agree outside the two writes of a call.  Whether the
room can still be found is not promised (a room may be dropped between the look
and the joining, and a peer may join after its disconnect); the theorem
`HandlersAlwaysKeepRooms` says when it is.

### Fairness

Weak fairness of the run loop, the loops of each peer, the two later steps of
`Accept`, running calls and the return of `Stop`: the Go scheduler runs every
goroutine that can go on, `select` does not pass over a ready case for ever
(connections and messages are bounded), and handlers return.  Nothing is
assumed of remote ends, `Stop`, or the start of calls.

### What is proved

`BrokerProof`, for any connections, rooms, callers, operations, buffer sizes
and bounds, and from `BrokerAssumption` alone: `TypeCorrect`,
`BroadcastAlwaysSafe`, `LivePeerAlwaysStays`, `OneDisconnectAlways`,
`StopAlwaysLeavesNothing` and `RoomIdAlwaysMeansMember`, the safety properties of
the two runs one by one; and `HandlersAlwaysKeepRooms`.

`TypeOK` is not inductive: that LeaveRoom in the run loop does not take over a
call of a handler needs `LoopCalls`, where the run loop may be in a call.
`SafetyInv` adds four parts.  `MapInv`: what a broadcast under way has still to
send to is in the map, the peer it is about to send to is open, and the run
loop takes a peer out of the map before it shuts it down; so the read lock is
what separates Broadcast from the shutdown.  `EndInv`: a peer is in
`unregister`, in the hands of the run loop on its way out, or shut down, only
when its read loop has ended because its transport did.  `InsertInv`: until
then it is in the map, and after it has left the map it is shut down, or the
run loop is at that step.  `OnceInv`: it is in `unregister` at most once, and
not any more once the run loop has taken it out.  `EndInv` carries the other
two: an ended read loop does not start again, because `Accept` starts it
once.  Each part has a lemma with one step per action; `GoneFrame` covers the
actions that touch nothing of it.

`RoomIdMeansMember` is inductive beside the types because it names the call that
is between the two writes, with the room it joins: of two joins that overlap,
only the one that wrote the id last settles the peer.  `HandlersKeepRooms`
assumes that the operations of the callers include no join and no leave; its
invariant `HandlerInv` says that a join under way has its room in the map and
that a leave about to drop a room has it empty, which holds on because all these
steps belong to the run loop.  No run repeats it: with two peers in one room, the
smallest case of interest, it takes about four minutes of TLC, which found no
violation either.

Only model-checked: `DisconnectIsHandled`, which is liveness.

### Left out

A second `Start`, metadata, the handlers of the other events, blocking writes, message contents
and sizes (a message that is too large is skipped like one that cannot be
decoded), and the priority RWMutex gives to waiting writers.

## 5. The migrator

### State and actions

`Migrate` has processes that call `Migrate` on one script, one progress record
and one database.  `pc[m]`, `script[m]` and `at[m]` are where a process is, the
lines it read and the line up to which it has come; `progress` is the last
record of either store, which append and read the last one; `runs` counts how
often each line of SQL was executed; `release` is the installed script, which
`Release` replaces while anybody runs it.

`Load` and `Read` are the two halves of `parseSQLStatements`; the segments it
would return are found with `EndsAt`, line by line as the code numbers them.
`Exec` and `Save` are the two halves of the loop in `Migrate`.  `Abort` ends a
call between any two of them (the process dies, the context ends, a store or
the script cannot be read, an Exec has no effect); `ExecFails` ends it after the
first commands of a segment.  Each costs one of `MaxFaults`.

What the model assumes of the script is `MigrateAssumption`: a release appends
text to the one before (`Extends`), so it keeps its lines but the last, in which
the text goes on, and no line of SQL is in two places.  This is all the code
needs but for one case, `Continued`.  A script without a marker at its end is
recorded at its last line, the empty one behind the final newline
(`migrate.go:344`).  SQL that the next release puts into that line is taken for
done: it is skipped for ever, the lines below it run, and `Migrate` returns nil.
TLC meets the case in the run (`s4` of the last release of `MCMigrate`), and the
properties below leave out exactly that line; what surrounds it is still
executed in order.  `README.md:14` and `:35` of the repository neither allow nor
forbid such a release, so there is nothing the skipping contradicts and no run
that counts it as a violation.  A team that ends its scripts with a marker never
meets it.

### What the run checks

`migrate` - two processes and three releases, which have an empty segment, one
of two lines around a comment, a final newline, and a last segment that is open
when the next release comes, which then puts a marker or SQL into its last line;
two calls end early.  Two processes are enough for
each to be at every step of the other, and two faults for a failure, and a
second one while its damage is repaired.  `ProgressIsDone`, `InOrder`,
`SuccessMeansDone`, `RepeatsAreBounded` (without concurrent calls: at most one
repeat of a line per failed call, so exactly once without failures) and, as
liveness, `EverythingRuns`.

### Fairness

Weak fairness of each step of a call, and of calling `Migrate` again: a service
calls it whenever it starts.  Nothing is assumed of releases and failures.

### What is proved

`MigrateProof`, for any processes, script, releases and number of failures and
from `MigrateAssumption` alone: `TypeCorrect`, `ProgressAlwaysDone`,
`InOrderAlways`, `SuccessAlwaysDone` and `RepeatsAlwaysBounded`.
`ProgressIsDone` is not inductive: it says nothing of the line in a process's
hands, which it records later, nor of releases that come after.  `IInv` adds
that what a process has passed is done (`Behind`), that the segment it is about
to record was executed (`Executed`), and both for every release, installed or
not. The lemma at its heart is `SegmentCovers`: up to the end of a segment,
every release with SQL has the same line there, unless the line is in `Continued`:
a segment ends with a marker, which no release replaces, or with the last line.

`RepeatsAreBounded` says nothing of the lines that come next, so its
invariant is `Undisturbed`: as long as no two calls ran at once there is one
active call at most and its place is the record; the lines below the record
were executed at most as often as calls failed, and while a segment that was
executed waits for its record, the lines below that segment.  So the call after
a failure adds one execution to those the failures wasted (`RunsBelow`).

Only model-checked: `EverythingRuns`, which is liveness.

### Left out

Which process holds which database connection, transactions (the code uses
none), the logger, the wrapping of errors, and progress files with lines that do
not parse (a torn write makes every later Load fail; the database store, which
the code takes by default, writes whole rows).

## 6. The worker pools and the queue manager

### State and actions

`WorkerPool` EXTENDS `TaskLifecycle`: below the pools is not the Redis queue
but what it was shown to implement, so a command of a worker is one step of the
life cycle (`Take`, `Try`, `Complete`, `Retry`, `Bury`).  A thread is a goroutine
that may call the package: an application goroutine of `Callers`, or a worker,
whose handler may call back.

| variable of `WorkerPool` | in the code |
|---|---|
| `queues`, `workerPools` | the two maps of `QueueManager` |
| `queueOf` | the queue of each pool that `RegisterWorkerPool` has made |
| `running` | `WorkerPoolImpl.running` |
| `worker`, `cancelled`, `expired` | each `Worker`: its goroutine, its task, whether `cancel` was called, whether the 30 s of `processOne` are over |
| `ctxDone` | the context given to `Start` |
| `call` | the call each thread is in, and the step of it |
| `calls`, `expiries` | used up from MaxCalls and MaxExpiries |
| `cutOff` | history: tasks whose context ended while a worker had them |

The locks are not variables, they are read off `call`.  Only `Stop` keeps the
mutex of a pool for more than a step (`StopsOf`).  The manager's RWMutex has the
rules of Go's: writers queue (`"queueing"`), the first one announces itself and
waits until the readers have gone (`Announce`, `Locked`), readers that come
after it wait (`"waiting"`), and its `Unlock` lets all of these in.
`StartAllWorkerPools` and `StopAllWorkerPools` are readers while they go from
pool to pool in any order, and `Stop` goes from worker to worker: `StopWorker`
cancels one, `WaitIsOver` when it has exited.

`Ended(w)` is the context under which everything in `processOne` runs.  When it
ends before the handler, the Ack or the Nack is reached, the command fails
(`CommandFails`) and the task stays in PROCESSING.

### What the runs check

`pool` - one pool with two workers and one without any, which is registered for
the same queue (and then replaces the first in the manager) or for another one;
an application goroutine that registers, starts all and stops all, one that
registers, enqueues, starts and stops; handlers that get a queue, read
statistics, ask IsRunning or stop a pool; three calls besides those that
register and enqueue; one expiry.  Three calls are enough for a Stop, a Start
and a call of a handler to meet, and for a stop and two starts; two workers for
one to be stopped while the other still works.

* `StoppedIsQuiet` - a pool that is not running has no goroutine left, so that
  a second Start does not double its workers.
* `OnlyCutOffIsStranded` - a task in PROCESSING that no worker has is one whose
  context ended in a worker's hands: a handler that fails, a retry, a start and
  a stop at any other moment strand nothing.
* `CallsEnd` - every call returns, unless a handler waits for a lock while its
  own pool is being stopped (`CallbackDeadlock`).  That deadlock is in the code:
  a handler that calls `Stop` or `IsRunning` of its pool, or `EnqueueTask`,
  `GetOrCreateQueue` or `RegisterWorkerPool` of the manager during
  `StopAllWorkerPools`, or `GetQueueStats` behind a waiting writer, waits for
  Stop, which waits for it.
* `QueuedIsServed` - a queued task of a running pool is taken in the end.

`pool_stop` (violated) - the same instance without expiries: `StopFinishesTasks`,
what `worker.go:48` and `:159` say of Stop, that it waits until the current task
is processed.  It does wait for the handler, but first cancels the context with
which the result is then recorded, so a task that Stop interrupts before its Ack
or Nack is left in PROCESSING, where nothing looks at it again (section 3).

### Fairness

Weak fairness of the steps of every running call and of every worker: Go's
scheduler, mutexes that let every waiter in, a polling loop that goes on, and
handlers that return.  Nothing is assumed of new calls, expiries or the end of
the context.

### What is proved

`WorkerPoolProof`, for any queues, pools, numbers of workers, application
goroutines, handlers, tasks and bounds, from `WorkerPoolAssumption` alone:
`TypeCorrect`, `StoppedIsQuietAlways` and `StrandedAlwaysCutOff`.

`Moves` says what a step of one thread can do to all calls: it takes a lock that
is free, lets in readers, or goes on by one worker; from it follow that one
writer and one Stop per pool are under way at most.  `StoppedIsQuiet` needs
`StopsInOrder`: a Stop under way has a pool that still counts as running, and
the workers before the one it waits for are off.  `OnlyCutOffIsStranded` needs
`Hands` (a busy worker has a task of its own, in PROCESSING, and the task is
cut off exactly if the worker's context has ended) and `CutOff`; that Start, which
renews the contexts, does not break `Hands` needs `StoppedIsQuiet`.

Only model-checked: `CallsEnd` and `QueuedIsServed`, which are liveness.

### Left out

The configuration of a queue (`EnqueueTask` before `RegisterWorkerPool` creates
the queue with the default one, which then stays), loggers, the error branch of
`Start` (Worker.Start never fails), the seconds of the polling interval, failures
of commands other than by an ended context (they are in `RedisQueue`), and a
different context for every Start.

## 7. The lock

### State and actions

`Locker` is one key.  `value` and `left` are the key in Redis, the token being
the call of `Lock` that drew it, and the ticks until it expires; `phase[l]` is
what the caller knows, `ttl[l]` its `LockOptions.TTL`, `promise[l]` the ticks for
which it may think that it holds the lock; `dog[l]`, `due[l]` and `ctxDone[l]` are
its watchdog, the ticks until its ticker fires and the context that stops it.

`Lock`, `LockFails` and `LockReplyLost` are the outcomes of `tryLock`; `Unlock`,
`UnlockFails`, `Extend` and `ExtendFails` those of the two scripts, with and
without the answer arriving; `DogLooks` (EXISTS) and `DogRenews` (Extend) the two
commands of the watchdog, between which anything may happen; `Tick` lowers every
count and expires the key.  `PExpire(0)` deletes, as in Redis.  A process may
end (`Crash`), taking its watchdog along.  A lost command or reply and a
watchdog that misses a tick cost one of `MaxFaults`.

A promise is what a careful caller may count on: the TTL from the SET, the
extension from an answered Extend (but not more than the TTL where a watchdog
sets the expiry back to it), and the shorter of the two after an Extend without
an answer.  It runs down with the key: travel times are left out.

### What the run checks

`locker` - two callers, TTLs of 0 (no expiry), one tick and six, with a second
of one tick, so that the watchdog's interval is a third of the TTL or its lower
bound; extensions by less than a millisecond and by two ticks; one fault.  Two
callers are enough for a watchdog, a late Unlock and a late Extend to meet the
next holder, and a third caller could do no more to the key than the second.

* `MutualExclusion` - who holds the lock has its token in the key.
* `KeptWhileWatched` - `README.md:32` of the repository, as far as the code
  keeps it: for a TTL over a second.  With a TTL of a second or less the lock
  expires at the first tick of the watchdog or before it, since
  `startWatchDog` waits `max(ttl/3, time.Second)`.
* `WatchDogEnds` - the watchdog of a lock that was released or lost, or whose
  context or process ended, ends.
* `FreedInTheEnd` - nobody's lock with a TTL stays taken, unless an Unlock
  failed and the watchdog goes on renewing: that is in the code, and only the
  context given to `Lock` stops it.

### Fairness

Weak fairness of time and of every watchdog.  Nothing makes a caller unlock.

### What is proved

`LockerProof`, for any callers, TTLs, extensions, length of a second and number
of faults, from `LockerAssumption` alone: `TypeCorrect`, `InductiveInvariant`,
`MutualExclusionAlways` and `KeptWhileWatchedAlways`.  `IInv` adds to the types
that a promise is backed by the key (`Backed`: the token is there, for at least
as long) and that nobody is promised more than the TTL a watchdog may set the
expiry back to (`WithinTtl`).  `InTime`, for the watchdog, says that the key of a
watched lock outlives the next tick of its watchdog.

Only model-checked: `WatchDogEnds` and `FreedInTheEnd`, which are liveness.

### Left out

Other keys (they share nothing), the drawing of tokens (16 random bytes, taken
to be distinct), and network time.

## 8. Not modelled, and why

The transports, the database clients and `httpclient` are pass-through I/O;
`logger`, `bind`, `apperror`, `gormutil`, `helper` and `baserepo` format,
validate or build queries without state of their own; `mailer` guards one
pointer without a lock and otherwise calls SMTP.

## 9. Running

    tlc -workers 2 -config queue_safety.cfg MCRedisQueue
    tlc -workers 2 -config broker_safety.cfg MCBroker
    tlc -workers 2 -config broker_live.cfg MCBroker
    tlc -workers 2 -config migrate.cfg MCMigrate
    tlc -workers 2 -config pool.cfg MCWorkerPool
    tlc -workers 2 -config locker.cfg MCLocker
    tlapm RedisQueueProof.tla
    tlapm RedisQueueLifecycleProof.tla
    tlapm RedisQueueKeptProof.tla
    tlapm BrokerProof.tla
    tlapm MigrateProof.tla
    tlapm WorkerPoolProof.tla
    tlapm LockerProof.tla

Each run of PROJECT.json names its module and configuration; the proofs take a
minute or two at most.
