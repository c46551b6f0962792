------------------------ MODULE WorkerPoolProperties ------------------------
(* What the worker pools and the queue manager must and must not do.       *)
EXTENDS WorkerPool

CallRecords == [op : Ops \cup {"none"},
  step : {"none", "queueing", "announced", "waiting", "in", "submit",
          "locking", "stopping"},
  pool : Pools \cup {NoPool}, name : Names \cup {NoName},
  task : Ids \cup {NoTask}, seen : SUBSET Names, at : Nat]

\* The type invariant of the pools, the manager and the calls under way.  At
\* most one writer has announced itself to the manager's RWMutex, and at most
\* one Stop holds the mutex of a pool.
TypeOK ==
  /\ state \in [Ids -> States] /\ tries \in [Ids -> 0..(MaxRetries + 1)]
  /\ queues \subseteq Names
  /\ workerPools \in [Names -> Pools \cup {NoPool}]
  /\ queueOf \in [Pools -> Names \cup {NoName}]
  /\ running \in [Pools -> BOOLEAN]
  /\ worker \in [Workers -> [step : {"off", "idle", "marking", "handling",
                                     "acking", "nacking"},
                             task : Ids \cup {NoTask}]]
  /\ cancelled \in [Workers -> BOOLEAN]
  /\ expired \in [Workers -> BOOLEAN]
  /\ ctxDone \in BOOLEAN
  /\ call \in [Threads -> CallRecords]
  /\ calls \in 0..MaxCalls /\ expiries \in 0..MaxExpiries
  /\ cutOff \subseteq Ids
  /\ \A t, u \in Writers : t = u
  /\ \A p \in Pools : \A t, u \in StopsOf(p) : t = u

\* A pool that is not running, whose Stop has returned, has no goroutine left
\* and so can be started again without doubling its workers (Worker.Stop,
\* WorkerPoolImpl.Stop), whoever stops and starts it and in whatever order.
StoppedIsQuiet == \A p \in Pools :
  ~running[p] => WorkersOf(p) \cap Live = {}

\* The tasks in PROCESSING that no worker has, and that nothing takes out.
Stranded == {i \in Ids : state[i] = "running"} \ InHand

\* Only the end of its context under a worker's hands strands a task, by a
\* Stop, by the context of Start or after 30 s (processOne): never a handler
\* that fails, a retry, or a pool that is stopped and started again, whoever
\* does so and whenever.
OnlyCutOffIsStranded == Stranded \subseteq cutOff

\* Whom a thread waits for: the locks and the workers.
WaitsFor(t) ==
  CASE call[t].step \in {"queueing", "waiting"} -> Writers
    [] call[t].step = "announced" -> Readers
    [] call[t].step = "locking" -> StopsOf(call[t].pool)
    [] call[t].step = "stopping" -> {Awaited(t)} \cap Live
    [] OTHER -> {}

\* Threads that wait for each other in a circle, through the handler of a
\* worker that is being stopped and calls the package.
CallbackDeadlock == \E t \in Threads :
  /\ call[t].step = "stopping" /\ Awaited(t) \in Live
  /\ WaitsFor(Awaited(t)) # {}
  /\ \E S \in SUBSET Threads : /\ {t, Awaited(t)} \subseteq S
                               /\ \A u \in S : WaitsFor(u) \cap S # {}

\* Every call of a pool or of the manager returns: Stop and StopAll, which
\* hold locks while they wait for workers, never lock out each other or the
\* calls of other goroutines for ever, unless a handler waits for a lock while
\* its own pool is being stopped.  (The threads make finitely many calls, so
\* that all of them return is that at last none is under way.)
CallsEnd == <>[]((\A t \in Threads : call[t] = NoCall) \/ CallbackDeadlock)

Serving(n) == \E p \in Pools :
  /\ queueOf[p] = n /\ running[p] /\ StopsOf(p) = {}
  /\ WorkersOf(p) # {} /\ ~ctxDone

\* A task in a queue whose pool runs does not stay there: the loops of the
\* workers (run) go on after an empty poll, a failure, a timeout or a restart.
QueuedIsServed == \A i \in Ids :
  []<>(~(state[i] = "queued" /\ Serving(QueueName[i])) \/ CallbackDeadlock)
-----------------------------------------------------------------------------
\* worker.go:48 and worker.go:159 say that Stop waits until the current task
\* is processed.  Violated: Worker.Stop cancels the context first, under which
\* the task is marked as taken, acked or nacked, so that command fails and the
\* task stays in PROCESSING.
StopFinishesTasks == ~ctxDone /\ expiries = 0 => Stranded = {}
=============================================================================
