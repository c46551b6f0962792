----------------------------- MODULE WorkerPool -----------------------------
(***************************************************************************)
(* The worker pools of queue/worker.go and the QueueManager of             *)
(* queue/manager.go, over the queue that TaskLifecycle promises: who may   *)
(* start and stop workers, and what a stop does to the task in hand.       *)
(*                                                                         *)
(* A goroutine that calls the package is a thread: an application          *)
(* goroutine, or a worker, whose handler may call the package back.  Locks *)
(* are read off the calls: Stop alone keeps a pool's mutex for more than   *)
(* a step, and the manager's RWMutex is as Go's: a writer first announces  *)
(* itself, which keeps new readers out, and its Unlock lets in every       *)
(* reader that waits.                                                      *)
(*                                                                         *)
(* Abstractions.  A Redis command is a step of the lifecycle and fails     *)
(* exactly when its context has ended before it; its other failures are    *)
(* in RedisQueue.  One context is given to every Start.  A poll that finds *)
(* nothing changes nothing.  A queue is its name: the configuration of the *)
(* call that created it is left out.  Worker.Start never fails, so the     *)
(* error branch of Start (lines 145-151) is dead code.                     *)
(***************************************************************************)
EXTENDS TaskLifecycle, FiniteSets

CONSTANTS
  Names,           \* queue names
  QueueName,       \* the queue each task is for
  Pools,           \* the pools RegisterWorkerPool makes, one per call
  MaxConcurrency,  \* config.MaxConcurrency of each
  Registrations,   \* pool and queue name of each RegisterWorkerPool
  Callers,         \* application goroutines
  CallerOps,       \* operations each of them uses ...
  HandlerOps,      \* ... and the handlers that run in the workers
  NoName, NoPool, NoTask,
  MaxCalls,        \* bound: calls other than register and enqueue
  MaxExpiries      \* bound: tasks that take longer than 30 s

WriteOps == {"register", "getQueue", "enqueue"}  \* take the manager's Lock
ReadOps  == {"startAll", "stopAll", "stats"}     \* take its RLock
PoolOps  == {"start", "stop", "isRunning"}       \* take a pool's mutex only
Ops == WriteOps \cup ReadOps \cup PoolOps

WorkersOf(p) == {p} \X (1..MaxConcurrency[p])
Workers == UNION {WorkersOf(p) : p \in Pools}
Threads == Callers \cup Workers

ASSUME WorkerPoolAssumption ==
  /\ MaxRetries \in Nat
  /\ QueueName \in [Ids -> Names]
  /\ MaxConcurrency \in [Pools -> Nat]
  /\ Registrations \subseteq Pools \X Names
  /\ Callers \cap Workers = {}
  /\ CallerOps \in [Callers -> SUBSET Ops]
  /\ HandlerOps \subseteq Ops
  /\ NoName \notin Names /\ NoPool \notin Pools /\ NoTask \notin Ids
  /\ MaxCalls \in Nat /\ MaxExpiries \in Nat

VARIABLES
  queues,      \* names in QueueManager.queues
  workerPools, \* QueueManager.workerPools
  queueOf,     \* the queue of each pool; NoName: not made yet
  running,     \* WorkerPoolImpl.running
  worker,      \* what each worker goroutine does, and with which task
  cancelled,   \* Worker.cancel was called
  expired,     \* the 30 s of the task in hand are over
  ctxDone,     \* the context given to Start has ended
  call,        \* the call each thread is in
  calls, expiries,  \* bounds
  cutOff       \* history: tasks whose context ended in a worker's hands

managerVars == <<queues, workerPools, queueOf>>
otherVars   == <<ctxDone, calls, expiries, cutOff>>
butCall     == <<lifecycle, managerVars, running, worker, cancelled, expired,
                 otherVars>>
butWorker   == <<managerVars, running, cancelled, call, otherVars>>
vars == <<butCall, call>>

NoCall == [op |-> "none", step |-> "none", pool |-> NoPool, name |-> NoName,
           task |-> NoTask, seen |-> {}, at |-> 0]
Off    == [step |-> "off", task |-> NoTask]
Idle   == [step |-> "idle", task |-> NoTask]

Init ==
  /\ LifecycleInit
  /\ queues = {}
  /\ workerPools = [n \in Names |-> NoPool]
  /\ queueOf = [p \in Pools |-> NoName]
  /\ running = [p \in Pools |-> FALSE]
  /\ worker = [w \in Workers |-> Off]
  /\ cancelled = [w \in Workers |-> FALSE]
  /\ expired = [w \in Workers |-> FALSE]
  /\ ctxDone = FALSE
  /\ call = [t \in Threads |-> NoCall]
  /\ calls = 0 /\ expiries = 0
  /\ cutOff = {}
-----------------------------------------------------------------------------
(* Locks and contexts.                                                     *)

Writers == {t \in Threads : call[t].step = "announced"}
Readers == {t \in Threads : call[t].op \in ReadOps /\ call[t].step # "waiting"}
StopsOf(p) == {t \in Threads : call[t].step = "stopping" /\ call[t].pool = p}

Ended(w) == cancelled[w] \/ expired[w] \/ ctxDone
Live     == {w \in Workers : worker[w].step # "off"}
Busy(w)  == worker[w].task # NoTask
InHand   == {worker[w].task : w \in {v \in Workers : Busy(v)}}
-----------------------------------------------------------------------------
(* Calls: where each begins, and the manager's lock.                       *)

Goto(t, step) == call' = [call EXCEPT ![t].step = step]
Return(t) == call' = [call EXCEPT ![t] = NoCall]

MayCall(t, op) ==
  /\ call[t] = NoCall
  /\ IF t \in Callers THEN op \in CallerOps[t]
     ELSE op \in HandlerOps /\ worker[t].step = "handling"

Begin(t, c) ==
  /\ MayCall(t, c.op)
  /\ call' = [call EXCEPT ![t] = c]
  /\ calls' = IF c.op \in {"register", "enqueue"} THEN calls ELSE calls + 1
  /\ calls' <= MaxCalls
  /\ UNCHANGED <<lifecycle, managerVars, running, worker, cancelled, expired,
                 ctxDone, expiries, cutOff>>

LockStep == IF Writers = {} THEN "announced" ELSE "queueing"

\* RegisterWorkerPool: its pool is new.
BeginRegister(t) == \E r \in Registrations :
  /\ queueOf[r[1]] = NoName /\ \A u \in Threads : call[u].pool # r[1]
  /\ Begin(t, [NoCall EXCEPT !.op = "register", !.step = LockStep,
                             !.pool = r[1], !.name = r[2]])

BeginGetQueue(t) == \E n \in Names :
  Begin(t, [NoCall EXCEPT !.op = "getQueue", !.step = LockStep, !.name = n])

\* EnqueueTask, EnqueueTaskWithDelay: each id is enqueued once.
BeginEnqueue(t) == \E i \in Ids :
  /\ state[i] = "new" /\ \A u \in Threads : call[u].task # i
  /\ Begin(t, [NoCall EXCEPT !.op = "enqueue", !.step = LockStep,
                             !.name = QueueName[i], !.task = i])

\* RLock, for StartAllWorkerPools, StopAllWorkerPools and GetQueueStats
BeginRead(t) == \E op \in ReadOps :
  Begin(t, [NoCall EXCEPT !.op = op,
                          !.step = IF Writers = {} THEN "in" ELSE "waiting"])

\* Start, Stop and IsRunning of a pool that RegisterWorkerPool has returned
BeginPool(t) == \E op \in PoolOps, p \in Pools :
  /\ queueOf[p] # NoName
  /\ Begin(t, [NoCall EXCEPT !.op = op, !.step = "locking", !.pool = p])

Announce(t) ==
  /\ call[t].step = "queueing"
  /\ Writers = {}
  /\ Goto(t, "announced")
  /\ UNCHANGED butCall

\* Unlock of a writer that goes on with call c: the waiting readers hold it.
Unlock(t, c) == call' = [u \in Threads |->
  IF u = t THEN c
  ELSE IF call[u].step = "waiting" THEN [call[u] EXCEPT !.step = "in"]
  ELSE call[u]]

\* getOrCreateQueueLocked, and the same lines of GetOrCreateQueue
GetOrCreate(n) == queues' = queues \cup {n}

Locked(t) == call[t].step = "announced" /\ Readers = {}

RegisterWorkerPool(t) ==
  /\ Locked(t) /\ call[t].op = "register"
  /\ GetOrCreate(call[t].name)
  /\ workerPools' = [workerPools EXCEPT ![call[t].name] = call[t].pool]
  /\ queueOf' = [queueOf EXCEPT ![call[t].pool] = call[t].name]
  /\ Unlock(t, NoCall)
  /\ UNCHANGED <<lifecycle, running, worker, cancelled, expired, otherVars>>

GetOrCreateQueue(t) ==
  /\ Locked(t) /\ call[t].op \in {"getQueue", "enqueue"}
  /\ GetOrCreate(call[t].name)
  /\ Unlock(t, IF call[t].op = "enqueue"
               THEN [call[t] EXCEPT !.step = "submit"] ELSE NoCall)
  /\ UNCHANGED <<lifecycle, workerPools, queueOf, running, worker, cancelled,
                 expired, otherVars>>

\* The Enqueue of EnqueueTask; a handler passes on its context.
EnqueueTask(t) ==
  /\ call[t].step = "submit"
  /\ IF t \in Workers /\ Ended(t) THEN UNCHANGED lifecycle
     ELSE Submit(call[t].task)
  /\ Return(t)
  /\ UNCHANGED <<managerVars, running, worker, cancelled, expired, otherVars>>

\* The loops over workerPools take the names in any order.
Unseen(t) == {n \in Names : workerPools[n] # NoPool} \ call[t].seen

NextPool(t) ==
  /\ call[t].step = "in" /\ call[t].op \in {"startAll", "stopAll"}
  /\ \E n \in Unseen(t) : call' = [call EXCEPT
        ![t].step = "locking", ![t].pool = workerPools[n], ![t].seen = @ \cup {n}]
  /\ UNCHANGED butCall

LoopEnds(t) ==
  /\ call[t].step = "in" /\ call[t].op \in {"startAll", "stopAll"}
  /\ Unseen(t) = {}
  /\ Return(t)
  /\ UNCHANGED butCall

\* Reads the statistics of every queue, one command each.
GetQueueStats(t) ==
  /\ call[t].step = "in" /\ call[t].op = "stats"
  /\ Return(t)
  /\ UNCHANGED butCall
-----------------------------------------------------------------------------
(* The pool.                                                               *)

BugHasMutex(t) == call[t].step = "locking"
HasMutex(t) == call[t].step = "locking" /\ StopsOf(call[t].pool) = {}

\* A pool is done with: back to the loop of the manager, or to the caller.
PoolDone(t) ==
  IF call[t].op \in ReadOps
  THEN call' = [call EXCEPT ![t].step = "in", ![t].pool = NoPool, ![t].at = 0]
  ELSE Return(t)

IsRunning(t) ==
  /\ HasMutex(t) /\ call[t].op = "isRunning"
  /\ Return(t)
  /\ UNCHANGED butCall

\* StartAllWorkerPools gives up at the first pool that runs already.
StartFails(t) ==
  /\ HasMutex(t) /\ call[t].op \in {"start", "startAll"}
  /\ running[call[t].pool]
  /\ Return(t)
  /\ UNCHANGED butCall

Start(t) == LET p == call[t].pool IN
  /\ HasMutex(t) /\ call[t].op \in {"start", "startAll"}
  /\ ~running[p]
  /\ running' = [running EXCEPT ![p] = TRUE]
  /\ worker' = [w \in Workers |-> IF w \in WorkersOf(p) THEN Idle ELSE worker[w]]
  /\ cancelled' = [w \in Workers |-> w \notin WorkersOf(p) /\ cancelled[w]]
  /\ PoolDone(t)
  /\ UNCHANGED <<lifecycle, managerVars, expired, otherVars>>

StopNotRunning(t) ==
  /\ HasMutex(t) /\ call[t].op \in {"stop", "stopAll"}
  /\ ~running[call[t].pool]
  /\ PoolDone(t)
  /\ UNCHANGED butCall

Stop(t) ==
  /\ HasMutex(t) /\ call[t].op \in {"stop", "stopAll"}
  /\ running[call[t].pool]
  /\ call' = [call EXCEPT ![t].step = "stopping", ![t].at = 0]
  /\ UNCHANGED butCall

\* The worker that Stop waits for; none before the first one
Awaited(t) == <<call[t].pool, call[t].at>>
BugWaitIsOver(t) == call[t].step = "stopping"
WaitIsOver(t) == call[t].step = "stopping" /\ Awaited(t) \notin Live

\* Worker.Stop of the next one: cancel, and then wait.
StopWorker(t) == LET w == <<call[t].pool, call[t].at + 1>> IN
  /\ WaitIsOver(t)
  /\ w \in Workers
  /\ cancelled' = [cancelled EXCEPT ![w] = TRUE]
  /\ cutOff' = cutOff \cup ({worker[w].task} \ {NoTask})
  /\ call' = [call EXCEPT ![t].at = @ + 1]
  /\ UNCHANGED <<lifecycle, managerVars, running, worker, expired, ctxDone,
                 calls, expiries>>

StopEnds(t) ==
  /\ WaitIsOver(t)
  /\ call[t].at = MaxConcurrency[call[t].pool]
  /\ running' = [running EXCEPT ![call[t].pool] = FALSE]
  /\ PoolDone(t)
  /\ UNCHANGED <<lifecycle, managerVars, worker, cancelled, expired, otherVars>>
-----------------------------------------------------------------------------
(* A worker: run and processOne.                                           *)

Turn(w, step) == worker' = [worker EXCEPT ![w].step = step]
Forget(w) ==
  /\ worker' = [worker EXCEPT ![w] = Idle]
  /\ expired' = [expired EXCEPT ![w] = FALSE]

\* Dequeue, up to its script; with an ended context it does nothing.
Dequeue(w) == \E i \in Ids :
  /\ worker[w] = Idle /\ ~Ended(w)
  /\ QueueName[i] = queueOf[w[1]]
  /\ Take(i)
  /\ worker' = [worker EXCEPT ![w] = [step |-> "marking", task |-> i]]
  /\ UNCHANGED <<butWorker, expired>>

\* The SET at the end of Dequeue succeeds, and the handler is called.
Handle(w) ==
  /\ worker[w].step = "marking" /\ ~Ended(w)
  /\ Try(worker[w].task)
  /\ Turn(w, "handling")
  /\ UNCHANGED <<butWorker, expired>>

HandlerReturns(w) == \E step \in {"acking", "nacking"} :
  /\ worker[w].step = "handling" /\ call[w] = NoCall
  /\ Turn(w, step)
  /\ UNCHANGED <<lifecycle, butWorker, expired>>

BugSettle(w) == LET i == worker[w].task IN
  /\ ~Ended(w)
  /\ \/ worker[w].step = "acking" /\ Complete(i)
     \/ worker[w].step = "nacking" /\ UNCHANGED lifecycle
  /\ Forget(w)
  /\ UNCHANGED butWorker
Settle(w) == LET i == worker[w].task IN
  /\ ~Ended(w)
  /\ \/ worker[w].step = "acking" /\ Complete(i)
     \/ worker[w].step = "nacking" /\ (Retry(i) \/ Bury(i))
  /\ Forget(w)
  /\ UNCHANGED butWorker

\* The SET, the Ack or the Nack fails: the task stays in PROCESSING.
CommandFails(w) ==
  /\ worker[w].step \in {"marking", "acking", "nacking"} /\ Ended(w)
  /\ Forget(w)
  /\ UNCHANGED <<lifecycle, managerVars, running, cancelled, ctxDone, call,
                 calls, expiries, cutOff>>

BugExit(w) ==
  /\ worker[w] = Idle /\ ctxDone
  /\ worker' = [worker EXCEPT ![w] = Off]
  /\ UNCHANGED <<lifecycle, butWorker, expired>>
BugExitsWhenEmpty(w) ==
  /\ worker[w] = Idle
  /\ worker' = [worker EXCEPT ![w] = Off]
  /\ UNCHANGED <<lifecycle, butWorker, expired>>
Exit(w) ==
  /\ worker[w] = Idle /\ (cancelled[w] \/ ctxDone)
  /\ worker' = [worker EXCEPT ![w] = Off]
  /\ UNCHANGED <<lifecycle, butWorker, expired>>

\* The 30 s of processOne are over.
Expire(w) ==
  /\ Busy(w) /\ ~Ended(w) /\ expiries < MaxExpiries
  /\ expired' = [expired EXCEPT ![w] = TRUE]
  /\ expiries' = expiries + 1
  /\ cutOff' = cutOff \cup {worker[w].task}
  /\ UNCHANGED <<lifecycle, managerVars, running, worker, cancelled, ctxDone,
                 call, calls>>

ContextEnds ==
  /\ ~ctxDone /\ ctxDone' = TRUE
  /\ cutOff' = cutOff \cup InHand
  /\ UNCHANGED <<lifecycle, managerVars, running, worker, cancelled, expired,
                 call, calls, expiries>>
-----------------------------------------------------------------------------
Calls(t) ==
  \/ BeginRegister(t) \/ BeginGetQueue(t) \/ BeginEnqueue(t)
  \/ BeginRead(t) \/ BeginPool(t)

CallStep(t) ==
  \/ Announce(t) \/ RegisterWorkerPool(t) \/ GetOrCreateQueue(t)
  \/ EnqueueTask(t) \/ NextPool(t) \/ LoopEnds(t) \/ GetQueueStats(t)
  \/ IsRunning(t) \/ StartFails(t) \/ Start(t) \/ StopNotRunning(t) \/ Stop(t)
  \/ StopWorker(t) \/ StopEnds(t)

WorkerStep(w) ==
  \/ Dequeue(w) \/ Handle(w) \/ HandlerReturns(w) \/ Settle(w)
  \/ CommandFails(w) \/ Exit(w)

Next ==
  \/ \E t \in Threads : Calls(t) \/ CallStep(t)
  \/ \E w \in Workers : WorkerStep(w) \/ Expire(w)
  \/ ContextEnds

Spec == Init /\ [][Next]_vars

\* Go's scheduler runs every goroutine that can run, its mutexes let every
\* waiter in, and handlers return.
FairSpec ==
  /\ Spec
  /\ \A c \in Callers : WF_vars(CallStep(c))
  /\ \A w \in Workers : WF_vars(CallStep(w) \/ WorkerStep(w))
=============================================================================
