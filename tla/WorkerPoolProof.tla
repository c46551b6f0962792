--------------------------- MODULE WorkerPoolProof ---------------------------
(* Proofs about the worker pools and the manager, for any queues, pools,   *)
(* workers, application goroutines, handlers and tasks.                    *)
EXTENDS WorkerPoolProperties, TLAPS

\* A writer has been told the name of its queue.
Named == \A t \in Threads : call[t].op \in WriteOps => call[t].name \in Names
SameOp(t, r) == r.name \in Names \/ (r.op = call[t].op /\ r.name = call[t].name)

\* What a step of thread t does to the calls: at most lets in readers that
\* wait, takes a free lock, or goes on from one worker to the next.
Moves(t) ==
  /\ call' \in [Threads -> CallRecords]
  /\ \A u \in Threads \ {t} :
       /\ call'[u].op = call[u].op /\ call'[u].name = call[u].name
       /\ call'[u].pool = call[u].pool /\ call'[u].at = call[u].at
       /\ \/ call'[u].step = call[u].step
          \/ call[u].step = "waiting" /\ call'[u].step = "in"
  /\ call'[t].op \in WriteOps => SameOp(t, call'[t])
  /\ call'[t].step = "announced" => Writers = {}
  /\ call'[t].step = "locking" => call'[t].pool \in Pools
  /\ call'[t].step = "stopping" => call'[t].pool = call[t].pool /\
       \/ HasMutex(t) /\ running[call[t].pool] /\ call'[t].at = 0
       \/ /\ WaitIsOver(t) /\ call'[t].at = call[t].at + 1
          /\ <<call[t].pool, call[t].at + 1>> \in Workers

\* Stop has a pool, which still counts as running, and the workers before the
\* one it waits for are off.
StopsInOrder == \A t \in Threads :
  /\ call[t].step \in {"locking", "stopping"} => call[t].pool \in Pools
  /\ call[t].step = "stopping" =>
       /\ running[call[t].pool]
       /\ call[t].at \in 0..MaxConcurrency[call[t].pool]
       /\ \A k \in 1..(call[t].at - 1) : worker[<<call[t].pool, k>>].step = "off"

-----------------------------------------------------------------------------
(* The calls.                                                              *)

(* A step that changes the record of its thread only.                      *)
LEMMA OneCallMoves ==
  ASSUME call \in [Threads -> CallRecords], NEW t \in Threads,
         NEW r \in CallRecords, call' = [call EXCEPT ![t] = r],
         r.op \in WriteOps => SameOp(t, r),
         r.step = "announced" => Writers = {},
         r.step = "locking" => r.pool \in Pools,
         r.step = "stopping" => r.pool = call[t].pool /\
           \/ HasMutex(t) /\ running[call[t].pool] /\ r.at = 0
           \/ /\ WaitIsOver(t) /\ r.at = call[t].at + 1
              /\ <<call[t].pool, call[t].at + 1>> \in Workers
  PROVE  Moves(t)
<1>1. call' \in [Threads -> CallRecords] /\ call'[t] = r
  OBVIOUS
<1>2. \A u \in Threads \ {t} : call'[u] = call[u]
  OBVIOUS
<1> QED
  BY <1>1, <1>2 DEF Moves

(* Unlock changes that record and lets in the readers that wait.           *)
LEMMA UnlockMoves ==
  ASSUME call \in [Threads -> CallRecords], NEW t \in Threads,
         NEW r \in CallRecords, Unlock(t, r), r.step \in {"none", "submit"},
         r.op \in WriteOps => SameOp(t, r)
  PROVE  Moves(t)
<1>1. call'[t] = r
  BY DEF Unlock
<1>2. ASSUME NEW u \in Threads, u # t
      PROVE  /\ call'[u] \in CallRecords
             /\ call'[u].op = call[u].op /\ call'[u].name = call[u].name
             /\ call'[u].pool = call[u].pool /\ call'[u].at = call[u].at
             /\ \/ call'[u].step = call[u].step
                \/ call[u].step = "waiting" /\ call'[u].step = "in"
  <2> call[u] \in CallRecords
    OBVIOUS
  <2>1. CASE call[u].step = "waiting"
    <3>1. call'[u] = [call[u] EXCEPT !.step = "in"]
      BY <1>2, <2>1 DEF Unlock
    <3>2. [call[u] EXCEPT !.step = "in"] \in CallRecords
      BY DEF CallRecords
    <3> QED
      BY <2>1, <3>1, <3>2 DEF CallRecords
  <2>2. CASE call[u].step # "waiting"
    BY <1>2, <2>2 DEF Unlock
  <2> QED
    BY <2>1, <2>2
<1>3. call' \in [Threads -> CallRecords]
  BY <1>1, <1>2 DEF Unlock
<1> QED
  BY <1>1, <1>2, <1>3 DEF Moves

(* What each step of a call does to the calls.                             *)
LEMMA CallMoves ==
  ASSUME TypeOK, NEW t \in Threads, Calls(t) \/ CallStep(t)
  PROVE  Moves(t)
<1> call[t] \in CallRecords /\ call \in [Threads -> CallRecords]
  BY DEF TypeOK
<1>l. LockStep \in {"announced", "queueing"} /\ (LockStep = "announced" => Writers = {})
  BY DEF LockStep
<1>n. NoCall \in CallRecords /\ NoCall.step = "none" /\ NoCall.op \notin WriteOps
  BY DEF CallRecords, NoCall, WriteOps
<1>1. CASE BeginRegister(t)
  <2>1. PICK r \in Registrations : call' = [call EXCEPT ![t] =
          [NoCall EXCEPT !.op = "register", !.step = LockStep,
                         !.pool = r[1], !.name = r[2]]]
    BY <1>1 DEF BeginRegister, Begin
  <2> DEFINE c == [NoCall EXCEPT !.op = "register", !.step = LockStep,
                                 !.pool = r[1], !.name = r[2]]
  <2>2. r[1] \in Pools /\ r[2] \in Names
    BY WorkerPoolAssumption
  <2>3. c \in CallRecords
    BY <2>2, <1>l DEF CallRecords, NoCall, Ops, WriteOps
  <2>4. c.step = LockStep /\ SameOp(t, c) /\ call' = [call EXCEPT ![t] = c]
    BY <2>1, <2>2 DEF NoCall, SameOp
  <2> HIDE DEF c
  <2> QED
    BY <1>l, <2>3, <2>4, OneCallMoves
<1>2. CASE BeginGetQueue(t)
  <2>1. PICK n \in Names : call' = [call EXCEPT ![t] =
          [NoCall EXCEPT !.op = "getQueue", !.step = LockStep, !.name = n]]
    BY <1>2 DEF BeginGetQueue, Begin
  <2> DEFINE c == [NoCall EXCEPT !.op = "getQueue", !.step = LockStep, !.name = n]
  <2>2. c \in CallRecords
    BY <1>l DEF CallRecords, NoCall, Ops, WriteOps
  <2>3. c.step = LockStep /\ SameOp(t, c) /\ call' = [call EXCEPT ![t] = c]
    BY <2>1 DEF NoCall, SameOp
  <2> HIDE DEF c
  <2> QED
    BY <1>l, <2>2, <2>3, OneCallMoves
<1>3. CASE BeginEnqueue(t)
  <2>1. PICK i \in Ids : call' = [call EXCEPT ![t] =
          [NoCall EXCEPT !.op = "enqueue", !.step = LockStep,
                         !.name = QueueName[i], !.task = i]]
    BY <1>3 DEF BeginEnqueue, Begin
  <2> DEFINE c == [NoCall EXCEPT !.op = "enqueue", !.step = LockStep,
                                 !.name = QueueName[i], !.task = i]
  <2>2. QueueName[i] \in Names
    BY WorkerPoolAssumption
  <2>3. c \in CallRecords
    BY <1>l, <2>2 DEF CallRecords, NoCall, Ops, WriteOps
  <2>4. c.step = LockStep /\ SameOp(t, c) /\ call' = [call EXCEPT ![t] = c]
    BY <2>1, <2>2 DEF NoCall, SameOp
  <2> HIDE DEF c
  <2> QED
    BY <1>l, <2>3, <2>4, OneCallMoves
<1>4. CASE BeginRead(t)
  <2> DEFINE s == IF Writers = {} THEN "in" ELSE "waiting"
  <2>1. PICK op \in ReadOps :
          call' = [call EXCEPT ![t] = [NoCall EXCEPT !.op = op, !.step = s]]
    BY <1>4 DEF BeginRead, Begin
  <2> DEFINE c == [NoCall EXCEPT !.op = op, !.step = s]
  <2>2. s \in {"in", "waiting"}
    OBVIOUS
  <2> HIDE DEF s
  <2>3. c \in CallRecords
    BY <2>2 DEF CallRecords, NoCall, Ops
  <2>4. c.step = s /\ c.op \notin WriteOps /\ call' = [call EXCEPT ![t] = c]
    BY <2>1 DEF NoCall, ReadOps, WriteOps
  <2> HIDE DEF c
  <2> QED
    BY <2>2, <2>3, <2>4, OneCallMoves
<1>5. CASE BeginPool(t)
  <2>1. PICK op \in PoolOps, p \in Pools : call' = [call EXCEPT ![t] =
          [NoCall EXCEPT !.op = op, !.step = "locking", !.pool = p]]
    BY <1>5 DEF BeginPool, Begin
  <2> DEFINE c == [NoCall EXCEPT !.op = op, !.step = "locking", !.pool = p]
  <2>2. c \in CallRecords
    BY DEF CallRecords, NoCall, Ops
  <2>3. /\ c.step = "locking" /\ c.pool \in Pools /\ c.op \notin WriteOps
        /\ call' = [call EXCEPT ![t] = c]
    BY <2>1 DEF NoCall, PoolOps, WriteOps
  <2> HIDE DEF c
  <2> QED
    BY <2>2, <2>3, OneCallMoves
<1>6. CASE Announce(t)
  <2> DEFINE c == [call[t] EXCEPT !.step = "announced"]
  <2>1. call' = [call EXCEPT ![t] = c] /\ Writers = {}
    BY <1>6 DEF Announce, Goto
  <2>2. c \in CallRecords /\ c.step = "announced" /\ SameOp(t, c)
    BY DEF CallRecords, SameOp
  <2> HIDE DEF c
  <2> QED
    BY <2>1, <2>2, OneCallMoves
<1>7. CASE RegisterWorkerPool(t)
  BY <1>7, <1>n, UnlockMoves DEF RegisterWorkerPool
<1>8. CASE GetOrCreateQueue(t)
  <2> DEFINE c == [call[t] EXCEPT !.step = "submit"]
  <2>1. c \in CallRecords /\ c.step = "submit" /\ SameOp(t, c)
    BY DEF CallRecords, SameOp
  <2>2. Unlock(t, c) \/ Unlock(t, NoCall)
    BY <1>8 DEF GetOrCreateQueue
  <2> HIDE DEF c
  <2> QED
    BY <1>n, <2>1, <2>2, UnlockMoves
<1>9. CASE Return(t)
  BY <1>9, <1>n, OneCallMoves DEF Return
<1>10. CASE NextPool(t)
  <2>1. PICK n \in Unseen(t) : call' = [call EXCEPT ![t].step = "locking",
          ![t].pool = workerPools[n], ![t].seen = @ \cup {n}]
    BY <1>10 DEF NextPool
  <2> DEFINE c == [call[t] EXCEPT !.step = "locking", !.pool = workerPools[n],
                                  !.seen = @ \cup {n}]
  <2>2. workerPools[n] \in Pools /\ n \in Names
    BY DEF Unseen, TypeOK
  <2>3. c \in CallRecords
    BY <2>2 DEF CallRecords
  <2>4. /\ c.step = "locking" /\ c.pool \in Pools /\ SameOp(t, c)
        /\ call' = [call EXCEPT ![t] = c]
    BY <2>1, <2>2 DEF CallRecords, SameOp
  <2> HIDE DEF c
  <2> QED
    BY <2>3, <2>4, OneCallMoves
<1>11. CASE PoolDone(t)
  <2> DEFINE c == [call[t] EXCEPT !.step = "in", !.pool = NoPool, !.at = 0]
  <2>1. c \in CallRecords /\ c.step = "in" /\ SameOp(t, c)
    BY DEF CallRecords, SameOp
  <2>2. call' = [call EXCEPT ![t] = c] \/ Return(t)
    BY <1>11 DEF PoolDone, CallRecords
  <2> HIDE DEF c
  <2> QED
    BY <1>9, <2>1, <2>2, OneCallMoves
<1>12. CASE Stop(t)
  <2> DEFINE c == [call[t] EXCEPT !.step = "stopping", !.at = 0]
  <2>1. /\ c \in CallRecords /\ SameOp(t, c)
        /\ c.step = "stopping" /\ c.pool = call[t].pool /\ c.at = 0
    BY DEF CallRecords, SameOp
  <2>2. call' = [call EXCEPT ![t] = c] /\ HasMutex(t) /\ running[call[t].pool]
    BY <1>12 DEF Stop, CallRecords
  <2> HIDE DEF c
  <2> QED
    BY <2>1, <2>2, OneCallMoves
<1>13. CASE StopWorker(t)
  <2> DEFINE c == [call[t] EXCEPT !.at = @ + 1]
  <2>1. call[t].at \in Nat /\ call[t].step = "stopping"
    BY <1>13 DEF StopWorker, WaitIsOver, CallRecords
  <2>2. c \in CallRecords
    BY <2>1 DEF CallRecords
  <2>3. /\ c.step = "stopping" /\ c.pool = call[t].pool /\ c.at = call[t].at + 1
        /\ SameOp(t, c)
    BY <2>1 DEF CallRecords, SameOp
  <2>4. /\ call' = [call EXCEPT ![t] = c] /\ WaitIsOver(t)
        /\ <<call[t].pool, call[t].at + 1>> \in Workers
    BY <1>13 DEF StopWorker, CallRecords
  <2> HIDE DEF c
  <2> QED
    BY <2>2, <2>3, <2>4, OneCallMoves
<1> QED
  BY <1>1, <1>2, <1>3, <1>4, <1>5, <1>6, <1>7, <1>8, <1>9, <1>10, <1>11, <1>12, <1>13
     DEF Calls, CallStep, EnqueueTask, LoopEnds, GetQueueStats, IsRunning, StartFails, Start,
         StopNotRunning, StopEnds

(* At most one writer and one Stop of each pool, after such a step.        *)
LEMMA OneWriter ==
  ASSUME TypeOK, NEW t \in Threads, Moves(t)
  PROVE  \A u, v \in Writers' : u = v
<1>1. ASSUME NEW u \in Writers', u # t PROVE u \in Writers
  BY <1>1 DEF Writers, Moves
<1>2. t \in Writers' => Writers = {}
  BY DEF Writers, Moves
<1> QED
  BY <1>1, <1>2 DEF TypeOK

(* At most one Stop of each pool, likewise.                              *)
LEMMA OneStop ==
  ASSUME TypeOK, NEW t \in Threads, Moves(t), NEW p \in Pools
  PROVE  \A u, v \in StopsOf(p)' : u = v
<1>1. ASSUME NEW u \in StopsOf(p)', u # t PROVE u \in StopsOf(p)
  BY <1>1 DEF StopsOf, Moves
<1>2. ASSUME t \in StopsOf(p)' PROVE t \in StopsOf(p) \/ StopsOf(p) = {}
  <2>1. call'[t].step = "stopping" /\ call'[t].pool = p
    BY <1>2 DEF StopsOf
  <2>2. call[t].pool = p /\ (HasMutex(t) \/ WaitIsOver(t))
    BY <2>1 DEF Moves
  <2> QED
    BY <2>2 DEF HasMutex, WaitIsOver, StopsOf
<1> QED
  BY <1>1, <1>2 DEF TypeOK
-----------------------------------------------------------------------------
(* The types of everything but the calls.                                  *)

DataOK ==
  /\ state \in [Ids -> States] /\ tries \in [Ids -> 0..(MaxRetries + 1)]
  /\ queues \subseteq Names
  /\ workerPools \in [Names -> Pools \cup {NoPool}]
  /\ queueOf \in [Pools -> Names \cup {NoName}]
  /\ running \in [Pools -> BOOLEAN]
  /\ worker \in [Workers -> [step : {"off", "idle", "marking", "handling",
                                     "acking", "nacking"},
                             task : Ids \cup {NoTask}]]
  /\ cancelled \in [Workers -> BOOLEAN]
  /\ expired \in [Workers -> BOOLEAN]
  /\ ctxDone \in BOOLEAN
  /\ calls \in 0..MaxCalls /\ expiries \in 0..MaxExpiries
  /\ cutOff \subseteq Ids

(* A step of the life cycle keeps the types of the life cycle.             *)
LEMMA LifecycleTypes ==
  ASSUME state \in [Ids -> States], tries \in [Ids -> 0..(MaxRetries + 1)],
         NEW i \in Ids,
         \/ Submit(i) \/ Take(i) \/ Try(i) \/ Complete(i) \/ Retry(i) \/ Bury(i)
         \/ UNCHANGED lifecycle
  PROVE  state' \in [Ids -> States] /\ tries' \in [Ids -> 0..(MaxRetries + 1)]
<1> MaxRetries \in Nat
  BY WorkerPoolAssumption
<1>1. CASE Try(i)
  BY <1>1 DEF Try
<1>2. CASE Submit(i) \/ Take(i) \/ Complete(i) \/ Retry(i) \/ Bury(i)
  BY <1>2 DEF Submit, Take, Complete, Retry, Bury, Move, States
<1> QED
  BY <1>1, <1>2 DEF lifecycle

(* The beginning of a call keeps the types of everything else.           *)
LEMMA BeginTypes ==
  ASSUME DataOK, NEW t \in Threads, NEW c, Begin(t, c)
  PROVE  DataOK'
<1>1. calls' \in 0..MaxCalls
  BY WorkerPoolAssumption DEF DataOK, Begin
<1> QED
  BY <1>1 DEF DataOK, Begin, lifecycle, managerVars

(* So does a step that changes the calls only.                           *)
LEMMA ButCallTypes ==
  ASSUME DataOK, UNCHANGED butCall
  PROVE  DataOK'
BY DEF DataOK, butCall, lifecycle, managerVars, otherVars

(* So does every step of a call.                                         *)
LEMMA CallTypes ==
  ASSUME TypeOK, Named, NEW t \in Threads, Calls(t) \/ CallStep(t)
  PROVE  DataOK'
<1> DataOK
  BY DEF TypeOK, DataOK
<1> call[t] \in CallRecords
  BY DEF TypeOK
<1> USE WorkerPoolAssumption
<1>1. CASE Calls(t)
  BY <1>1, BeginTypes DEF Calls, BeginRegister, BeginGetQueue, BeginEnqueue,
                          BeginRead, BeginPool
<1>2. CASE UNCHANGED butCall
  BY <1>2, ButCallTypes
<1>3. CASE RegisterWorkerPool(t)
  <2>1. call[t].name \in Names /\ call[t].pool \in Pools \cup {NoPool}
    BY <1>3 DEF RegisterWorkerPool, Named, WriteOps, CallRecords
  <2>2. /\ queues' = queues \cup {call[t].name}
        /\ workerPools' = [workerPools EXCEPT ![call[t].name] = call[t].pool]
        /\ queueOf' = [queueOf EXCEPT ![call[t].pool] = call[t].name]
        /\ UNCHANGED <<lifecycle, running, worker, cancelled, expired, otherVars>>
    BY <1>3 DEF RegisterWorkerPool, GetOrCreate
  <2> QED
    BY <2>1, <2>2 DEF DataOK, lifecycle, otherVars
<1>4. CASE GetOrCreateQueue(t)
  <2>1. call[t].name \in Names
    BY <1>4 DEF GetOrCreateQueue, Named, WriteOps
  <2>2. /\ queues' = queues \cup {call[t].name}
        /\ UNCHANGED <<lifecycle, workerPools, queueOf, running, worker, cancelled,
                       expired, otherVars>>
    BY <1>4 DEF GetOrCreateQueue, GetOrCreate
  <2> QED
    BY <2>1, <2>2 DEF DataOK, lifecycle, otherVars
<1>5. CASE EnqueueTask(t)
  BY <1>5, LifecycleTypes
     DEF EnqueueTask, DataOK, CallRecords, lifecycle, managerVars, otherVars, Submit, Move
<1>6. CASE Start(t)
  BY <1>6 DEF Start, Idle, DataOK, lifecycle, managerVars, otherVars
<1>7. CASE StopWorker(t)
  BY <1>7 DEF StopWorker, DataOK, lifecycle, managerVars, otherVars
<1>8. CASE StopEnds(t)
  BY <1>8 DEF StopEnds, DataOK, lifecycle, managerVars, otherVars
<1> QED
  BY <1>1, <1>2, <1>3, <1>4, <1>5, <1>6, <1>7, <1>8
     DEF CallStep, Announce, NextPool, LoopEnds, GetQueueStats, IsRunning, StartFails,
         StopNotRunning, Stop
(* A writer keeps the name of its queue.                                 *)
LEMMA NamedStays ==
  ASSUME Named, NEW t \in Threads, Moves(t)
  PROVE  Named'
<1> SUFFICES ASSUME NEW u \in Threads, call'[u].op \in WriteOps
             PROVE  call'[u].name \in Names
  BY DEF Named
<1>1. CASE u = t
  BY <1>1 DEF Named, Moves, SameOp
<1>2. CASE u # t
  BY <1>2 DEF Named, Moves
<1> QED
  BY <1>1, <1>2

(* A worker's step, the end of its 30 s and the end of the context keep    *)
(* the types, and leave calls, pools and the other workers alone.          *)
LEMMA WorkerTypes ==
  ASSUME DataOK, NEW w \in Workers, WorkerStep(w) \/ Expire(w)
  PROVE  DataOK' /\ call' = call
<1> MaxExpiries \in Nat
  BY WorkerPoolAssumption
<1>1. CASE Dequeue(w)
  <2>1. PICK i \in Ids : /\ Take(i)
          /\ worker' = [worker EXCEPT ![w] = [step |-> "marking", task |-> i]]
          /\ UNCHANGED <<butWorker, expired>>
    BY <1>1 DEF Dequeue
  <2>2. state' \in [Ids -> States] /\ tries' \in [Ids -> 0..(MaxRetries + 1)]
    BY <2>1, LifecycleTypes DEF DataOK
  <2> QED
    BY <2>1, <2>2 DEF DataOK, butWorker, managerVars, otherVars
<1>2. CASE Handle(w)
  <2>1. state' \in [Ids -> States] /\ tries' \in [Ids -> 0..(MaxRetries + 1)]
    <3>1. CASE worker[w].task \in Ids
      BY <1>2, <3>1, LifecycleTypes DEF Handle, DataOK
    <3>2. CASE worker[w].task \notin Ids
      BY <1>2, <3>2 DEF Handle, DataOK, Try
    <3> QED
      BY <3>1, <3>2
  <2> QED
    BY <1>2, <2>1 DEF Handle, Turn, DataOK, butWorker, managerVars, otherVars
<1>3. CASE HandlerReturns(w)
  BY <1>3 DEF HandlerReturns, Turn, DataOK, butWorker, managerVars, otherVars, lifecycle
<1>4. CASE Settle(w)
  <2>1. state' \in [Ids -> States] /\ tries' \in [Ids -> 0..(MaxRetries + 1)]
    BY <1>4 DEF Settle, Complete, Retry, Bury, Move, DataOK, States
  <2> QED
    BY <1>4, <2>1 DEF Settle, Forget, Idle, DataOK, butWorker, managerVars, otherVars
<1>5. CASE CommandFails(w)
  BY <1>5 DEF CommandFails, Forget, Idle, DataOK, managerVars, lifecycle
<1>6. CASE Exit(w)
  BY <1>6 DEF Exit, Off, DataOK, butWorker, managerVars, otherVars, lifecycle
<1>7. CASE Expire(w)
  BY <1>7 DEF Expire, Busy, DataOK, managerVars, lifecycle
<1> QED
  BY <1>1, <1>2, <1>3, <1>4, <1>5, <1>6, <1>7 DEF WorkerStep

(* The end of the context given to Start keeps the types.                *)
LEMMA ContextEndsTypes ==
  ASSUME DataOK, ContextEnds
  PROVE  DataOK' /\ call' = call
BY DEF ContextEnds, InHand, Busy, DataOK, managerVars, lifecycle

TypeInv == TypeOK /\ Named

(* The type invariant holds at the start ...                             *)
LEMMA TypeInit == Init => TypeInv
<1> SUFFICES ASSUME Init PROVE TypeInv
  OBVIOUS
<1> USE WorkerPoolAssumption DEF Init
<1>1. NoCall \in CallRecords /\ NoCall.step = "none" /\ NoCall.op \notin WriteOps
  BY DEF CallRecords, NoCall, WriteOps
<1>2. DataOK
  <2>1. Off \in [step : {"off", "idle", "marking", "handling", "acking", "nacking"},
                 task : Ids \cup {NoTask}]
    BY DEF Off
  <2>2. state \in [Ids -> States] /\ tries \in [Ids -> 0..(MaxRetries + 1)]
    BY DEF LifecycleInit, States
  <2>3. worker \in [Workers -> [step : {"off", "idle", "marking", "handling",
                                       "acking", "nacking"},
                               task : Ids \cup {NoTask}]]
    BY <2>1
  <2>4. /\ running \in [Pools -> BOOLEAN]
        /\ cancelled \in [Workers -> BOOLEAN] /\ expired \in [Workers -> BOOLEAN]
        /\ workerPools \in [Names -> Pools \cup {NoPool}]
        /\ queueOf \in [Pools -> Names \cup {NoName}]
    OBVIOUS
  <2>5. queues \subseteq Names /\ cutOff \subseteq Ids /\ ctxDone \in BOOLEAN
    OBVIOUS
  <2>6. calls \in 0..MaxCalls /\ expiries \in 0..MaxExpiries
    OBVIOUS
  <2> QED
    BY <2>2, <2>3, <2>4, <2>5, <2>6 DEF DataOK
<1>3. \A t \in Threads : call[t] = NoCall
  OBVIOUS
<1> QED
  BY <1>1, <1>2, <1>3 DEF TypeInv, TypeOK, DataOK, Named, Writers, StopsOf

(* ... and is kept by every step.                                        *)
LEMMA TypeStep == TypeInv /\ [Next]_vars => TypeInv'
<1> SUFFICES ASSUME TypeOK, Named, [Next]_vars PROVE TypeOK' /\ Named'
  BY DEF TypeInv
<1> DataOK
  BY DEF TypeOK, DataOK
<1>1. ASSUME NEW t \in Threads, Calls(t) \/ CallStep(t) PROVE TypeOK' /\ Named'
  <2>1. Moves(t)
    BY <1>1, CallMoves
  <2>2. DataOK' /\ Named' /\ call' \in [Threads -> CallRecords]
    BY <1>1, <2>1, CallTypes, NamedStays DEF Moves
  <2>3. (\A u, v \in Writers : u = v)'
    BY <2>1, OneWriter
  <2>4. (\A p \in Pools : \A u, v \in StopsOf(p) : u = v)'
    BY <2>1, OneStop
  <2> QED
    BY <2>2, <2>3, <2>4 DEF TypeOK, DataOK
<1>2. ASSUME DataOK', call' = call PROVE TypeOK' /\ Named'
  BY <1>2 DEF TypeOK, DataOK, Named, Writers, StopsOf
<1>3. CASE UNCHANGED vars
  BY <1>2, <1>3 DEF vars, butCall, lifecycle, managerVars, otherVars, DataOK
<1> QED
  BY <1>1, <1>2, <1>3, WorkerTypes, ContextEndsTypes DEF Next

(* TypeOK holds of every reachable state: with any callers and handlers,   *)
(* one writer at most has announced itself to the lock of the manager, and *)
(* one Stop at most holds the mutex of a pool.                             *)
THEOREM TypeCorrect == Spec => []TypeOK
<1>1. TypeInv => TypeOK
  BY DEF TypeInv
<1> QED
  BY <1>1, TypeInit, TypeStep, PTL DEF Spec
-----------------------------------------------------------------------------
(* Stopped pools.                                                          *)

(* Nothing but Start turns a worker on.                                    *)
LEMMA WorkersStayOff ==
  ASSUME NEW w \in Workers, WorkerStep(w) \/ Expire(w),
         worker \in [Workers -> [step : {"off", "idle", "marking", "handling",
                                         "acking", "nacking"},
                                 task : Ids \cup {NoTask}]]
  PROVE  /\ call' = call /\ running' = running
         /\ \A v \in Workers : worker[v].step = "off" => worker'[v] = worker[v]
<1>1. CASE Dequeue(w)
  BY <1>1 DEF Dequeue, Idle, butWorker
<1>2. CASE Handle(w)
  BY <1>2 DEF Handle, Turn, butWorker
<1>3. CASE HandlerReturns(w)
  BY <1>3 DEF HandlerReturns, Turn, butWorker
<1>4. CASE Settle(w)
  BY <1>4 DEF Settle, Forget, butWorker
<1>5. CASE CommandFails(w)
  BY <1>5 DEF CommandFails, Forget
<1>6. CASE Exit(w)
  BY <1>6 DEF Exit, Idle, butWorker
<1>7. CASE Expire(w)
  BY <1>7 DEF Expire
<1> QED
  BY <1>1, <1>2, <1>3, <1>4, <1>5, <1>6, <1>7 DEF WorkerStep

\* A step after which the workers that were off are still off, and every pool
\* that ran still runs.
NoneOn ==
  /\ running' = running
  /\ \A v \in Workers : worker[v].step = "off" => worker'[v] = worker[v]

(* After such a step the pools that are not running are still quiet.     *)
LEMMA QuietIfNoneOn ==
  ASSUME StoppedIsQuiet, NoneOn
  PROVE  StoppedIsQuiet'
BY DEF StoppedIsQuiet, NoneOn, Live

(* The workers of a pool are numbered.                                   *)
LEMMA WorkerOfPool ==
  ASSUME NEW p, NEW k
  PROVE  /\ <<p, k>> \in Workers <=> p \in Pools /\ k \in 1..MaxConcurrency[p]
         /\ p \in Pools => (<<p, k>> \in WorkersOf(p) <=> k \in 1..MaxConcurrency[p])
BY DEF Workers, WorkersOf

(* The thread that moves keeps StopsInOrder, unless it starts or stops a   *)
(* pool for good.                                                          *)
LEMMA InOrderIfNoneOn ==
  ASSUME TypeOK, StopsInOrder, NoneOn, NEW t \in Threads, Moves(t)
  PROVE  StopsInOrder'
<1> DEFINE Good(u) ==
      /\ call[u].step \in {"locking", "stopping"} => call[u].pool \in Pools
      /\ call[u].step = "stopping" =>
           /\ running[call[u].pool]
           /\ call[u].at \in 0..MaxConcurrency[call[u].pool]
           /\ \A k \in 1..(call[u].at - 1) : worker[<<call[u].pool, k>>].step = "off"
<1>1. ASSUME NEW u \in Threads, u # t PROVE Good(u)'
  <2>1. /\ call'[u].pool = call[u].pool /\ call'[u].at = call[u].at
        /\ call'[u].step \in {"locking", "stopping"} => call'[u].step = call[u].step
    BY <1>1 DEF Moves
  <2>2. ASSUME call[u].step = "stopping", NEW k \in 1..(call[u].at - 1)
        PROVE  worker'[<<call[u].pool, k>>].step = "off"
    <3>1. /\ call[u].pool \in Pools
          /\ call[u].at \in 0..MaxConcurrency[call[u].pool]
          /\ worker[<<call[u].pool, k>>].step = "off"
      BY <2>2 DEF StopsInOrder
    <3>2. MaxConcurrency[call[u].pool] \in Nat
      BY <3>1, WorkerPoolAssumption
    <3>3. <<call[u].pool, k>> \in Workers
      BY <3>1, <3>2, WorkerOfPool
    <3> QED
      BY <3>1, <3>3 DEF NoneOn
  <2> QED
    BY <2>1, <2>2 DEF StopsInOrder, NoneOn
<1>2. Good(t)'
  <2> DEFINE p == call[t].pool
  <2>1. CASE call'[t].step \notin {"locking", "stopping"}
    BY <2>1
  <2>2. CASE call'[t].step = "locking"
    BY <2>2 DEF Moves
  <2>3. CASE call'[t].step = "stopping" /\ HasMutex(t) /\ running[p] /\ call'[t].at = 0
    <3>1. p \in Pools /\ call'[t].pool = p
      BY <2>3 DEF Moves, StopsInOrder, HasMutex
    <3>2. MaxConcurrency[p] \in Nat
      BY <3>1, WorkerPoolAssumption
    <3> QED
      BY <2>3, <3>1, <3>2 DEF NoneOn
  <2>4. CASE /\ call'[t].step = "stopping" /\ WaitIsOver(t)
             /\ call'[t].at = call[t].at + 1 /\ <<p, call[t].at + 1>> \in Workers
    <3>1. /\ p \in Pools /\ running[p] /\ call'[t].pool = p
          /\ call[t].at \in 0..MaxConcurrency[p]
          /\ \A k \in 1..(call[t].at - 1) : worker[<<p, k>>].step = "off"
      BY <2>4 DEF Moves, StopsInOrder, WaitIsOver
    <3>2. MaxConcurrency[p] \in Nat
      BY <3>1, WorkerPoolAssumption
    <3>3. call[t].at + 1 \in 0..MaxConcurrency[p]
      BY <2>4, <3>1, WorkerOfPool
    <3>4. ASSUME NEW k \in 1..call[t].at PROVE worker'[<<p, k>>].step = "off"
      <4>1. <<p, k>> \in Workers
        BY <3>1, <3>2, WorkerOfPool
      <4>2. worker[<<p, k>>].step = "off"
        <5>1. CASE k = call[t].at
          BY <2>4, <4>1, <5>1 DEF WaitIsOver, Awaited, Live
        <5>2. CASE k # call[t].at
          BY <3>1, <5>2
        <5> QED
          BY <5>1, <5>2
      <4> QED
        BY <4>1, <4>2 DEF NoneOn
    <3>5. call'[t].at - 1 = call[t].at
      BY <2>4, <3>1, <3>2
    <3> QED
      BY <2>4, <3>1, <3>3, <3>4, <3>5 DEF NoneOn
  <2> QED
    BY <2>1, <2>2, <2>3, <2>4 DEF Moves
<1> QED
  BY <1>1, <1>2 DEF StopsInOrder
(* Start turns on the workers of a pool that nobody is stopping.           *)
LEMMA StartQuiet ==
  ASSUME TypeOK, StoppedIsQuiet, StopsInOrder, NEW t \in Threads, Start(t), Moves(t)
  PROVE  StoppedIsQuiet' /\ StopsInOrder'
<1> DEFINE p == call[t].pool
<1>1. /\ p \in Pools /\ StopsOf(p) = {}
      /\ call'[t].step \notin {"locking", "stopping"}
  <2>1. call'[t].step \in {"in", "none"}
    BY DEF Start, PoolDone, Return, NoCall, TypeOK, CallRecords
  <2> QED
    BY <2>1 DEF Start, HasMutex, StopsInOrder
<1>2. /\ running' = [running EXCEPT ![p] = TRUE]
      /\ \A v \in Workers \ WorkersOf(p) : worker'[v] = worker[v]
  BY DEF Start
<1>3. StoppedIsQuiet'
  <2>1. ASSUME NEW q \in Pools, ~running'[q], NEW v \in WorkersOf(q)
        PROVE  v \notin Live'
    <3>1. q # p /\ ~running[q]
      BY <1>1, <1>2, <2>1 DEF TypeOK
    <3>2. v \in Workers /\ v \notin WorkersOf(p)
      BY <2>1, <3>1 DEF Workers, WorkersOf
    <3> QED
      BY <1>2, <2>1, <3>1, <3>2 DEF StoppedIsQuiet, Live
  <2> QED
    BY <2>1 DEF StoppedIsQuiet
<1>4. ASSUME NEW u \in Threads, u # t
      PROVE  /\ call'[u].step \in {"locking", "stopping"} => call'[u].pool \in Pools
             /\ call'[u].step = "stopping" =>
                  /\ running'[call'[u].pool]
                  /\ call'[u].at \in 0..MaxConcurrency[call'[u].pool]
                  /\ \A k \in 1..(call'[u].at - 1) :
                       worker'[<<call'[u].pool, k>>].step = "off"
  <2>1. /\ call'[u].pool = call[u].pool /\ call'[u].at = call[u].at
        /\ call'[u].step \in {"locking", "stopping"} => call'[u].step = call[u].step
    BY <1>4 DEF Moves
  <2>2. ASSUME call[u].step = "stopping"
        PROVE  running'[call[u].pool] /\ call[u].pool # p
    BY <1>1, <1>2, <2>2 DEF StopsInOrder, StopsOf, TypeOK
  <2>3. ASSUME call[u].step = "stopping", NEW k \in 1..(call[u].at - 1)
        PROVE  worker'[<<call[u].pool, k>>].step = "off"
    <3>1. /\ call[u].pool \in Pools
          /\ call[u].at \in 0..MaxConcurrency[call[u].pool]
          /\ worker[<<call[u].pool, k>>].step = "off"
      BY <2>3 DEF StopsInOrder
    <3>2. MaxConcurrency[call[u].pool] \in Nat
      BY <3>1, WorkerPoolAssumption
    <3>3. <<call[u].pool, k>> \in Workers
      BY <3>1, <3>2, WorkerOfPool
    <3>4. <<call[u].pool, k>> \notin WorkersOf(p)
      BY <2>2, <2>3 DEF WorkersOf
    <3> QED
      BY <1>2, <3>1, <3>3, <3>4
  <2> QED
    BY <2>1, <2>2, <2>3 DEF StopsInOrder
<1> QED
  BY <1>1, <1>3, <1>4 DEF StopsInOrder

(* When Stop ends, every worker of its pool is off.                        *)
LEMMA StopEndsQuiet ==
  ASSUME TypeOK, StoppedIsQuiet, StopsInOrder, NEW t \in Threads, StopEnds(t), Moves(t)
  PROVE  StoppedIsQuiet' /\ StopsInOrder'
<1> DEFINE p == call[t].pool
<1>1. /\ p \in Pools /\ t \in StopsOf(p) /\ call[t].at = MaxConcurrency[p]
      /\ call'[t].step \notin {"locking", "stopping"}
  <2>1. call'[t].step \in {"in", "none"}
    BY DEF StopEnds, PoolDone, Return, NoCall, TypeOK, CallRecords
  <2> QED
    BY <2>1 DEF StopEnds, WaitIsOver, StopsInOrder, StopsOf
<1>2. running' = [running EXCEPT ![p] = FALSE] /\ worker' = worker
  BY DEF StopEnds
<1>3. ASSUME NEW v \in WorkersOf(p) PROVE worker[v].step = "off"
  <2>1. PICK k \in 1..MaxConcurrency[p] : v = <<p, k>>
    BY DEF WorkersOf
  <2>2. MaxConcurrency[p] \in Nat /\ v \in Workers
    BY <1>1, WorkerPoolAssumption DEF Workers
  <2>3. CASE k = call[t].at
    BY <2>1, <2>2, <2>3 DEF StopEnds, WaitIsOver, Awaited, Live
  <2>4. CASE k # call[t].at
    BY <1>1, <2>1, <2>2, <2>4 DEF StopsInOrder, StopsOf
  <2> QED
    BY <2>3, <2>4
<1>4. StoppedIsQuiet'
  BY <1>1, <1>2, <1>3 DEF StoppedIsQuiet, Live, TypeOK
<1>5. ASSUME NEW u \in Threads, u # t
      PROVE  /\ call'[u].step \in {"locking", "stopping"} => call'[u].pool \in Pools
             /\ call'[u].step = "stopping" =>
                  /\ running'[call'[u].pool]
                  /\ call'[u].at \in 0..MaxConcurrency[call'[u].pool]
                  /\ \A k \in 1..(call'[u].at - 1) :
                       worker'[<<call'[u].pool, k>>].step = "off"
  <2>1. /\ call'[u].pool = call[u].pool /\ call'[u].at = call[u].at
        /\ call'[u].step \in {"locking", "stopping"} => call'[u].step = call[u].step
    BY <1>5 DEF Moves
  <2>2. ASSUME call[u].step = "stopping"
        PROVE  running'[call[u].pool]
    <3>1. call[u].pool # p
      BY <1>1, <1>5, <2>2 DEF TypeOK, StopsOf
    <3> QED
      BY <1>2, <2>2, <3>1 DEF StopsInOrder, TypeOK
  <2> QED
    BY <1>2, <2>1, <2>2 DEF StopsInOrder
<1> QED
  BY <1>1, <1>4, <1>5 DEF StopsInOrder

Quiet == StoppedIsQuiet /\ StopsInOrder

(* No pool runs at the start, ...                                        *)
LEMMA QuietInit == Init => Quiet
<1> SUFFICES ASSUME Init PROVE Quiet
  OBVIOUS
<1>1. \A t \in Threads : call[t].step = "none"
  BY DEF Init, NoCall
<1>2. \A w \in Workers : worker[w].step = "off"
  BY DEF Init, Off
<1> QED
  BY <1>1, <1>2 DEF Quiet, StoppedIsQuiet, StopsInOrder, Live

(* ... and every step keeps stopped pools quiet and stops in order.      *)
LEMMA QuietStep == TypeInv /\ Quiet /\ [Next]_vars => Quiet'
<1> SUFFICES ASSUME TypeOK, StoppedIsQuiet, StopsInOrder, [Next]_vars
             PROVE  StoppedIsQuiet' /\ StopsInOrder'
  BY DEF TypeInv, Quiet
<1>1. ASSUME NEW t \in Threads, Calls(t) \/ CallStep(t)
      PROVE  StoppedIsQuiet' /\ StopsInOrder'
  <2>1. Moves(t)
    BY <1>1, CallMoves
  <2>2. CASE Start(t)
    BY <2>1, <2>2, StartQuiet
  <2>3. CASE StopEnds(t)
    BY <2>1, <2>3, StopEndsQuiet
  <2>4. CASE ~Start(t) /\ ~StopEnds(t)
    <3>1. running' = running /\ worker' = worker
      <4>1. CASE Calls(t)
        BY <4>1 DEF Calls, BeginRegister, BeginGetQueue, BeginEnqueue, BeginRead,
                    BeginPool, Begin
      <4>2. CASE UNCHANGED butCall
        BY <4>2 DEF butCall
      <4>3. CASE RegisterWorkerPool(t) \/ GetOrCreateQueue(t) \/ EnqueueTask(t)
        BY <4>3 DEF RegisterWorkerPool, GetOrCreateQueue, EnqueueTask
      <4>4. CASE StopWorker(t)
        BY <4>4 DEF StopWorker
      <4> QED
        BY <1>1, <2>4, <4>1, <4>2, <4>3, <4>4
           DEF CallStep, Announce, NextPool, LoopEnds, GetQueueStats, IsRunning,
               StartFails, StopNotRunning, Stop
    <3>2. NoneOn
      BY <3>1 DEF NoneOn
    <3> QED
      BY <2>1, <3>2, QuietIfNoneOn, InOrderIfNoneOn
  <2> QED
    BY <2>2, <2>3, <2>4
<1>2. ASSUME NoneOn, call' = call PROVE StoppedIsQuiet' /\ StopsInOrder'
  <2>1. ASSUME NEW t \in Threads, call[t].step = "stopping",
               NEW k \in 1..(call[t].at - 1)
        PROVE  worker'[<<call[t].pool, k>>].step = "off"
    <3>1. /\ call[t].pool \in Pools
          /\ call[t].at \in 0..MaxConcurrency[call[t].pool]
          /\ worker[<<call[t].pool, k>>].step = "off"
      BY <2>1 DEF StopsInOrder
    <3>2. MaxConcurrency[call[t].pool] \in Nat
      BY <3>1, WorkerPoolAssumption
    <3>3. <<call[t].pool, k>> \in Workers
      BY <3>1, <3>2, WorkerOfPool
    <3> QED
      BY <1>2, <3>1, <3>3 DEF NoneOn
  <2> QED
    BY <1>2, <2>1, QuietIfNoneOn DEF StopsInOrder, NoneOn
<1>3. ASSUME NEW w \in Workers, WorkerStep(w) \/ Expire(w) PROVE NoneOn /\ call' = call
  BY <1>3, WorkersStayOff DEF TypeOK, NoneOn
<1>4. CASE ContextEnds
  BY <1>2, <1>4 DEF ContextEnds, NoneOn
<1>5. CASE UNCHANGED vars
  BY <1>2, <1>5 DEF vars, butCall, NoneOn
<1> QED
  BY <1>1, <1>2, <1>3, <1>4, <1>5 DEF Next

(* StoppedIsQuiet holds of every reachable state: whoever starts and stops *)
(* a pool, one that is not running has no goroutine left.                  *)
THEOREM StoppedIsQuietAlways == Spec => []StoppedIsQuiet
<1>1. Quiet => StoppedIsQuiet
  BY DEF Quiet
<1> QED
  BY <1>1, TypeInit, TypeStep, QuietInit, QuietStep, PTL DEF Spec
-----------------------------------------------------------------------------
(* Tasks in the workers' hands, and those left behind.                     *)

Doing == {"marking", "handling", "acking", "nacking"}

\* A busy worker has a task of its own, which is cut off exactly if the
\* worker's context has ended.
Hands == \A w \in Workers :
  /\ Busy(w) <=> worker[w].step \in Doing
  /\ Busy(w) => /\ state[worker[w].task] = "running"
                /\ Ended(w) <=> worker[w].task \in cutOff
                /\ \A v \in Workers : worker[v].task = worker[w].task => v = w

\* Tasks that were cut off stay in PROCESSING for good, and what is there
\* otherwise is in the hands of a worker.
CutOff ==
  /\ \A i \in cutOff : state[i] = "running"
  /\ \A i \in Ids : state[i] = "running" =>
       i \in cutOff \/ \E w \in Workers : worker[w].task = i

Tasks == Hands /\ CutOff

(* A task that no worker has was cut off.                                  *)
LEMMA TasksMean ==
  ASSUME TypeOK, Tasks
  PROVE  OnlyCutOffIsStranded
<1> NoTask \notin Ids
  BY WorkerPoolAssumption
<1>1. \A i \in Ids : i \in InHand <=> \E w \in Workers : worker[w].task = i
  BY DEF InHand, Busy
<1> QED
  BY <1>1 DEF Tasks, CutOff, OnlyCutOffIsStranded, Stranded

(* Steps that move no task and end no context of a busy worker.            *)
LEMMA TasksKept ==
  ASSUME TypeOK, Tasks, cutOff' = cutOff,
         \A i \in Ids : state'[i] = "running" <=> state[i] = "running",
         \A w \in Workers : /\ worker'[w].task = worker[w].task
                            /\ worker'[w].step \in Doing <=> worker[w].step \in Doing
                            /\ Busy(w) => (Ended(w)' <=> Ended(w))
  PROVE  Tasks'
<1>1. Hands'
  <2> SUFFICES ASSUME NEW w \in Workers
      PROVE  /\ Busy(w)' <=> worker'[w].step \in Doing
             /\ Busy(w)' =>
                  /\ state'[worker'[w].task] = "running"
                  /\ Ended(w)' <=> worker'[w].task \in cutOff'
                  /\ \A v \in Workers : worker'[v].task = worker'[w].task => v = w
    BY DEF Hands
  <2>1. Busy(w)' <=> Busy(w)
    BY DEF Busy
  <2>2. Busy(w) => worker[w].task \in Ids
    BY DEF Busy, TypeOK
  <2> QED
    BY <2>1, <2>2 DEF Tasks, Hands
<1>2. CutOff'
  BY DEF Tasks, CutOff, TypeOK
<1> QED
  BY <1>1, <1>2 DEF Tasks

(* The contexts of the workers in K end.                                   *)
LEMMA TasksCut ==
  ASSUME TypeOK, Tasks, UNCHANGED <<state, worker>>, NEW K \in SUBSET Workers,
         cutOff' = cutOff \cup ({worker[w].task : w \in K} \ {NoTask}),
         \A w \in Workers : Ended(w)' <=> Ended(w) \/ w \in K
  PROVE  Tasks'
<1>1. \A w \in Workers : Busy(w)' <=> Busy(w)
  BY DEF Busy
<1>2. ASSUME NEW w \in Workers, Busy(w)
      PROVE  Ended(w)' <=> worker[w].task \in cutOff'
  <2>1. worker[w].task # NoTask
    BY <1>2 DEF Busy
  <2>2. worker[w].task \in {worker[v].task : v \in K} <=> w \in K
    BY <1>2 DEF Tasks, Hands
  <2> QED
    BY <1>2, <2>1, <2>2 DEF Tasks, Hands
<1>3. Hands'
  BY <1>1, <1>2 DEF Tasks, Hands
<1>4. CutOff'
  <2>1. ASSUME NEW i \in cutOff' PROVE state[i] = "running"
    <3>1. CASE i \in cutOff
      BY <3>1 DEF Tasks, CutOff
    <3>2. CASE i \notin cutOff
      <4>1. PICK w \in K : i = worker[w].task /\ i # NoTask
        BY <2>1, <3>2
      <4> QED
        BY <4>1 DEF Tasks, Hands, Busy
    <3> QED
      BY <3>1, <3>2
  <2> QED
    BY <2>1 DEF Tasks, CutOff
<1> QED
  BY <1>3, <1>4 DEF Tasks
(* A worker takes a task that was in the queue.                            *)
LEMMA TasksTaken ==
  ASSUME TypeOK, Tasks, NEW w \in Workers, Dequeue(w)
  PROVE  Tasks'
<1>1. PICK i \in Ids :
        /\ worker[w] = Idle /\ ~Ended(w) /\ state[i] = "queued"
        /\ state' = [state EXCEPT ![i] = "running"]
        /\ worker' = [worker EXCEPT ![w] = [step |-> "marking", task |-> i]]
        /\ UNCHANGED <<butWorker, expired>>
  BY DEF Dequeue, Take, Move
<1>2. NoTask \notin Ids
  BY WorkerPoolAssumption
<1>3. /\ worker'[w].step = "marking" /\ worker'[w].task = i
      /\ \A v \in Workers \ {w} : worker'[v] = worker[v]
      /\ state'[i] = "running"
      /\ \A j \in Ids \ {i} : state'[j] = state[j]
      /\ worker[w].task = NoTask
  BY <1>1 DEF TypeOK, Idle
<1>4. cutOff' = cutOff /\ \A v \in Workers : Ended(v)' <=> Ended(v)
  BY <1>1 DEF butWorker, otherVars, Ended
<1>5. \A v \in Workers : worker[v].task # i
  BY <1>1, <1>2 DEF Tasks, Hands, Busy
<1>6. i \notin cutOff
  BY <1>1 DEF Tasks, CutOff
<1>7. Hands'
  <2> SUFFICES ASSUME NEW u \in Workers
      PROVE  /\ Busy(u)' <=> worker'[u].step \in Doing
             /\ Busy(u)' =>
                  /\ state'[worker'[u].task] = "running"
                  /\ Ended(u)' <=> worker'[u].task \in cutOff'
                  /\ \A v \in Workers : worker'[v].task = worker'[u].task => v = u
    BY DEF Hands
  <2>1. CASE u = w
    BY <1>1, <1>2, <1>3, <1>4, <1>5, <1>6, <2>1 DEF Busy, Doing
  <2>2. CASE u # w
    <3>1. worker'[u] = worker[u] /\ (Busy(u)' <=> Busy(u))
      BY <1>3, <2>2 DEF Busy
    <3>2. Busy(u) => worker[u].task \in Ids \ {i}
      BY <1>5 DEF Busy, TypeOK
    <3> QED
      BY <1>3, <1>4, <3>1, <3>2 DEF Tasks, Hands
  <2> QED
    BY <2>1, <2>2
<1>8. CutOff'
  <2>1. \A j \in cutOff' : state'[j] = "running"
    BY <1>3, <1>4, <1>6 DEF Tasks, CutOff, TypeOK
  <2>2. ASSUME NEW j \in Ids, state'[j] = "running", j \notin cutOff'
        PROVE  \E v \in Workers : worker'[v].task = j
    <3>1. CASE j = i
      BY <1>3, <3>1
    <3>2. CASE j # i
      <4>1. PICK v \in Workers : worker[v].task = j
        BY <1>3, <1>4, <2>2, <3>2 DEF Tasks, CutOff
      <4>2. v # w
        BY <1>2, <1>3, <4>1
      <4> QED
        BY <1>3, <4>1, <4>2
    <3> QED
      BY <3>1, <3>2
  <2> QED
    BY <2>1, <2>2 DEF CutOff
<1> QED
  BY <1>7, <1>8 DEF Tasks

(* A worker lets go of a task that is settled, or else cut off.          *)
LEMMA TasksForgotten ==
  ASSUME TypeOK, Tasks, NEW w \in Workers, Busy(w), Forget(w),
         UNCHANGED <<cutOff, cancelled, ctxDone>>,
         \A j \in Ids \ {worker[w].task} : state'[j] = state[j],
         state'[worker[w].task] = "running" <=> worker[w].task \in cutOff
  PROVE  Tasks'
<1> DEFINE i == worker[w].task
<1>1. NoTask \notin Ids /\ i \in Ids
  BY WorkerPoolAssumption DEF Busy, TypeOK
<1>2. /\ worker'[w].step = "idle" /\ worker'[w].task = NoTask
      /\ \A v \in Workers \ {w} : worker'[v] = worker[v] /\ (Ended(v)' <=> Ended(v))
  BY DEF Forget, Idle, TypeOK, Ended
<1>3. \A v \in Workers \ {w} : worker[v].task # i
  BY DEF Tasks, Hands
<1>4. Hands'
  <2> SUFFICES ASSUME NEW u \in Workers
      PROVE  /\ Busy(u)' <=> worker'[u].step \in Doing
             /\ Busy(u)' =>
                  /\ state'[worker'[u].task] = "running"
                  /\ Ended(u)' <=> worker'[u].task \in cutOff'
                  /\ \A v \in Workers : worker'[v].task = worker'[u].task => v = u
    BY DEF Hands
  <2>1. CASE u = w
    BY <1>2, <2>1 DEF Busy, Doing
  <2>2. CASE u # w
    <3>1. worker'[u] = worker[u] /\ (Busy(u)' <=> Busy(u))
      BY <1>2, <2>2 DEF Busy
    <3>2. Busy(u) => worker[u].task \in Ids \ {i}
      BY <1>3, <2>2 DEF Busy, TypeOK
    <3> QED
      BY <1>1, <1>2, <2>2, <3>1, <3>2 DEF Tasks, Hands
  <2> QED
    BY <2>1, <2>2
<1>5. CutOff'
  <2>1. \A j \in cutOff' : state'[j] = "running"
    BY <1>1 DEF Tasks, CutOff, TypeOK
  <2>2. ASSUME NEW j \in Ids, state'[j] = "running", j \notin cutOff'
        PROVE  \E v \in Workers : worker'[v].task = j
    <3>1. j # i
      BY <2>2
    <3>2. PICK v \in Workers : worker[v].task = j
      BY <2>2, <3>1 DEF Tasks, CutOff
    <3> QED
      BY <1>2, <3>1, <3>2
  <2> QED
    BY <2>1, <2>2 DEF CutOff
<1> QED
  BY <1>4, <1>5 DEF Tasks

(* No task is in anybody's hands at the start, ...                       *)
LEMMA TasksInit == Init => Tasks
<1> SUFFICES ASSUME Init PROVE Tasks
  OBVIOUS
<1>1. \A w \in Workers : worker[w].task = NoTask /\ worker[w].step = "off"
  BY DEF Init, Off
<1>2. cutOff = {} /\ \A i \in Ids : state[i] = "new"
  BY DEF Init, LifecycleInit
<1> QED
  BY <1>1, <1>2 DEF Tasks, Hands, CutOff, Busy, Doing

(* ... and every step keeps track of those that are.                     *)
LEMMA TasksStep ==
  ASSUME TypeOK, StoppedIsQuiet, StopsInOrder, Tasks, [Next]_vars
  PROVE  Tasks'
<1>1. ASSUME UNCHANGED <<lifecycle, worker, cancelled, expired, ctxDone, cutOff>>
      PROVE  Tasks'
  BY <1>1, TasksKept DEF lifecycle, Ended
<1>2. ASSUME NEW t \in Threads, Calls(t) \/ CallStep(t) PROVE Tasks'
  <2>1. CASE Calls(t)
    BY <1>1, <2>1 DEF Calls, BeginRegister, BeginGetQueue, BeginEnqueue, BeginRead,
                      BeginPool, Begin
  <2>2. CASE UNCHANGED butCall
    BY <1>1, <2>2 DEF butCall, otherVars
  <2>3. CASE RegisterWorkerPool(t) \/ GetOrCreateQueue(t) \/ StopEnds(t)
    <3>1. CASE StopEnds(t)
      BY <1>1, <3>1 DEF StopEnds, otherVars
    <3> QED
      BY <1>1, <2>3, <3>1 DEF RegisterWorkerPool, GetOrCreateQueue, otherVars
  <2>4. CASE EnqueueTask(t)
    <3>1. \A i \in Ids : state'[i] = "running" <=> state[i] = "running"
      BY <2>4 DEF EnqueueTask, Submit, Move, TypeOK, lifecycle
    <3> QED
      BY <2>4, <3>1, TasksKept DEF EnqueueTask, otherVars, Ended
  <2>5. CASE Start(t)
    <3> DEFINE p == call[t].pool
    <3>1. p \in Pools /\ ~running[p]
      BY <2>5 DEF Start, HasMutex, StopsInOrder
    <3>2. \A w \in WorkersOf(p) : worker[w].step = "off" /\ worker[w].task = NoTask
      BY <3>1 DEF StoppedIsQuiet, Live, Tasks, Hands, Busy, Doing, Workers
    <3>3. \A w \in Workers :
            /\ worker'[w].task = worker[w].task
            /\ worker'[w].step \in Doing <=> worker[w].step \in Doing
      BY <2>5, <3>2 DEF Start, Idle, Doing
    <3>4. \A w \in Workers : Busy(w) => (Ended(w)' <=> Ended(w))
      BY <2>5, <3>2 DEF Start, Busy, Ended, otherVars
    <3> QED
      BY <2>5, <3>3, <3>4, TasksKept DEF Start, lifecycle, otherVars
  <2>6. CASE StopWorker(t)
    <3> DEFINE w == <<call[t].pool, call[t].at + 1>>
    <3>1. /\ w \in Workers /\ UNCHANGED <<state, worker>>
          /\ cutOff' = cutOff \cup ({worker[v].task : v \in {w}} \ {NoTask})
      BY <2>6 DEF StopWorker, lifecycle
    <3>2. \A v \in Workers : Ended(v)' <=> Ended(v) \/ v \in {w}
      BY <2>6 DEF StopWorker, Ended, TypeOK
    <3> QED
      BY <3>1, <3>2, TasksCut
  <2> QED
    BY <1>2, <2>1, <2>2, <2>3, <2>4, <2>5, <2>6
       DEF CallStep, Announce, NextPool, LoopEnds, GetQueueStats, IsRunning,
           StartFails, StopNotRunning, Stop
<1>3. ASSUME NEW w \in Workers, WorkerStep(w) PROVE Tasks'
  <2>1. CASE Dequeue(w)
    BY <2>1, TasksTaken
  <2>2. CASE Handle(w)
    <3>1. UNCHANGED <<state, cancelled, expired, ctxDone, cutOff>>
      BY <2>2 DEF Handle, Try, butWorker, otherVars
    <3>2. \A v \in Workers : /\ worker'[v].task = worker[v].task
                             /\ worker'[v].step \in Doing <=> worker[v].step \in Doing
      BY <2>2 DEF Handle, Turn, Doing, TypeOK
    <3> QED
      BY <3>1, <3>2, TasksKept DEF Ended
  <2>3. CASE HandlerReturns(w)
    <3>1. UNCHANGED <<state, cancelled, expired, ctxDone, cutOff>>
      BY <2>3 DEF HandlerReturns, butWorker, otherVars, lifecycle
    <3>2. \A v \in Workers : /\ worker'[v].task = worker[v].task
                             /\ worker'[v].step \in Doing <=> worker[v].step \in Doing
      BY <2>3 DEF HandlerReturns, Turn, Doing, TypeOK
    <3> QED
      BY <3>1, <3>2, TasksKept DEF Ended
  <2>4. CASE Settle(w)
    <3>1. Busy(w) /\ worker[w].task \in Ids
      BY <2>4 DEF Settle, Tasks, Hands, Doing, Busy, TypeOK
    <3>2. worker[w].task \notin cutOff
      BY <2>4, <3>1 DEF Settle, Tasks, Hands
    <3>3. /\ state'[worker[w].task] # "running"
          /\ \A j \in Ids \ {worker[w].task} : state'[j] = state[j]
      BY <2>4, <3>1 DEF Settle, Complete, Retry, Bury, Move, TypeOK
    <3> QED
      BY <2>4, <3>1, <3>2, <3>3, TasksForgotten DEF Settle, butWorker, otherVars
  <2>5. CASE CommandFails(w)
    <3>1. Busy(w) /\ worker[w].task \in cutOff
      BY <2>5 DEF CommandFails, Tasks, Hands, Doing
    <3>2. state' = state /\ state[worker[w].task] = "running"
      BY <2>5, <3>1 DEF CommandFails, lifecycle, Tasks, CutOff
    <3> QED
      BY <2>5, <3>1, <3>2, TasksForgotten DEF CommandFails
  <2>6. CASE Exit(w)
    <3>1. UNCHANGED <<state, cancelled, expired, ctxDone, cutOff>>
      BY <2>6 DEF Exit, butWorker, otherVars, lifecycle
    <3>2. \A v \in Workers : /\ worker'[v].task = worker[v].task
                             /\ worker'[v].step \in Doing <=> worker[v].step \in Doing
      BY <2>6 DEF Exit, Idle, Off, Doing, TypeOK
    <3> QED
      BY <3>1, <3>2, TasksKept DEF Ended
  <2> QED
    BY <1>3, <2>1, <2>2, <2>3, <2>4, <2>5, <2>6 DEF WorkerStep
<1>4. ASSUME NEW w \in Workers, Expire(w) PROVE Tasks'
  <2>1. /\ UNCHANGED <<state, worker>>
        /\ cutOff' = cutOff \cup ({worker[v].task : v \in {w}} \ {NoTask})
    BY <1>4 DEF Expire, lifecycle, Busy
  <2>2. \A v \in Workers : Ended(v)' <=> Ended(v) \/ v \in {w}
    BY <1>4 DEF Expire, Ended, TypeOK
  <2> QED
    BY <2>1, <2>2, TasksCut
<1>5. CASE ContextEnds
  <2>1. InHand = {worker[w].task : w \in Workers} \ {NoTask}
    BY DEF InHand, Busy
  <2>2. UNCHANGED <<state, worker>> /\ cutOff' = cutOff \cup InHand
    BY <1>5 DEF ContextEnds, lifecycle
  <2>3. \A v \in Workers : Ended(v)' <=> Ended(v) \/ v \in Workers
    BY <1>5 DEF ContextEnds, Ended
  <2> QED
    BY <2>1, <2>2, <2>3, TasksCut
<1>6. CASE UNCHANGED vars
  BY <1>1, <1>6 DEF vars, butCall, otherVars
<1> QED
  BY <1>2, <1>3, <1>4, <1>5, <1>6 DEF Next

(* The only tasks in PROCESSING without a worker, and so left there, are   *)
(* those whose context ended in a worker's hands.                          *)
THEOREM StrandedAlwaysCutOff == Spec => []OnlyCutOffIsStranded
<1>1. TypeInv /\ Quiet /\ Tasks /\ [Next]_vars => Tasks'
  BY TasksStep DEF TypeInv, Quiet
<1>2. TypeInv /\ Tasks => OnlyCutOffIsStranded
  BY TasksMean DEF TypeInv
<1> QED
  BY <1>1, <1>2, TypeInit, TypeStep, QuietInit, QuietStep, TasksInit, PTL DEF Spec
=============================================================================
