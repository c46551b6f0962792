----------------------------- MODULE RedisQueue -----------------------------
(***************************************************************************)
(* The Redis work queue of queue/redis.go together with the loop of the    *)
(* workers that consume it (queue/worker.go).                              *)
(*                                                                         *)
(* A Lua script or a single Redis command is one atomic step.  A call that *)
(* sends several of them (Dequeue sends three, Nack two, Purge nine) is    *)
(* several steps, with everybody else's steps in between.  The reply of a  *)
(* command may be lost after the command took effect, and a command may    *)
(* never be sent (the 30 s context of processOne expired or was cancelled, *)
(* the process died, the connection broke): both cost one of MaxFaults.    *)
(*                                                                         *)
(* Abstractions.  A task is its id; its payload, metadata, error text and  *)
(* timestamps are dropped.  A delayed task carries the ticks that remain   *)
(* until its score is reached; the order in which one batch of due tasks   *)
(* is moved is left open (Redis orders them by score).  PROCESSING and     *)
(* DEAD are only ever searched by id or counted, so they are bags.  SCAN   *)
(* returns one page, the keys present when it runs.  Stored JSON is always *)
(* what Marshal wrote, so the corrupt-data branch of Dequeue is dead.      *)
(*                                                                         *)
(* Operators named Bug... are no part of the specification: each is a      *)
(* plausible mistake in the definition that follows it, which a property   *)
(* must notice.                                                            *)
(***************************************************************************)
EXTENDS Integers, Sequences, FiniteSets, SequencesExt

CONSTANTS
  Tasks,        \* task ids (NewTask draws a fresh UUID for each)
  Workers,      \* the goroutines running Worker.run on this queue
  None,         \* "no task in hand"
  MaxRetries,   \* Task.MaxRetries
  Delays,       \* delays EnqueueWithDelay is called with, in ticks
  RetryDelays,  \* values calculateRetryDelay can return, in ticks
  BatchLimit,   \* the LIMIT of moveDelayedScript (100 in the code)
  Resends,      \* does the client send a command again when its reply is lost?
                \* go-redis does unless MaxRetries is negative in its options
  MaxEnqueues,  \* bound: times each id is enqueued; 2 for an id whose Enqueue
                \* a caller, or the client library, repeats after a lost reply
  MaxFailures,  \* bound: a handler that was called more often for one id does
                \* not fail; out of reach (above MaxRetries) in most instances
  MaxFaults,    \* bound: lost commands and replies
  MaxPurges     \* bound: calls of Purge

ASSUME ConstantsAssumption ==
  /\ IsFiniteSet(Tasks)
  /\ None \notin Tasks
  /\ MaxRetries \in Nat
  /\ Delays \subseteq Nat
  /\ RetryDelays \subseteq Nat
  /\ BatchLimit \in Nat \ {0}
  /\ Resends \in BOOLEAN
  /\ MaxEnqueues \in [Tasks -> Nat]
  /\ MaxFailures \in Nat
  /\ MaxFaults \in Nat
  /\ MaxPurges \in Nat

VARIABLES
  immediate,   \* IMMEDIATE, read from its RPOP end: LPUSH appends
  delayed,     \* DELAYED: ticks until due, NotDelayed when not a member
  processing,  \* PROCESSING: how often each id is in the list
  dead,        \* DEAD: how often each id is in the list
  task,        \* TASK:{id}: the stored status and retry count
  timeout,     \* ids whose TIMEOUT:{id} key exists
  stats,       \* STATS
  pc,          \* the next command of each worker
  held,        \* the copy of a task each worker works on
  faults,      \* faults so far
  purger,      \* the next command of Purge, "idle" when none runs
  scanned,     \* keys collected by the SCAN of deleteKeysByPattern
  purges,      \* calls of Purge so far
  enqueued,    \* history: how often each id was enqueued
  attempts,    \* history: handler invocations per id
  succeeded,   \* history: ids some handler invocation returned nil for
  acked        \* history: ids removed by ackScript

lists     == <<immediate, delayed, processing, dead>>
keys      == <<task, timeout, stats>>
store     == <<lists, keys>>
client    == <<pc, held, faults>>
purgeVars == <<purger, scanned, purges>>
history   == <<enqueued, attempts, succeeded, acked>>
vars      == <<store, client, purgeVars, history>>

-----------------------------------------------------------------------------
NotDelayed == -1
Absent     == [status |-> "absent", retry |-> 0]
Nothing    == [id |-> None, retry |-> 0]

Statuses == {"absent", "pending", "processing", "dead_letter"}
Steps    == {"poll", "dequeue", "mark", "handle", "ack",
             "nackGet", "nackRetry", "nackDead"}
PurgeSteps == {"idle", "immediate", "delayed", "processing", "dead", "stats",
               "scanTask", "delTask", "scanTimeout", "delTimeout"}

Init ==
  /\ immediate = <<>>
  /\ delayed = [t \in Tasks |-> NotDelayed]
  /\ processing = [t \in Tasks |-> 0]
  /\ dead = [t \in Tasks |-> 0]
  /\ task = [t \in Tasks |-> Absent]
  /\ timeout = {}
  /\ stats = [completed |-> 0, failed |-> 0, dead_letter |-> 0]
  /\ pc = [w \in Workers |-> "poll"]
  /\ held = [w \in Workers |-> Nothing]
  /\ faults = 0
  /\ purger = "idle"
  /\ scanned = {}
  /\ purges = 0
  /\ enqueued = [t \in Tasks |-> 0]
  /\ attempts = [t \in Tasks |-> 0]
  /\ succeeded = {}
  /\ acked = {}

-----------------------------------------------------------------------------
(* Producers.                                                              *)

Submit(t) ==
  /\ enqueued[t] < MaxEnqueues[t]
  /\ enqueued' = [enqueued EXCEPT ![t] = @ + 1]
  /\ task' = [task EXCEPT ![t] = [status |-> "pending", retry |-> 0]]
  /\ UNCHANGED <<processing, dead, timeout, stats, client, purgeVars,
                 attempts, succeeded, acked>>

Enqueue(t) ==
  /\ Submit(t)
  /\ immediate' = Append(immediate, t)
  /\ UNCHANGED delayed

\* ZADD keeps one entry per id: a second call only moves its score.
EnqueueWithDelay(t, d) ==
  /\ Submit(t)
  /\ delayed' = [delayed EXCEPT ![t] = d]
  /\ UNCHANGED immediate

-----------------------------------------------------------------------------
(* Workers.                                                                *)

\* The reply reaches the worker, which goes on to `next` with `copy` in hand;
\* or it is lost, and either the client library sends the command once more
\* or the call returns an error and processOne drops the task.
Reply(w, next, copy) ==
  \/ /\ pc' = [pc EXCEPT ![w] = next]
     /\ held' = [held EXCEPT ![w] = copy]
     /\ UNCHANGED faults
  \/ /\ Resends
     /\ faults < MaxFaults
     /\ faults' = faults + 1
     /\ UNCHANGED <<pc, held>>
  \/ /\ faults < MaxFaults
     /\ faults' = faults + 1
     /\ pc' = [pc EXCEPT ![w] = "poll"]
     /\ held' = [held EXCEPT ![w] = Nothing]

Due == {t \in Tasks : delayed[t] = 0}

\* First command of Dequeue: moveDelayedScript.
MoveDelayed(w) ==
  /\ pc[w] = "poll"
  /\ \E batch \in SUBSET Due :
       /\ Cardinality(batch) <= BatchLimit
       /\ batch = Due \/ Cardinality(batch) = BatchLimit
       /\ \E order \in SetToSeqs(batch) : immediate' = immediate \o order
       /\ delayed' = [t \in Tasks |->
                        IF t \in batch THEN NotDelayed ELSE delayed[t]]
  /\ Reply(w, "dequeue", Nothing)
  /\ UNCHANGED <<processing, dead, keys, purgeVars, history>>

\* RPOPLPUSH IMMEDIATE PROCESSING
BugCopiesId(t) ==
  /\ processing' = [processing EXCEPT ![t] = @ + 1]
  /\ UNCHANGED immediate

BugPopsOnly(t) ==
  /\ immediate' = Tail(immediate)
  /\ UNCHANGED processing

RPopLPush(t) ==
  /\ immediate' = Tail(immediate)
  /\ processing' = [processing EXCEPT ![t] = @ + 1]

\* Second command of Dequeue: dequeueScript.  An empty list ends the poll; an
\* id without data is dropped from PROCESSING again; otherwise the worker
\* gets a copy of the stored task.
DequeueEmpty(w) ==
  /\ pc[w] = "dequeue"
  /\ immediate = <<>>
  /\ Reply(w, "poll", Nothing)
  /\ UNCHANGED <<store, purgeVars, history>>

DequeueOrphan(w) ==
  /\ pc[w] = "dequeue"
  /\ immediate # <<>>
  /\ task[Head(immediate)] = Absent
  /\ immediate' = Tail(immediate)
  /\ Reply(w, "poll", Nothing)
  /\ UNCHANGED <<delayed, processing, dead, keys, purgeVars, history>>

DequeueTask(w) ==
  /\ pc[w] = "dequeue"
  /\ immediate # <<>>
  /\ LET t == Head(immediate) IN
       /\ task[t] # Absent
       /\ RPopLPush(t)
       /\ timeout' = timeout \cup {t}
       /\ Reply(w, "mark", [id |-> t, retry |-> task[t].retry])
  /\ UNCHANGED <<delayed, dead, task, stats, purgeVars, history>>

\* Third command of Dequeue: SET writes the copy back as "processing",
\* whatever the key holds by now; then processOne calls the handler.
MarkProcessing(w) ==
  /\ pc[w] = "mark"
  /\ LET t == held[w].id IN
       /\ task' = [task EXCEPT ![t] = [status |-> "processing",
                                       retry  |-> held[w].retry]]
       /\ Reply(w, "handle", held[w])
       /\ attempts' = [attempts EXCEPT ![t] =
                         IF pc'[w] = "handle" THEN @ + 1 ELSE @]
  /\ UNCHANGED <<lists, timeout, stats, purgeVars, enqueued, succeeded, acked>>

HandlerSucceeds(w) ==
  /\ pc[w] = "handle"
  /\ pc' = [pc EXCEPT ![w] = "ack"]
  /\ succeeded' = succeeded \cup {held[w].id}
  /\ UNCHANGED <<store, held, faults, purgeVars, enqueued, attempts, acked>>

BugFailureIgnored(w) ==
  /\ pc[w] = "handle"
  /\ pc' = [pc EXCEPT ![w] = "poll"]
  /\ held' = [held EXCEPT ![w] = Nothing]
  /\ UNCHANGED <<store, faults, purgeVars, history>>

HandlerFails(w) ==
  /\ pc[w] = "handle"
  /\ attempts[held[w].id] <= MaxFailures
  /\ pc' = [pc EXCEPT ![w] = "nackGet"]
  /\ UNCHANGED <<store, held, faults, purgeVars, history>>

\* LREM found nothing: the script returns 0, the call ErrTaskNotFound, which
\* processOne only logs.
NotProcessing(w) ==
  /\ pc[w] \in {"ack", "nackRetry", "nackDead"}
  /\ processing[held[w].id] = 0
  /\ Reply(w, "poll", Nothing)
  /\ UNCHANGED <<store, purgeVars, history>>

\* LREM PROCESSING 1 id, with the scripts' early return
BugUnchecked(t) == processing' = [processing EXCEPT ![t] = @ - 1]

BugRemovesAll(t) ==
  /\ processing[t] > 0
  /\ processing' = [processing EXCEPT ![t] = 0]

LRem(t) ==
  /\ processing[t] > 0
  /\ processing' = [processing EXCEPT ![t] = @ - 1]

\* The common part of the three scripts that settle a task.
Settle(w, t) ==
  /\ t = held[w].id
  /\ LRem(t)
  /\ timeout' = timeout \ {t}
  /\ Reply(w, "poll", Nothing)
  /\ UNCHANGED <<immediate, purgeVars, enqueued, attempts, succeeded>>

BugKeepsData(t) == UNCHANGED task

DeleteData(t) == task' = [task EXCEPT ![t] = Absent]

Ack(w) ==
  /\ pc[w] = "ack"
  /\ \E t \in Tasks :
       /\ Settle(w, t)
       /\ DeleteData(t)
       /\ acked' = acked \cup {t}
  /\ stats' = [stats EXCEPT !.completed = @ + 1]
  /\ UNCHANGED <<delayed, dead>>

\* First command of Nack: GET, then the choice between retry and dead letter
\* on the copy just read.
NackGetMissing(w) ==
  /\ pc[w] = "nackGet"
  /\ task[held[w].id] = Absent
  /\ Reply(w, "poll", Nothing)
  /\ UNCHANGED <<store, purgeVars, history>>

\* Nack's choice once RetryCount has become `retry`.
BugRetriesOnceMore(retry) ==
  IF retry > MaxRetries + 1 THEN "nackDead" ELSE "nackRetry"

BugRetriesOnceLess(retry) ==
  IF retry >= MaxRetries THEN "nackDead" ELSE "nackRetry"

AfterFailure(retry) ==
  IF retry > MaxRetries THEN "nackDead" ELSE "nackRetry"

NackGet(w) ==
  /\ pc[w] = "nackGet"
  /\ task[held[w].id] # Absent
  /\ LET retry == task[held[w].id].retry + 1 IN
       Reply(w, AfterFailure(retry), [id |-> held[w].id, retry |-> retry])
  /\ UNCHANGED <<store, purgeVars, history>>

\* SET TASK:{id}: what the scripts of Nack store, built by Nack
BugForgetsCount(w, t, status) == task' = [task EXCEPT ![t].status = status]

SaveData(w, t, status) ==
  task' = [task EXCEPT ![t] = [status |-> status, retry |-> held[w].retry]]

NackRetry(w) ==
  /\ pc[w] = "nackRetry"
  /\ \E t \in Tasks, d \in RetryDelays :
       /\ Settle(w, t)
       /\ SaveData(w, t, "pending")
       /\ delayed' = [delayed EXCEPT ![t] = d]
  /\ stats' = [stats EXCEPT !.failed = @ + 1]
  /\ UNCHANGED <<dead, acked>>

BugDeadLetterDropped(t) == UNCHANGED dead

PushDead(t) == dead' = [dead EXCEPT ![t] = @ + 1]

NackDead(w) ==
  /\ pc[w] = "nackDead"
  /\ \E t \in Tasks :
       /\ Settle(w, t)
       /\ SaveData(w, t, "dead_letter")
       /\ PushDead(t)
  /\ stats' = [stats EXCEPT !.dead_letter = @ + 1]
  /\ UNCHANGED <<delayed, acked>>

\* The next command is never executed: the context is done, the connection
\* fails, or the worker's process dies and another one takes its place.
Abandon(w) ==
  /\ pc[w] # "poll"
  /\ faults < MaxFaults
  /\ faults' = faults + 1
  /\ pc' = [pc EXCEPT ![w] = "poll"]
  /\ held' = [held EXCEPT ![w] = Nothing]
  /\ UNCHANGED <<store, purgeVars, history>>

-----------------------------------------------------------------------------
(* Time and TTLs.                                                          *)

Tick ==
  /\ \E t \in Tasks : delayed[t] > 0
  /\ delayed' = [t \in Tasks |->
                   IF delayed[t] > 0 THEN delayed[t] - 1 ELSE delayed[t]]
  /\ UNCHANGED <<immediate, processing, dead, keys, client, purgeVars, history>>

\* Redis drops TIMEOUT:{id} when its TTL ends.  Nothing reads that key.
ExpireTimeout(t) ==
  /\ t \in timeout
  /\ timeout' = timeout \ {t}
  /\ UNCHANGED <<lists, task, stats, client, purgeVars, history>>

-----------------------------------------------------------------------------
(* Purge: five DELs, then SCAN and DEL of TASK:*, then of TIMEOUT:*.       *)

PurgeStart ==
  /\ purger = "idle"
  /\ purges < MaxPurges
  /\ purges' = purges + 1
  /\ purger' = "immediate"
  /\ UNCHANGED <<store, client, scanned, history>>

PurgeGoes(from, to) ==
  /\ purger = from
  /\ purger' = to
  /\ UNCHANGED <<client, purges, history>>

PurgeLists ==
  \/ /\ PurgeGoes("immediate", "delayed")
     /\ immediate' = <<>>
     /\ UNCHANGED <<delayed, processing, dead, keys, scanned>>
  \/ /\ PurgeGoes("delayed", "processing")
     /\ delayed' = [t \in Tasks |-> NotDelayed]
     /\ UNCHANGED <<immediate, processing, dead, keys, scanned>>
  \/ /\ PurgeGoes("processing", "dead")
     /\ processing' = [t \in Tasks |-> 0]
     /\ UNCHANGED <<immediate, delayed, dead, keys, scanned>>
  \/ /\ PurgeGoes("dead", "stats")
     /\ dead' = [t \in Tasks |-> 0]
     /\ UNCHANGED <<immediate, delayed, processing, keys, scanned>>
  \/ /\ PurgeGoes("stats", "scanTask")
     /\ stats' = [completed |-> 0, failed |-> 0, dead_letter |-> 0]
     /\ UNCHANGED <<lists, task, timeout, scanned>>

PurgeKeys ==
  \/ /\ PurgeGoes("scanTask", "delTask")
     /\ scanned' = {t \in Tasks : task[t] # Absent}
     /\ UNCHANGED store
  \/ /\ PurgeGoes("delTask", "scanTimeout")
     /\ task' = [t \in Tasks |-> IF t \in scanned THEN Absent ELSE task[t]]
     /\ scanned' = {}
     /\ UNCHANGED <<lists, timeout, stats>>
  \/ /\ PurgeGoes("scanTimeout", "delTimeout")
     /\ scanned' = timeout
     /\ UNCHANGED store
  \/ /\ PurgeGoes("delTimeout", "idle")
     /\ timeout' = timeout \ scanned
     /\ scanned' = {}
     /\ UNCHANGED <<lists, task, stats>>

\* A command fails: Purge returns the error and leaves the rest in place.
PurgeFails ==
  /\ purger # "idle"
  /\ faults < MaxFaults
  /\ faults' = faults + 1
  /\ purger' = "idle"
  /\ scanned' = {}
  /\ UNCHANGED <<store, pc, held, purges, history>>

-----------------------------------------------------------------------------
Worker(w) ==
  \/ MoveDelayed(w)
  \/ DequeueEmpty(w) \/ DequeueOrphan(w) \/ DequeueTask(w)
  \/ MarkProcessing(w)
  \/ HandlerSucceeds(w) \/ HandlerFails(w)
  \/ NotProcessing(w)
  \/ Ack(w)
  \/ NackGetMissing(w) \/ NackGet(w) \/ NackRetry(w) \/ NackDead(w)

Next ==
  \/ \E t \in Tasks : Enqueue(t)
  \/ \E t \in Tasks, d \in Delays : EnqueueWithDelay(t, d)
  \/ \E w \in Workers : Worker(w)
  \/ \E w \in Workers : Abandon(w)
  \/ Tick
  \/ \E t \in Tasks : ExpireTimeout(t)
  \/ PurgeStart \/ PurgeLists \/ PurgeKeys \/ PurgeFails

Spec == Init /\ [][Next]_vars

\* Worker.run polls for ever and handlers return; the clock advances.
FairSpec ==
  /\ Spec
  /\ \A w \in Workers : WF_vars(Worker(w))
  /\ WF_vars(Tick)

=============================================================================
