------------------------ MODULE RedisQueueProperties ------------------------
(* What must be true of the queue and its workers, and what its            *)
(* documentation says of them that is not.                                 *)
EXTENDS RedisQueue

InHand(t) == {w \in Workers : held[w].id = t}

\* How often the id occurs in the four lists together.
Copies(t) ==
  Cardinality({i \in DOMAIN immediate : immediate[i] = t})
    + (IF delayed[t] = NotDelayed THEN 0 ELSE 1) + processing[t] + dead[t]

\* The id waits for a worker, due or not.
Waits(t) == t \in Range(immediate) \/ delayed[t] # NotDelayed

TaskCopy == [id : Tasks \cup {None}, retry : Nat]

\* Types of all variables; a worker that waits or polls has no task in hand,
\* any other worker has one.
TypeOK ==
  /\ immediate \in Seq(Tasks)
  /\ delayed \in [Tasks -> Nat \cup {NotDelayed}]
  /\ processing \in [Tasks -> Nat]
  /\ dead \in [Tasks -> Nat]
  /\ task \in [Tasks -> [status : Statuses, retry : Nat]]
  /\ timeout \in SUBSET Tasks
  /\ stats \in [completed : Nat, failed : Nat, dead_letter : Nat]
  /\ pc \in [Workers -> Steps]
  /\ held \in [Workers -> TaskCopy]
  /\ \A w \in Workers : held[w].id = None <=> pc[w] \in {"poll", "dequeue"}
  /\ faults \in Nat
  /\ purger \in PurgeSteps
  /\ scanned \in SUBSET Tasks
  /\ purges \in Nat
  /\ enqueued \in [Tasks -> Nat]
  /\ attempts \in [Tasks -> Nat]
  /\ succeeded \in SUBSET Tasks
  /\ acked \in SUBSET Tasks

\* The ids that are enqueued under the discipline NewTask supports: once.
Once == {t \in Tasks : MaxEnqueues[t] <= 1}

(* An id that is enqueued once is never in two lists, nor twice in one,    *)
(* whatever faults and purges happen between the commands.                 *)
OnePlace == \A t \in Once : Copies(t) <= 1

(* Until Purge is called, an id enqueued once is in exactly one list or    *)
(* was acknowledged: no lost reply, crash or interleaving loses it.        *)
NothingLost ==
  purges = 0 =>
    \A t \in Once : Copies(t) + (IF t \in acked THEN 1 ELSE 0) = enqueued[t]

(* Two workers never work on the same task at the same time, also when     *)
(* Purge empties the lists under them.                                     *)
SingleDelivery ==
  \A v, w \in Workers : v # w /\ held[v].id \in Once => held[v].id # held[w].id

(* The handler runs at most MaxRetries + 1 times for a task.               *)
AttemptsBounded == \A t \in Once : attempts[t] <= MaxRetries + 1

(* A task in DEAD failed MaxRetries + 1 times and never succeeded.         *)
DeadIsExhausted ==
  \A t \in Once :
    dead[t] > 0 => attempts[t] = MaxRetries + 1 /\ t \notin succeeded

(* Until Purge is called, task data is stored exactly for the ids in some  *)
(* list: no id without data (the task would be dropped silently), no data  *)
(* without id (TASK:{id} has no TTL and would stay for ever).              *)
DataIffReferenced ==
  purges = 0 => \A t \in Once : task[t] # Absent <=> Copies(t) > 0

(* The stored RetryCount of a waiting or dead task is the number of times  *)
(* its handler ran: the copies that workers write back never lose a count. *)
RetryCountIsAttempts ==
  purges = 0 =>
    \A t \in Once :
      Copies(t) > processing[t] => task[t].retry = attempts[t]

(* Only a fault leaves an id behind in PROCESSING with no worker on it.    *)
LeakNeedsFault ==
  faults = 0 /\ purges = 0 =>
    \A t \in Once : processing[t] = Cardinality(InHand(t))

(* Once a handler invocation succeeded the handler is not run again for    *)
(* that task, even if its Ack was lost.                                    *)
NeverRerun ==
  [][\A w \in Workers :
       pc[w] = "mark" /\ pc'[w] = "handle"
         => held[w].id \notin succeeded \cap Once]_vars

(* Every worker that works on a task has an entry of its own in PROCESSING,*)
(* so its Ack or Nack finds one, also for an id enqueued twice.            *)
HeldIsProcessing ==
  purges = 0 => \A t \in Tasks : processing[t] >= Cardinality(InHand(t))

(* Task data never outlives the id's last list entry, also for an id       *)
(* enqueued twice whose first copy is acknowledged under the second.       *)
DataIsReferenced ==
  purges = 0 => \A t \in Tasks : task[t] # Absent => Copies(t) > 0

(* Until a fault happens every enqueued task is completed or dead-lettered *)
(* in the end, with the neighbour's id enqueued twice or not.              *)
EveryTaskSettles ==
  \A t \in Once :
    enqueued[t] > 0 ~> t \in acked \/ dead[t] > 0 \/ faults > 0

(* task.go:32 and NewTask allow MaxRetries retries: each Enqueue of an id  *)
(* pays for at most MaxRetries + 1 handler runs.  Violated when the client *)
(* resends: a Nack sent twice puts back a task another worker already has. *)
RetryBudget == \A t \in Tasks : attempts[t] <= enqueued[t] * (MaxRetries + 1)

-----------------------------------------------------------------------------
(* The inductive invariant behind the safety properties, for ids that are  *)
(* enqueued once and as long as no command was executed twice.             *)

\* No command can have been executed twice.
Unrepeated == Resends => faults = 0

OccursOnce(s, t) ==
  \A i, j \in DOMAIN s : s[i] = t /\ s[j] = t => i = j

\* The id is in one list at most, and in none a worker could take it from
\* while a worker has it.
Exclusive(t) ==
  /\ OccursOnce(immediate, t)
  /\ t \in Range(immediate) => delayed[t] = NotDelayed
  /\ Waits(t) => processing[t] = 0 /\ dead[t] = 0
  /\ processing[t] <= 1
  /\ dead[t] <= 1
  /\ processing[t] > 0 => dead[t] = 0
  /\ \A w \in Workers : held[w].id = t => ~Waits(t) /\ dead[t] = 0
  /\ \A v, w \in Workers : held[v].id = t /\ held[w].id = t => v = w

\* Before its Enqueue an id has left no trace.
Fresh(t) ==
  /\ enqueued[t] <= 1
  /\ enqueued[t] = 0 =>
       /\ ~Waits(t) /\ processing[t] = 0 /\ dead[t] = 0
       /\ attempts[t] = 0 /\ t \notin succeeded
       /\ \A w \in Workers : held[w].id # t

\* The retry counts in the data and in a worker's copy against the number of
\* handler runs.
HolderCounts(w, t) ==
  /\ pc[w] = "mark" => attempts[t] = held[w].retry /\ attempts[t] <= MaxRetries
  /\ pc[w] \in {"handle", "nackGet"} =>
       /\ attempts[t] = held[w].retry + 1
       /\ task[t] # Absent => task[t].retry = held[w].retry
  /\ pc[w] = "nackRetry" =>
       attempts[t] = held[w].retry /\ attempts[t] <= MaxRetries
  /\ pc[w] = "nackDead" =>
       attempts[t] = held[w].retry /\ attempts[t] = MaxRetries + 1

Counted(t) ==
  /\ attempts[t] <= MaxRetries + 1
  /\ Waits(t) /\ task[t] # Absent =>
       attempts[t] = task[t].retry /\ attempts[t] <= MaxRetries
  /\ dead[t] > 0 => attempts[t] = MaxRetries + 1
  /\ \A w \in Workers : held[w].id = t => HolderCounts(w, t)

\* After a success only the Ack is left to do.
Finished(t) ==
  t \in succeeded =>
    /\ ~Waits(t) /\ dead[t] = 0
    /\ \A w \in Workers : held[w].id = t => pc[w] = "ack"

Inv ==
  /\ TypeOK
  /\ \A t \in Once : Exclusive(t) /\ Fresh(t) /\ Counted(t) /\ Finished(t)
=============================================================================
