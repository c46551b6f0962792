---------------------- MODULE RedisQueueLifecycleProof ----------------------
(* What each step does to the place of an id, and the proof that           *)
(* RedisQueue implements TaskLifecycle, for any tasks, workers and bounds  *)
(* and a client that does not resend.                                      *)
EXTENDS RedisQueueLifecycle, RedisQueueProof

-----------------------------------------------------------------------------
(* The ids in IMMEDIATE after each change of the list.                     *)

\* A batch is moved completely.
LEMMA BatchComplete ==
  ASSUME NEW batch \in SUBSET Tasks, NEW order \in SetToSeqs(batch)
  PROVE  Range(order) = batch
<1> DEFINE n == Cardinality(batch)
<1>1. IsFiniteSet(batch)
  BY ConstantsAssumption, FS_Subset
<1>2. n \in Nat
  BY <1>1, FS_CardinalityType
<1>3. order \in [1..n -> batch] /\ \A i, j \in 1..n : order[i] = order[j] => i = j
  BY DEF SetToSeqs
<1>4. order \in Injection(1..n, batch)
  BY <1>3 DEF Injection, IsInjective
<1>5. IsFiniteSet(1..n) /\ Cardinality(1..n) = n
  BY <1>2, FS_Interval
<1>6. order \in Surjection(1..n, batch)
  BY <1>1, <1>4, <1>5, FS_Injection
<1> QED
  BY <1>3, <1>6 DEF Surjection, Range

LEMMA MoveRange ==
  ASSUME NEW s \in Seq(Tasks), NEW batch \in SUBSET Tasks,
         NEW order \in SetToSeqs(batch)
  PROVE  Range(s \o order) = Range(s) \cup batch
<1> DEFINE n == Len(s)
           m == Len(order)
           c == s \o order
<1>1. order \in Seq(Tasks)
  BY BatchOrder
<1>2. /\ n \in Nat /\ m \in Nat /\ DOMAIN s = 1..n /\ DOMAIN order = 1..m
      /\ DOMAIN c = 1..(n + m)
      /\ \A i \in 1..(n + m) : c[i] = IF i <= n THEN s[i] ELSE order[i - n]
  BY <1>1, ConcatProperties, LenProperties
<1>3. ASSUME NEW x \in Range(c) PROVE x \in Range(s) \cup Range(order)
  <2>1. PICK i \in 1..(n + m) : c[i] = x
    BY <1>2 DEF Range
  <2>2. CASE i <= n
    BY <1>2, <2>1, <2>2 DEF Range
  <2>3. CASE ~ (i <= n)
    <3>1. i - n \in 1..m /\ order[i - n] = x
      BY <1>2, <2>1, <2>3
    <3> QED
      BY <1>2, <3>1 DEF Range
  <2> QED
    BY <2>2, <2>3
<1>4. ASSUME NEW x \in Range(s) PROVE x \in Range(c)
  <2>1. PICK i \in 1..n : s[i] = x
    BY <1>2 DEF Range
  <2>2. i \in 1..(n + m) /\ c[i] = x
    BY <1>2, <2>1
  <2> QED
    BY <1>2, <2>2 DEF Range
<1>5. ASSUME NEW x \in Range(order) PROVE x \in Range(c)
  <2>1. PICK i \in 1..m : order[i] = x
    BY <1>2 DEF Range
  <2>2. i + n \in 1..(n + m) /\ c[i + n] = x
    BY <1>2, <2>1
  <2> QED
    BY <1>2, <2>2 DEF Range
<1> QED
  BY <1>3, <1>4, <1>5, BatchComplete

LEMMA TailRange ==
  ASSUME NEW s \in Seq(Tasks), s # <<>>
  PROVE  Head(s) \in Tasks /\ Range(s) = Range(Tail(s)) \cup {Head(s)}
<1>1. /\ Head(s) \in Tasks /\ Len(Tail(s)) = Len(s) - 1
      /\ \A i \in 1 .. Len(Tail(s)) : Tail(s)[i] = s[i+1]
      /\ Len(s) \in Nat \ {0} /\ DOMAIN s = 1..Len(s) /\ Head(s) = s[1]
      /\ DOMAIN Tail(s) = 1..Len(Tail(s))
  BY HeadTailProperties, EmptySeq, LenProperties
<1>2. ASSUME NEW x \in Range(s) PROVE x \in Range(Tail(s)) \cup {Head(s)}
  <2>1. PICK i \in 1..Len(s) : s[i] = x
    BY <1>1 DEF Range
  <2>2. CASE i # 1
    <3>1. i - 1 \in 1..Len(Tail(s)) /\ Tail(s)[i - 1] = x
      BY <1>1, <2>1, <2>2
    <3> QED
      BY <1>1, <3>1 DEF Range
  <2> QED
    BY <1>1, <2>1, <2>2
<1>3. ASSUME NEW x \in Range(Tail(s)) PROVE x \in Range(s)
  <2>1. PICK i \in 1..Len(Tail(s)) : Tail(s)[i] = x
    BY <1>1 DEF Range
  <2>2. i + 1 \in 1..Len(s) /\ s[i + 1] = x
    BY <1>1, <2>1
  <2> QED
    BY <1>1, <2>2 DEF Range
<1>4. Head(s) \in Range(s)
  BY <1>1 DEF Range
<1> QED
  BY <1>1, <1>2, <1>3, <1>4

LEMMA AppendRange ==
  ASSUME NEW s \in Seq(Tasks), NEW u \in Tasks
  PROVE  Range(Append(s, u)) = Range(s) \cup {u}
  BY AppendProperties DEF Range

-----------------------------------------------------------------------------
(* What each step does to the place of an id, be it enqueued once or more. *)

\* The id is in the same lists and was submitted, tried and acknowledged as
\* often as before.
Unmoved(t) ==
  /\ Waits(t)' <=> Waits(t)
  /\ processing'[t] = processing[t]
  /\ dead'[t] = dead[t]
  /\ enqueued'[t] = enqueued[t]
  /\ attempts'[t] = attempts[t]
  /\ t \in acked' <=> t \in acked

LEMMA SubmitEffect ==
  ASSUME TypeOK, NEW u \in Tasks,
         Enqueue(u) \/ (\E d \in Delays : EnqueueWithDelay(u, d))
  PROVE  /\ UNCHANGED <<processing, dead, attempts, acked, succeeded, pc, held,
                        faults, purger, purges>>
         /\ \A t \in Tasks \ {u} : Unmoved(t) /\ task'[t] = task[t]
         /\ Waits(u)'
         /\ enqueued[u] < MaxEnqueues[u] /\ enqueued'[u] = enqueued[u] + 1
         /\ task'[u] # Absent
<1>1. Submit(u)
  BY DEF Enqueue, EnqueueWithDelay
<1>2. UNCHANGED <<processing, dead, attempts, acked, succeeded, pc, held,
                  faults, purger, purges>>
  BY <1>1 DEF Submit, client, purgeVars
<1>3. /\ task' = [task EXCEPT ![u] = [status |-> "pending", retry |-> 0]]
      /\ enqueued' = [enqueued EXCEPT ![u] = @ + 1]
      /\ enqueued[u] < MaxEnqueues[u]
  BY <1>1 DEF Submit
<1>4. /\ task'[u] # Absent /\ enqueued'[u] = enqueued[u] + 1
      /\ \A t \in Tasks \ {u} : task'[t] = task[t] /\ enqueued'[t] = enqueued[t]
  BY <1>3 DEF TypeOK, Absent
<1>5. CASE Enqueue(u)
  <2>1. Range(immediate') = Range(immediate) \cup {u} /\ delayed' = delayed
    BY <1>5, AppendRange DEF Enqueue, TypeOK
  <2>2. Waits(u)' /\ \A t \in Tasks \ {u} : Waits(t)' <=> Waits(t)
    BY <2>1 DEF Waits
  <2> QED
    BY <1>2, <1>3, <1>4, <2>2 DEF Unmoved
<1>6. CASE \E d \in Delays : EnqueueWithDelay(u, d)
  <2>1. PICK d \in Delays : EnqueueWithDelay(u, d)
    BY <1>6
  <2>2. /\ delayed' = [delayed EXCEPT ![u] = d] /\ immediate' = immediate
        /\ d # NotDelayed
    BY <2>1, ConstantsAssumption DEF EnqueueWithDelay, NotDelayed
  <2>3. Waits(u)' /\ \A t \in Tasks \ {u} : Waits(t)' <=> Waits(t)
    BY <2>2 DEF Waits, TypeOK
  <2> QED
    BY <1>2, <1>3, <1>4, <2>3 DEF Unmoved
<1> QED
  BY <1>5, <1>6

LEMMA MoveEffect ==
  ASSUME TypeOK, NEW w \in Workers, MoveDelayed(w), NEW t \in Tasks
  PROVE  Unmoved(t) /\ task' = task /\ purger' = purger /\ purges' = purges
<1>1. PICK batch \in SUBSET Due :
        /\ \E order \in SetToSeqs(batch) : immediate' = immediate \o order
        /\ delayed' = [x \in Tasks |->
                         IF x \in batch THEN NotDelayed ELSE delayed[x]]
  BY DEF MoveDelayed
<1>2. PICK order \in SetToSeqs(batch) : immediate' = immediate \o order
  BY <1>1
<1>3. batch \in SUBSET Tasks /\ (t \in batch => delayed[t] = 0)
  BY DEF Due
<1>4. Range(immediate') = Range(immediate) \cup batch
  BY <1>2, <1>3, MoveRange DEF TypeOK
<1>5. delayed'[t] = IF t \in batch THEN NotDelayed ELSE delayed[t]
  BY <1>1
<1>6. Waits(t)' <=> Waits(t)
  BY <1>3, <1>4, <1>5 DEF Waits, NotDelayed
<1> QED
  BY <1>6 DEF MoveDelayed, Unmoved, keys, history, purgeVars

LEMMA OrphanEffect ==
  ASSUME TypeOK, NEW w \in Workers, DequeueOrphan(w)
  PROVE  /\ Head(immediate) \in Tasks /\ task[Head(immediate)] = Absent
         /\ Waits(Head(immediate))
         /\ UNCHANGED <<processing, dead, task, enqueued, attempts, acked,
                        purger, purges>>
         /\ \A t \in Tasks \ {Head(immediate)} : Unmoved(t)
<1>1. /\ Head(immediate) \in Tasks
      /\ Range(immediate) = Range(immediate') \cup {Head(immediate)}
      /\ delayed' = delayed
  BY TailRange DEF DequeueOrphan, TypeOK
<1>2. UNCHANGED <<processing, dead, task, enqueued, attempts, acked,
                  purger, purges>>
  BY DEF DequeueOrphan, keys, history, purgeVars
<1>3. \A t \in Tasks \ {Head(immediate)} : Waits(t)' <=> Waits(t)
  BY <1>1 DEF Waits
<1> QED
  BY <1>1, <1>2, <1>3 DEF DequeueOrphan, Unmoved, Waits

LEMMA TakeEffect ==
  ASSUME TypeOK, NEW w \in Workers, DequeueTask(w)
  PROVE  /\ Head(immediate) \in Tasks
         /\ Waits(Head(immediate)) /\ Head(immediate) \in Range(immediate)
         /\ processing'[Head(immediate)] = processing[Head(immediate)] + 1
         /\ Reply(w, "mark", [id    |-> Head(immediate),
                              retry |-> task[Head(immediate)].retry])
         /\ UNCHANGED <<delayed, dead, task, enqueued, attempts, acked,
                        purger, purges>>
         /\ \A t \in Tasks \ {Head(immediate)} : Unmoved(t)
<1>1. /\ Head(immediate) \in Tasks
      /\ Range(immediate) = Range(immediate') \cup {Head(immediate)}
      /\ delayed' = delayed
  BY TailRange DEF DequeueTask, RPopLPush, TypeOK
<1>2. UNCHANGED <<delayed, dead, task, enqueued, attempts, acked, purger, purges>>
  BY DEF DequeueTask, history, purgeVars
<1>3. \A t \in Tasks \ {Head(immediate)} : Waits(t)' <=> Waits(t)
  BY <1>1 DEF Waits
<1>4. /\ processing'[Head(immediate)] = processing[Head(immediate)] + 1
      /\ \A t \in Tasks \ {Head(immediate)} : processing'[t] = processing[t]
  BY <1>1 DEF DequeueTask, RPopLPush, TypeOK
<1>5. \A t \in Tasks \ {Head(immediate)} : Unmoved(t)
  BY <1>2, <1>3, <1>4 DEF Unmoved
<1> QED
  BY <1>1, <1>2, <1>4, <1>5 DEF DequeueTask, Waits

LEMMA MarkEffect ==
  ASSUME TypeOK, NEW w \in Workers, MarkProcessing(w)
  PROVE  /\ held[w].id \in Tasks
         /\ Reply(w, "handle", held[w])
         /\ UNCHANGED <<immediate, delayed, processing, dead, enqueued, acked,
                        purger, purges>>
         /\ task'[held[w].id] # Absent
         /\ attempts'[held[w].id] = IF pc'[w] = "handle"
                                      THEN attempts[held[w].id] + 1
                                      ELSE attempts[held[w].id]
         /\ \A t \in Tasks \ {held[w].id} : Unmoved(t) /\ task'[t] = task[t]
<1>1. held[w].id \in Tasks
  BY DEF MarkProcessing, TypeOK, TaskCopy
<1>2. UNCHANGED <<immediate, delayed, processing, dead, enqueued, acked,
                  purger, purges>>
  BY DEF MarkProcessing, lists, purgeVars
<1>3. /\ task' = [task EXCEPT ![held[w].id] = [status |-> "processing",
                                               retry  |-> held[w].retry]]
      /\ attempts' = [attempts EXCEPT ![held[w].id] =
                        IF pc'[w] = "handle" THEN @ + 1 ELSE @]
  BY DEF MarkProcessing
<1>4. /\ task'[held[w].id] # Absent
      /\ \A t \in Tasks \ {held[w].id} :
           task'[t] = task[t] /\ attempts'[t] = attempts[t]
      /\ attempts'[held[w].id] = IF pc'[w] = "handle"
                                   THEN attempts[held[w].id] + 1
                                   ELSE attempts[held[w].id]
  BY <1>1, <1>3 DEF TypeOK, Absent
<1>5. \A t \in Tasks \ {held[w].id} : Unmoved(t)
  BY <1>2, <1>4 DEF Unmoved, Waits
<1> QED
  BY <1>1, <1>2, <1>4, <1>5 DEF MarkProcessing

\* The steps that leave every id where it is, and its data but for Purge.
LEMMA StillEffect ==
  ASSUME TypeOK, NEW t \in Tasks,
         \/ \E w \in Workers :
              \/ DequeueEmpty(w) \/ NotProcessing(w) \/ NackGetMissing(w)
              \/ NackGet(w) \/ HandlerSucceeds(w) \/ HandlerFails(w)
              \/ Abandon(w)
         \/ Tick \/ (\E u \in Tasks : ExpireTimeout(u))
         \/ PurgeStart \/ PurgeKeys \/ PurgeFails \/ UNCHANGED vars
  PROVE  Unmoved(t) /\ (~PurgeKeys => task' = task)
<1> USE DEF store, lists, keys, client, purgeVars, history, vars
<1>1. UNCHANGED <<immediate, processing, dead, enqueued, attempts, acked>>
      /\ (~PurgeKeys => task' = task)
  BY DEF DequeueEmpty, NotProcessing, NackGetMissing, NackGet, HandlerSucceeds,
         HandlerFails, Abandon, Tick, ExpireTimeout, PurgeStart, PurgeKeys,
         PurgeFails, PurgeGoes
<1>2. CASE Tick
  <2>1. delayed'[t] = IF delayed[t] > 0 THEN delayed[t] - 1 ELSE delayed[t]
    BY <1>2 DEF Tick
  <2>2. (delayed'[t] = NotDelayed) <=> (delayed[t] = NotDelayed)
    BY <2>1 DEF TypeOK, NotDelayed
  <2> QED
    BY <1>1, <2>2 DEF Unmoved, Waits
<1>3. CASE ~Tick
  <2>1. delayed' = delayed
    BY <1>3 DEF DequeueEmpty, NotProcessing, NackGetMissing, NackGet,
         HandlerSucceeds, HandlerFails, Abandon, ExpireTimeout, PurgeStart,
         PurgeKeys, PurgeFails, PurgeGoes
  <2> QED
    BY <1>1, <2>1 DEF Unmoved, Waits
<1> QED
  BY <1>2, <1>3

\* What the three settling scripts do to the lists.
LEMMA SettledEffect ==
  ASSUME TypeOK, NEW w \in Workers, NEW u \in Tasks, Settle(w, u)
  PROVE  /\ u = held[w].id /\ processing[u] > 0
         /\ Reply(w, "poll", Nothing)
         /\ processing'[u] = processing[u] - 1
         /\ \A t \in Tasks \ {u} : processing'[t] = processing[t]
         /\ UNCHANGED <<immediate, purger, purges, enqueued, attempts, succeeded>>
  BY DEF Settle, LRem, TypeOK, purgeVars

LEMMA AckEffect ==
  ASSUME TypeOK, NEW w \in Workers, Ack(w)
  PROVE  \E u \in Tasks :
           /\ Settle(w, u)
           /\ acked' = acked \cup {u} /\ task'[u] = Absent
           /\ UNCHANGED <<immediate, delayed, dead>>
           /\ \A t \in Tasks \ {u} : Unmoved(t) /\ task'[t] = task[t]
<1>1. PICK u \in Tasks :
        Settle(w, u) /\ DeleteData(u) /\ acked' = acked \cup {u}
  BY DEF Ack
<1>2. task'[u] = Absent /\ \A t \in Tasks \ {u} : task'[t] = task[t]
  BY <1>1 DEF DeleteData, TypeOK
<1>3. UNCHANGED <<immediate, delayed, dead, enqueued, attempts>>
      /\ \A t \in Tasks \ {u} : processing'[t] = processing[t]
  BY <1>1, SettledEffect DEF Ack
<1>4. \A t \in Tasks \ {u} : Unmoved(t)
  BY <1>1, <1>3 DEF Unmoved, Waits
<1> QED
  BY <1>1, <1>2, <1>3, <1>4

LEMMA NackRetryEffect ==
  ASSUME TypeOK, NEW w \in Workers, NackRetry(w)
  PROVE  \E u \in Tasks :
           /\ Settle(w, u) /\ Waits(u)'
           /\ task'[u] = [status |-> "pending", retry |-> held[w].retry]
           /\ UNCHANGED <<dead, acked>>
           /\ \A t \in Tasks \ {u} : Unmoved(t) /\ task'[t] = task[t]
<1>1. PICK u \in Tasks, d \in RetryDelays :
        /\ Settle(w, u)
        /\ SaveData(w, u, "pending")
        /\ delayed' = [delayed EXCEPT ![u] = d]
  BY DEF NackRetry
<1>2. /\ task'[u] = [status |-> "pending", retry |-> held[w].retry]
      /\ \A t \in Tasks \ {u} : task'[t] = task[t]
  BY <1>1 DEF SaveData, TypeOK
<1>3. UNCHANGED <<immediate, dead, acked, enqueued, attempts>>
      /\ \A t \in Tasks \ {u} : processing'[t] = processing[t]
  BY <1>1, SettledEffect DEF NackRetry
<1>4. /\ delayed'[u] # NotDelayed
      /\ \A t \in Tasks \ {u} : delayed'[t] = delayed[t]
  BY <1>1, ConstantsAssumption DEF TypeOK, NotDelayed
<1>5. Waits(u)' /\ \A t \in Tasks \ {u} : Unmoved(t)
  BY <1>3, <1>4 DEF Unmoved, Waits
<1> QED
  BY <1>1, <1>2, <1>3, <1>5

LEMMA NackDeadEffect ==
  ASSUME TypeOK, NEW w \in Workers, NackDead(w)
  PROVE  \E u \in Tasks :
           /\ Settle(w, u) /\ dead'[u] = dead[u] + 1
           /\ task'[u] = [status |-> "dead_letter", retry |-> held[w].retry]
           /\ UNCHANGED <<immediate, delayed, acked>>
           /\ \A t \in Tasks \ {u} : Unmoved(t) /\ task'[t] = task[t]
<1>1. PICK u \in Tasks :
        Settle(w, u) /\ SaveData(w, u, "dead_letter") /\ PushDead(u)
  BY DEF NackDead
<1>2. /\ task'[u] = [status |-> "dead_letter", retry |-> held[w].retry]
      /\ dead'[u] = dead[u] + 1
      /\ \A t \in Tasks \ {u} : task'[t] = task[t] /\ dead'[t] = dead[t]
  BY <1>1 DEF SaveData, PushDead, TypeOK
<1>3. UNCHANGED <<immediate, delayed, acked, enqueued, attempts>>
      /\ \A t \in Tasks \ {u} : processing'[t] = processing[t]
  BY <1>1, SettledEffect DEF NackDead
<1>4. \A t \in Tasks \ {u} : Unmoved(t)
  BY <1>2, <1>3 DEF Unmoved, Waits
<1> QED
  BY <1>1, <1>2, <1>3, <1>4

-----------------------------------------------------------------------------
(* What the refinement needs beyond Inv.                                   *)

(* An acknowledged id is in no list and with no worker, so that it stays   *)
(* done; a worker that is past the handler's start counts as one try, so   *)
(* that no task completes, or goes back, untried.                          *)
Life(t) ==
  /\ t \in acked =>
       /\ enqueued[t] > 0
       /\ ~Waits(t) /\ processing[t] = 0 /\ dead[t] = 0
       /\ \A w \in Workers : held[w].id # t
  /\ \A w \in Workers : held[w].id = t /\ pc[w] # "mark" => attempts[t] > 0

LifeInv == \A t \in Once : Life(t)

\* A step that leaves an id where it is and gives it to nobody.
LEMMA UnmovedLife ==
  ASSUME NEW t \in Once, Life(t), Unmoved(t), SameHolders(t)
  PROVE  Life(t)'
  BY DEF Life, Unmoved, SameHolders

\* A step at whose end no worker has the id.
LEMMA LeftLife ==
  ASSUME NEW t \in Once, \A w \in Workers : held'[w].id # t, t \notin acked'
  PROVE  Life(t)'
  BY DEF Life

LEMMA SubmitLife ==
  ASSUME TypeOK, NEW t \in Once, Safe(t), Life(t), NEW u \in Tasks,
         Enqueue(u) \/ (\E d \in Delays : EnqueueWithDelay(u, d))
  PROVE  Life(t)'
<1>1. /\ UNCHANGED <<processing, dead, attempts, acked, pc, held>>
      /\ \A x \in Tasks \ {u} : Unmoved(x)
      /\ enqueued[u] < MaxEnqueues[u]
  BY SubmitEffect
<1>2. CASE u # t
  BY <1>1, <1>2, UnmovedLife DEF SameHolders, Once
<1>3. CASE u = t
  <2>1. enqueued[t] = 0
    BY <1>1, <1>3, ConstantsAssumption DEF Once, TypeOK
  <2>2. t \notin acked /\ \A w \in Workers : held[w].id # t
    BY <2>1 DEF Life, Safe, Fresh
  <2> QED
    BY <1>1, <2>2, LeftLife
<1> QED
  BY <1>2, <1>3

LEMMA StillLife ==
  ASSUME TypeOK, Unrepeated', NEW t \in Once, Safe(t), Life(t),
         \/ \E w \in Workers :
              \/ DequeueEmpty(w) \/ NotProcessing(w) \/ NackGetMissing(w)
              \/ Abandon(w)
         \/ Tick \/ (\E u \in Tasks : ExpireTimeout(u))
         \/ PurgeStart \/ PurgeKeys \/ PurgeFails \/ UNCHANGED vars
  PROVE  Life(t)'
<1>1. t \in Tasks
  BY DEF Once
<1>2. Unmoved(t)
  BY <1>1, StillEffect
<1>3. SameHolders(t)
  <2>1. ASSUME NEW w \in Workers,
               DequeueEmpty(w) \/ NotProcessing(w) \/ NackGetMissing(w)
        PROVE  SameHolders(t)
    BY <1>1, <2>1, ReplyDrops DEF DequeueEmpty, NotProcessing, NackGetMissing
  <2>2. ASSUME NEW w \in Workers, Abandon(w) PROVE SameHolders(t)
    <3>1. Nothing.id # t
      BY <1>1, ConstantsAssumption DEF Nothing
    <3> QED
      BY <2>2, <3>1 DEF Abandon, SameHolders, TypeOK
  <2>3. ASSUME \/ Tick \/ (\E u \in Tasks : ExpireTimeout(u))
               \/ PurgeStart \/ PurgeKeys \/ PurgeFails \/ UNCHANGED vars
        PROVE  SameHolders(t)
    <3>1. UNCHANGED <<pc, held>>
      BY <2>3 DEF Tick, ExpireTimeout, PurgeStart, PurgeKeys, PurgeFails,
                  PurgeGoes, client, vars
    <3> QED
      BY <3>1 DEF SameHolders
  <2> QED
    BY <2>1, <2>2, <2>3
<1> QED
  BY <1>2, <1>3, UnmovedLife

LEMMA MoveLife ==
  ASSUME TypeOK, Unrepeated', NEW t \in Once, Safe(t), Life(t),
         NEW w \in Workers, MoveDelayed(w)
  PROVE  Life(t)'
<1>1. t \in Tasks /\ None # t /\ Nothing.id = None
  BY ConstantsAssumption DEF Once, Nothing
<1>2. Reply(w, "dequeue", Nothing)
  BY DEF MoveDelayed
<1>3. SameHolders(t)
  BY <1>1, <1>2, ReplyEffect DEF SameHolders
<1> QED
  BY <1>1, <1>3, MoveEffect, UnmovedLife

LEMMA OrphanLife ==
  ASSUME TypeOK, Unrepeated', NEW t \in Once, Safe(t), Life(t),
         NEW w \in Workers, DequeueOrphan(w)
  PROVE  Life(t)'
<1>1. t \in Tasks
  BY DEF Once
<1>2. SameHolders(t)
  BY <1>1, ReplyDrops DEF DequeueOrphan
<1>3. CASE t # Head(immediate)
  BY <1>1, <1>2, <1>3, OrphanEffect, UnmovedLife
<1>4. CASE t = Head(immediate)
  <2>1. Waits(t) /\ acked' = acked
    BY <1>4, OrphanEffect
  <2>2. t \notin acked' /\ \A v \in Workers : held'[v].id # t
    BY <1>2, <2>1 DEF Life, Safe, Exclusive, SameHolders
  <2> QED
    BY <2>2, LeftLife
<1> QED
  BY <1>3, <1>4

LEMMA TakeLife ==
  ASSUME TypeOK, Unrepeated', NEW t \in Once, Safe(t), Life(t),
         NEW w \in Workers, DequeueTask(w)
  PROVE  Life(t)'
<1> DEFINE u == Head(immediate)
<1>1. t \in Tasks /\ None # t
  BY ConstantsAssumption DEF Once
<1>2. /\ Waits(u) /\ UNCHANGED <<attempts, acked>>
      /\ \A x \in Tasks \ {u} : Unmoved(x)
      /\ Reply(w, "mark", [id |-> u, retry |-> task[u].retry])
  BY TakeEffect
<1>3. /\ \A v \in Workers \ {w} : pc'[v] = pc[v] /\ held'[v] = held[v]
      /\ \/ pc'[w] = "mark" /\ held'[w].id = u
         \/ pc'[w] = "poll" /\ held'[w].id = None
  BY <1>2, ReplyEffect
<1>4. CASE t # u
  <2>1. SameHolders(t)
    BY <1>1, <1>3, <1>4 DEF SameHolders
  <2> QED
    BY <1>1, <1>2, <1>4, <2>1, UnmovedLife
<1>5. CASE t = u
  <2>1. t \notin acked' /\ \A v \in Workers : held[v].id # t
    BY <1>2, <1>5 DEF Life, Safe, Exclusive
  <2>2. \A v \in Workers : held'[v].id = t => pc'[v] = "mark"
    BY <1>1, <1>3, <2>1
  <2> QED
    BY <2>1, <2>2 DEF Life
<1> QED
  BY <1>4, <1>5

LEMMA MarkLife ==
  ASSUME TypeOK, Unrepeated', NEW t \in Once, Safe(t), Life(t),
         NEW w \in Workers, MarkProcessing(w)
  PROVE  Life(t)'
<1> DEFINE u == held[w].id
<1>1. t \in Tasks /\ None # t /\ attempts[t] \in Nat
  BY ConstantsAssumption DEF Once, TypeOK
<1>2. /\ UNCHANGED <<immediate, delayed, processing, dead, enqueued, acked>>
      /\ attempts'[u] = IF pc'[w] = "handle" THEN attempts[u] + 1
                                             ELSE attempts[u]
      /\ \A x \in Tasks \ {u} : Unmoved(x)
      /\ Reply(w, "handle", held[w])
  BY MarkEffect
<1>3. /\ \A v \in Workers \ {w} : pc'[v] = pc[v] /\ held'[v] = held[v]
      /\ \/ pc'[w] = "handle" /\ held'[w] = held[w]
         \/ pc'[w] = "poll" /\ held'[w].id = None
  BY <1>2, ReplyEffect
<1>4. CASE t # u
  <2>1. SameHolders(t)
    BY <1>1, <1>3, <1>4 DEF SameHolders
  <2> QED
    BY <1>1, <1>2, <1>4, <2>1, UnmovedLife
<1>5. CASE t = u
  <2>1. t \notin acked' /\ \A v \in Workers \ {w} : held[v].id # t
    BY <1>2, <1>5 DEF Life, Safe, Exclusive
  <2>2. \A v \in Workers : held'[v].id = t => v = w /\ pc'[v] = "handle"
    BY <1>1, <1>3, <2>1
  <2>3. ASSUME NEW v \in Workers, held'[v].id = t PROVE attempts'[t] > 0
    BY <1>1, <1>2, <1>5, <2>2, <2>3
  <2> QED
    BY <2>1, <2>3 DEF Life
<1> QED
  BY <1>4, <1>5

LEMMA HandlerLife ==
  ASSUME TypeOK, Unrepeated', NEW t \in Once, Safe(t), Life(t), NEW w \in Workers,
         HandlerSucceeds(w) \/ HandlerFails(w) \/ NackGet(w)
  PROVE  Life(t)'
<1>1. t \in Tasks /\ None # t
  BY ConstantsAssumption DEF Once
<1>2. Unmoved(t)
  BY <1>1, StillEffect
<1>3. \A v \in Workers : held'[v].id = t => held[v].id = t /\ (pc[v] = "mark" => pc'[v] = "mark")
  <2>1. CASE HandlerSucceeds(w) \/ HandlerFails(w)
    BY <2>1 DEF HandlerSucceeds, HandlerFails, TypeOK
  <2>2. CASE NackGet(w)
    <3>1. /\ \A v \in Workers \ {w} : pc'[v] = pc[v] /\ held'[v] = held[v]
          /\ held'[w].id \in {held[w].id, None}
      BY <2>2, ReplyEffect DEF NackGet
    <3> QED
      BY <1>1, <2>2, <3>1 DEF NackGet
  <2> QED
    BY <2>1, <2>2
<1> QED
  BY <1>2, <1>3 DEF Life, Unmoved

LEMMA SettleLife ==
  ASSUME TypeOK, Unrepeated', NEW t \in Once, Safe(t), Life(t),
         NEW w \in Workers, Ack(w) \/ NackRetry(w) \/ NackDead(w)
  PROVE  Life(t)'
<1>1. t \in Tasks
  BY DEF Once
<1>2. PICK u \in Tasks :
        /\ Settle(w, u)
        /\ \A x \in Tasks \ {u} : Unmoved(x)
        /\ \/ acked' = acked
           \/ acked' = acked \cup {u} /\ UNCHANGED <<immediate, delayed, dead>>
  BY AckEffect, NackRetryEffect, NackDeadEffect
<1>3. /\ SameHolders(t) /\ UNCHANGED <<immediate, enqueued>>
      /\ t = u => /\ processing[t] = 1 /\ held[w].id = t
                  /\ processing'[t] = processing[t] - 1
                  /\ \A v \in Workers : held'[v].id # t
  BY <1>2, SettleEffect
<1>4. CASE t # u
  BY <1>1, <1>2, <1>3, <1>4, UnmovedLife
<1>5. CASE t = u /\ acked' = acked
  <2>1. t \notin acked'
    BY <1>3, <1>5 DEF Life
  <2> QED
    BY <1>3, <1>5, <2>1, LeftLife
<1>6. CASE t = u /\ acked' = acked \cup {u} /\ UNCHANGED <<immediate, delayed, dead>>
  <2>1. ~Waits(t) /\ dead[t] = 0 /\ enqueued[t] # 0 /\ enqueued[t] \in Nat
    BY <1>1, <1>3, <1>6 DEF Safe, Exclusive, Fresh, TypeOK
  <2>2. ~Waits(t)' /\ dead'[t] = 0 /\ enqueued'[t] > 0 /\ processing'[t] = 0
    BY <1>3, <1>6, <2>1 DEF Waits
  <2> QED
    BY <1>3, <1>6, <2>2 DEF Life
<1> QED
  BY <1>2, <1>4, <1>5, <1>6

\* A command of Purge that empties a list.
LEMMA PurgeEffect ==
  ASSUME TypeOK, PurgeLists, NEW t \in Tasks
  PROVE  /\ UNCHANGED <<pc, held, task, enqueued, attempts, acked>>
         /\ Waits(t)' => Waits(t)
         /\ \/ Unmoved(t)
            \/ /\ immediate' = <<>> /\ t \in Range(immediate)
               /\ UNCHANGED <<delayed, processing, dead>>
            \/ /\ delayed' = [u \in Tasks |-> NotDelayed] /\ delayed[t] # NotDelayed
               /\ UNCHANGED <<immediate, processing, dead>>
            \/ /\ processing'[t] = 0 /\ processing[t] > 0
               /\ UNCHANGED <<immediate, delayed, dead>>
            \/ /\ dead'[t] = 0 /\ dead[t] > 0
               /\ UNCHANGED <<immediate, delayed, processing>>
<1> USE DEF lists, keys, client, history, PurgeGoes
<1>1. UNCHANGED <<pc, held, task, enqueued, attempts, acked>>
  BY DEF PurgeLists
<1>2. \A x : x \notin Range(<<>>)
  BY DEF Range
<1>3. CASE immediate' = <<>> /\ UNCHANGED <<delayed, processing, dead>>
  BY <1>1, <1>2, <1>3 DEF Unmoved, Waits
<1>4. CASE delayed' = [u \in Tasks |-> NotDelayed] /\ UNCHANGED <<immediate, processing, dead>>
  BY <1>1, <1>4 DEF Unmoved, Waits
<1>5. CASE processing' = [u \in Tasks |-> 0] /\ UNCHANGED <<immediate, delayed, dead>>
  <2>1. processing[t] \in Nat /\ processing'[t] = 0
    BY <1>5 DEF TypeOK
  <2> QED
    BY <1>1, <1>5, <2>1 DEF Unmoved, Waits
<1>6. CASE dead' = [u \in Tasks |-> 0] /\ UNCHANGED <<immediate, delayed, processing>>
  <2>1. dead[t] \in Nat /\ dead'[t] = 0
    BY <1>6 DEF TypeOK
  <2> QED
    BY <1>1, <1>6, <2>1 DEF Unmoved, Waits
<1>7. CASE UNCHANGED lists
  BY <1>1, <1>7 DEF Unmoved, Waits
<1> QED
  BY <1>3, <1>4, <1>5, <1>6, <1>7 DEF PurgeLists

LEMMA PurgeLife ==
  ASSUME TypeOK, NEW t \in Once, Safe(t), Life(t), PurgeLists
  PROVE  Life(t)'
<1>1. t \in Tasks
  BY DEF Once
<1>2. /\ UNCHANGED <<pc, held, enqueued, attempts, acked>> /\ (Waits(t)' => Waits(t))
      /\ processing'[t] \in {processing[t], 0} /\ dead'[t] \in {dead[t], 0}
  BY <1>1, PurgeEffect DEF Unmoved
<1> QED
  BY <1>2 DEF Life

LEMMA InitLife == Init => LifeInv
<1> SUFFICES ASSUME Init, NEW t \in Once PROVE Life(t)
  BY DEF LifeInv
<1>1. t \notin acked /\ \A w \in Workers : held[w].id # t
  BY ConstantsAssumption DEF Init, Nothing, Once
<1> QED
  BY <1>1 DEF Life

LEMMA NextLife == Unrepeated' /\ Inv /\ LifeInv /\ [Next]_vars => LifeInv'
<1> SUFFICES ASSUME Unrepeated', Inv, LifeInv, [Next]_vars, NEW t \in Once
             PROVE  Life(t)'
  BY DEF LifeInv, Once
<1>1. TypeOK /\ Safe(t) /\ Life(t)
  BY DEF Inv, Safe, LifeInv
<1>2. CASE \/ \E u \in Tasks : Enqueue(u)
           \/ \E u \in Tasks, d \in Delays : EnqueueWithDelay(u, d)
  BY <1>1, <1>2, SubmitLife
<1>3. ASSUME NEW w \in Workers, Worker(w) \/ Abandon(w) PROVE Life(t)'
  BY <1>1, <1>3, MoveLife, StillLife, OrphanLife, TakeLife, MarkLife,
     HandlerLife, SettleLife DEF Worker
<1>4. CASE \/ Tick \/ (\E u \in Tasks : ExpireTimeout(u))
           \/ PurgeStart \/ PurgeKeys \/ PurgeFails \/ UNCHANGED vars
  BY <1>1, <1>4, StillLife
<1>5. CASE PurgeLists
  BY <1>1, <1>5, PurgeLife
<1> QED
  BY <1>2, <1>3, <1>4, <1>5 DEF Next

-----------------------------------------------------------------------------
(* The refinement, step by step.                                           *)

\* A step of the life of the tasks that are enqueued once, or none at all.
LifeStep == [Lifecycle!LifecycleNext]_(Lifecycle!lifecycle)

\* Inv and Life, for one id: the cases of the refinement mapping exclude each
\* other.
Lives(t) == Safe(t) /\ Life(t)

LivesOn(t) == Lives(t) /\ Lives(t)'

\* What the refinement mapping says of an id, before and after a step.
LEMMA StateValues ==
  ASSUME NEW t \in Once, Lives(t)
  PROVE  /\ enqueued[t] = 0 => StateOf(t) = "new"
         /\ t \in acked => StateOf(t) = "done"
         /\ Waits(t) => StateOf(t) = "queued"
         /\ processing[t] > 0 => StateOf(t) = "running"
         /\ dead[t] > 0 => StateOf(t) = "dead"
         /\ \/ enqueued[t] = 0 \/ t \in acked \/ Waits(t)
            \/ processing[t] > 0 \/ dead[t] > 0 \/ StateOf(t) = "purged"
<1> DEFINE new == enqueued[t] = 0
           runs == processing[t] > 0
           buried == dead[t] > 0
<1>1. /\ ~ (new /\ t \in acked) /\ ~ (new /\ Waits(t)) /\ ~ (new /\ runs)
      /\ ~ (new /\ buried) /\ ~ (t \in acked /\ Waits(t)) /\ ~ (t \in acked /\ runs)
      /\ ~ (t \in acked /\ buried) /\ ~ (Waits(t) /\ runs)
      /\ ~ (Waits(t) /\ buried) /\ ~ (runs /\ buried)
  BY DEF Lives, Safe, Exclusive, Fresh, Life
<1>2. StateOf(t) = CASE new -> "new" [] t \in acked -> "done" [] Waits(t) -> "queued"
                     [] runs -> "running" [] buried -> "dead" [] OTHER -> "purged"
  BY DEF StateOf
<1> HIDE DEF new, runs, buried
<1>3. /\ new => StateOf(t) = "new"
      /\ t \in acked => StateOf(t) = "done"
      /\ Waits(t) => StateOf(t) = "queued"
      /\ runs => StateOf(t) = "running"
      /\ buried => StateOf(t) = "dead"
      /\ new \/ t \in acked \/ Waits(t) \/ runs \/ buried \/ StateOf(t) = "purged"
  BY <1>1, <1>2
<1> QED
  BY <1>3 DEF new, runs, buried

LEMMA NextStateValues ==
  ASSUME NEW t \in Once, Lives(t)'
  PROVE  /\ enqueued'[t] = 0 => StateOf(t)' = "new"
         /\ t \in acked' => StateOf(t)' = "done"
         /\ Waits(t)' => StateOf(t)' = "queued"
         /\ processing'[t] > 0 => StateOf(t)' = "running"
         /\ dead'[t] > 0 => StateOf(t)' = "dead"
         /\ \/ enqueued'[t] = 0 \/ t \in acked' \/ Waits(t)'
            \/ processing'[t] > 0 \/ dead'[t] > 0 \/ StateOf(t)' = "purged"
<1> DEFINE new == enqueued'[t] = 0
           runs == processing'[t] > 0
           buried == dead'[t] > 0
<1>1. /\ ~ (new /\ t \in acked') /\ ~ (new /\ Waits(t)') /\ ~ (new /\ runs)
      /\ ~ (new /\ buried) /\ ~ (t \in acked' /\ Waits(t)') /\ ~ (t \in acked' /\ runs)
      /\ ~ (t \in acked' /\ buried) /\ ~ (Waits(t)' /\ runs)
      /\ ~ (Waits(t)' /\ buried) /\ ~ (runs /\ buried)
  BY DEF Lives, Safe, Exclusive, Fresh, Life
<1>2. StateOf(t)' = CASE new -> "new" [] t \in acked' -> "done" [] Waits(t)' -> "queued"
                     [] runs -> "running" [] buried -> "dead" [] OTHER -> "purged"
  BY DEF StateOf
<1> HIDE DEF new, runs, buried
<1>3. /\ new => StateOf(t)' = "new"
      /\ t \in acked' => StateOf(t)' = "done"
      /\ Waits(t)' => StateOf(t)' = "queued"
      /\ runs => StateOf(t)' = "running"
      /\ buried => StateOf(t)' = "dead"
      /\ new \/ t \in acked' \/ Waits(t)' \/ runs \/ buried \/ StateOf(t)' = "purged"
  BY <1>1, <1>2
<1> QED
  BY <1>3 DEF new, runs, buried

\* An id that stays where it is keeps its state.
LEMMA UnmovedState ==
  ASSUME NEW t \in Once, LivesOn(t), Unmoved(t)
  PROVE  StateOf(t)' = StateOf(t) /\ attempts'[t] = attempts[t]
<1>1. /\ (enqueued'[t] = 0) <=> (enqueued[t] = 0)
      /\ (processing'[t] > 0) <=> (processing[t] > 0)
      /\ (dead'[t] > 0) <=> (dead[t] > 0)
  BY DEF Unmoved
<1> QED
  BY <1>1, StateValues, NextStateValues DEF Unmoved, LivesOn

LEMMA NothingMoves ==
  ASSUME \A t \in Once : LivesOn(t) /\ Unmoved(t)
  PROVE  LifeStep
<1>1. \A t \in Once : StateOf(t)' = StateOf(t) /\ attempts'[t] = attempts[t]
  BY UnmovedState
<1>2. Once' = Once
  BY DEF Once
<1>3. [t \in Once |-> StateOf(t)]' = [t \in Once |-> StateOf(t)]
  BY <1>1, <1>2
<1>4. [t \in Once |-> attempts[t]]' = [t \in Once |-> attempts[t]]
  BY <1>1, <1>2
<1> QED
  BY <1>3, <1>4 DEF LifeStep, Lifecycle!lifecycle

\* One task goes on in its life.
LEMMA OneMoves ==
  ASSUME NEW t \in Once, \A u \in Once \ {t} : LivesOn(u) /\ Unmoved(u),
         attempts'[t] = attempts[t],
         \/ StateOf(t) = "new" /\ StateOf(t)' = "queued"
         \/ StateOf(t) = "queued" /\ StateOf(t)' \in {"running", "purged"}
         \/ /\ StateOf(t) = "running"
            /\ \/ attempts[t] > 0 /\ StateOf(t)' = "done"
               \/ attempts[t] \in 1..MaxRetries /\ StateOf(t)' = "queued"
               \/ attempts[t] = MaxRetries + 1 /\ StateOf(t)' = "dead"
  PROVE  LifeStep
<1> DEFINE state == [u \in Once |-> StateOf(u)]
           tries == [u \in Once |-> attempts[u]]
<1>1. \A u \in Once \ {t} : StateOf(u)' = StateOf(u) /\ attempts'[u] = attempts[u]
  BY UnmovedState
<1>2. Once' = Once
  BY DEF Once
<1>3. tries' = tries /\ tries[t] = attempts[t] /\ state[t] = StateOf(t)
  BY <1>1, <1>2
<1>4. state' = [state EXCEPT ![t] = StateOf(t)']
  BY <1>1, <1>2
<1>5. CASE StateOf(t) = "new" /\ StateOf(t)' = "queued"
  <2>1. Lifecycle!Submit(t)
    BY <1>3, <1>4, <1>5 DEF Lifecycle!Submit, Lifecycle!Move
  <2> QED
    BY <2>1 DEF LifeStep, Lifecycle!LifecycleNext
<1>6. CASE StateOf(t) = "queued" /\ StateOf(t)' = "running"
  <2>1. Lifecycle!Take(t)
    BY <1>3, <1>4, <1>6 DEF Lifecycle!Take, Lifecycle!Move
  <2> QED
    BY <2>1 DEF LifeStep, Lifecycle!LifecycleNext
<1>7. CASE StateOf(t) = "queued" /\ StateOf(t)' = "purged"
  <2>1. state' = [u \in Once |-> IF u \in {t} THEN "purged" ELSE state[u]]
    BY <1>1, <1>2, <1>7
  <2>2. Lifecycle!Purge({t})
    BY <1>3, <1>7, <2>1 DEF Lifecycle!Purge
  <2> QED
    BY <2>2 DEF LifeStep, Lifecycle!LifecycleNext
<1>8. CASE StateOf(t) = "running" /\ attempts[t] > 0 /\ StateOf(t)' = "done"
  <2>1. Lifecycle!Complete(t)
    BY <1>3, <1>4, <1>8 DEF Lifecycle!Complete, Lifecycle!Move
  <2> QED
    BY <2>1 DEF LifeStep, Lifecycle!LifecycleNext
<1>9. CASE StateOf(t) = "running" /\ attempts[t] \in 1..MaxRetries /\ StateOf(t)' = "queued"
  <2>1. Lifecycle!Retry(t)
    BY <1>3, <1>4, <1>9 DEF Lifecycle!Retry, Lifecycle!Move
  <2> QED
    BY <2>1 DEF LifeStep, Lifecycle!LifecycleNext
<1>10. CASE StateOf(t) = "running" /\ attempts[t] = MaxRetries + 1 /\ StateOf(t)' = "dead"
  <2>1. Lifecycle!Bury(t)
    BY <1>3, <1>4, <1>10 DEF Lifecycle!Bury, Lifecycle!Move
  <2> QED
    BY <2>1 DEF LifeStep, Lifecycle!LifecycleNext
<1> QED
  BY <1>5, <1>6, <1>7, <1>8, <1>9, <1>10

\* The handler is called for one task.
LEMMA OneTries ==
  ASSUME NEW t \in Once, \A u \in Once \ {t} : LivesOn(u) /\ Unmoved(u),
         attempts'[t] = attempts[t] + 1, attempts[t] <= MaxRetries,
         StateOf(t) \in {"running", "purged"}, StateOf(t)' = StateOf(t)
  PROVE  LifeStep
<1> DEFINE state == [u \in Once |-> StateOf(u)]
           tries == [u \in Once |-> attempts[u]]
<1>1. \A u \in Once \ {t} : StateOf(u)' = StateOf(u) /\ attempts'[u] = attempts[u]
  BY UnmovedState
<1>2. Once' = Once
  BY DEF Once
<1>3. state' = state /\ tries[t] = attempts[t] /\ state[t] = StateOf(t)
  BY <1>1, <1>2
<1>4. tries' = [tries EXCEPT ![t] = @ + 1]
  BY <1>1, <1>2
<1>5. Lifecycle!Try(t)
  BY <1>3, <1>4 DEF Lifecycle!Try
<1> QED
  BY <1>5 DEF LifeStep, Lifecycle!LifecycleNext

\* Some tasks are thrown away together.
LEMMA SomePurged ==
  ASSUME \A t \in Once :
           \/ LivesOn(t) /\ Unmoved(t)
           \/ /\ StateOf(t) \in {"queued", "running", "dead"}
              /\ StateOf(t)' = "purged" /\ attempts'[t] = attempts[t]
  PROVE  LifeStep
<1> DEFINE state == [u \in Once |-> StateOf(u)]
           tries == [u \in Once |-> attempts[u]]
           S == {t \in Once : ~ (LivesOn(t) /\ Unmoved(t))}
<1>1. \A u \in Once : u \notin S => StateOf(u)' = StateOf(u)
  BY UnmovedState
<1>2. \A u \in Once : attempts'[u] = attempts[u]
  BY UnmovedState
<1>3. Once' = Once
  BY DEF Once
<1>4. \A t \in S : state[t] \in {"queued", "running", "dead"} /\ StateOf(t)' = "purged"
  OBVIOUS
<1>5. state' = [u \in Once |-> IF u \in S THEN "purged" ELSE state[u]]
  <2> HIDE DEF S
  <2> QED
    BY <1>1, <1>3, <1>4
<1>6. tries' = tries
  BY <1>2, <1>3
<1>7. S \in SUBSET Once
  OBVIOUS
<1>8. Lifecycle!Purge(S)
  <2> HIDE DEF S
  <2> QED
    BY <1>4, <1>5, <1>6, <1>7 DEF Lifecycle!Purge
<1> QED
  BY <1>7, <1>8 DEF LifeStep, Lifecycle!LifecycleNext

\* What every lemma on a step below starts from.
Sound == TypeOK /\ \A t \in Once : LivesOn(t)

LEMMA SubmitStep ==
  ASSUME Sound, NEW u \in Tasks,
         Enqueue(u) \/ (\E d \in Delays : EnqueueWithDelay(u, d))
  PROVE  LifeStep
<1>1. /\ UNCHANGED attempts /\ Waits(u)'
      /\ \A t \in Tasks \ {u} : Unmoved(t)
      /\ enqueued[u] < MaxEnqueues[u]
  BY SubmitEffect DEF Sound
<1>2. \A t \in Once \ {u} : LivesOn(t) /\ Unmoved(t)
  BY <1>1 DEF Sound, Once
<1>3. CASE u \in Once
  <2>1. enqueued[u] = 0
    BY <1>1, <1>3, ConstantsAssumption DEF Once, Sound, TypeOK
  <2>2. StateOf(u) = "new" /\ StateOf(u)' = "queued"
    BY <1>1, <1>3, <2>1, StateValues, NextStateValues DEF Sound, LivesOn
  <2> QED
    BY <1>1, <1>2, <1>3, <2>2, OneMoves
<1>4. CASE u \notin Once
  BY <1>2, <1>4, NothingMoves DEF Sound
<1> QED
  BY <1>3, <1>4

LEMMA StillStep ==
  ASSUME Sound,
         \/ \E w \in Workers :
              \/ MoveDelayed(w)
              \/ DequeueEmpty(w) \/ NotProcessing(w) \/ NackGetMissing(w)
              \/ NackGet(w) \/ HandlerSucceeds(w) \/ HandlerFails(w)
              \/ Abandon(w)
         \/ Tick \/ (\E u \in Tasks : ExpireTimeout(u))
         \/ PurgeStart \/ PurgeKeys \/ PurgeFails \/ UNCHANGED vars
  PROVE  LifeStep
<1>1. ASSUME NEW t \in Once PROVE LivesOn(t) /\ Unmoved(t)
  <2>1. t \in Tasks
    BY DEF Once
  <2> QED
    BY <2>1, MoveEffect, StillEffect DEF Sound
<1> QED
  BY <1>1, NothingMoves

LEMMA DequeueStep ==
  ASSUME Sound, NEW w \in Workers, DequeueOrphan(w) \/ DequeueTask(w)
  PROVE  LifeStep
<1> PICK u \in Tasks : u = Head(immediate)
  BY OrphanEffect, TakeEffect DEF Sound
<1>1. /\ UNCHANGED <<enqueued, attempts, acked, dead>> /\ Waits(u)
      /\ \A t \in Tasks \ {u} : Unmoved(t)
  BY OrphanEffect, TakeEffect DEF Sound
<1>2. \A t \in Once \ {u} : LivesOn(t) /\ Unmoved(t)
  BY <1>1 DEF Sound, Once
<1>3. CASE u \in Once
  <2>1. /\ StateOf(u) = "queued"
        /\ u \in Tasks /\ enqueued[u] # 0 /\ u \notin acked
        /\ processing[u] = 0 /\ dead[u] = 0
    BY <1>1, <1>3, StateValues
    DEF Sound, LivesOn, Lives, Safe, Exclusive, Fresh, Life, Once
  <2>2. ~Waits(u)'
    <3>1. immediate \in Seq(Tasks) /\ immediate # <<>> /\ OccursOnce(immediate, u)
          /\ immediate' = Tail(immediate) /\ delayed' = delayed
      BY <1>3 DEF DequeueOrphan, DequeueTask, RPopLPush, Sound, TypeOK, LivesOn,
                  Lives, Safe, Exclusive
    <3>2. u \notin Range(Tail(immediate)) /\ u \in Range(immediate)
      BY <2>1, <3>1, TailId
    <3>3. delayed[u] = NotDelayed
      BY <1>3, <3>2 DEF Sound, LivesOn, Lives, Safe, Exclusive
    <3> QED
      BY <3>1, <3>2, <3>3 DEF Waits
  <2>3. StateOf(u)' \in {"running", "purged"}
    <3>1. CASE processing'[u] > 0
      BY <1>3, <3>1, NextStateValues DEF Sound, LivesOn
    <3>2. CASE ~ (processing'[u] > 0)
      BY <1>1, <1>3, <2>1, <2>2, <3>2, NextStateValues DEF Sound, LivesOn
    <3> QED
      BY <3>1, <3>2
  <2> QED
    BY <1>1, <1>2, <1>3, <2>1, <2>3, OneMoves
<1>4. CASE u \notin Once
  BY <1>2, <1>4, NothingMoves DEF Sound
<1> QED
  BY <1>3, <1>4

LEMMA MarkStep ==
  ASSUME Sound, NEW w \in Workers, MarkProcessing(w)
  PROVE  LifeStep
<1> PICK u \in Tasks : u = held[w].id
  BY MarkEffect DEF Sound
<1>1. /\ UNCHANGED <<immediate, delayed, processing, dead, enqueued, acked>>
      /\ attempts'[u] = IF pc'[w] = "handle" THEN attempts[u] + 1
                                             ELSE attempts[u]
      /\ \A t \in Tasks \ {u} : Unmoved(t)
  BY MarkEffect DEF Sound
<1>2. \A t \in Once \ {u} : LivesOn(t) /\ Unmoved(t)
  BY <1>1 DEF Sound, Once
<1>3. CASE u \in Once /\ pc'[w] = "handle"
  <2>1. /\ attempts[u] <= MaxRetries
        /\ ~Waits(u) /\ dead[u] = 0 /\ enqueued[u] # 0 /\ u \notin acked
        /\ attempts'[u] = attempts[u] + 1
    BY <1>1, <1>3
    DEF MarkProcessing, Sound, LivesOn, Lives, Safe, Exclusive, Fresh, Life,
        Counted, HolderCounts
  <2>2. StateOf(u) \in {"running", "purged"}
    BY <1>3, <2>1, StateValues DEF Sound, LivesOn
  <2>3. ~Waits(u)'
    BY <1>1, <2>1 DEF Waits
  <2>4. (processing'[u] > 0 <=> processing[u] > 0) /\ ~(dead[u] > 0) /\ ~(dead'[u] > 0)
        /\ enqueued'[u] # 0 /\ u \notin acked'
    BY <1>1, <2>1
  <2>5. StateOf(u)' = StateOf(u)
    BY <1>3, <2>1, <2>3, <2>4, StateValues, NextStateValues DEF Sound, LivesOn
  <2> QED
    BY <1>2, <1>3, <2>1, <2>2, <2>5, OneTries
<1>4. CASE ~ (u \in Once /\ pc'[w] = "handle")
  <2>1. ASSUME NEW t \in Once PROVE LivesOn(t) /\ Unmoved(t)
    <3>1. CASE t # u
      BY <1>2, <3>1
    <3>2. CASE t = u
      <4>1. attempts'[t] = attempts[t]
        BY <1>1, <1>4, <3>2
      <4> QED
        BY <1>1, <4>1 DEF Unmoved, Waits, Sound
    <3> QED
      BY <3>1, <3>2
  <2> QED
    BY <2>1, NothingMoves
<1> QED
  BY <1>3, <1>4

LEMMA SettleStep ==
  ASSUME Sound, NEW w \in Workers, Ack(w) \/ NackRetry(w) \/ NackDead(w)
  PROVE  LifeStep
<1>1. \E u \in Tasks :
        /\ Settle(w, u)
        /\ \A t \in Tasks \ {u} : Unmoved(t)
        /\ \/ pc[w] = "ack" /\ u \in acked'
           \/ pc[w] = "nackRetry" /\ Waits(u)'
           \/ pc[w] = "nackDead" /\ dead'[u] = dead[u] + 1
  <2>1. CASE Ack(w)
    <3>1. PICK u \in Tasks : /\ Settle(w, u) /\ acked' = acked \cup {u}
                             /\ \A t \in Tasks \ {u} : Unmoved(t)
      BY <2>1, AckEffect DEF Sound
    <3>2. pc[w] = "ack" /\ u \in acked'
      BY <2>1, <3>1 DEF Ack
    <3> QED
      BY <3>1, <3>2
  <2>2. CASE NackRetry(w)
    <3>1. PICK u \in Tasks : /\ Settle(w, u) /\ Waits(u)'
                             /\ \A t \in Tasks \ {u} : Unmoved(t)
      BY <2>2, NackRetryEffect DEF Sound
    <3>2. pc[w] = "nackRetry"
      BY <2>2 DEF NackRetry
    <3> QED
      BY <3>1, <3>2
  <2>3. CASE NackDead(w)
    <3>1. PICK u \in Tasks : /\ Settle(w, u) /\ dead'[u] = dead[u] + 1
                             /\ \A t \in Tasks \ {u} : Unmoved(t)
      BY <2>3, NackDeadEffect DEF Sound
    <3>2. pc[w] = "nackDead"
      BY <2>3 DEF NackDead
    <3> QED
      BY <3>1, <3>2
  <2> QED
    BY <2>1, <2>2, <2>3
<1> PICK u \in Tasks :
      /\ Settle(w, u)
      /\ \A t \in Tasks \ {u} : Unmoved(t)
      /\ \/ pc[w] = "ack" /\ u \in acked'
         \/ pc[w] = "nackRetry" /\ Waits(u)'
         \/ pc[w] = "nackDead" /\ dead'[u] = dead[u] + 1
  BY <1>1
<1>2. \A t \in Once \ {u} : LivesOn(t) /\ Unmoved(t)
  BY DEF Sound, Once
<1>3. u = held[w].id /\ processing[u] > 0 /\ UNCHANGED attempts
  BY SettledEffect DEF Sound
<1>4. CASE u \in Once
  <2>1. Lives(u) /\ Lives(u)' /\ attempts[u] \in Nat /\ MaxRetries \in Nat
        /\ dead[u] \in Nat
    BY <1>4, ConstantsAssumption DEF Sound, LivesOn, TypeOK
  <2>2. StateOf(u) = "running"
    BY <1>3, <1>4, <2>1, StateValues
  <2>3. attempts[u] > 0
    BY <1>3, <2>1 DEF Lives, Life
  <2>4. HolderCounts(w, u)
    BY <1>3, <2>1 DEF Lives, Safe, Counted
  <2>5. CASE pc[w] = "ack" /\ u \in acked'
    <3>1. StateOf(u)' = "done"
      BY <1>4, <2>1, <2>5, NextStateValues
    <3> QED
      BY <1>2, <1>3, <1>4, <2>2, <2>3, <3>1, OneMoves
  <2>6. CASE pc[w] = "nackRetry" /\ Waits(u)'
    <3>1. StateOf(u)' = "queued"
      BY <1>4, <2>1, <2>6, NextStateValues
    <3>2. attempts[u] \in 1..MaxRetries
      BY <2>1, <2>3, <2>4, <2>6 DEF HolderCounts
    <3> QED
      BY <1>2, <1>3, <1>4, <2>2, <3>1, <3>2, OneMoves
  <2>7. CASE pc[w] = "nackDead" /\ dead'[u] = dead[u] + 1
    <3>1. StateOf(u)' = "dead"
      BY <1>4, <2>1, <2>7, NextStateValues
    <3>2. attempts[u] = MaxRetries + 1
      BY <2>4, <2>7 DEF HolderCounts
    <3> QED
      BY <1>2, <1>3, <1>4, <2>2, <3>1, <3>2, OneMoves
  <2> QED
    BY <2>5, <2>6, <2>7
<1>5. CASE u \notin Once
  BY <1>2, <1>5, NothingMoves DEF Sound
<1> QED
  BY <1>4, <1>5

LEMMA PurgeStep ==
  ASSUME Sound, PurgeLists
  PROVE  LifeStep
<1> SUFFICES ASSUME NEW t \in Once, ~Unmoved(t)
             PROVE  /\ StateOf(t) \in {"queued", "running", "dead"}
                    /\ StateOf(t)' = "purged" /\ attempts'[t] = attempts[t]
  BY SomePurged DEF Sound
<1>1. TypeOK /\ t \in Tasks /\ Lives(t) /\ Lives(t)'
  BY DEF Sound, LivesOn, Once
<1>2. /\ UNCHANGED <<enqueued, attempts, acked>>
      /\ \/ /\ immediate' = <<>> /\ t \in Range(immediate)
            /\ UNCHANGED <<delayed, processing, dead>>
         \/ /\ delayed' = [u \in Tasks |-> NotDelayed] /\ delayed[t] # NotDelayed
            /\ UNCHANGED <<immediate, processing, dead>>
         \/ /\ processing'[t] = 0 /\ processing[t] > 0
            /\ UNCHANGED <<immediate, delayed, dead>>
         \/ /\ dead'[t] = 0 /\ dead[t] > 0
            /\ UNCHANGED <<immediate, delayed, processing>>
  BY <1>1, PurgeEffect
<1>3. StateOf(t) \in {"queued", "running", "dead"}
  BY <1>1, <1>2, StateValues DEF Waits
<1>4. Waits(t) \/ processing[t] > 0 \/ dead[t] > 0
  BY <1>2 DEF Waits
<1>5. enqueued'[t] # 0 /\ t \notin acked'
  BY <1>1, <1>2, <1>4 DEF Lives, Safe, Fresh, Life
<1>6. ~Waits(t)' /\ ~ (processing'[t] > 0) /\ ~ (dead'[t] > 0)
  <2>1. t \notin Range(<<>>)
    BY DEF Range
  <2>2. CASE immediate' = <<>> /\ t \in Range(immediate)
             /\ UNCHANGED <<delayed, processing, dead>>
    BY <1>1, <2>1, <2>2 DEF Lives, Safe, Exclusive, Waits
  <2>3. CASE delayed' = [u \in Tasks |-> NotDelayed] /\ delayed[t] # NotDelayed
             /\ UNCHANGED <<immediate, processing, dead>>
    BY <1>1, <2>3 DEF Lives, Safe, Exclusive, Waits
  <2>4. CASE processing'[t] = 0 /\ processing[t] > 0
             /\ UNCHANGED <<immediate, delayed, dead>>
    BY <1>1, <2>4 DEF Lives, Safe, Exclusive, Waits
  <2>5. CASE dead'[t] = 0 /\ dead[t] > 0
             /\ UNCHANGED <<immediate, delayed, processing>>
    BY <1>1, <2>5 DEF Lives, Safe, Exclusive, Waits
  <2> QED
    BY <1>2, <2>2, <2>3, <2>4, <2>5
<1>7. StateOf(t)' = "purged"
  BY <1>1, <1>5, <1>6, NextStateValues
<1> QED
  BY <1>2, <1>3, <1>7

LEMMA LifeInit == Init => Lifecycle!LifecycleInit
<1> SUFFICES ASSUME Init PROVE Lifecycle!LifecycleInit
  OBVIOUS
<1>1. ASSUME NEW t \in Once PROVE StateOf(t) = "new" /\ attempts[t] = 0
  <2>1. Lives(t)
    BY InitInv, InitLife DEF Inv, LifeInv, Lives, Safe
  <2>2. enqueued[t] = 0 /\ attempts[t] = 0
    BY DEF Init, Once
  <2> QED
    BY <2>1, <2>2, StateValues
<1> QED
  BY <1>1 DEF Lifecycle!LifecycleInit

LEMMA LifeNext ==
  Unrepeated' /\ Inv /\ LifeInv /\ [Next]_vars
    => [Lifecycle!LifecycleNext]_(Lifecycle!lifecycle)
<1> SUFFICES ASSUME Unrepeated', Inv, LifeInv, [Next]_vars
             PROVE  LifeStep
  BY DEF LifeStep
<1>1. Inv' /\ LifeInv'
  BY NextInv, NextLife
<1>2. Sound
  <2>1. ASSUME NEW t \in Once PROVE Lives(t) /\ Lives(t)'
    <3>1. Once' = Once
      BY DEF Once
    <3> QED
      BY <1>1, <3>1 DEF Inv, LifeInv, Lives, Safe
  <2> QED
    BY <2>1 DEF Sound, LivesOn, Inv
<1>3. CASE \/ \E u \in Tasks : Enqueue(u)
           \/ \E u \in Tasks, d \in Delays : EnqueueWithDelay(u, d)
  BY <1>2, <1>3, SubmitStep
<1>4. ASSUME NEW w \in Workers, Worker(w) \/ Abandon(w) PROVE LifeStep
  BY <1>2, <1>4, StillStep, DequeueStep, MarkStep, SettleStep DEF Worker
<1>5. CASE \/ Tick \/ (\E u \in Tasks : ExpireTimeout(u))
           \/ PurgeStart \/ PurgeKeys \/ PurgeFails \/ UNCHANGED vars
  BY <1>2, <1>5, StillStep
<1>6. CASE PurgeLists
  BY <1>2, <1>6, PurgeStep
<1> QED
  BY <1>3, <1>4, <1>5, <1>6 DEF Next

(* As long as no command was executed twice, Life holds in every reachable *)
(* state: an acknowledged task is in no list and with no worker.           *)
LEMMA LifeAlways == Spec => [](Unrepeated => Inv /\ LifeInv)
<1>1. Init => (Unrepeated => Inv /\ LifeInv)
  BY InitInv, InitLife
<1>2. TypeOK /\ (Unrepeated => Inv /\ LifeInv) /\ [Next]_vars
        => (Unrepeated => Inv /\ LifeInv)'
  BY NextInv, NextLife, UnrepeatedBefore
<1> QED
  BY TypeCorrect, <1>1, <1>2, PTL DEF Spec

(* With a client that does not resend, every behaviour of the queue with   *)
(* its workers, faults and purges is one that TaskLifecycle allows for the *)
(* ids that are enqueued once.                                             *)
THEOREM LifecycleImplemented ==
  ASSUME ~Resends
  PROVE  Spec => ImplementsLifecycle
<1>1. Unrepeated /\ Unrepeated'
  BY DEF Unrepeated
<1>2. (Unrepeated => Inv /\ LifeInv) /\ [Next]_vars
        => [Lifecycle!LifecycleNext]_(Lifecycle!lifecycle)
  BY <1>1, LifeNext
<1> QED
  BY LifeAlways, LifeInit, <1>2, PTL
  DEF Spec, ImplementsLifecycle, Lifecycle!LifecycleSpec
=============================================================================
