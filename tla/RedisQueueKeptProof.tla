------------------------ MODULE RedisQueueKeptProof -------------------------
(* Nothing gets lost and nothing is doubled: the proofs that an id is in   *)
(* one place, whatever the client does, and that until Purge is called the *)
(* id, its data, its retry count and its entry in PROCESSING stay together *)
(* as long as no command was executed twice; for any tasks, workers and    *)
(* bounds.                                                                 *)
EXTENDS RedisQueueLifecycleProof

-----------------------------------------------------------------------------
(* One place for each id, also with a client that resends: every script    *)
(* that puts the id into a list takes it out of another one.               *)

\* The id is in some list.
Listed(t) == Waits(t) \/ processing[t] > 0 \/ dead[t] > 0

\* The two lists a worker takes ids from share none.
Apart(t) ==
  /\ OccursOnce(immediate, t)
  /\ t \in Range(immediate) => delayed[t] = NotDelayed

Placed(t) ==
  /\ Apart(t)
  /\ Waits(t) => processing[t] = 0 /\ dead[t] = 0
  /\ processing[t] <= 1 /\ dead[t] <= 1
  /\ processing[t] > 0 => dead[t] = 0
  /\ enqueued[t] <= 1
  /\ enqueued[t] = 0 => t \notin acked
  /\ enqueued[t] = 0 \/ t \in acked => ~Listed(t)

\* An id that is not acknowledged stays in a list, with its data.
Lossless(t) ==
  /\ enqueued[t] > 0 /\ t \notin acked => Listed(t)
  /\ Listed(t) => task[t] # Absent

PlacedInv == \A t \in Once : Placed(t)

LosslessInv == purges = 0 => purger = "idle" /\ \A t \in Once : Lossless(t)

\* A step that changes neither list keeps them apart.
LEMMA SameListsApart ==
  ASSUME NEW t \in Once, Apart(t), UNCHANGED <<immediate, delayed>>
  PROVE  Apart(t)'
  BY DEF Apart, OccursOnce, Range

LEMMA EnqueueApart ==
  ASSUME TypeOK, NEW t \in Once, Placed(t), NEW u \in Tasks,
         Enqueue(u) \/ (\E d \in Delays : EnqueueWithDelay(u, d))
  PROVE  Apart(t)'
<1>1. t \in Tasks /\ delayed \in [Tasks -> Nat \cup {NotDelayed}]
  BY DEF Once, TypeOK
<1>2. t = u => t \notin Range(immediate) /\ delayed[t] = NotDelayed
  <2>1. CASE t = u
    <3>1. enqueued[u] < MaxEnqueues[u]
      BY SubmitEffect
    <3>2. enqueued[t] = 0
      BY <2>1, <3>1, ConstantsAssumption DEF Once, TypeOK
    <3> QED
      BY <3>2 DEF Placed, Listed, Waits
  <2> QED
    BY <2>1
<1>3. CASE Enqueue(u)
  <2>1. immediate' = Append(immediate, u) /\ delayed' = delayed
        /\ immediate \in Seq(Tasks)
    BY <1>3 DEF Enqueue, TypeOK
  <2>2. /\ OccursOnce(immediate', t)
        /\ t \in Range(immediate') <=> t \in Range(immediate) \/ t = u
    BY <1>1, <1>2, <2>1, AppendId DEF Placed, Apart
  <2> QED
    BY <1>2, <2>1, <2>2 DEF Placed, Apart
<1>4. CASE \E d \in Delays : EnqueueWithDelay(u, d)
  <2>1. PICK d \in Delays : EnqueueWithDelay(u, d)
    BY <1>4
  <2>2. immediate' = immediate /\ delayed' = [delayed EXCEPT ![u] = d]
    BY <2>1 DEF EnqueueWithDelay
  <2>3. t # u => delayed'[t] = delayed[t]
    BY <1>1, <2>2
  <2> QED
    BY <1>2, <2>2, <2>3 DEF Placed, Apart
<1> QED
  BY <1>3, <1>4

LEMMA MoveApart ==
  ASSUME TypeOK, NEW t \in Once, Apart(t), NEW w \in Workers, MoveDelayed(w)
  PROVE  Apart(t)'
<1>0. t \in Tasks /\ immediate \in Seq(Tasks)
  BY DEF Once, TypeOK
<1>1. PICK batch \in SUBSET Due :
        /\ \E order \in SetToSeqs(batch) : immediate' = immediate \o order
        /\ delayed' = [x \in Tasks |->
                         IF x \in batch THEN NotDelayed ELSE delayed[x]]
  BY DEF MoveDelayed
<1>2. PICK order \in SetToSeqs(batch) : immediate' = immediate \o order
  BY <1>1
<1>3. batch \in SUBSET Tasks /\ (t \in batch => t \notin Range(immediate))
  BY DEF Due, Apart, NotDelayed
<1>4. /\ t \in Range(immediate') => t \in Range(immediate) \/ t \in batch
      /\ OccursOnce(immediate', t)
  BY <1>0, <1>2, <1>3, MoveId DEF Apart
<1>5. delayed'[t] = IF t \in batch THEN NotDelayed ELSE delayed[t]
  BY <1>0, <1>1
<1> QED
  BY <1>4, <1>5 DEF Apart

\* RPOPLPUSH takes the only entry of the id.
LEMMA PopApart ==
  ASSUME TypeOK, NEW t \in Once, Apart(t),
         NEW w \in Workers, DequeueOrphan(w) \/ DequeueTask(w)
  PROVE  /\ Apart(t)'
         /\ t = Head(immediate) => ~Waits(t)'
<1>1. /\ t \in Tasks /\ immediate \in Seq(Tasks) /\ immediate # <<>>
      /\ immediate' = Tail(immediate) /\ delayed' = delayed
  BY DEF Once, TypeOK, DequeueOrphan, DequeueTask, RPopLPush
<1>2. /\ t \in Range(immediate') => t \in Range(immediate) /\ Head(immediate) # t
      /\ Head(immediate) \in Range(immediate) /\ OccursOnce(immediate', t)
  BY <1>1, TailId DEF Apart
<1> QED
  BY <1>1, <1>2 DEF Apart, Waits

LEMMA SettleApart ==
  ASSUME TypeOK, NEW t \in Once, Placed(t),
         NEW w \in Workers, Ack(w) \/ NackRetry(w) \/ NackDead(w)
  PROVE  Apart(t)'
<1>1. CASE Ack(w) \/ NackDead(w)
  <2>1. UNCHANGED <<immediate, delayed>>
    BY <1>1 DEF Ack, NackDead, Settle
  <2> QED
    BY <2>1, SameListsApart DEF Placed
<1>2. CASE NackRetry(w)
  <2>1. PICK u \in Tasks, d \in RetryDelays :
          Settle(w, u) /\ delayed' = [delayed EXCEPT ![u] = d]
    BY <1>2 DEF NackRetry
  <2>2. immediate' = immediate /\ processing[u] > 0
    BY <2>1, SettledEffect
  <2>3. CASE t = u
    <3>1. t \notin Range(immediate)
      BY <2>2, <2>3 DEF Placed, Waits
    <3> QED
      BY <2>2, <3>1 DEF Placed, Apart
  <2>4. CASE t # u
    <3>1. delayed'[t] = delayed[t]
      BY <2>1, <2>4 DEF TypeOK, Once
    <3> QED
      BY <2>2, <3>1 DEF Placed, Apart
  <2> QED
    BY <2>3, <2>4
<1> QED
  BY <1>1, <1>2

\* Steps that change neither list, or only shorten them, or let time pass.
LEMMA StillApart ==
  ASSUME TypeOK, NEW t \in Once, Apart(t),
         \/ \E w \in Workers :
              \/ DequeueEmpty(w) \/ NotProcessing(w) \/ NackGetMissing(w)
              \/ NackGet(w) \/ HandlerSucceeds(w) \/ HandlerFails(w)
              \/ Abandon(w) \/ MarkProcessing(w)
         \/ Tick \/ (\E u \in Tasks : ExpireTimeout(u))
         \/ PurgeStart \/ PurgeLists \/ PurgeKeys \/ PurgeFails \/ UNCHANGED vars
  PROVE  Apart(t)'
<1> USE DEF store, lists, keys, client, purgeVars, history, vars, PurgeGoes
<1>0. t \in Tasks /\ delayed \in [Tasks -> Nat \cup {NotDelayed}]
  BY DEF Once, TypeOK
<1>1. CASE Tick
  <2>1. delayed'[t] = IF delayed[t] > 0 THEN delayed[t] - 1 ELSE delayed[t]
    BY <1>0, <1>1 DEF Tick
  <2>2. (delayed[t] = NotDelayed => delayed'[t] = NotDelayed) /\ immediate' = immediate
    BY <1>0, <1>1, <2>1 DEF NotDelayed, Tick
  <2> QED
    BY <2>2 DEF Apart
<1>2. CASE PurgeLists
  <2>1. OccursOnce(<<>>, t) /\ t \notin Range(<<>>)
    BY DEF OccursOnce, Range
  <2>2. /\ immediate' \in {immediate, <<>>}
        /\ delayed' = delayed \/ delayed' = [x \in Tasks |-> NotDelayed]
    BY <1>2 DEF PurgeLists
  <2> QED
    BY <1>0, <2>1, <2>2 DEF Apart
<1>3. CASE ~Tick /\ ~PurgeLists
  <2>1. UNCHANGED <<immediate, delayed>>
    BY <1>3 DEF DequeueEmpty, NotProcessing, NackGetMissing, NackGet,
         HandlerSucceeds, HandlerFails, Abandon, MarkProcessing, ExpireTimeout,
         PurgeStart, PurgeKeys, PurgeFails
  <2> QED
    BY <2>1, SameListsApart
<1> QED
  BY <1>1, <1>2, <1>3

LEMMA NextApart ==
  ASSUME TypeOK, [Next]_vars, NEW t \in Once, Placed(t)
  PROVE  Apart(t)'
<1>1. Apart(t)
  BY DEF Placed
<1>2. ASSUME NEW w \in Workers, Worker(w) \/ Abandon(w) PROVE Apart(t)'
  BY <1>1, <1>2, StillApart, MoveApart, PopApart, SettleApart DEF Worker
<1> QED
  BY <1>1, <1>2, EnqueueApart, StillApart DEF Next

\* The lists hold the id as before.
LEMMA SamePlace ==
  ASSUME NEW t \in Once, Placed(t), Apart(t)', Waits(t)' <=> Waits(t),
         processing'[t] = processing[t], dead'[t] = dead[t],
         enqueued'[t] = enqueued[t], t \in acked' <=> t \in acked
  PROVE  Placed(t)' /\ (Lossless(t) /\ (task[t] # Absent => task'[t] # Absent)
                          => Lossless(t)')
<1>1. Listed(t)' <=> Listed(t)
  BY DEF Listed
<1> QED
  BY <1>1 DEF Placed, Lossless

LEMMA SubmitPlaced ==
  ASSUME TypeOK, NEW t \in Once, Placed(t), Apart(t)', NEW u \in Tasks,
         Enqueue(u) \/ (\E d \in Delays : EnqueueWithDelay(u, d))
  PROVE  Placed(t)' /\ (Lossless(t) => Lossless(t)')
<1>0. t \in Tasks
  BY DEF Once
<1>1. /\ UNCHANGED <<processing, dead, acked>> /\ Waits(u)' /\ task'[u] # Absent
      /\ enqueued[u] < MaxEnqueues[u] /\ enqueued'[u] = enqueued[u] + 1
      /\ t # u => Unmoved(t) /\ task'[t] = task[t]
  BY <1>0, SubmitEffect
<1>2. CASE t # u
  BY <1>1, <1>2, SamePlace DEF Unmoved
<1>3. CASE t = u
  <2>1. enqueued[t] = 0 /\ enqueued'[t] = 1
    BY <1>1, <1>3, ConstantsAssumption DEF Once, TypeOK
  <2>2. /\ ~Listed(t) /\ t \notin acked
        /\ processing[t] <= 1 /\ dead[t] <= 1
        /\ processing[t] \in Nat /\ dead[t] \in Nat
    BY <1>0, <2>1 DEF Placed, TypeOK
  <2>3. processing'[t] = 0 /\ dead'[t] = 0 /\ t \notin acked'
    BY <1>1, <2>2 DEF Listed
  <2>4. Listed(t)'
    BY <1>1, <1>3 DEF Listed
  <2>5. Placed(t)'
    BY <2>1, <2>3 DEF Placed
  <2> QED
    BY <1>1, <1>3, <2>4, <2>5 DEF Lossless
<1> QED
  BY <1>2, <1>3

LEMMA OrphanPlaced ==
  ASSUME TypeOK, NEW t \in Once, Placed(t), Apart(t)',
         NEW w \in Workers, DequeueOrphan(w)
  PROVE  Placed(t)' /\ (Lossless(t) => Lossless(t)')
<1>1. PICK u \in Tasks : u = Head(immediate)
  BY OrphanEffect
<1>2. /\ Waits(u) /\ task[u] = Absent
      /\ UNCHANGED <<processing, dead, task, enqueued, acked>>
      /\ t # u => Unmoved(t)
  BY <1>1, OrphanEffect DEF Once
<1>3. CASE t # u
  BY <1>2, <1>3, SamePlace DEF Unmoved
<1>4. CASE t = u
  <2>1. /\ processing[t] = 0 /\ dead[t] = 0 /\ enqueued[t] # 0 /\ t \notin acked
        /\ enqueued[t] <= 1
    BY <1>2, <1>4 DEF Placed, Listed
  <2>2. Placed(t)'
    BY <1>2, <2>1 DEF Placed
  <2>3. ~Lossless(t)
    BY <1>2, <1>4 DEF Lossless, Listed
  <2> QED
    BY <2>2, <2>3
<1> QED
  BY <1>3, <1>4

LEMMA TakePlaced ==
  ASSUME TypeOK, NEW t \in Once, Placed(t), Apart(t)',
         NEW w \in Workers, DequeueTask(w)
  PROVE  Placed(t)' /\ (Lossless(t) => Lossless(t)')
<1>1. PICK u \in Tasks : u = Head(immediate)
  BY TakeEffect
<1>2. /\ Waits(u) /\ processing'[u] = processing[u] + 1
      /\ UNCHANGED <<dead, task, enqueued, acked>>
      /\ t # u => Unmoved(t)
  BY <1>1, TakeEffect DEF Once
<1>3. CASE t # u
  BY <1>2, <1>3, SamePlace DEF Unmoved
<1>4. CASE t = u
  <2>1. /\ processing[t] = 0 /\ dead[t] = 0 /\ enqueued[t] # 0 /\ t \notin acked
        /\ enqueued[t] <= 1 /\ Listed(t)
    BY <1>2, <1>4 DEF Placed, Listed
  <2>2. ~Waits(t)'
    BY <1>1, <1>4, PopApart DEF Placed
  <2>3. processing'[t] = 1 /\ dead'[t] = 0
    BY <1>2, <1>4, <2>1
  <2>4. Placed(t)'
    BY <1>2, <2>1, <2>2, <2>3 DEF Placed
  <2>5. Lossless(t) => Lossless(t)'
    BY <1>2, <2>1, <2>3 DEF Lossless, Listed
  <2> QED
    BY <2>4, <2>5
<1> QED
  BY <1>3, <1>4

LEMMA SettlePlaced ==
  ASSUME TypeOK, NEW t \in Once, Placed(t), Apart(t)',
         NEW w \in Workers, Ack(w) \/ NackRetry(w) \/ NackDead(w)
  PROVE  Placed(t)' /\ (Lossless(t) => Lossless(t)')
<1>0. t \in Tasks
  BY DEF Once
<1>1. \E u \in Tasks :
        /\ Settle(w, u)
        /\ \A x \in Tasks \ {u} : Unmoved(x) /\ task'[x] = task[x]
        /\ \/ u \in acked' /\ UNCHANGED <<delayed, dead>>
           \/ Waits(u)' /\ UNCHANGED <<dead, acked>> /\ task'[u] # Absent
           \/ /\ dead'[u] = dead[u] + 1 /\ UNCHANGED <<delayed, acked>>
              /\ task'[u] # Absent
  <2>1. CASE Ack(w)
    <3>1. PICK u \in Tasks :
            /\ Settle(w, u) /\ acked' = acked \cup {u} /\ UNCHANGED <<delayed, dead>>
            /\ \A x \in Tasks \ {u} : Unmoved(x) /\ task'[x] = task[x]
      BY <2>1, AckEffect
    <3>2. u \in acked'
      BY <3>1
    <3> QED
      BY <3>1, <3>2
  <2>2. CASE NackRetry(w)
    <3>1. PICK u \in Tasks :
            /\ Settle(w, u) /\ Waits(u)' /\ UNCHANGED <<dead, acked>>
            /\ task'[u] = [status |-> "pending", retry |-> held[w].retry]
            /\ \A x \in Tasks \ {u} : Unmoved(x) /\ task'[x] = task[x]
      BY <2>2, NackRetryEffect
    <3>2. task'[u] # Absent
      BY <3>1 DEF Absent
    <3> QED
      BY <3>1, <3>2
  <2>3. CASE NackDead(w)
    <3>1. PICK u \in Tasks :
            /\ Settle(w, u) /\ dead'[u] = dead[u] + 1 /\ UNCHANGED <<delayed, acked>>
            /\ task'[u] = [status |-> "dead_letter", retry |-> held[w].retry]
            /\ \A x \in Tasks \ {u} : Unmoved(x) /\ task'[x] = task[x]
      BY <2>3, NackDeadEffect
    <3>2. task'[u] # Absent
      BY <3>1 DEF Absent
    <3> QED
      BY <3>1, <3>2
  <2> QED
    BY <2>1, <2>2, <2>3
<1> PICK u \in Tasks :
      /\ Settle(w, u)
      /\ \A x \in Tasks \ {u} : Unmoved(x) /\ task'[x] = task[x]
      /\ \/ u \in acked' /\ UNCHANGED <<delayed, dead>>
         \/ Waits(u)' /\ UNCHANGED <<dead, acked>> /\ task'[u] # Absent
         \/ /\ dead'[u] = dead[u] + 1 /\ UNCHANGED <<delayed, acked>>
            /\ task'[u] # Absent
  BY <1>1
<1>2. CASE t # u
  BY <1>0, <1>2, SamePlace DEF Unmoved
<1>3. CASE t = u
  <2>1. /\ processing[t] > 0 /\ processing'[t] = processing[t] - 1
        /\ UNCHANGED <<immediate, enqueued>> /\ processing[t] \in Nat
    BY <1>0, <1>3, SettledEffect DEF TypeOK
  <2>2. /\ ~Waits(t) /\ dead[t] = 0 /\ enqueued[t] # 0 /\ t \notin acked
        /\ enqueued[t] <= 1 /\ processing[t] = 1
    BY <2>1 DEF Placed, Listed
  <2>3. processing'[t] = 0 /\ enqueued'[t] = enqueued[t]
    BY <2>1, <2>2
  <2>4. CASE t \in acked' /\ UNCHANGED <<delayed, dead>>
    <3>1. ~Waits(t)' /\ dead'[t] = 0
      BY <2>1, <2>2, <2>4 DEF Waits
    <3>2. ~Listed(t)'
      BY <2>3, <3>1 DEF Listed
    <3> QED
      BY <2>2, <2>3, <2>4, <3>1, <3>2 DEF Placed, Lossless
  <2>5. CASE Waits(t)' /\ UNCHANGED <<dead, acked>> /\ task'[t] # Absent
    <3>1. dead'[t] = 0 /\ Listed(t)'
      BY <2>2, <2>5 DEF Listed
    <3> QED
      BY <2>2, <2>3, <2>5, <3>1 DEF Placed, Lossless
  <2>6. CASE dead'[t] = dead[t] + 1 /\ UNCHANGED <<delayed, acked>> /\ task'[t] # Absent
    <3>1. ~Waits(t)' /\ dead'[t] = 1
      BY <2>1, <2>2, <2>6 DEF Waits
    <3>2. Listed(t)'
      BY <3>1 DEF Listed
    <3> QED
      BY <2>2, <2>3, <2>6, <3>1, <3>2 DEF Placed, Lossless
  <2> QED
    BY <1>3, <2>4, <2>5, <2>6
<1> QED
  BY <1>2, <1>3

\* The steps that leave the lists, Purge that only empties them, and the SET
\* of Dequeue.
LEMMA StillPlaced ==
  ASSUME TypeOK, NEW t \in Once, Placed(t), Apart(t)',
         \/ \E w \in Workers :
              \/ MoveDelayed(w) \/ MarkProcessing(w)
              \/ DequeueEmpty(w) \/ NotProcessing(w) \/ NackGetMissing(w)
              \/ NackGet(w) \/ HandlerSucceeds(w) \/ HandlerFails(w)
              \/ Abandon(w)
         \/ Tick \/ (\E u \in Tasks : ExpireTimeout(u))
         \/ PurgeStart \/ PurgeLists \/ PurgeKeys \/ PurgeFails \/ UNCHANGED vars
  PROVE  Placed(t)' /\ (~PurgeLists /\ ~PurgeKeys /\ Lossless(t) => Lossless(t)')
<1>0. t \in Tasks /\ processing[t] \in Nat /\ dead[t] \in Nat
  BY DEF Once, TypeOK
<1>1. ASSUME NEW w \in Workers, MarkProcessing(w)
      PROVE  Placed(t)' /\ (Lossless(t) => Lossless(t)')
  <2>1. PICK u \in Tasks : u = held[w].id
    BY <1>1, MarkEffect
  <2>2. /\ UNCHANGED <<immediate, delayed, processing, dead, enqueued, acked>>
        /\ task'[u] # Absent /\ (t # u => task'[t] = task[t])
    BY <1>0, <1>1, <2>1, MarkEffect
  <2>3. Waits(t)' <=> Waits(t)
    BY <2>2 DEF Waits
  <2> QED
    BY <2>2, <2>3, SamePlace
<1>2. CASE PurgeLists
  <2>1. /\ UNCHANGED <<enqueued, acked>> /\ (Waits(t)' => Waits(t))
        /\ processing'[t] \in {processing[t], 0} /\ dead'[t] \in {dead[t], 0}
    BY <1>0, <1>2, PurgeEffect DEF Unmoved
  <2>2. Listed(t)' => Listed(t)
    BY <2>1 DEF Listed
  <2>3. Placed(t)'
    BY <1>0, <2>1, <2>2 DEF Placed
  <2> QED
    BY <1>2, <2>3
<1>3. CASE /\ ~PurgeLists /\ ~ (\E w \in Workers : MarkProcessing(w))
  <2>1. Unmoved(t) /\ (~PurgeKeys => task' = task)
    BY <1>0, <1>3, MoveEffect, StillEffect
  <2> QED
    BY <2>1, SamePlace DEF Unmoved
<1> QED
  BY <1>1, <1>2, <1>3

LEMMA NextPlacedId ==
  ASSUME TypeOK, [Next]_vars, NEW t \in Once, Placed(t)
  PROVE  Placed(t)' /\ (~PurgeLists /\ ~PurgeKeys /\ Lossless(t) => Lossless(t)')
<1>1. Apart(t)'
  BY NextApart
<1>2. ASSUME NEW w \in Workers, Worker(w) \/ Abandon(w)
      PROVE  Placed(t)' /\ (~PurgeLists /\ ~PurgeKeys /\ Lossless(t) => Lossless(t)')
  BY <1>1, <1>2, OrphanPlaced, TakePlaced, SettlePlaced, StillPlaced DEF Worker
<1> QED
  BY <1>1, <1>2, SubmitPlaced, StillPlaced DEF Next

LEMMA InitPlaced == Init => PlacedInv /\ LosslessInv
<1> SUFFICES ASSUME Init PROVE PlacedInv /\ LosslessInv
  OBVIOUS
<1>1. ASSUME NEW t \in Once PROVE Placed(t) /\ Lossless(t)
  <2>1. ~Listed(t) /\ OccursOnce(immediate, t) /\ t \notin Range(immediate)
    BY DEF Init, Listed, Waits, Range, OccursOnce, Once
  <2>2. processing[t] = 0 /\ dead[t] = 0 /\ enqueued[t] = 0 /\ t \notin acked
    BY DEF Init, Once
  <2> QED
    BY <2>1, <2>2 DEF Placed, Apart, Lossless
<1> QED
  BY <1>1 DEF PlacedInv, LosslessInv, Init

\* No call of Purge so far, none now.
LEMMA NoPurge ==
  ASSUME TypeOK, [Next]_vars, purges' = 0, purges = 0 => purger = "idle"
  PROVE  /\ purges = 0 /\ purger' = "idle"
         /\ ~PurgeStart /\ ~PurgeLists /\ ~PurgeKeys /\ ~PurgeFails
<1> USE DEF purgeVars, vars
<1>1. purges \in Nat
  BY DEF TypeOK
<1>2. ~PurgeStart
  BY <1>1 DEF PurgeStart
<1>3. CASE PurgeLists \/ PurgeKeys \/ PurgeFails
  <2>1. purges = 0 /\ purger # "idle"
    BY <1>3 DEF PurgeLists, PurgeKeys, PurgeFails, PurgeGoes
  <2> QED
    BY <2>1
<1>4. CASE ~PurgeLists /\ ~PurgeKeys /\ ~PurgeFails
  <2>1. UNCHANGED <<purger, purges>>
    BY <1>2, <1>4
    DEF Next, Enqueue, EnqueueWithDelay, Submit, Worker, MoveDelayed,
        DequeueEmpty, DequeueOrphan, DequeueTask, MarkProcessing,
        HandlerSucceeds, HandlerFails, NotProcessing, Ack, NackGetMissing,
        NackGet, NackRetry, NackDead, Settle, Abandon, Tick, ExpireTimeout
  <2> QED
    BY <1>2, <1>4, <2>1
<1> QED
  BY <1>3, <1>4

LEMMA NextPlaced == TypeOK /\ PlacedInv /\ [Next]_vars => PlacedInv'
<1>1. Once' = Once
  BY DEF Once
<1> QED
  BY <1>1, NextPlacedId DEF PlacedInv

LEMMA NextLossless ==
  TypeOK /\ PlacedInv /\ LosslessInv /\ [Next]_vars => LosslessInv'
<1> SUFFICES ASSUME TypeOK, PlacedInv, LosslessInv, [Next]_vars, purges' = 0
             PROVE  (purger = "idle" /\ \A t \in Once : Lossless(t))'
  BY DEF LosslessInv
<1>1. purges = 0 /\ purger' = "idle" /\ ~PurgeLists /\ ~PurgeKeys
  BY NoPurge DEF LosslessInv
<1>2. ASSUME NEW t \in Once PROVE Lossless(t)'
  BY <1>1, NextPlacedId DEF PlacedInv, LosslessInv
<1>3. Once' = Once
  BY DEF Once
<1> QED
  BY <1>1, <1>2, <1>3

(* The invariant of the lists holds in every reachable state, whatever the *)
(* client does.                                                            *)
LEMMA PlacedAlways == Spec => [](TypeOK /\ PlacedInv /\ LosslessInv)
<1>1. /\ Init => PlacedInv /\ LosslessInv
      /\ TypeOK /\ PlacedInv /\ LosslessInv /\ [Next]_vars
           => (PlacedInv /\ LosslessInv)'
  BY InitPlaced, NextPlaced, NextLossless
<1> QED
  BY TypeCorrect, <1>1, PTL DEF Spec

\* Copies counts an id that is listed, and no other.
LEMMA CopiesListed ==
  ASSUME TypeOK, NEW t \in Tasks
  PROVE  /\ Copies(t) \in Nat
         /\ Copies(t) > 0 <=> Listed(t)
         /\ Copies(t) > processing[t] <=> Waits(t) \/ dead[t] > 0
<1> DEFINE places == {i \in DOMAIN immediate : immediate[i] = t}
           later == IF delayed[t] = NotDelayed THEN 0 ELSE 1
<1>1. processing[t] \in Nat /\ dead[t] \in Nat /\ later \in {0, 1}
  BY DEF TypeOK
<1>2. DOMAIN immediate = 1..Len(immediate) /\ Len(immediate) \in Nat
  BY LenProperties DEF TypeOK
<1>3. IsFiniteSet(places)
  <2>1. places \subseteq 1..Len(immediate) /\ IsFiniteSet(1..Len(immediate))
    BY <1>2, FS_Interval
  <2> QED
    BY <2>1, FS_Subset
<1>4. Cardinality(places) \in Nat /\ (Cardinality(places) = 0 <=> places = {})
  BY <1>3, FS_CardinalityType, FS_EmptySet
<1>5. places = {} <=> t \notin Range(immediate)
  BY DEF Range
<1>6. Copies(t) = Cardinality(places) + later + processing[t] + dead[t]
  BY DEF Copies
<1>7. later = 0 <=> delayed[t] = NotDelayed
  OBVIOUS
<1>8. Waits(t) <=> Cardinality(places) + later > 0
  <2>1. Waits(t) <=> ~ (Cardinality(places) = 0 /\ later = 0)
    BY <1>4, <1>5, <1>7 DEF Waits
  <2> HIDE DEF places, later
  <2> QED
    BY <1>1, <1>4, <2>1
<1> HIDE DEF places, later
<1>9. /\ Copies(t) \in Nat
      /\ Copies(t) > processing[t] <=> Cardinality(places) + later > 0 \/ dead[t] > 0
      /\ Copies(t) > 0 <=> \/ Cardinality(places) + later > 0
                           \/ processing[t] > 0 \/ dead[t] > 0
  BY <1>1, <1>4, <1>6
<1> QED
  BY <1>8, <1>9 DEF Listed

\* A placed id is counted once at most.
LEMMA PlacedOnce ==
  ASSUME TypeOK, NEW t \in Once, Placed(t)
  PROVE  Copies(t) <= 1
<1> DEFINE places == {i \in DOMAIN immediate : immediate[i] = t}
<1>1. /\ t \in Tasks /\ processing[t] \in Nat /\ dead[t] \in Nat
      /\ Apart(t)
  BY DEF Placed, TypeOK, Once
<1>2. CASE t \in Range(immediate)
  <2>1. PICK i \in DOMAIN immediate : immediate[i] = t
    BY <1>2 DEF Range
  <2>2. places = {i}
    BY <1>1, <2>1 DEF Apart, OccursOnce
  <2>3. Cardinality(places) = 1
    BY <2>2, FS_Singleton
  <2> QED
    BY <1>1, <1>2, <2>3 DEF Copies, Placed, Apart, Waits
<1>3. CASE t \notin Range(immediate)
  <2>1. places = {}
    BY <1>3 DEF Range
  <2>2. Cardinality(places) = 0
    BY <2>1, FS_EmptySet
  <2> QED
    BY <1>1, <1>3, <2>2 DEF Copies, Placed, Apart, Waits
<1> QED
  BY <1>2, <1>3

(* No interleaving, fault, purge or repeated command puts an id into two   *)
(* lists.                                                                  *)
THEOREM OnePlaceAlways == Spec => []OnePlace
<1>1. TypeOK /\ PlacedInv => OnePlace
  BY PlacedOnce DEF PlacedInv, OnePlace
<1> QED
  BY PlacedAlways, <1>1, PTL

(* No lost reply, crash, repeated command or interleaving of workers loses *)
(* an id, or leaves one behind that was acknowledged.                      *)
THEOREM NothingLostAlways == Spec => []NothingLost
<1>1. TypeOK /\ PlacedInv /\ LosslessInv => NothingLost
  <2> SUFFICES ASSUME TypeOK, PlacedInv, LosslessInv, purges = 0, NEW t \in Once
               PROVE  Copies(t) + (IF t \in acked THEN 1 ELSE 0) = enqueued[t]
    BY DEF NothingLost
  <2>1. t \in Tasks /\ Placed(t) /\ Lossless(t) /\ enqueued[t] \in Nat
    BY DEF PlacedInv, LosslessInv, Once, TypeOK
  <2>2. Copies(t) \in Nat /\ Copies(t) <= 1 /\ (Copies(t) > 0 <=> Listed(t))
    BY <2>1, CopiesListed, PlacedOnce
  <2>3. enqueued[t] \in {0, 1} /\ (t \in acked => enqueued[t] = 1)
    BY <2>1 DEF Placed
  <2>4. CASE t \in acked
    <3>1. ~Listed(t)
      BY <2>1, <2>4 DEF Placed
    <3> QED
      BY <2>2, <2>3, <2>4, <3>1
  <2>5. CASE t \notin acked /\ enqueued[t] = 0
    <3>1. ~Listed(t)
      BY <2>1, <2>5 DEF Placed
    <3> QED
      BY <2>2, <2>5, <3>1
  <2>6. CASE t \notin acked /\ enqueued[t] = 1
    <3>1. Listed(t)
      BY <2>1, <2>6 DEF Lossless
    <3> QED
      BY <2>2, <2>6, <3>1
  <2> QED
    BY <2>3, <2>4, <2>5, <2>6
<1> QED
  BY PlacedAlways, <1>1, PTL

-----------------------------------------------------------------------------
(* The entries of the workers, and the counts.                             *)

(* An entry in PROCESSING for each worker that has the id, and a list entry*)
(* for its data: for every id, however often it is enqueued.               *)
Backed(t) ==
  /\ IsFiniteSet(InHand(t))
  /\ processing[t] >= Cardinality(InHand(t))
  /\ task[t] # Absent => Listed(t)

(* For an id enqueued once: it is dead with its count, and in PROCESSING   *)
(* with a worker unless something failed.                                  *)
Kept(t) ==
  /\ dead[t] > 0 => task[t].retry = attempts[t]
  /\ faults = 0 /\ processing[t] > 0 => InHand(t) # {}

Stored(t) == Backed(t) /\ (t \in Once => Kept(t))

\* Everything that is known of an id before a step.
Known(t) == Stored(t) /\ (t \in Once => Lives(t) /\ Lossless(t))

KeptInv == purges = 0 => purger = "idle" /\ \A t \in Tasks : Stored(t)

-----------------------------------------------------------------------------
(* Who has an id after a step.                                             *)

\* A reply gives the worker a copy of some task, unless it is lost.
LEMMA ReplyHands ==
  ASSUME TypeOK, Unrepeated', NEW w \in Workers, NEW next, NEW copy,
         Reply(w, next, copy)
  PROVE  /\ \A v \in Workers \ {w} : held'[v] = held[v]
         /\ held'[w].id \in {copy.id, None}
         /\ faults' = 0 => faults = 0 /\ held'[w] = copy
<1>1. held \in [Workers -> TaskCopy] /\ faults \in Nat
  BY DEF TypeOK
<1>2. Nothing.id = None
  BY DEF Nothing
<1>3. faults + 1 # 0 /\ ~ (Resends /\ faults' = faults + 1)
  BY <1>1 DEF Unrepeated
<1> QED
  BY <1>1, <1>2, <1>3 DEF Reply

\* The steps that leave every id where it is take it from a worker at most,
\* and, if nothing failed, only from one whose command found nothing.
LEMMA StillHands ==
  ASSUME TypeOK, Unrepeated', NEW t \in Tasks,
         \/ \E w \in Workers :
              \/ MoveDelayed(w)
              \/ DequeueEmpty(w) \/ NotProcessing(w) \/ NackGetMissing(w)
              \/ NackGet(w) \/ HandlerSucceeds(w) \/ HandlerFails(w)
              \/ Abandon(w)
         \/ Tick \/ (\E u \in Tasks : ExpireTimeout(u)) \/ UNCHANGED vars
  PROVE  /\ InHand(t)' \subseteq InHand(t)
         /\ faults' = 0 =>
              /\ faults = 0
              /\ \/ InHand(t)' = InHand(t)
                 \/ \E w \in Workers :
                      held[w].id = t /\ (NotProcessing(w) \/ NackGetMissing(w))
<1>0. t # None /\ Nothing.id = None /\ faults \in Nat
  BY ConstantsAssumption DEF Nothing, TypeOK
<1>1. CASE \/ \E w \in Workers : HandlerSucceeds(w) \/ HandlerFails(w)
           \/ Tick \/ (\E u \in Tasks : ExpireTimeout(u)) \/ UNCHANGED vars
  <2>1. UNCHANGED <<held, faults>>
    BY <1>1 DEF HandlerSucceeds, HandlerFails, Tick, ExpireTimeout, client, vars
  <2> QED
    BY <2>1 DEF InHand
<1>2. ASSUME NEW w \in Workers, MoveDelayed(w) \/ DequeueEmpty(w)
      PROVE  InHand(t)' = InHand(t) /\ (faults' = 0 => faults = 0)
  <2>1. held[w].id = None
    BY <1>2 DEF MoveDelayed, DequeueEmpty, TypeOK
  <2>2. /\ \A v \in Workers \ {w} : held'[v] = held[v]
        /\ held'[w].id = None /\ (faults' = 0 => faults = 0)
    BY <1>0, <1>2, ReplyHands DEF MoveDelayed, DequeueEmpty
  <2> QED
    BY <1>0, <2>1, <2>2 DEF InHand
<1>3. ASSUME NEW w \in Workers, NotProcessing(w) \/ NackGetMissing(w)
      PROVE  /\ InHand(t)' \subseteq InHand(t) /\ (faults' = 0 => faults = 0)
             /\ held[w].id # t => InHand(t)' = InHand(t)
  <2>1. /\ \A v \in Workers \ {w} : held'[v] = held[v]
        /\ held'[w].id = None /\ (faults' = 0 => faults = 0)
    BY <1>0, <1>3, ReplyHands DEF NotProcessing, NackGetMissing
  <2> QED
    BY <1>0, <2>1 DEF InHand
<1>4. ASSUME NEW w \in Workers, NackGet(w)
      PROVE  /\ InHand(t)' \subseteq InHand(t)
             /\ faults' = 0 => faults = 0 /\ InHand(t)' = InHand(t)
  <2>1. /\ \A v \in Workers \ {w} : held'[v] = held[v]
        /\ held'[w].id \in {held[w].id, None}
        /\ faults' = 0 => faults = 0 /\ held'[w].id = held[w].id
    BY <1>4, ReplyHands DEF NackGet
  <2> QED
    BY <1>0, <2>1 DEF InHand
<1>5. ASSUME NEW w \in Workers, Abandon(w)
      PROVE  InHand(t)' \subseteq InHand(t) /\ faults' # 0
  <2>1. \A v \in Workers : held'[v].id \in {held[v].id, None}
    BY <1>0, <1>5 DEF Abandon, TypeOK
  <2> QED
    BY <1>0, <1>5, <2>1 DEF InHand, Abandon
<1> QED
  BY <1>1, <1>2, <1>3, <1>4, <1>5

\* A worker that has a task has an entry of its own in PROCESSING.
LEMMA HolderListed ==
  ASSUME TypeOK, NEW t \in Tasks, Backed(t), NEW w \in Workers, held[w].id = t
  PROVE  processing[t] > 0
<1>1. w \in InHand(t)
  BY DEF InHand
<1>2. Cardinality(InHand(t)) \in Nat /\ Cardinality(InHand(t)) # 0
  BY <1>1, FS_CardinalityType, FS_EmptySet DEF Backed
<1> QED
  BY <1>2 DEF Backed, TypeOK

-----------------------------------------------------------------------------
(* What each step does to an id.                                           *)

\* No more workers and no fewer entries.
LEMMA BackedStays ==
  ASSUME TypeOK, TypeOK', NEW t \in Tasks, Backed(t),
         InHand(t)' \subseteq InHand(t), processing'[t] >= processing[t],
         task'[t] # Absent => Listed(t)'
  PROVE  Backed(t)'
<1>1. IsFiniteSet(InHand(t)') /\ Cardinality(InHand(t)') <= Cardinality(InHand(t))
  BY FS_Subset DEF Backed
<1>2. /\ Cardinality(InHand(t)) \in Nat /\ Cardinality(InHand(t)') \in Nat
      /\ processing[t] \in Nat /\ processing'[t] \in Nat
  BY <1>1, FS_CardinalityType DEF Backed, TypeOK
<1> QED
  BY <1>1, <1>2 DEF Backed

\* The id and its data stay where they are.
LEMMA UnmovedStored ==
  ASSUME TypeOK, TypeOK', NEW t \in Tasks, Known(t), Unmoved(t), task'[t] = task[t],
         InHand(t)' \subseteq InHand(t),
         faults' = 0 /\ t \in Once /\ processing[t] > 0
           => faults = 0 /\ InHand(t)' = InHand(t)
  PROVE  Stored(t)'
<1>1. Listed(t)' <=> Listed(t)
  BY DEF Unmoved, Listed
<1>2. Backed(t)'
  <2>1. processing'[t] >= processing[t]
    BY DEF Unmoved, TypeOK
  <2>2. task'[t] # Absent => Listed(t)'
    BY <1>1 DEF Known, Stored, Backed
  <2> QED
    BY <2>1, <2>2, BackedStays DEF Known, Stored
<1>3. ASSUME t \in Once PROVE Kept(t)'
  <2>1. Kept(t)
    BY <1>3 DEF Known, Stored
  <2>2. faults' = 0 /\ processing'[t] > 0 => InHand(t)' # {}
    BY <1>3, <2>1 DEF Unmoved, Kept
  <2>3. dead'[t] > 0 => task'[t].retry = attempts'[t]
    BY <2>1 DEF Unmoved, Kept
  <2> QED
    BY <2>2, <2>3 DEF Kept
<1> QED
  BY <1>2, <1>3 DEF Stored, Once

LEMMA SubmitStored ==
  ASSUME TypeOK, TypeOK', NEW t \in Tasks, Known(t), NEW u \in Tasks,
         Enqueue(u) \/ (\E d \in Delays : EnqueueWithDelay(u, d))
  PROVE  Stored(t)'
<1>1. /\ UNCHANGED <<processing, dead, attempts, acked, held, faults>>
      /\ t # u => Unmoved(t) /\ task'[t] = task[t]
      /\ Waits(u)' /\ task'[u] # Absent /\ enqueued[u] < MaxEnqueues[u]
  BY SubmitEffect
<1>2. InHand(t)' = InHand(t)
  BY <1>1 DEF InHand
<1>3. CASE t # u
  BY <1>1, <1>2, <1>3, UnmovedStored
<1>4. CASE t = u
  <2>1. Listed(t)'
    BY <1>1, <1>4 DEF Listed
  <2>2. Backed(t)'
    BY <1>1, <1>2, <2>1 DEF Known, Stored, Backed
  <2>3. ASSUME t \in Once PROVE Kept(t)'
    <3>1. enqueued[t] = 0
      BY <1>1, <1>4, <2>3, ConstantsAssumption DEF Once, TypeOK
    <3>2. processing[t] = 0 /\ dead[t] = 0
      BY <2>3, <3>1 DEF Known, Lives, Safe, Fresh
    <3> QED
      BY <1>1, <3>2 DEF Kept
  <2> QED
    BY <2>2, <2>3 DEF Stored, Once
<1> QED
  BY <1>3, <1>4

LEMMA StillStored ==
  ASSUME TypeOK, TypeOK', Unrepeated', NEW t \in Tasks, Known(t),
         \/ \E w \in Workers :
              \/ MoveDelayed(w)
              \/ DequeueEmpty(w) \/ NotProcessing(w) \/ NackGetMissing(w)
              \/ NackGet(w) \/ HandlerSucceeds(w) \/ HandlerFails(w)
              \/ Abandon(w)
         \/ Tick \/ (\E u \in Tasks : ExpireTimeout(u)) \/ UNCHANGED vars,
         ~PurgeKeys
  PROVE  Stored(t)'
<1>1. Unmoved(t) /\ task' = task
  BY MoveEffect, StillEffect
<1>2. InHand(t)' \subseteq InHand(t)
  BY StillHands
<1>3. ASSUME faults' = 0, t \in Once, processing[t] > 0
      PROVE  faults = 0 /\ InHand(t)' = InHand(t)
  <2>1. task[t] # Absent
    BY <1>3 DEF Known, Lossless, Listed
  <2>2. ASSUME NEW w \in Workers, held[w].id = t
        PROVE  ~NotProcessing(w) /\ ~NackGetMissing(w)
    BY <1>3, <2>1, <2>2 DEF NotProcessing, NackGetMissing
  <2> QED
    BY <1>3, <2>2, StillHands
<1> QED
  BY <1>1, <1>2, <1>3, UnmovedStored

\* An id is popped whose data is gone: not one that is enqueued once.
LEMMA OrphanStored ==
  ASSUME TypeOK, TypeOK', Unrepeated', NEW t \in Tasks, Known(t),
         NEW w \in Workers, DequeueOrphan(w)
  PROVE  Stored(t)'
<1>1. PICK u \in Tasks : u = Head(immediate)
  BY OrphanEffect
<1>2. /\ task[u] = Absent /\ Waits(u) /\ UNCHANGED <<processing, task>>
      /\ t # u => Unmoved(t)
  BY <1>1, OrphanEffect
<1>3. InHand(t)' = InHand(t) /\ (faults' = 0 => faults = 0)
  <2>1. held[w].id = None /\ t # None /\ Nothing.id = None
    BY ConstantsAssumption DEF DequeueOrphan, TypeOK, Nothing
  <2>2. /\ \A v \in Workers \ {w} : held'[v] = held[v]
        /\ held'[w].id = None /\ (faults' = 0 => faults = 0)
    BY <2>1, ReplyHands DEF DequeueOrphan
  <2> QED
    BY <2>1, <2>2 DEF InHand
<1>4. CASE t # u
  BY <1>2, <1>3, <1>4, UnmovedStored
<1>5. CASE t = u
  <2>1. t \notin Once
    BY <1>2, <1>5 DEF Known, Lossless, Listed
  <2>2. Backed(t)'
    BY <1>2, <1>3, <1>5 DEF Known, Stored, Backed
  <2> QED
    BY <2>1, <2>2 DEF Stored, Once
<1> QED
  BY <1>4, <1>5

LEMMA TakeStored ==
  ASSUME TypeOK, TypeOK', Unrepeated', NEW t \in Tasks, Known(t),
         NEW w \in Workers, DequeueTask(w)
  PROVE  Stored(t)'
<1>1. PICK u \in Tasks : u = Head(immediate)
  BY TakeEffect
<1>2. /\ Waits(u) /\ processing'[u] = processing[u] + 1
      /\ Reply(w, "mark", [id |-> u, retry |-> task[u].retry])
      /\ UNCHANGED <<dead, task, enqueued, attempts, acked>>
      /\ t # u => Unmoved(t)
  BY <1>1, TakeEffect
<1>3. /\ \A v \in Workers \ {w} : held'[v] = held[v]
      /\ held'[w].id \in {u, None} /\ held[w].id = None /\ t # None
      /\ faults' = 0 => faults = 0 /\ held'[w].id = u
  <2> DEFINE copy == [id |-> u, retry |-> task[u].retry]
  <2>1. copy.id = u /\ Reply(w, "mark", copy)
    BY <1>2
  <2>2. held[w].id = None /\ t # None
    BY ConstantsAssumption DEF DequeueTask, TypeOK
  <2> HIDE DEF copy
  <2>3. /\ \A v \in Workers \ {w} : held'[v] = held[v]
        /\ held'[w].id \in {copy.id, None}
        /\ faults' = 0 => faults = 0 /\ held'[w] = copy
    BY <2>1, ReplyHands
  <2> QED
    BY <2>1, <2>2, <2>3
<1>4. CASE t # u
  <2>1. InHand(t)' = InHand(t)
    BY <1>3, <1>4 DEF InHand
  <2> QED
    BY <1>2, <1>3, <1>4, <2>1, UnmovedStored
<1>5. CASE t = u
  <2>1. processing[t] \in Nat /\ processing'[t] = processing[t] + 1
    BY <1>2, <1>5 DEF TypeOK
  <2>2. Listed(t)' /\ Listed(t)
    BY <1>2, <1>5, <2>1 DEF Listed
  <2>3. Backed(t)'
    <3> DEFINE more == InHand(t) \cup {w}
    <3>1. InHand(t)' \subseteq more
      BY <1>3 DEF InHand
    <3>2. /\ IsFiniteSet(InHand(t)) /\ Cardinality(InHand(t)) \in Nat
          /\ processing[t] >= Cardinality(InHand(t))
      BY FS_CardinalityType DEF Known, Stored, Backed
    <3>3. IsFiniteSet(more) /\ Cardinality(more) <= Cardinality(InHand(t)) + 1
      <4> DEFINE before == InHand(t)
      <4>1. IsFiniteSet(before) /\ Cardinality(before) \in Nat
        BY <3>2
      <4> HIDE DEF before
      <4>2. /\ IsFiniteSet(before \cup {w})
            /\ Cardinality(before \cup {w}) =
                 IF w \in before THEN Cardinality(before) ELSE Cardinality(before) + 1
        BY <4>1, FS_AddElement
      <4>3. Cardinality(before \cup {w}) <= Cardinality(before) + 1
        BY <4>1, <4>2
      <4> QED
        BY <4>2, <4>3 DEF before
    <3>4. /\ IsFiniteSet(InHand(t)')
          /\ Cardinality(InHand(t)') <= Cardinality(more)
      BY <3>1, <3>3, FS_Subset
    <3>5. Cardinality(InHand(t)') \in Nat /\ Cardinality(more) \in Nat
      BY <3>3, <3>4, FS_CardinalityType
    <3>6. processing'[t] >= Cardinality(InHand(t)')
      BY <2>1, <3>2, <3>3, <3>4, <3>5
    <3> QED
      BY <2>2, <3>4, <3>6 DEF Backed
  <2>4. ASSUME t \in Once PROVE Kept(t)'
    <3>1. dead'[t] = 0
      BY <1>2, <1>5, <2>4 DEF Known, Lives, Safe, Exclusive
    <3>2. faults' = 0 => InHand(t)' # {}
      BY <1>3, <1>5 DEF InHand
    <3> QED
      BY <3>1, <3>2 DEF Kept
  <2> QED
    BY <2>3, <2>4 DEF Stored, Once
<1> QED
  BY <1>4, <1>5

LEMMA MarkStored ==
  ASSUME TypeOK, TypeOK', Unrepeated', NEW t \in Tasks, Known(t),
         NEW w \in Workers, MarkProcessing(w)
  PROVE  Stored(t)'
<1>1. PICK u \in Tasks : u = held[w].id
  BY MarkEffect
<1>2. /\ UNCHANGED <<immediate, delayed, processing, dead, enqueued, acked>>
      /\ task'[u] # Absent
      /\ t # u => Unmoved(t) /\ task'[t] = task[t]
      /\ Reply(w, "handle", held[w])
  BY <1>1, MarkEffect
<1>3. /\ \A v \in Workers \ {w} : held'[v] = held[v]
      /\ held'[w].id \in {held[w].id, None} /\ t # None
      /\ faults' = 0 => faults = 0 /\ held'[w] = held[w]
  BY <1>2, ReplyHands, ConstantsAssumption
<1>4. /\ InHand(t)' \subseteq InHand(t)
      /\ faults' = 0 => faults = 0 /\ InHand(t)' = InHand(t)
  BY <1>3 DEF InHand
<1>5. CASE t # u
  BY <1>2, <1>4, <1>5, UnmovedStored
<1>6. CASE t = u
  <2>1. processing[t] > 0 /\ Backed(t)
    BY <1>1, <1>6, HolderListed DEF Known, Stored
  <2>2. Listed(t)'
    BY <1>2, <2>1 DEF Listed
  <2>3. Backed(t)'
    <3>1. processing'[t] >= processing[t]
      BY <1>2 DEF TypeOK
    <3> QED
      BY <1>4, <2>1, <2>2, <3>1, BackedStays
  <2>4. ASSUME t \in Once PROVE Kept(t)'
    <3>1. dead'[t] = 0
      BY <1>1, <1>2, <1>6, <2>4 DEF Known, Lives, Safe, Exclusive
    <3>2. faults' = 0 /\ processing'[t] > 0 => InHand(t)' # {}
      BY <1>2, <1>4, <2>4 DEF Known, Stored, Kept
    <3> QED
      BY <3>1, <3>2 DEF Kept
  <2> QED
    BY <2>3, <2>4 DEF Stored, Once
<1> QED
  BY <1>5, <1>6
\* The entry that leaves PROCESSING is the one of the worker that settles.
LEMMA SettledHands ==
  ASSUME TypeOK, TypeOK', Unrepeated', NEW t \in Tasks, Backed(t),
         NEW w \in Workers, Settle(w, t), task'[t] # Absent => Listed(t)'
  PROVE  Backed(t)' /\ InHand(t)' = InHand(t) \ {w}
<1>1. /\ t = held[w].id /\ processing'[t] = processing[t] - 1
      /\ Reply(w, "poll", Nothing)
  BY SettledEffect
<1>2. /\ \A v \in Workers \ {w} : held'[v] = held[v]
      /\ held'[w].id = None /\ t # None
  BY <1>1, ReplyHands, ConstantsAssumption DEF Nothing
<1>3. InHand(t)' = InHand(t) \ {w} /\ w \in InHand(t)
  BY <1>1, <1>2 DEF InHand
<1>4. /\ IsFiniteSet(InHand(t)) /\ Cardinality(InHand(t)) \in Nat
      /\ processing[t] >= Cardinality(InHand(t)) /\ processing[t] \in Nat
  BY FS_CardinalityType DEF Backed, TypeOK
<1>5. /\ IsFiniteSet(InHand(t)')
      /\ Cardinality(InHand(t)') = Cardinality(InHand(t)) - 1
  BY <1>3, <1>4, FS_RemoveElement
<1>6. processing'[t] >= Cardinality(InHand(t)')
  BY <1>1, <1>4, <1>5
<1> QED
  BY <1>3, <1>5, <1>6 DEF Backed

\* A settling script of another id.
LEMMA OtherSettled ==
  ASSUME TypeOK, TypeOK', Unrepeated', NEW t \in Tasks, Known(t),
         NEW w \in Workers, NEW u \in Tasks, Settle(w, u), t # u,
         Unmoved(t), task'[t] = task[t]
  PROVE  Stored(t)'
<1>1. u = held[w].id /\ Reply(w, "poll", Nothing) /\ t # None
  BY SettledEffect, ConstantsAssumption
<1>2. /\ \A v \in Workers \ {w} : held'[v] = held[v]
      /\ held'[w].id = None /\ (faults' = 0 => faults = 0)
  BY <1>1, ReplyHands DEF Nothing
<1>3. InHand(t)' = InHand(t)
  BY <1>1, <1>2 DEF InHand
<1> QED
  BY <1>2, <1>3, UnmovedStored

\* What Ack and Nack know of an id enqueued once whose worker they serve.
LEMMA LastCopy ==
  ASSUME TypeOK, Unrepeated', NEW t \in Once, Lives(t), NEW w \in Workers,
         Settle(w, t)
  PROVE  /\ ~Waits(t) /\ dead[t] = 0 /\ processing'[t] = 0
         /\ attempts'[t] = attempts[t] /\ immediate' = immediate
         /\ pc[w] = "nackDead" => attempts[t] = held[w].retry
<1>1. /\ t \in Tasks /\ processing[t] \in Nat /\ t = held[w].id
      /\ processing[t] > 0 /\ processing'[t] = processing[t] - 1
      /\ UNCHANGED <<immediate, attempts>>
  BY SettledEffect DEF Once, TypeOK
<1>2. processing[t] <= 1 /\ ~Waits(t) /\ dead[t] = 0 /\ HolderCounts(w, t)
  BY <1>1 DEF Lives, Safe, Exclusive, Counted
<1> QED
  BY <1>1, <1>2 DEF HolderCounts

LEMMA AckStored ==
  ASSUME TypeOK, TypeOK', Unrepeated', NEW t \in Tasks, Known(t),
         NEW w \in Workers, Ack(w)
  PROVE  Stored(t)'
<1>1. PICK u \in Tasks :
        /\ Settle(w, u)
        /\ acked' = acked \cup {u} /\ task'[u] = Absent
        /\ UNCHANGED <<immediate, delayed, dead>>
        /\ \A x \in Tasks \ {u} : Unmoved(x) /\ task'[x] = task[x]
  BY AckEffect
<1>2. CASE t # u
  BY <1>1, <1>2, OtherSettled
<1>3. CASE t = u
  <2>1. Backed(t)'
    BY <1>1, <1>3, SettledHands DEF Known, Stored
  <2>2. ASSUME t \in Once PROVE Kept(t)'
    <3>1. ~Waits(t) /\ dead[t] = 0 /\ processing'[t] = 0
      BY <1>1, <1>3, <2>2, LastCopy DEF Known
    <3>2. ~Listed(t)' /\ t \in acked' /\ dead'[t] = 0
      BY <1>1, <1>3, <3>1 DEF Listed, Waits
    <3> QED
      BY <3>1, <3>2 DEF Kept
  <2> QED
    BY <2>1, <2>2 DEF Stored, Once
<1> QED
  BY <1>2, <1>3

LEMMA NackRetryStored ==
  ASSUME TypeOK, TypeOK', Unrepeated', NEW t \in Tasks, Known(t),
         NEW w \in Workers, NackRetry(w)
  PROVE  Stored(t)'
<1>1. PICK u \in Tasks :
        /\ Settle(w, u) /\ Waits(u)'
        /\ task'[u] = [status |-> "pending", retry |-> held[w].retry]
        /\ UNCHANGED <<dead, acked>>
        /\ \A x \in Tasks \ {u} : Unmoved(x) /\ task'[x] = task[x]
  BY NackRetryEffect
<1>2. CASE t # u
  BY <1>1, <1>2, OtherSettled
<1>3. CASE t = u
  <2>1. Listed(t)' /\ task'[t] # Absent
    BY <1>1, <1>3 DEF Listed, Absent
  <2>2. Backed(t)'
    BY <1>1, <1>3, <2>1, SettledHands DEF Known, Stored
  <2>3. ASSUME t \in Once PROVE Kept(t)'
    <3>1. dead[t] = 0 /\ processing'[t] = 0
      BY <1>1, <1>3, <2>3, LastCopy DEF Known
    <3> QED
      BY <1>1, <2>1, <3>1 DEF Kept
  <2> QED
    BY <2>2, <2>3 DEF Stored, Once
<1> QED
  BY <1>2, <1>3

LEMMA NackDeadStored ==
  ASSUME TypeOK, TypeOK', Unrepeated', NEW t \in Tasks, Known(t),
         NEW w \in Workers, NackDead(w)
  PROVE  Stored(t)'
<1>1. PICK u \in Tasks :
        /\ Settle(w, u) /\ dead'[u] = dead[u] + 1
        /\ task'[u] = [status |-> "dead_letter", retry |-> held[w].retry]
        /\ \A x \in Tasks \ {u} : Unmoved(x) /\ task'[x] = task[x]
  BY NackDeadEffect
<1>2. CASE t # u
  BY <1>1, <1>2, OtherSettled
<1>3. CASE t = u
  <2>1. Listed(t)' /\ task'[t] # Absent /\ task'[t].retry = held[w].retry
    <3>1. dead[t] \in Nat /\ dead'[t] = dead[t] + 1
      BY <1>1, <1>3 DEF TypeOK
    <3>2. task'[t] = [status |-> "dead_letter", retry |-> held[w].retry]
      BY <1>1, <1>3
    <3>3. task'[t] # Absent /\ task'[t].retry = held[w].retry
      BY <3>2 DEF Absent
    <3> QED
      BY <3>1, <3>3 DEF Listed
  <2>2. Backed(t)'
    BY <1>1, <1>3, <2>1, SettledHands DEF Known, Stored
  <2>3. ASSUME t \in Once PROVE Kept(t)'
    <3>1. pc[w] = "nackDead"
      BY DEF NackDead
    <3>2. attempts'[t] = held[w].retry /\ processing'[t] = 0
      BY <1>1, <1>3, <2>3, <3>1, LastCopy DEF Known
    <3> QED
      BY <2>1, <3>2 DEF Kept
  <2> QED
    BY <2>2, <2>3 DEF Stored, Once
<1> QED
  BY <1>2, <1>3

-----------------------------------------------------------------------------
(* The invariant holds.                                                    *)

LEMMA InitKept == Init => KeptInv
<1> SUFFICES ASSUME Init PROVE KeptInv
  OBVIOUS
<1> SUFFICES ASSUME NEW t \in Tasks PROVE Stored(t)
  BY DEF Init, KeptInv
<1>1. InHand(t) = {}
  BY ConstantsAssumption DEF Init, InHand, Nothing
<1>2. Backed(t)
  BY <1>1, FS_EmptySet DEF Init, Backed
<1>3. ~Listed(t)
  BY DEF Init, Listed, Waits, Range
<1>4. Kept(t)
  BY <1>3 DEF Init, Kept
<1> QED
  BY <1>2, <1>4 DEF Stored

LEMMA NextKept ==
  Unrepeated' /\ Inv /\ LifeInv /\ LosslessInv /\ KeptInv /\ [Next]_vars => KeptInv'
<1> SUFFICES ASSUME Unrepeated', Inv, LifeInv, LosslessInv, KeptInv,
                    [Next]_vars, purges' = 0
             PROVE  (purger = "idle" /\ \A t \in Tasks : Stored(t))'
  BY DEF KeptInv
<1>1. TypeOK /\ TypeOK'
  BY NextType DEF Inv
<1>2. /\ purges = 0 /\ purger' = "idle"
      /\ ~PurgeStart /\ ~PurgeLists /\ ~PurgeKeys /\ ~PurgeFails
  BY <1>1, NoPurge DEF KeptInv
<1>3. ASSUME NEW t \in Tasks PROVE Stored(t)'
  <2>1. Known(t)
    BY <1>2 DEF Known, KeptInv, Inv, LifeInv, LosslessInv, Lives, Safe
  <2>2. CASE \/ \E u \in Tasks : Enqueue(u)
             \/ \E u \in Tasks, d \in Delays : EnqueueWithDelay(u, d)
    BY <1>1, <2>1, <2>2, SubmitStored
  <2>3. ASSUME NEW w \in Workers, Worker(w) \/ Abandon(w) PROVE Stored(t)'
    BY <1>1, <1>2, <2>1, <2>3, StillStored, OrphanStored, TakeStored, MarkStored,
       AckStored, NackRetryStored, NackDeadStored DEF Worker
  <2>4. CASE Tick \/ (\E u \in Tasks : ExpireTimeout(u)) \/ UNCHANGED vars
    BY <1>1, <1>2, <2>1, <2>4, StillStored
  <2> QED
    BY <1>2, <2>2, <2>3, <2>4 DEF Next
<1> QED
  BY <1>2, <1>3

(* As long as no command was executed twice, the invariants hold together  *)
(* in every reachable state.                                               *)
THEOREM KeptAlways ==
  Spec => [](TypeOK /\ LosslessInv /\ (Unrepeated => Inv /\ LifeInv /\ KeptInv))
<1>1. Init => (Unrepeated => Inv /\ LifeInv /\ KeptInv)
  BY InitInv, InitLife, InitKept
<1>2. TypeOK /\ LosslessInv /\ (Unrepeated => Inv /\ LifeInv /\ KeptInv) /\ [Next]_vars
        => (Unrepeated => Inv /\ LifeInv /\ KeptInv)'
  BY NextInv, NextLife, NextKept, UnrepeatedBefore
<1> QED
  BY PlacedAlways, <1>1, <1>2, PTL DEF Spec

-----------------------------------------------------------------------------
(* The safety properties of data, counts and entries.                      *)

(* A listed id never misses its data and data never misses its id, for ids *)
(* enqueued once.                                                          *)
THEOREM DataIffReferencedAlways == Spec => [](Unrepeated => DataIffReferenced)
<1>1. Inv /\ LosslessInv /\ KeptInv => DataIffReferenced
  <2> SUFFICES ASSUME Inv, LosslessInv, KeptInv, purges = 0, NEW t \in Once
               PROVE  task[t] # Absent <=> Copies(t) > 0
    BY DEF DataIffReferenced
  <2>1. t \in Tasks /\ TypeOK /\ Backed(t) /\ Lossless(t)
    BY DEF Inv, LosslessInv, KeptInv, Stored, Once
  <2> QED
    BY <2>1, CopiesListed DEF Backed, Lossless
<1> QED
  BY KeptAlways, <1>1, PTL

(* No copy a worker writes back loses a count of a task that waits or is   *)
(* dead.                                                                   *)
THEOREM RetryCountAlways == Spec => [](Unrepeated => RetryCountIsAttempts)
<1>1. Inv /\ LosslessInv /\ KeptInv => RetryCountIsAttempts
  <2> SUFFICES ASSUME Inv, LosslessInv, KeptInv, purges = 0, NEW t \in Once,
                      Copies(t) > processing[t]
               PROVE  task[t].retry = attempts[t]
    BY DEF RetryCountIsAttempts
  <2>1. t \in Tasks /\ TypeOK /\ Counted(t) /\ Kept(t) /\ Lossless(t)
    BY DEF Inv, LosslessInv, KeptInv, Stored, Once
  <2>2. Waits(t) \/ dead[t] > 0
    BY <2>1, CopiesListed
  <2>3. CASE Waits(t)
    <3>1. task[t] # Absent
      BY <2>1, <2>3 DEF Lossless, Listed
    <3> QED
      BY <2>1, <2>3, <3>1 DEF Counted
  <2>4. CASE dead[t] > 0
    BY <2>1, <2>4 DEF Kept
  <2> QED
    BY <2>2, <2>3, <2>4
<1> QED
  BY KeptAlways, <1>1, PTL

(* Without a fault, and whether the client resends or not, no interleaving *)
(* leaves an id in PROCESSING alone, or a worker without its entry there.  *)
THEOREM LeakNeedsFaultAlways == Spec => []LeakNeedsFault
<1>1. Inv /\ KeptInv => LeakNeedsFault
  <2> SUFFICES ASSUME Inv, KeptInv, faults = 0, purges = 0, NEW t \in Once
               PROVE  processing[t] = Cardinality(InHand(t))
    BY DEF LeakNeedsFault
  <2>1. /\ t \in Tasks /\ Exclusive(t) /\ Backed(t) /\ Kept(t)
        /\ processing[t] \in Nat
    BY DEF Inv, KeptInv, Stored, Once, TypeOK
  <2>2. CASE InHand(t) = {}
    <3>1. processing[t] = 0
      BY <2>1, <2>2 DEF Kept
    <3> QED
      BY <2>2, <3>1, FS_EmptySet
  <2>3. CASE InHand(t) # {}
    <3>1. PICK w \in Workers : held[w].id = t
      BY <2>3 DEF InHand
    <3>2. InHand(t) = {w}
      BY <2>1, <3>1 DEF InHand, Exclusive
    <3>3. Cardinality(InHand(t)) = 1
      BY <3>2, FS_Singleton
    <3> QED
      BY <2>1, <3>3 DEF Backed, Exclusive
  <2> QED
    BY <2>2, <2>3
<1>2. ~Unrepeated => LeakNeedsFault
  BY DEF Unrepeated, LeakNeedsFault
<1> QED
  BY KeptAlways, <1>1, <1>2, PTL

(* Each worker's Ack or Nack finds an entry of its own in PROCESSING, also *)
(* for an id enqueued more than once.                                      *)
THEOREM HeldIsProcessingAlways == Spec => [](Unrepeated => HeldIsProcessing)
<1>1. KeptInv => HeldIsProcessing
  BY DEF KeptInv, Stored, Backed, HeldIsProcessing
<1> QED
  BY KeptAlways, <1>1, PTL

(* No data outlives the last list entry of its id, also for an id enqueued *)
(* more than once.                                                         *)
THEOREM DataIsReferencedAlways == Spec => [](Unrepeated => DataIsReferenced)
<1>1. Inv /\ KeptInv => DataIsReferenced
  <2> SUFFICES ASSUME Inv, KeptInv, purges = 0, NEW t \in Tasks, task[t] # Absent
               PROVE  Copies(t) > 0
    BY DEF DataIsReferenced
  <2>1. TypeOK /\ Backed(t)
    BY DEF Inv, KeptInv, Stored
  <2> QED
    BY <2>1, CopiesListed DEF Backed
<1> QED
  BY KeptAlways, <1>1, PTL
=============================================================================
