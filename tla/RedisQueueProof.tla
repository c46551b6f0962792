--------------------------- MODULE RedisQueueProof --------------------------
(* Machine-checked proofs about RedisQueue.                                *)
EXTENDS RedisQueueProperties, TLAPS, FiniteSetTheorems, SequenceTheorems

-----------------------------------------------------------------------------
(* Type correctness.                                                       *)

\* The order in which a batch is moved is a sequence of its ids.
LEMMA BatchOrder ==
  ASSUME NEW batch \in SUBSET Tasks, NEW order \in SetToSeqs(batch)
  PROVE  /\ order \in Seq(batch)
         /\ order \in Seq(Tasks)
         /\ \A i, j \in DOMAIN order : order[i] = order[j] => i = j
<1>1. IsFiniteSet(batch)
  BY ConstantsAssumption, FS_Subset
<1>2. Cardinality(batch) \in Nat
  BY <1>1, FS_CardinalityType
<1>3. order \in [1..Cardinality(batch) -> batch]
  BY DEF SetToSeqs
<1>4. order \in Seq(batch) /\ order \in Seq(Tasks)
  BY <1>2, <1>3
<1>5. \A i, j \in DOMAIN order : order[i] = order[j] => i = j
  BY <1>3 DEF SetToSeqs
<1> QED
  BY <1>4, <1>5

\* The ways a command ends for the worker keep the worker's variables typed.
LEMMA ReplyType ==
  ASSUME TypeOK, NEW w \in Workers, NEW next \in Steps, NEW copy \in TaskCopy,
         copy.id = None <=> next \in {"poll", "dequeue"},
         Reply(w, next, copy)
  PROVE  /\ pc' \in [Workers -> Steps]
         /\ held' \in [Workers -> TaskCopy]
         /\ \A v \in Workers : held'[v].id = None <=> pc'[v] \in {"poll", "dequeue"}
         /\ faults' \in Nat
<1>1. Nothing \in TaskCopy /\ Nothing.id = None /\ "poll" \in Steps
  BY DEF Nothing, TaskCopy, Steps
<1>2. pc \in [Workers -> Steps] /\ held \in [Workers -> TaskCopy] /\ faults \in Nat
      /\ \A v \in Workers : (held[v].id = None) <=> (pc[v] \in {"poll", "dequeue"})
  BY DEF TypeOK
<1>3. faults' \in Nat
  BY <1>2 DEF Reply
<1>4. pc' \in [Workers -> Steps]
  BY <1>1, <1>2 DEF Reply
<1>5. held' \in [Workers -> TaskCopy]
  BY <1>1, <1>2 DEF Reply
<1>6. \A v \in Workers : (held'[v].id = None) <=> (pc'[v] \in {"poll", "dequeue"})
  <2>1. CASE UNCHANGED <<pc, held>>
    BY <2>1, <1>2
  <2>2. ASSUME NEW n, NEW c, pc' = [pc EXCEPT ![w] = n],
               held' = [held EXCEPT ![w] = c],
               (c.id = None) <=> (n \in {"poll", "dequeue"})
        PROVE  \A v \in Workers :
                 (held'[v].id = None) <=> (pc'[v] \in {"poll", "dequeue"})
    <3> TAKE v \in Workers
    <3>1. CASE v = w
      BY <2>2, <1>2, <3>1
    <3>2. CASE v # w
      BY <2>2, <1>2, <3>2
    <3> QED
      BY <3>1, <3>2
  <2> QED
    BY <1>1, <2>1, <2>2 DEF Reply
<1> QED
  BY <1>3, <1>4, <1>5, <1>6

\* HINCRBY keeps the statistics typed.
LEMMA StatsType ==
  ASSUME NEW s \in [completed : Nat, failed : Nat, dead_letter : Nat]
  PROVE  /\ [s EXCEPT !.completed = @ + 1]
              \in [completed : Nat, failed : Nat, dead_letter : Nat]
         /\ [s EXCEPT !.failed = @ + 1]
              \in [completed : Nat, failed : Nat, dead_letter : Nat]
         /\ [s EXCEPT !.dead_letter = @ + 1]
              \in [completed : Nat, failed : Nat, dead_letter : Nat]
<1>1. s.completed \in Nat /\ s.failed \in Nat /\ s.dead_letter \in Nat
  OBVIOUS
<1>2. s.completed + 1 \in Nat /\ s.failed + 1 \in Nat /\ s.dead_letter + 1 \in Nat
  BY <1>1
<1> QED
  BY <1>2, Zenon

LEMMA InitType == Init => TypeOK
  BY ConstantsAssumption
  DEF Init, TypeOK, Absent, Nothing, NotDelayed, Statuses, Steps, PurgeSteps,
      TaskCopy

\* One step per action.
LEMMA NextType == TypeOK /\ [Next]_vars => TypeOK'
<1> SUFFICES ASSUME TypeOK, [Next]_vars PROVE TypeOK'
  OBVIOUS
<1> USE DEF store, lists, keys, client, purgeVars, history
<1>a. Absent \in [status : Statuses, retry : Nat] /\ Nothing \in TaskCopy
      /\ Nothing.id = None /\ NotDelayed \in Nat \cup {NotDelayed}
  BY DEF Absent, Nothing, NotDelayed, Statuses, TaskCopy
<1>1. ASSUME NEW t \in Tasks, Submit(t),
             immediate' \in Seq(Tasks), delayed' \in [Tasks -> Nat \cup {NotDelayed}]
      PROVE  TypeOK'
  <2>1. task' \in [Tasks -> [status : Statuses, retry : Nat]]
    BY <1>1 DEF Submit, TypeOK, Statuses
  <2>2. enqueued' \in [Tasks -> Nat]
    BY <1>1 DEF Submit, TypeOK
  <2> QED
    BY <1>1, <2>1, <2>2 DEF Submit, TypeOK
<1>2. ASSUME NEW t \in Tasks, Enqueue(t) PROVE TypeOK'
  <2>1. immediate' \in Seq(Tasks) /\ delayed' \in [Tasks -> Nat \cup {NotDelayed}]
    BY <1>2 DEF Enqueue, TypeOK
  <2> QED
    BY <1>1, <1>2, <2>1 DEF Enqueue
<1>3. ASSUME NEW t \in Tasks, NEW d \in Delays, EnqueueWithDelay(t, d)
      PROVE  TypeOK'
  <2>1. immediate' \in Seq(Tasks) /\ delayed' \in [Tasks -> Nat \cup {NotDelayed}]
    BY <1>3, ConstantsAssumption DEF EnqueueWithDelay, TypeOK
  <2> QED
    BY <1>1, <1>3, <2>1 DEF EnqueueWithDelay
<1>4. ASSUME NEW w \in Workers, MoveDelayed(w) PROVE TypeOK'
  <2>1. PICK batch \in SUBSET Due :
          /\ \E order \in SetToSeqs(batch) : immediate' = immediate \o order
          /\ delayed' = [t \in Tasks |->
                           IF t \in batch THEN NotDelayed ELSE delayed[t]]
    BY <1>4 DEF MoveDelayed
  <2>2. batch \in SUBSET Tasks
    BY DEF Due
  <2>3. immediate' \in Seq(Tasks)
    <3>1. PICK order \in SetToSeqs(batch) : immediate' = immediate \o order
      BY <2>1
    <3>2. order \in Seq(Tasks)
      BY <2>2, BatchOrder
    <3> QED
      BY <3>1, <3>2 DEF TypeOK
  <2>4. delayed' \in [Tasks -> Nat \cup {NotDelayed}]
    BY <2>1 DEF TypeOK
  <2>5. Reply(w, "dequeue", Nothing)
    BY <1>4 DEF MoveDelayed
  <2>6. /\ pc' \in [Workers -> Steps] /\ held' \in [Workers -> TaskCopy]
        /\ \A v \in Workers :
             (held'[v].id = None) <=> (pc'[v] \in {"poll", "dequeue"})
        /\ faults' \in Nat
    BY <1>a, <2>5, ReplyType DEF Steps
  <2> QED
    BY <1>4, <2>3, <2>4, <2>6 DEF MoveDelayed, TypeOK
<1>5. ASSUME NEW w \in Workers,
             \/ DequeueEmpty(w) \/ DequeueOrphan(w)
             \/ NotProcessing(w) \/ NackGetMissing(w)
      PROVE  TypeOK'
  <2>1. Reply(w, "poll", Nothing)
    BY <1>5 DEF DequeueEmpty, DequeueOrphan, NotProcessing, NackGetMissing
  <2>2. /\ pc' \in [Workers -> Steps] /\ held' \in [Workers -> TaskCopy]
        /\ \A v \in Workers :
             (held'[v].id = None) <=> (pc'[v] \in {"poll", "dequeue"})
        /\ faults' \in Nat
    BY <1>a, <2>1, ReplyType DEF Steps
  <2>3. immediate' \in Seq(Tasks)
    <3>1. CASE DequeueOrphan(w)
      BY <3>1, HeadTailProperties DEF DequeueOrphan, TypeOK
    <3>2. CASE ~DequeueOrphan(w)
      BY <1>5, <3>2 DEF DequeueEmpty, NotProcessing, NackGetMissing, TypeOK
    <3> QED
      BY <3>1, <3>2
  <2> QED
    BY <1>5, <2>2, <2>3
    DEF DequeueEmpty, DequeueOrphan, NotProcessing, NackGetMissing, TypeOK
<1>6. ASSUME NEW w \in Workers, DequeueTask(w) PROVE TypeOK'
  <2> DEFINE t == Head(immediate)
             copy == [id |-> t, retry |-> task[t].retry]
  <2>1. t \in Tasks /\ immediate' \in Seq(Tasks)
        /\ processing' \in [Tasks -> Nat] /\ timeout' \in SUBSET Tasks
    BY <1>6, SMTT(40) DEF DequeueTask, RPopLPush, TypeOK
  <2>2. copy \in TaskCopy /\ copy.id # None
    BY <2>1, ConstantsAssumption DEF TypeOK, TaskCopy
  <2>3. Reply(w, "mark", copy)
    BY <1>6 DEF DequeueTask
  <2>4. /\ pc' \in [Workers -> Steps] /\ held' \in [Workers -> TaskCopy]
        /\ \A v \in Workers :
             (held'[v].id = None) <=> (pc'[v] \in {"poll", "dequeue"})
        /\ faults' \in Nat
    BY <2>2, <2>3, ReplyType DEF Steps
  <2> QED
    BY <1>6, <2>1, <2>4 DEF DequeueTask, TypeOK
<1>7. ASSUME NEW w \in Workers, MarkProcessing(w) PROVE TypeOK'
  <2> DEFINE t == held[w].id
  <2>1. held[w] \in TaskCopy /\ t # None
    BY <1>7 DEF MarkProcessing, TypeOK
  <2>2. t \in Tasks /\ held[w].retry \in Nat
    BY <2>1 DEF TaskCopy
  <2>3. Reply(w, "handle", held[w])
    BY <1>7 DEF MarkProcessing
  <2>4. /\ pc' \in [Workers -> Steps] /\ held' \in [Workers -> TaskCopy]
        /\ \A v \in Workers :
             (held'[v].id = None) <=> (pc'[v] \in {"poll", "dequeue"})
        /\ faults' \in Nat
    BY <2>1, <2>3, ReplyType DEF Steps
  <2>5. task' \in [Tasks -> [status : Statuses, retry : Nat]]
    BY <1>7, <2>2 DEF MarkProcessing, TypeOK, Statuses
  <2>6. attempts' \in [Tasks -> Nat]
    BY <1>7, <2>2, SMTT(40) DEF MarkProcessing, TypeOK
  <2> QED
    BY <1>7, <2>4, <2>5, <2>6 DEF MarkProcessing, TypeOK
<1>8. ASSUME NEW w \in Workers, HandlerSucceeds(w) \/ HandlerFails(w)
      PROVE  TypeOK'
  <2>1. held[w] \in TaskCopy /\ held[w].id # None /\ pc[w] = "handle"
    BY <1>8 DEF HandlerSucceeds, HandlerFails, TypeOK
  <2>2. held[w].id \in Tasks
    BY <2>1 DEF TaskCopy
  <2>3. succeeded' \in SUBSET Tasks
    BY <1>8, <2>2 DEF HandlerSucceeds, HandlerFails, TypeOK
  <2>4. pc' \in [Workers -> Steps]
    BY <1>8 DEF HandlerSucceeds, HandlerFails, TypeOK, Steps
  <2>5. \A v \in Workers : (held'[v].id = None) <=> (pc'[v] \in {"poll", "dequeue"})
    BY <1>8, <2>1 DEF HandlerSucceeds, HandlerFails, TypeOK
  <2> QED
    BY <1>8, <2>3, <2>4, <2>5 DEF HandlerSucceeds, HandlerFails, TypeOK
<1>9. ASSUME NEW w \in Workers, NEW t \in Tasks, Settle(w, t)
      PROVE  /\ processing' \in [Tasks -> Nat] /\ timeout' \in SUBSET Tasks
             /\ held[w].retry \in Nat
             /\ pc' \in [Workers -> Steps] /\ held' \in [Workers -> TaskCopy]
             /\ \A v \in Workers :
                  (held'[v].id = None) <=> (pc'[v] \in {"poll", "dequeue"})
             /\ faults' \in Nat
  <2>1. processing' \in [Tasks -> Nat] /\ timeout' \in SUBSET Tasks
    BY <1>9 DEF Settle, LRem, TypeOK
  <2>2. Reply(w, "poll", Nothing)
    BY <1>9 DEF Settle
  <2>3. held[w].retry \in Nat
    BY DEF TypeOK, TaskCopy
  <2> QED
    BY <1>a, <2>1, <2>2, <2>3, ReplyType DEF Steps
<1>10. ASSUME NEW w \in Workers, Ack(w) PROVE TypeOK'
  <2>1. PICK t \in Tasks : Settle(w, t) /\ DeleteData(t) /\ acked' = acked \cup {t}
    BY <1>10 DEF Ack
  <2>2. task' \in [Tasks -> [status : Statuses, retry : Nat]]
        /\ acked' \in SUBSET Tasks
    BY <1>a, <2>1 DEF DeleteData, TypeOK
  <2>3. stats' \in [completed : Nat, failed : Nat, dead_letter : Nat]
    BY <1>10, StatsType DEF Ack, TypeOK
  <2> QED
    BY <1>9, <1>10, <2>1, <2>2, <2>3 DEF Ack, Settle, TypeOK
<1>11. ASSUME NEW w \in Workers, NackGet(w) PROVE TypeOK'
  <2> DEFINE retry == task[held[w].id].retry + 1
             copy == [id |-> held[w].id, retry |-> retry]
  <2>1. held[w] \in TaskCopy /\ held[w].id # None
    BY <1>11 DEF NackGet, TypeOK
  <2>2. held[w].id \in Tasks
    BY <2>1 DEF TaskCopy
  <2>3. copy \in TaskCopy /\ copy.id # None
    BY <2>1, <2>2 DEF TypeOK, TaskCopy
  <2>4. Reply(w, AfterFailure(retry), copy)
    BY <1>11 DEF NackGet
  <2>5. AfterFailure(retry) \in {"nackDead", "nackRetry"}
    BY DEF AfterFailure
  <2>6. /\ pc' \in [Workers -> Steps] /\ held' \in [Workers -> TaskCopy]
        /\ \A v \in Workers :
             (held'[v].id = None) <=> (pc'[v] \in {"poll", "dequeue"})
        /\ faults' \in Nat
    BY <2>3, <2>4, <2>5, ReplyType DEF Steps
  <2> QED
    BY <1>11, <2>6 DEF NackGet, TypeOK
<1>12. ASSUME NEW w \in Workers, NackRetry(w) PROVE TypeOK'
  <2>1. PICK t \in Tasks, d \in RetryDelays :
          /\ Settle(w, t)
          /\ SaveData(w, t, "pending")
          /\ delayed' = [delayed EXCEPT ![t] = d]
    BY <1>12 DEF NackRetry
  <2>2. task' \in [Tasks -> [status : Statuses, retry : Nat]]
    BY <1>9, <2>1 DEF SaveData, TypeOK, Statuses
  <2>3. delayed' \in [Tasks -> Nat \cup {NotDelayed}]
    BY <2>1, ConstantsAssumption DEF TypeOK
  <2>4. stats' \in [completed : Nat, failed : Nat, dead_letter : Nat]
    BY <1>12, StatsType DEF NackRetry, TypeOK
  <2> QED
    BY <1>9, <1>12, <2>1, <2>2, <2>3, <2>4 DEF NackRetry, Settle, TypeOK
<1>13. ASSUME NEW w \in Workers, NackDead(w) PROVE TypeOK'
  <2>1. PICK t \in Tasks :
          Settle(w, t) /\ SaveData(w, t, "dead_letter") /\ PushDead(t)
    BY <1>13 DEF NackDead
  <2>2. task' \in [Tasks -> [status : Statuses, retry : Nat]]
    BY <1>9, <2>1 DEF SaveData, TypeOK, Statuses
  <2>3. dead' \in [Tasks -> Nat]
    BY <2>1 DEF PushDead, TypeOK
  <2>4. stats' \in [completed : Nat, failed : Nat, dead_letter : Nat]
    BY <1>13, StatsType DEF NackDead, TypeOK
  <2> QED
    BY <1>9, <1>13, <2>1, <2>2, <2>3, <2>4 DEF NackDead, Settle, TypeOK
<1>14. ASSUME NEW w \in Workers, Abandon(w) PROVE TypeOK'
  <2>1. pc' \in [Workers -> Steps] /\ held' \in [Workers -> TaskCopy]
        /\ faults' \in Nat
    BY <1>a, <1>14 DEF Abandon, TypeOK, Steps
  <2>2. \A v \in Workers : (held'[v].id = None) <=> (pc'[v] \in {"poll", "dequeue"})
    BY <1>a, <1>14 DEF Abandon, TypeOK
  <2> QED
    BY <1>14, <2>1, <2>2 DEF Abandon, TypeOK
<1>15. ASSUME Tick PROVE TypeOK'
  <2>1. delayed' \in [Tasks -> Nat \cup {NotDelayed}]
    BY <1>15, SMTT(40) DEF Tick, TypeOK, NotDelayed
  <2> QED
    BY <1>15, <2>1 DEF Tick, TypeOK
<1>16. ASSUME NEW t \in Tasks, ExpireTimeout(t) PROVE TypeOK'
  BY <1>16 DEF ExpireTimeout, TypeOK
<1>17. ASSUME PurgeStart PROVE TypeOK'
  BY <1>17 DEF PurgeStart, TypeOK, PurgeSteps
<1>18. ASSUME PurgeLists PROVE TypeOK'
  <2>1. immediate' \in Seq(Tasks)
    <3>1. immediate' = immediate \/ immediate' = <<>>
      BY <1>18 DEF PurgeLists
    <3>2. <<>> \in Seq(Tasks) /\ immediate \in Seq(Tasks)
      BY EmptySeq DEF TypeOK
    <3> QED
      BY <3>1, <3>2, Zenon
  <2>2. /\ delayed' \in [Tasks -> Nat \cup {NotDelayed}]
        /\ processing' \in [Tasks -> Nat] /\ dead' \in [Tasks -> Nat]
    <3>1. /\ delayed' = delayed \/ delayed' = [t \in Tasks |-> NotDelayed]
          /\ processing' = processing \/ processing' = [t \in Tasks |-> 0]
          /\ dead' = dead \/ dead' = [t \in Tasks |-> 0]
      BY <1>18 DEF PurgeLists
    <3>2. delayed' \in [Tasks -> Nat \cup {NotDelayed}]
      <4>1. [t \in Tasks |-> NotDelayed] \in [Tasks -> Nat \cup {NotDelayed}]
        BY <1>a
      <4> QED
        BY <3>1, <4>1 DEF TypeOK
    <3>3. processing' \in [Tasks -> Nat] /\ dead' \in [Tasks -> Nat]
      <4>1. [t \in Tasks |-> 0] \in [Tasks -> Nat]
        OBVIOUS
      <4> QED
        BY <3>1, <4>1 DEF TypeOK
    <3> QED
      BY <3>2, <3>3
  <2>3. stats' \in [completed : Nat, failed : Nat, dead_letter : Nat]
    <3>1. \/ stats' = stats
          \/ stats' = [completed |-> 0, failed |-> 0, dead_letter |-> 0]
      BY <1>18 DEF PurgeLists
    <3> QED
      BY <3>1 DEF TypeOK
  <2>4. purger' \in PurgeSteps
    BY <1>18 DEF PurgeLists, PurgeGoes, PurgeSteps
  <2> QED
    BY <1>18, <2>1, <2>2, <2>3, <2>4 DEF PurgeLists, PurgeGoes, TypeOK
<1>19. ASSUME PurgeKeys PROVE TypeOK'
  <2>1. task' \in [Tasks -> [status : Statuses, retry : Nat]]
    <3> DEFINE kept == [t \in Tasks |-> IF t \in scanned THEN Absent ELSE task[t]]
    <3>1. kept \in [Tasks -> [status : Statuses, retry : Nat]]
      BY <1>a DEF TypeOK
    <3>2. task' = task \/ task' = kept
      BY <1>19 DEF PurgeKeys
    <3>3. task \in [Tasks -> [status : Statuses, retry : Nat]]
      BY DEF TypeOK
    <3> HIDE DEF kept
    <3> QED
      BY <3>1, <3>2, <3>3, Zenon
  <2>2. timeout' \in SUBSET Tasks /\ scanned' \in SUBSET Tasks
        /\ purger' \in PurgeSteps
    BY <1>19 DEF PurgeKeys, PurgeGoes, TypeOK, PurgeSteps
  <2> QED
    BY <1>19, <2>1, <2>2 DEF PurgeKeys, PurgeGoes, TypeOK
<1>20. ASSUME PurgeFails PROVE TypeOK'
  BY <1>20 DEF PurgeFails, TypeOK, PurgeSteps
<1>21. CASE UNCHANGED vars
  BY <1>21 DEF vars, TypeOK
<1> QED
  BY <1>2, <1>3, <1>4, <1>5, <1>6, <1>7, <1>8, <1>10, <1>11, <1>12, <1>13,
     <1>14, <1>15, <1>16, <1>17, <1>18, <1>19, <1>20, <1>21
  DEF Next, Worker

(* Every variable keeps its type, and a worker has a task in hand exactly  *)
(* from dequeueScript to the end of its Ack or Nack.                       *)
THEOREM TypeCorrect == Spec => []TypeOK
  BY InitType, NextType, PTL DEF Spec

-----------------------------------------------------------------------------
(* Where an id is in IMMEDIATE, before and after each change of the list.  *)

LEMMA AppendId ==
  ASSUME NEW s \in Seq(Tasks), NEW u \in Tasks, NEW t \in Tasks
  PROVE  /\ t \in Range(Append(s, u)) <=> t \in Range(s) \/ t = u
         /\ OccursOnce(s, t) /\ (t = u => t \notin Range(s))
              => OccursOnce(Append(s, u), t)
  BY AppendProperties DEF Range, OccursOnce

LEMMA TailId ==
  ASSUME NEW s \in Seq(Tasks), s # <<>>, NEW t \in Tasks, OccursOnce(s, t)
  PROVE  /\ Head(s) \in Tasks
         /\ Head(s) \in Range(s)
         /\ t \in Range(Tail(s)) => t \in Range(s) /\ Head(s) # t
         /\ OccursOnce(Tail(s), t)
<1>1. /\ Head(s) \in Tasks /\ Tail(s) \in Seq(Tasks) /\ Len(Tail(s)) = Len(s) - 1
      /\ \A i \in 1 .. Len(Tail(s)) : Tail(s)[i] = s[i+1]
      /\ Len(s) \in Nat \ {0} /\ DOMAIN s = 1..Len(s) /\ Head(s) = s[1]
      /\ DOMAIN Tail(s) = 1..Len(Tail(s))
  BY HeadTailProperties, EmptySeq, LenProperties
<1>2. t \in Range(Tail(s)) => t \in Range(s) /\ Head(s) # t
  BY <1>1 DEF Range, OccursOnce
<1>3. OccursOnce(Tail(s), t)
  BY <1>1 DEF OccursOnce
<1> QED
  BY <1>1, <1>2, <1>3 DEF Range

LEMMA MoveId ==
  ASSUME NEW s \in Seq(Tasks), NEW batch \in SUBSET Tasks,
         NEW order \in SetToSeqs(batch), NEW t \in Tasks,
         OccursOnce(s, t), t \in batch => t \notin Range(s)
  PROVE  /\ t \in Range(s \o order) => t \in Range(s) \/ t \in batch
         /\ OccursOnce(s \o order, t)
<1> DEFINE n == Len(s)
           m == Len(order)
           c == s \o order
<1>1. /\ order \in Seq(batch) /\ order \in Seq(Tasks)
      /\ \A i, j \in DOMAIN order : order[i] = order[j] => i = j
  BY BatchOrder
<1>2. /\ n \in Nat /\ m \in Nat
      /\ DOMAIN s = 1..n /\ DOMAIN order = 1..m
      /\ c \in Seq(Tasks) /\ Len(c) = n + m /\ DOMAIN c = 1..(n + m)
      /\ \A i \in 1..(n + m) : c[i] = IF i <= n THEN s[i] ELSE order[i - n]
  BY <1>1, ConcatProperties, LenProperties
<1>3. \A i \in 1..m : order[i] \in batch
  BY <1>1, <1>2, ElementOfSeq
<1>4. \A i \in 1..(n + m) :
         \/ i \in 1..n /\ c[i] = s[i]
         \/ i - n \in 1..m /\ c[i] = order[i - n] /\ c[i] \in batch
  BY <1>2, <1>3
<1>5. t \in Range(c) => t \in Range(s) \/ t \in batch
  BY <1>2, <1>4 DEF Range
<1>6. ASSUME NEW i \in 1..(n + m), NEW j \in 1..(n + m), c[i] = t, c[j] = t
      PROVE  i = j
  <2>1. CASE t \in batch
    <3>1. t \notin Range(s)
      BY <2>1
    <3>2. i - n \in 1..m /\ j - n \in 1..m /\ order[i - n] = order[j - n]
      BY <1>2, <1>4, <1>6, <3>1 DEF Range
    <3>3. i - n = j - n
      BY <1>1, <1>2, <3>2
    <3> QED
      BY <1>2, <3>3
  <2>2. CASE t \notin batch
    BY <1>2, <1>4, <1>6, <2>2 DEF OccursOnce
  <2> QED
    BY <2>1, <2>2
<1>7. OccursOnce(c, t)
  BY <1>2, <1>6 DEF OccursOnce
<1> QED
  BY <1>5, <1>7

-----------------------------------------------------------------------------
(* The inductive invariant.                                                *)

\* Inv, for one id.
Safe(t) == Exclusive(t) /\ Fresh(t) /\ Counted(t) /\ Finished(t)

\* No worker has the id that did not have it before, and who has it is where
\* it was.
SameHolders(t) ==
  \A v \in Workers :
    held'[v].id = t => held[v].id = t /\ held'[v] = held[v] /\ pc'[v] = pc[v]

\* A worker whose command is not sent again moves on, or gives the task up.
LEMMA ReplyEffect ==
  ASSUME TypeOK, Unrepeated', NEW w \in Workers, NEW next, NEW copy,
         Reply(w, next, copy)
  PROVE  /\ \A v \in Workers \ {w} : pc'[v] = pc[v] /\ held'[v] = held[v]
         /\ \/ pc'[w] = next /\ held'[w] = copy
            \/ pc'[w] = "poll" /\ held'[w].id = None
<1>1. pc \in [Workers -> Steps] /\ held \in [Workers -> TaskCopy]
  BY DEF TypeOK
<1>2. Nothing.id = None
  BY DEF Nothing
<1>3. ~ (Resends /\ faults' = faults + 1)
  <2>1. faults \in Nat /\ faults + 1 # 0
    BY DEF TypeOK
  <2> QED
    BY <2>1 DEF Unrepeated
<1> QED
  BY <1>1, <1>2, <1>3 DEF Reply

LEMMA ReplyDrops ==
  ASSUME TypeOK, Unrepeated', NEW w \in Workers, Reply(w, "poll", Nothing),
         NEW t \in Tasks
  PROVE  SameHolders(t) /\ held'[w].id # t
<1>1. Nothing.id # t /\ None # t
  BY ConstantsAssumption DEF Nothing
<1> QED
  BY <1>1, ReplyEffect DEF SameHolders

\* A step that gives an id to nobody, counts nothing and puts it nowhere new
\* keeps it safe: this covers Purge, faults, time and the steps of other ids.
LEMMA QuietStep ==
  ASSUME TypeOK, TypeOK', NEW t \in Once, Safe(t), SameHolders(t),
         enqueued'[t] = enqueued[t],
         attempts'[t] = attempts[t],
         t \in succeeded' => t \in succeeded,
         OccursOnce(immediate', t),
         Waits(t)' => Waits(t),
         t \in Range(immediate') => delayed'[t] = NotDelayed,
         processing'[t] <= processing[t],
         dead'[t] <= dead[t],
         task'[t] \in {task[t], Absent}
  PROVE  Safe(t)'
<1>0. /\ t \in Tasks
      /\ processing[t] \in Nat /\ processing'[t] \in Nat
      /\ dead[t] \in Nat /\ dead'[t] \in Nat
      /\ enqueued[t] \in Nat /\ attempts[t] \in Nat
  BY DEF TypeOK, Once
<1>1. Exclusive(t)'
  BY <1>0 DEF Safe, Exclusive, SameHolders
<1>2. Fresh(t)'
  BY <1>0 DEF Safe, Fresh, SameHolders
<1>3. Counted(t)'
  <2>1. ASSUME NEW w \in Workers, held'[w].id = t PROVE HolderCounts(w, t)'
    BY <2>1 DEF Safe, Counted, HolderCounts, SameHolders
  <2> QED
    BY <1>0, <2>1 DEF Safe, Counted
<1>4. Finished(t)'
  BY <1>0 DEF Safe, Finished, SameHolders
<1> QED
  BY <1>1, <1>2, <1>3, <1>4 DEF Safe

\* The steps that matter for the id itself, one lemma each.

LEMMA SubmitSafe ==
  ASSUME TypeOK, TypeOK', NEW t \in Once, Safe(t), NEW u \in Tasks,
         Enqueue(u) \/ (\E d \in Delays : EnqueueWithDelay(u, d))
  PROVE  Safe(t)'
<1> USE DEF client, purgeVars
<1>0. /\ t \in Tasks /\ MaxEnqueues[t] <= 1 /\ MaxEnqueues[t] \in Nat
      /\ enqueued[t] \in Nat /\ MaxRetries \in Nat
      /\ processing[t] \in Nat /\ dead[t] \in Nat
      /\ OccursOnce(immediate, t)
  BY ConstantsAssumption DEF TypeOK, Once, Safe, Exclusive
<1>1. Submit(u)
  BY DEF Enqueue, EnqueueWithDelay
<1>2. /\ pc' = pc /\ held' = held /\ processing' = processing /\ dead' = dead
      /\ attempts' = attempts /\ succeeded' = succeeded
  BY <1>1 DEF Submit
<1>3. \/ immediate' = Append(immediate, u) /\ delayed' = delayed
      \/ /\ immediate' = immediate
         /\ \E d \in Delays : delayed' = [delayed EXCEPT ![u] = d]
  BY DEF Enqueue, EnqueueWithDelay
<1>4. immediate \in Seq(Tasks) /\ delayed \in [Tasks -> Nat \cup {NotDelayed}]
      /\ task \in [Tasks -> [status : Statuses, retry : Nat]]
      /\ enqueued \in [Tasks -> Nat]
  BY DEF TypeOK
<1>5. CASE u # t
  <2>1. SameHolders(t)
    BY <1>2 DEF SameHolders
  <2>2. enqueued'[t] = enqueued[t] /\ task'[t] = task[t]
    BY <1>0, <1>1, <1>4, <1>5 DEF Submit
  <2>3. delayed'[t] = delayed[t]
    BY <1>0, <1>3, <1>4, <1>5
  <2>4. t \in Range(immediate') <=> t \in Range(immediate)
    BY <1>0, <1>3, <1>4, <1>5, AppendId
  <2>5. OccursOnce(immediate', t)
    <3>1. OccursOnce(Append(immediate, u), t)
      BY <1>0, <1>4, <1>5, AppendId
    <3> QED
      BY <1>0, <1>3, <3>1, Zenon
  <2>6. processing'[t] <= processing[t] /\ dead'[t] <= dead[t]
    BY <1>0, <1>2
  <2> QED
    BY <1>2, <2>1, <2>2, <2>3, <2>4, <2>5, <2>6, QuietStep
    DEF Waits, Safe, Exclusive
<1>6. CASE u = t
  <2>1. enqueued[t] = 0 /\ enqueued'[t] = 1
    BY <1>0, <1>1, <1>4, <1>6 DEF Submit
  <2>2. /\ ~Waits(t) /\ processing[t] = 0 /\ dead[t] = 0
        /\ attempts[t] = 0 /\ t \notin succeeded
        /\ \A w \in Workers : held[w].id # t
    BY <2>1 DEF Safe, Fresh
  <2>3. task'[t].retry = 0
    BY <1>0, <1>1, <1>4, <1>6 DEF Submit
  <2>4. OccursOnce(immediate', t)
    BY <1>0, <1>3, <1>4, <1>6, <2>2, AppendId, ZenonT(40) DEF Safe, Exclusive, Waits
  <2>5. t \in Range(immediate') => delayed'[t] = NotDelayed
    BY <1>0, <1>3, <1>4, <1>6, <2>2, AppendId DEF Waits
  <2>6. /\ processing'[t] = 0 /\ dead'[t] = 0 /\ attempts'[t] = 0
        /\ t \notin succeeded' /\ \A w \in Workers : held'[w].id # t
    BY <1>2, <2>2
  <2>7. Exclusive(t)'
    BY <2>4, <2>5, <2>6 DEF Exclusive
  <2>8. Fresh(t)'
    BY <2>1, <2>6 DEF Fresh
  <2>9. Counted(t)'
    BY <1>0, <2>3, <2>6 DEF Counted
  <2>10. Finished(t)'
    BY <2>6 DEF Finished
  <2> QED
    BY <2>7, <2>8, <2>9, <2>10 DEF Safe
<1> QED
  BY <1>5, <1>6

LEMMA MoveSafe ==
  ASSUME TypeOK, TypeOK', Unrepeated', NEW t \in Once, Safe(t),
         NEW w \in Workers, MoveDelayed(w)
  PROVE  Safe(t)'
<1> USE DEF keys, purgeVars, history
<1>0. t \in Tasks /\ immediate \in Seq(Tasks)
      /\ delayed \in [Tasks -> Nat \cup {NotDelayed}]
  BY DEF TypeOK, Once
<1>a. PICK batch \in SUBSET Due :
        /\ \E order \in SetToSeqs(batch) : immediate' = immediate \o order
        /\ delayed' = [x \in Tasks |->
                         IF x \in batch THEN NotDelayed ELSE delayed[x]]
  BY DEF MoveDelayed
<1>1. PICK order \in SetToSeqs(batch) : immediate' = immediate \o order
  BY <1>a
<1>2. batch \in SUBSET Tasks /\ (t \in batch => delayed[t] = 0)
  BY DEF Due
<1>3. t \in batch => Waits(t) /\ t \notin Range(immediate)
  BY <1>2 DEF Waits, NotDelayed, Safe, Exclusive
<1>4. /\ t \in Range(immediate') => t \in Range(immediate) \/ t \in batch
      /\ OccursOnce(immediate', t)
  BY <1>0, <1>1, <1>2, <1>3, MoveId DEF Safe, Exclusive
<1>5. delayed'[t] = IF t \in batch THEN NotDelayed ELSE delayed[t]
  BY <1>0, <1>a
<1>6. Waits(t)' => Waits(t)
  BY <1>3, <1>4, <1>5 DEF Waits
<1>7. t \in Range(immediate') => delayed'[t] = NotDelayed
  BY <1>4, <1>5 DEF Safe, Exclusive
<1>8. SameHolders(t)
  <2>1. Reply(w, "dequeue", Nothing)
    BY DEF MoveDelayed
  <2>2. Nothing.id # t /\ None # t
    BY <1>0, ConstantsAssumption DEF Nothing
  <2> QED
    BY <2>1, <2>2, ReplyEffect DEF SameHolders
<1>9. processing'[t] <= processing[t] /\ dead'[t] <= dead[t]
  BY <1>0 DEF MoveDelayed, TypeOK
<1> QED
  BY <1>4, <1>6, <1>7, <1>8, <1>9, QuietStep DEF MoveDelayed

LEMMA DropSafe ==
  ASSUME TypeOK, TypeOK', Unrepeated', NEW t \in Once, Safe(t), NEW w \in Workers,
         \/ DequeueEmpty(w) \/ DequeueOrphan(w)
         \/ NotProcessing(w) \/ NackGetMissing(w) \/ Abandon(w)
  PROVE  Safe(t)'
<1> USE DEF store, lists, keys, purgeVars, history
<1>0. /\ t \in Tasks /\ immediate \in Seq(Tasks)
      /\ processing[t] \in Nat /\ dead[t] \in Nat
      /\ OccursOnce(immediate, t)
  BY DEF TypeOK, Once, Safe, Exclusive
<1>1. SameHolders(t)
  <2>1. CASE Abandon(w)
    <3>1. Nothing.id # t
      BY <1>0, ConstantsAssumption DEF Nothing
    <3> QED
      BY <2>1, <3>1 DEF Abandon, SameHolders, TypeOK
  <2>2. CASE ~Abandon(w)
    BY <1>0, <2>2, ReplyDrops
    DEF DequeueEmpty, DequeueOrphan, NotProcessing, NackGetMissing
  <2> QED
    BY <2>1, <2>2
<1>2. /\ UNCHANGED <<delayed, processing, dead, task, enqueued, attempts, succeeded>>
      /\ immediate' = immediate
           \/ (immediate # <<>> /\ immediate' = Tail(immediate))
  BY DEF DequeueEmpty, DequeueOrphan, NotProcessing, NackGetMissing, Abandon
<1>3. /\ t \in Range(immediate') => t \in Range(immediate)
      /\ OccursOnce(immediate', t)
  <2>1. CASE immediate' = immediate
    BY <1>0, <2>1
  <2>2. CASE immediate # <<>> /\ immediate' = Tail(immediate)
    BY <1>0, <2>2, TailId
  <2> QED
    BY <1>2, <2>1, <2>2
<1>4. processing'[t] <= processing[t] /\ dead'[t] <= dead[t]
  BY <1>0, <1>2
<1> QED
  BY <1>1, <1>2, <1>3, <1>4, QuietStep DEF Waits, Safe, Exclusive

LEMMA TakeSafe ==
  ASSUME TypeOK, TypeOK', Unrepeated', NEW t \in Once, Safe(t),
         NEW w \in Workers, DequeueTask(w)
  PROVE  Safe(t)'
<1> USE DEF purgeVars, history
<1> DEFINE u == Head(immediate)
           copy == [id |-> u, retry |-> task[u].retry]
<1>0. /\ t \in Tasks /\ immediate \in Seq(Tasks) /\ immediate # <<>>
      /\ processing \in [Tasks -> Nat] /\ MaxRetries \in Nat
      /\ processing'[t] \in Nat /\ None # t
      /\ processing[t] \in Nat /\ dead[t] \in Nat
  BY ConstantsAssumption DEF TypeOK, Once, DequeueTask
<1>1. /\ u \in Tasks /\ u \in Range(immediate)
      /\ t \in Range(immediate') => t \in Range(immediate) /\ u # t
      /\ OccursOnce(immediate', t)
  BY <1>0, TailId DEF DequeueTask, RPopLPush, Safe, Exclusive
<1>2. /\ \A v \in Workers \ {w} : pc'[v] = pc[v] /\ held'[v] = held[v]
      /\ \/ pc'[w] = "mark" /\ held'[w] = copy
         \/ pc'[w] = "poll" /\ held'[w].id = None
  BY ReplyEffect DEF DequeueTask
<1>3. /\ UNCHANGED <<delayed, dead, task, enqueued, attempts, succeeded>>
      /\ processing' = [processing EXCEPT ![u] = @ + 1]
      /\ task[u] # Absent
  BY DEF DequeueTask, RPopLPush
<1>4. CASE u # t
  <2>1. SameHolders(t)
    BY <1>0, <1>2, <1>4 DEF SameHolders
  <2>2. processing'[t] = processing[t]
    BY <1>0, <1>3, <1>4
  <2>3. processing'[t] <= processing[t] /\ dead'[t] <= dead[t]
    BY <1>0, <1>3, <2>2
  <2> QED
    BY <1>1, <1>3, <2>1, <2>3, QuietStep DEF Waits, Safe, Exclusive
<1>5. CASE u = t
  <2>1. /\ Waits(t) /\ delayed[t] = NotDelayed
        /\ processing[t] = 0 /\ dead[t] = 0 /\ t \notin succeeded
        /\ attempts[t] = task[t].retry /\ attempts[t] <= MaxRetries
        /\ \A v \in Workers : held[v].id # t
    BY <1>1, <1>3, <1>5 DEF Waits, Safe, Exclusive, Counted, Finished
  <2>2. processing'[t] = 1 /\ dead'[t] = 0 /\ ~Waits(t)'
    BY <1>0, <1>1, <1>3, <1>5, <2>1 DEF Waits
  <2>3. \A v \in Workers : held'[v].id = t =>
          v = w /\ pc'[v] = "mark" /\ held'[v].retry = attempts[t]
    BY <1>0, <1>2, <1>5, <2>1
  <2>4. Exclusive(t)'
    BY <1>1, <2>2, <2>3 DEF Exclusive, Waits
  <2>5. Fresh(t)'
    BY <1>3, <2>1 DEF Safe, Fresh
  <2>6. Counted(t)'
    BY <1>3, <2>1, <2>2, <2>3 DEF Safe, Counted, HolderCounts
  <2>7. Finished(t)'
    BY <1>3, <2>1 DEF Finished
  <2> QED
    BY <2>4, <2>5, <2>6, <2>7 DEF Safe
<1> QED
  BY <1>4, <1>5

LEMMA MarkSafe ==
  ASSUME TypeOK, TypeOK', Unrepeated', NEW t \in Once, Safe(t),
         NEW w \in Workers, MarkProcessing(w)
  PROVE  Safe(t)'
<1> USE DEF lists, purgeVars
<1> DEFINE u == held[w].id
<1>0. /\ t \in Tasks /\ None # t /\ MaxRetries \in Nat
      /\ processing[t] \in Nat /\ dead[t] \in Nat
      /\ attempts \in [Tasks -> Nat] /\ task \in [Tasks -> [status : Statuses, retry : Nat]]
      /\ held[w] \in TaskCopy /\ pc[w] = "mark" /\ OccursOnce(immediate, t)
  BY ConstantsAssumption DEF TypeOK, Once, Safe, Exclusive, MarkProcessing
<1>1. /\ \A v \in Workers \ {w} : pc'[v] = pc[v] /\ held'[v] = held[v]
      /\ \/ pc'[w] = "handle" /\ held'[w] = held[w]
         \/ pc'[w] = "poll" /\ held'[w].id = None
  BY ReplyEffect DEF MarkProcessing
<1>2. /\ UNCHANGED <<immediate, delayed, processing, dead, enqueued, succeeded>>
      /\ task' = [task EXCEPT ![u] = [status |-> "processing",
                                      retry  |-> held[w].retry]]
      /\ attempts' = [attempts EXCEPT ![u] =
                        IF pc'[w] = "handle" THEN @ + 1 ELSE @]
  BY DEF MarkProcessing
<1>3. CASE u # t
  <2>1. SameHolders(t)
    BY <1>0, <1>1, <1>3 DEF SameHolders
  <2>2. task'[t] = task[t] /\ attempts'[t] = attempts[t]
    BY <1>0, <1>2, <1>3
  <2>3. processing'[t] <= processing[t] /\ dead'[t] <= dead[t]
    BY <1>0, <1>2
  <2> QED
    BY <1>0, <1>2, <2>1, <2>2, <2>3, QuietStep DEF Waits, Safe, Exclusive
<1>4. CASE u = t
  <2>1. /\ ~Waits(t) /\ dead[t] = 0 /\ t \notin succeeded
        /\ attempts[t] = held[w].retry /\ attempts[t] <= MaxRetries
        /\ \A v \in Workers : held[v].id = t => v = w
    BY <1>0, <1>4 DEF Safe, Exclusive, Counted, HolderCounts, Finished
  <2>2. /\ task'[t].retry = held[w].retry
        /\ attempts'[t] = IF pc'[w] = "handle" THEN attempts[t] + 1 ELSE attempts[t]
    BY <1>0, <1>2, <1>4
  <2>3. \A v \in Workers : held'[v].id = t =>
          v = w /\ pc'[v] = "handle" /\ held'[v] = held[w]
    BY <1>0, <1>1, <2>1
  <2>4. ~Waits(t)' /\ dead'[t] = 0 /\ t \notin succeeded'
    BY <1>2, <2>1 DEF Waits
  <2>5. Exclusive(t)'
    BY <1>2, <2>3, <2>4 DEF Safe, Exclusive
  <2>6. enqueued[t] # 0
    BY <1>4 DEF Safe, Fresh
  <2>7. Fresh(t)'
    BY <1>2, <2>6 DEF Safe, Fresh
  <2>8. Counted(t)'
    BY <1>0, <2>1, <2>2, <2>3, <2>4 DEF Counted, HolderCounts
  <2>9. Finished(t)'
    BY <2>4 DEF Finished
  <2> QED
    BY <2>5, <2>7, <2>8, <2>9 DEF Safe
<1> QED
  BY <1>3, <1>4

LEMMA HandlerSafe ==
  ASSUME TypeOK, TypeOK', NEW t \in Once, Safe(t),
         NEW w \in Workers, HandlerSucceeds(w) \/ HandlerFails(w)
  PROVE  Safe(t)'
<1> USE DEF store, lists, keys, purgeVars, history
<1> DEFINE u == held[w].id
<1>0. /\ t \in Tasks /\ pc[w] = "handle" /\ pc \in [Workers -> Steps]
      /\ processing[t] \in Nat /\ dead[t] \in Nat
  BY DEF TypeOK, Once, HandlerSucceeds, HandlerFails
<1>1. /\ UNCHANGED <<immediate, delayed, processing, dead, task, held,
                     enqueued, attempts>>
      /\ \A v \in Workers \ {w} : pc'[v] = pc[v]
      /\ \/ pc'[w] = "ack" /\ succeeded' = succeeded \cup {u}
         \/ pc'[w] = "nackGet" /\ succeeded' = succeeded
  BY <1>0 DEF HandlerSucceeds, HandlerFails
<1>2. CASE u # t
  <2>1. SameHolders(t)
    BY <1>1, <1>2 DEF SameHolders
  <2>2. processing'[t] <= processing[t] /\ dead'[t] <= dead[t]
    BY <1>0, <1>1
  <2> QED
    BY <1>1, <1>2, <2>1, <2>2, QuietStep DEF Waits, Safe, Exclusive
<1>3. CASE u = t
  <2>1. /\ ~Waits(t) /\ dead[t] = 0 /\ t \notin succeeded
        /\ \A v \in Workers : held[v].id = t => v = w
        /\ enqueued[t] # 0
    BY <1>0, <1>3 DEF Safe, Exclusive, Finished, Fresh
  <2>2. Exclusive(t)' /\ Fresh(t)'
    BY <1>1, <2>1 DEF Safe, Exclusive, Fresh, Waits
  <2>3. Counted(t)'
    BY <1>0, <1>1, <2>1 DEF Safe, Counted, HolderCounts, Waits
  <2>4. Finished(t)'
    BY <1>1, <2>1 DEF Finished, Waits
  <2> QED
    BY <2>2, <2>3, <2>4 DEF Safe
<1> QED
  BY <1>2, <1>3

LEMMA NackGetSafe ==
  ASSUME TypeOK, TypeOK', Unrepeated', NEW t \in Once, Safe(t),
         NEW w \in Workers, NackGet(w)
  PROVE  Safe(t)'
<1> USE DEF store, lists, keys, purgeVars, history
<1> DEFINE u == held[w].id
           retry == task[u].retry + 1
           copy == [id |-> u, retry |-> retry]
<1>0. /\ t \in Tasks /\ None # t /\ MaxRetries \in Nat
      /\ processing[t] \in Nat /\ dead[t] \in Nat /\ attempts[t] \in Nat
      /\ pc[w] = "nackGet" /\ task[u] # Absent
  BY ConstantsAssumption DEF TypeOK, Once, NackGet
<1>1. /\ \A v \in Workers \ {w} : pc'[v] = pc[v] /\ held'[v] = held[v]
      /\ \/ pc'[w] = AfterFailure(retry) /\ held'[w] = copy
         \/ pc'[w] = "poll" /\ held'[w].id = None
  BY ReplyEffect DEF NackGet
<1>2. UNCHANGED <<immediate, delayed, processing, dead, task, enqueued,
                  attempts, succeeded>>
  BY DEF NackGet
<1>3. CASE u # t
  <2>1. SameHolders(t)
    BY <1>0, <1>1, <1>3 DEF SameHolders
  <2>2. processing'[t] <= processing[t] /\ dead'[t] <= dead[t]
    BY <1>0, <1>2
  <2> QED
    BY <1>2, <2>1, <2>2, QuietStep DEF Waits, Safe, Exclusive
<1>4. CASE u = t
  <2>1. /\ ~Waits(t) /\ dead[t] = 0 /\ t \notin succeeded
        /\ \A v \in Workers : held[v].id = t => v = w
        /\ enqueued[t] # 0
        /\ attempts[t] = retry /\ attempts[t] <= MaxRetries + 1
    BY <1>0, <1>4 DEF Safe, Exclusive, Finished, Fresh, Counted, HolderCounts
  <2>2. \A v \in Workers : held'[v].id = t =>
          /\ v = w /\ pc'[v] = AfterFailure(attempts[t])
          /\ held'[v].retry = attempts[t]
    BY <1>0, <1>1, <2>1
  <2>3. Exclusive(t)' /\ Fresh(t)'
    BY <1>2, <2>1, <2>2 DEF Safe, Exclusive, Fresh, Waits
  <2>4. Counted(t)'
    <3>1. attempts'[t] = attempts[t] /\ attempts'[t] <= MaxRetries + 1
          /\ ~Waits(t)' /\ dead'[t] = 0
      BY <1>0, <1>2, <2>1 DEF Waits
    <3>2. ASSUME NEW v \in Workers, held'[v].id = t PROVE HolderCounts(v, t)'
      <4>1. pc'[v] = IF attempts[t] > MaxRetries THEN "nackDead" ELSE "nackRetry"
        BY <2>2, <3>2 DEF AfterFailure
      <4>2. held'[v].retry = attempts[t]
        BY <2>2, <3>2
      <4> QED
        BY <1>0, <2>1, <3>1, <4>1, <4>2 DEF HolderCounts
    <3> QED
      BY <1>0, <3>1, <3>2 DEF Counted
  <2>5. Finished(t)'
    BY <1>2, <2>1 DEF Finished, Waits
  <2> QED
    BY <2>3, <2>4, <2>5 DEF Safe
<1> QED
  BY <1>3, <1>4

\* What the three settling scripts have in common.
LEMMA SettleEffect ==
  ASSUME TypeOK, Unrepeated', NEW t \in Once, Safe(t),
         NEW w \in Workers, NEW u \in Tasks, Settle(w, u)
  PROVE  /\ UNCHANGED <<immediate, enqueued, attempts, succeeded>>
         /\ SameHolders(t)
         /\ processing'[t] = IF t = u THEN processing[t] - 1 ELSE processing[t]
         /\ t = u => /\ processing[t] = 1 /\ held[w].id = t
                     /\ \A v \in Workers : held'[v].id # t
<1>0. t \in Tasks /\ processing \in [Tasks -> Nat]
  BY DEF TypeOK, Once
<1>1. SameHolders(t) /\ held'[w].id # t
  BY <1>0, ReplyDrops DEF Settle
<1>2. /\ UNCHANGED <<immediate, enqueued, attempts, succeeded>>
      /\ held[w].id = u /\ processing[u] > 0
      /\ processing' = [processing EXCEPT ![u] = @ - 1]
  BY DEF Settle, LRem
<1>3. t = u => \A v \in Workers : held'[v].id # t
  BY <1>1, <1>2 DEF SameHolders, Safe, Exclusive
<1> QED
  BY <1>0, <1>1, <1>2, <1>3 DEF Safe, Exclusive

LEMMA AckSafe ==
  ASSUME TypeOK, TypeOK', Unrepeated', NEW t \in Once, Safe(t),
         NEW w \in Workers, Ack(w)
  PROVE  Safe(t)'
<1>0. /\ t \in Tasks /\ processing[t] \in Nat /\ dead[t] \in Nat
      /\ task \in [Tasks -> [status : Statuses, retry : Nat]]
  BY DEF TypeOK, Once
<1>1. PICK u \in Tasks : Settle(w, u) /\ DeleteData(u)
  BY DEF Ack
<1>2. /\ UNCHANGED <<immediate, enqueued, attempts, succeeded>>
      /\ SameHolders(t)
      /\ processing'[t] = IF t = u THEN processing[t] - 1 ELSE processing[t]
  BY <1>1, SettleEffect
<1>3. UNCHANGED <<delayed, dead>>
  BY DEF Ack
<1>4. task'[t] \in {task[t], Absent}
  BY <1>0, <1>1 DEF DeleteData
<1>5. processing'[t] <= processing[t] /\ dead'[t] <= dead[t]
  BY <1>0, <1>2, <1>3
<1> QED
  BY <1>2, <1>3, <1>4, <1>5, QuietStep DEF Waits, Safe, Exclusive

LEMMA NackRetrySafe ==
  ASSUME TypeOK, TypeOK', Unrepeated', NEW t \in Once, Safe(t),
         NEW w \in Workers, NackRetry(w)
  PROVE  Safe(t)'
<1>0. /\ t \in Tasks /\ processing[t] \in Nat /\ dead[t] \in Nat
      /\ attempts[t] \in Nat /\ MaxRetries \in Nat
      /\ task \in [Tasks -> [status : Statuses, retry : Nat]]
      /\ delayed \in [Tasks -> Nat \cup {NotDelayed}]
  BY ConstantsAssumption DEF TypeOK, Once
<1>1. PICK u \in Tasks, d \in RetryDelays :
        /\ Settle(w, u)
        /\ SaveData(w, u, "pending")
        /\ delayed' = [delayed EXCEPT ![u] = d]
  BY DEF NackRetry
<1>2. /\ UNCHANGED <<immediate, enqueued, attempts, succeeded>>
      /\ SameHolders(t)
      /\ processing'[t] = IF t = u THEN processing[t] - 1 ELSE processing[t]
      /\ t = u => /\ processing[t] = 1 /\ held[w].id = t
                  /\ \A v \in Workers : held'[v].id # t
  BY <1>1, SettleEffect
<1>3. UNCHANGED dead /\ pc[w] = "nackRetry"
  BY DEF NackRetry
<1>4. CASE u # t
  <2>1. task'[t] = task[t] /\ delayed'[t] = delayed[t]
    BY <1>0, <1>1, <1>4 DEF SaveData
  <2>2. processing'[t] <= processing[t] /\ dead'[t] <= dead[t]
    BY <1>0, <1>2, <1>3, <1>4
  <2> QED
    BY <1>2, <1>3, <2>1, <2>2, QuietStep DEF Waits, Safe, Exclusive
<1>5. CASE u = t
  <2>1. /\ ~Waits(t) /\ dead[t] = 0 /\ t \notin succeeded /\ enqueued[t] # 0
        /\ attempts[t] = held[w].retry /\ attempts[t] <= MaxRetries
    BY <1>2, <1>3, <1>5
    DEF Safe, Exclusive, Fresh, Counted, HolderCounts, Finished
  <2>2. processing'[t] = 0 /\ dead'[t] = 0 /\ t \notin Range(immediate')
    BY <1>2, <1>3, <1>5, <2>1 DEF Waits
  <2>3. task'[t].retry = held[w].retry
    BY <1>0, <1>1, <1>5 DEF SaveData
  <2>4. Exclusive(t)'
    BY <1>2, <1>5, <2>2 DEF Safe, Exclusive
  <2>5. Fresh(t)'
    BY <1>2, <2>1 DEF Safe, Fresh
  <2>6. Counted(t)'
    BY <1>0, <1>2, <1>5, <2>1, <2>2, <2>3 DEF Counted
  <2>7. Finished(t)'
    BY <1>2, <2>1 DEF Finished
  <2> QED
    BY <2>4, <2>5, <2>6, <2>7 DEF Safe
<1> QED
  BY <1>4, <1>5

LEMMA NackDeadSafe ==
  ASSUME TypeOK, TypeOK', Unrepeated', NEW t \in Once, Safe(t),
         NEW w \in Workers, NackDead(w)
  PROVE  Safe(t)'
<1>0. /\ t \in Tasks /\ processing[t] \in Nat /\ dead \in [Tasks -> Nat]
      /\ attempts[t] \in Nat /\ MaxRetries \in Nat
      /\ task \in [Tasks -> [status : Statuses, retry : Nat]]
  BY ConstantsAssumption DEF TypeOK, Once
<1>1. PICK u \in Tasks :
        Settle(w, u) /\ SaveData(w, u, "dead_letter") /\ PushDead(u)
  BY DEF NackDead
<1>2. /\ UNCHANGED <<immediate, enqueued, attempts, succeeded>>
      /\ SameHolders(t)
      /\ processing'[t] = IF t = u THEN processing[t] - 1 ELSE processing[t]
      /\ t = u => /\ processing[t] = 1 /\ held[w].id = t
                  /\ \A v \in Workers : held'[v].id # t
  BY <1>1, SettleEffect
<1>3. UNCHANGED delayed /\ pc[w] = "nackDead"
      /\ dead' = [dead EXCEPT ![u] = @ + 1]
  BY <1>1 DEF NackDead, PushDead
<1>4. CASE u # t
  <2>1. task'[t] = task[t] /\ dead'[t] = dead[t]
    BY <1>0, <1>1, <1>3, <1>4 DEF SaveData
  <2>2. processing'[t] <= processing[t] /\ dead'[t] <= dead[t]
    BY <1>0, <1>2, <1>4, <2>1
  <2> QED
    BY <1>2, <1>3, <2>1, <2>2, QuietStep DEF Waits, Safe, Exclusive
<1>5. CASE u = t
  <2>1. /\ ~Waits(t) /\ dead[t] = 0 /\ t \notin succeeded /\ enqueued[t] # 0
        /\ attempts[t] = MaxRetries + 1
    BY <1>2, <1>3, <1>5
    DEF Safe, Exclusive, Fresh, Counted, HolderCounts, Finished
  <2>2. processing'[t] = 0 /\ dead'[t] = 1 /\ ~Waits(t)'
    BY <1>0, <1>2, <1>3, <1>5, <2>1 DEF Waits
  <2>3. Exclusive(t)'
    BY <1>2, <1>5, <2>2 DEF Safe, Exclusive, Waits
  <2>4. Fresh(t)'
    BY <1>2, <2>1 DEF Safe, Fresh
  <2>5. Counted(t)'
    BY <1>0, <1>2, <1>5, <2>1, <2>2 DEF Counted
  <2>6. Finished(t)'
    BY <1>2, <2>1 DEF Finished
  <2> QED
    BY <2>3, <2>4, <2>5, <2>6 DEF Safe
<1> QED
  BY <1>4, <1>5

LEMMA PurgeSafe ==
  ASSUME TypeOK, TypeOK', NEW t \in Once, Safe(t),
         PurgeStart \/ PurgeLists \/ PurgeKeys \/ PurgeFails
  PROVE  Safe(t)'
<1> USE DEF store, lists, keys, client, history
<1>0. /\ t \in Tasks /\ processing[t] \in Nat /\ dead[t] \in Nat
      /\ OccursOnce(immediate, t)
  BY DEF TypeOK, Once, Safe, Exclusive
<1>1. UNCHANGED <<pc, held, history>>
  BY DEF PurgeStart, PurgeLists, PurgeKeys, PurgeFails, PurgeGoes
<1>2. immediate' = immediate \/ immediate' = <<>>
  BY DEF PurgeStart, PurgeLists, PurgeKeys, PurgeFails, PurgeGoes
<1>3. delayed'[t] = delayed[t] \/ delayed'[t] = NotDelayed
  BY <1>0 DEF PurgeStart, PurgeLists, PurgeKeys, PurgeFails, PurgeGoes
<1>4. processing'[t] = processing[t] \/ processing'[t] = 0
  BY <1>0 DEF PurgeStart, PurgeLists, PurgeKeys, PurgeFails, PurgeGoes
<1>5. dead'[t] = dead[t] \/ dead'[t] = 0
  BY <1>0 DEF PurgeStart, PurgeLists, PurgeKeys, PurgeFails, PurgeGoes
<1>6. task'[t] \in {task[t], Absent}
  BY <1>0 DEF PurgeStart, PurgeLists, PurgeKeys, PurgeFails, PurgeGoes
<1>7. DOMAIN <<>> = {}
  OBVIOUS
<1>8. /\ t \in Range(immediate') => t \in Range(immediate)
      /\ OccursOnce(immediate', t)
  <2>1. CASE immediate' = immediate
    BY <1>0, <2>1
  <2>2. CASE immediate' = <<>>
    BY <1>7, <2>2 DEF Range, OccursOnce
  <2> QED
    BY <1>2, <2>1, <2>2
<1>9. SameHolders(t)
  BY <1>1 DEF SameHolders
<1>10. processing'[t] <= processing[t] /\ dead'[t] <= dead[t]
  BY <1>0, <1>4, <1>5
<1> QED
  BY <1>1, <1>3, <1>6, <1>8, <1>9, <1>10, QuietStep
  DEF Waits, Safe, Exclusive

LEMMA IdleSafe ==
  ASSUME TypeOK, TypeOK', NEW t \in Once, Safe(t),
         Tick \/ (\E u \in Tasks : ExpireTimeout(u)) \/ UNCHANGED vars
  PROVE  Safe(t)'
<1> USE DEF store, lists, keys, client, purgeVars, history, vars
<1>0. /\ t \in Tasks /\ processing[t] \in Nat /\ dead[t] \in Nat
      /\ delayed[t] \in Nat \cup {NotDelayed}
  BY DEF TypeOK, Once
<1>1. UNCHANGED <<immediate, processing, dead, task, pc, held, history>>
  BY DEF Tick, ExpireTimeout
<1>2. delayed'[t] = delayed[t]
        \/ (delayed[t] # NotDelayed /\ delayed'[t] # NotDelayed)
  BY <1>0 DEF Tick, ExpireTimeout, NotDelayed
<1>3. SameHolders(t)
  BY <1>1 DEF SameHolders
<1>4. processing'[t] <= processing[t] /\ dead'[t] <= dead[t]
  BY <1>0, <1>1
<1> QED
  BY <1>1, <1>2, <1>3, <1>4, QuietStep DEF Waits, Safe, Exclusive

LEMMA InitInv == Init => Inv
<1> SUFFICES ASSUME Init PROVE Inv
  OBVIOUS
<1>1. TypeOK
  BY InitType
<1>2. ASSUME NEW t \in Once
      PROVE  Exclusive(t) /\ Fresh(t) /\ Counted(t) /\ Finished(t)
  <2>1. /\ t \in Tasks /\ None # t /\ MaxRetries \in Nat
        /\ MaxEnqueues[t] \in Nat
    BY ConstantsAssumption DEF Once
  <2>2. /\ DOMAIN immediate = {} /\ delayed[t] = NotDelayed
        /\ processing[t] = 0 /\ dead[t] = 0 /\ enqueued[t] = 0
        /\ attempts[t] = 0 /\ t \notin succeeded
        /\ \A w \in Workers : held[w].id # t
    BY <2>1 DEF Init, Nothing
  <2>3. ~Waits(t) /\ t \notin Range(immediate) /\ OccursOnce(immediate, t)
    BY <2>2 DEF Waits, Range, OccursOnce
  <2> QED
    BY <2>1, <2>2, <2>3 DEF Exclusive, Fresh, Counted, Finished
<1> QED
  BY <1>1, <1>2 DEF Inv

LEMMA NextInv == Unrepeated' /\ Inv /\ [Next]_vars => Inv'
<1> SUFFICES ASSUME Unrepeated', Inv, [Next]_vars PROVE Inv'
  OBVIOUS
<1>1. TypeOK /\ TypeOK'
  BY NextType DEF Inv
<1>2. ASSUME NEW t \in Once PROVE Safe(t)'
  <2>1. Safe(t)
    BY DEF Inv, Safe
  <2>2. CASE \/ \E u \in Tasks : Enqueue(u)
             \/ \E u \in Tasks, d \in Delays : EnqueueWithDelay(u, d)
    BY <1>1, <2>1, <2>2, SubmitSafe
  <2>3. ASSUME NEW w \in Workers, Worker(w) \/ Abandon(w) PROVE Safe(t)'
    BY <1>1, <2>1, <2>3, MoveSafe, DropSafe, TakeSafe, MarkSafe, HandlerSafe,
       NackGetSafe, AckSafe, NackRetrySafe, NackDeadSafe
    DEF Worker
  <2>4. CASE Tick \/ (\E u \in Tasks : ExpireTimeout(u)) \/ UNCHANGED vars
    BY <1>1, <2>1, <2>4, IdleSafe
  <2>5. CASE PurgeStart \/ PurgeLists \/ PurgeKeys \/ PurgeFails
    BY <1>1, <2>1, <2>5, PurgeSafe
  <2> QED
    BY <2>2, <2>3, <2>4, <2>5 DEF Next
<1>3. (Once = Once')
  BY DEF Once
<1> QED
  BY <1>1, <1>2, <1>3 DEF Inv, Safe

\* A command that was executed twice stays so.
LEMMA UnrepeatedBefore ==
  ASSUME TypeOK, [Next]_vars, Unrepeated'
  PROVE  Unrepeated
<1> USE DEF client, vars
<1>1. faults \in Nat
  BY DEF TypeOK
<1>2. faults' = faults \/ faults' = faults + 1
  BY DEF Next, Enqueue, EnqueueWithDelay, Submit, Worker, MoveDelayed,
         DequeueEmpty, DequeueOrphan, DequeueTask, MarkProcessing,
         HandlerSucceeds, HandlerFails, NotProcessing, Ack, NackGetMissing,
         NackGet, NackRetry, NackDead, Settle, Abandon, Tick, ExpireTimeout,
         PurgeStart, PurgeLists, PurgeKeys, PurgeFails, PurgeGoes, Reply
<1> QED
  BY <1>1, <1>2 DEF Unrepeated

(* With a client that does not resend, and with any client before the      *)
(* first fault, Inv holds in every reachable state.                        *)
THEOREM InductiveInvariant == Spec => [](Unrepeated => Inv)
<1>1. Init => (Unrepeated => Inv)
  BY InitInv
<1>2. TypeOK /\ (Unrepeated => Inv) /\ [Next]_vars => (Unrepeated => Inv)'
  BY NextInv, UnrepeatedBefore
<1> QED
  BY TypeCorrect, <1>1, <1>2, PTL DEF Spec

-----------------------------------------------------------------------------
(* The safety properties.                                                  *)

(* No interleaving, fault or purge gives one task to two workers.          *)
THEOREM SingleDeliveryAlways == Spec => [](Unrepeated => SingleDelivery)
<1>1. Inv => SingleDelivery
  BY DEF Inv, Exclusive, SingleDelivery
<1> QED
  BY InductiveInvariant, <1>1, PTL

(* The handler runs at most MaxRetries + 1 times for a task.               *)
THEOREM AttemptsBoundedAlways == Spec => [](Unrepeated => AttemptsBounded)
<1>1. Inv => AttemptsBounded
  BY DEF Inv, Counted, AttemptsBounded
<1> QED
  BY InductiveInvariant, <1>1, PTL

(* Only a task that failed MaxRetries + 1 times and never succeeded is in  *)
(* the dead letter queue.                                                  *)
THEOREM DeadIsExhaustedAlways == Spec => [](Unrepeated => DeadIsExhausted)
<1>1. Inv => DeadIsExhausted
  <2> SUFFICES ASSUME Inv, NEW t \in Once, dead[t] > 0
               PROVE  attempts[t] = MaxRetries + 1 /\ t \notin succeeded
    BY DEF DeadIsExhausted
  <2>1. Counted(t) /\ Finished(t)
    BY DEF Inv
  <2>2. attempts[t] = MaxRetries + 1
    BY <2>1 DEF Counted
  <2>3. dead[t] # 0
    OBVIOUS
  <2>4. t \notin succeeded
    BY <2>1, <2>3 DEF Finished
  <2> QED
    BY <2>2, <2>4
<1> QED
  BY InductiveInvariant, <1>1, PTL

(* No step starts the handler for a task it already succeeded on.          *)
THEOREM NeverRerunAlways ==
  ASSUME ~Resends
  PROVE  Spec => NeverRerun
<1> DEFINE NoRerun ==
      \A w \in Workers :
        pc[w] = "mark" /\ pc'[w] = "handle"
          => held[w].id \notin succeeded \cap Once
<1>1. Inv /\ [Next]_vars => [NoRerun]_vars
  <2> SUFFICES ASSUME Inv, NEW w \in Workers, pc[w] = "mark",
                      held[w].id \in succeeded \cap Once
               PROVE  FALSE
    OBVIOUS
  <2> QED
    BY DEF Inv, Finished
<1>2. ~Resends => Unrepeated
  BY DEF Unrepeated
<1> QED
  BY InductiveInvariant, <1>1, <1>2, PTL DEF Spec, NeverRerun
=============================================================================
