---------------------------- MODULE LockerProof -----------------------------
(* Proofs about the lock, for any number of callers, lifetimes, extensions *)
(* and faults.                                                             *)
EXTENDS LockerProperties, TLAPS

\* What a caller may think: it has the key for at least as long.
Backed == \A l \in Locks :
  Holds(l) => value = l /\ (left = Forever \/ promise[l] \in 1..left)

\* A watchdog may set the expiry back to the TTL, so nobody is promised more.
WithinTtl == \A l \in Locks : dog[l] # "none" => promise[l] \in 0..ttl[l]

(* The inductive invariant: MutualExclusion alone says nothing of the time *)
(* that is left when a caller is promised some, nor of what a watchdog     *)
(* does to the expiry when the reply to it is lost.                        *)
IInv == TypeOK /\ Backed /\ WithinTtl

\* The ticker fires before the key expires, and a renewal under way is in
\* time for the next round.
InTime == \A l \in Locks :
  (/\ phase[l] = "held" /\ dog[l] # "none" /\ ~ctxDone[l]
   /\ faults = 0 /\ ttl[l] > Second)
    => /\ value = l /\ Watched(l)
       /\ due[l] \in 0..Interval(ttl[l])
       /\ dog[l] = "sleep" => due[l] < left

-----------------------------------------------------------------------------
(* The shortest interval is a second, and else a third of the TTL.         *)
LEMMA IntervalBounds ==
  ASSUME NEW d \in Nat
  PROVE  Interval(d) \in Nat /\ (d > Second => Interval(d) < d)
BY LockerAssumption DEF Interval

(* Time that runs down.                                                    *)
LEMMA LessIsTime ==
  ASSUME NEW n \in Times
  PROVE  Less(n) \in Times /\ (n \in Nat => Less(n) \in Nat)
BY DEF Less, Times, Forever

(* TypeOK holds of every reachable state: a key that exists has time left, *)
(* also after PEXPIRE with less than a millisecond.                        *)
THEOREM TypeCorrect == Spec => []TypeOK
<1>1. Init => TypeOK
  BY LockerAssumption DEF Init, TypeOK, Times, Forever, Held
<1>2. TypeOK /\ [Next]_vars => TypeOK'
  <2> SUFFICES ASSUME TypeOK, [Next]_vars PROVE TypeOK'
    OBVIOUS
  <2> USE LockerAssumption DEF TypeOK, keyVars, dogVars, Held, Times, Forever
  <2>1. ASSUME NEW l \in Locks, NEW o \in LockOptions, Lock(l, o)
        PROVE  TypeOK'
    BY <2>1, IntervalBounds DEF Lock, LockOptions, SetNX, Put
  <2>2. ASSUME NEW l \in Locks, NEW d \in Ttls, LockReplyLost(l, d)
        PROVE  TypeOK'
    BY <2>2 DEF LockReplyLost, SetNX, Put, Fault
  <2>3. ASSUME NEW l \in Locks, NEW d \in Extensions, Extend(l, d)
        PROVE  TypeOK'
    BY <2>3 DEF Extend, PExpire, Delete, Put, Promised, GivesUp
  <2>4. ASSUME NEW l \in Locks, NEW d \in Extensions, ExtendFails(l, d)
        PROVE  TypeOK'
    BY <2>4 DEF ExtendFails, PExpire, Delete, Put, Promised, Fault
  <2>5. ASSUME NEW l \in Locks, LockFails(l) PROVE TypeOK'
    BY <2>5 DEF LockFails
  <2>6. ASSUME NEW l \in Locks, Unlock(l) PROVE TypeOK'
    BY <2>6 DEF Unlock, MayUnlock, Delete, Put, GivesUp
  <2>7. ASSUME NEW l \in Locks, UnlockFails(l) PROVE TypeOK'
    BY <2>7 DEF UnlockFails, MayUnlock, Delete, Put, GivesUp, Fault
  <2>8. ASSUME NEW l \in Locks, DogLooks(l) PROVE TypeOK'
    <3>1. \A k \in Locks : phase'[k] \in {"new", "failed"} => dog'[k] = "none"
      BY <2>8 DEF DogLooks, DogIs
    <3> QED
      BY <2>8, <3>1, IntervalBounds DEF DogLooks, DogIs
  <2>9. ASSUME NEW l \in Locks, DogRenews(l) PROVE TypeOK'
    <3>1. phase[l] \notin {"new", "failed"} /\ phase' = phase
      BY <2>9 DEF DogRenews
    <3>2. \A k \in Locks \ {l} : dog'[k] = dog[k]
      BY <2>9 DEF DogRenews, DogIs
    <3>3. \A k \in Locks : phase'[k] \in {"new", "failed"} => dog'[k] = "none"
      BY <3>1, <3>2
    <3> QED
      BY <2>9, <3>3 DEF DogRenews, DogIs, PExpire, Delete, Put
  <2>10. ASSUME NEW l \in Locks, DogStops(l) PROVE TypeOK'
    <3>1. \A k \in Locks : phase'[k] \in {"new", "failed"} => dog'[k] = "none"
      BY <2>10 DEF DogStops, DogIs, Watched
    <3> QED
      BY <2>10, <3>1 DEF DogStops, DogIs
  <2>11. ASSUME NEW l \in Locks, DogFails(l) PROVE TypeOK'
    <3>1. \A k \in Locks : phase'[k] \in {"new", "failed"} => dog'[k] = "none"
      BY <2>11 DEF DogFails, DogIs
    <3> QED
      BY <2>11, <3>1 DEF DogFails, DogIs, PExpire, Delete, Put, Fault
  <2>12. ASSUME NEW l \in Locks, ContextEnds(l) PROVE TypeOK'
    BY <2>12 DEF ContextEnds
  <2>13. ASSUME NEW l \in Locks, Crash(l) PROVE TypeOK'
    <3>1. \A k \in Locks : phase'[k] \in {"new", "failed"} => dog'[k] = "none"
      BY <2>13 DEF Crash, GivesUp, DogIs, Watched
    <3> QED
      BY <2>13, <3>1 DEF Crash, GivesUp, DogIs
  <2>14. ASSUME Tick PROVE TypeOK'
    <3>1. promise' \in [Locks -> Times] /\ due' \in [Locks -> Nat]
      BY <2>14, LessIsTime DEF Tick
    <3>2. value' \in Locks \cup {NoLock} /\ left' \in Times /\ left' # 0
          /\ (value' = NoLock => left' = Forever)
      BY <2>14 DEF Tick, Delete, Put, Less
    <3> QED
      BY <2>14, <3>1, <3>2 DEF Tick, Fault
  <2>15. ASSUME UNCHANGED vars PROVE TypeOK'
    BY <2>15 DEF vars
  <2> QED
    BY <2>1, <2>2, <2>3, <2>4, <2>5, <2>6, <2>7, <2>8, <2>9, <2>10, <2>11, <2>12,
       <2>13, <2>14, <2>15 DEF Next, Dog
<1> QED
  BY <1>1, <1>2, PTL DEF Spec

-----------------------------------------------------------------------------
(* The invariant holds of every reachable state.                           *)
THEOREM InductiveInvariant == Spec => []IInv
<1>1. Init => Backed /\ WithinTtl
  BY DEF Init, Backed, WithinTtl, Holds, Held
<1>2. TypeOK /\ Backed /\ WithinTtl /\ [Next]_vars => (Backed /\ WithinTtl)'
  <2> SUFFICES ASSUME TypeOK, Backed, WithinTtl, [Next]_vars
               PROVE  (Backed /\ WithinTtl)'
    OBVIOUS
  <2> USE LockerAssumption DEF TypeOK, keyVars, dogVars, Held, Times, Forever,
        Backed, WithinTtl, Holds
  <2>1. ASSUME NEW l \in Locks, NEW o \in LockOptions, Lock(l, o)
        PROVE  (Backed /\ WithinTtl)'
    BY <2>1 DEF Lock, LockOptions, SetNX, Put
  <2>2. ASSUME NEW l \in Locks, NEW d \in Ttls, LockReplyLost(l, d)
        PROVE  (Backed /\ WithinTtl)'
    BY <2>2 DEF LockReplyLost, SetNX, Put
  <2>3. ASSUME NEW l \in Locks, NEW d \in Extensions, Extend(l, d)
        PROVE  (Backed /\ WithinTtl)'
    <3>1. /\ Promised(l, d) \in 0..d
          /\ dog[l] # "none" => Promised(l, d) \in 0..ttl[l]
      BY DEF Promised
    <3>2. CASE value = l
      <4>1. /\ PExpire(d)
            /\ phase' = [phase EXCEPT ![l] = "extended"]
            /\ promise' = [promise EXCEPT ![l] = Promised(l, d)]
            /\ UNCHANGED <<ttl, dogVars>>
        BY <2>3, <3>2 DEF Extend
      <4>2. WithinTtl'
        BY <3>1, <4>1
      <4>3. \A m \in Locks : m # l => ~Holds(m)'
        BY <3>2, <4>1
      <4>4. Holds(l)' => value' = l /\ left' = d /\ promise'[l] \in 1..d
        BY <3>1, <3>2, <4>1 DEF PExpire, Delete, Put
      <4> QED
        BY <4>2, <4>3, <4>4
    <3>3. CASE value # l
      BY <2>3, <3>3 DEF Extend, GivesUp
    <3> QED
      BY <3>2, <3>3
  <2>4. ASSUME NEW l \in Locks, NEW d \in Extensions, ExtendFails(l, d)
        PROVE  (Backed /\ WithinTtl)'
    BY <2>4 DEF ExtendFails, PExpire, Delete, Put, Promised
  <2>5. ASSUME NEW l \in Locks, LockFails(l) PROVE (Backed /\ WithinTtl)'
    BY <2>5 DEF LockFails
  <2>6. ASSUME NEW l \in Locks, Unlock(l) PROVE (Backed /\ WithinTtl)'
    BY <2>6 DEF Unlock, MayUnlock, Delete, Put, GivesUp
  <2>7. ASSUME NEW l \in Locks, UnlockFails(l) PROVE (Backed /\ WithinTtl)'
    BY <2>7 DEF UnlockFails, MayUnlock, Delete, Put, GivesUp
  <2>8. ASSUME NEW l \in Locks, DogLooks(l) PROVE (Backed /\ WithinTtl)'
    BY <2>8 DEF DogLooks, DogIs
  <2>9. ASSUME NEW l \in Locks, DogRenews(l) PROVE (Backed /\ WithinTtl)'
    BY <2>9 DEF DogRenews, DogIs, PExpire, Delete, Put
  <2>10. ASSUME NEW l \in Locks, DogStops(l) PROVE (Backed /\ WithinTtl)'
    BY <2>10 DEF DogStops, DogIs, Watched
  <2>11. ASSUME NEW l \in Locks, DogFails(l) PROVE (Backed /\ WithinTtl)'
    BY <2>11 DEF DogFails, DogIs, PExpire, Delete, Put
  <2>12. ASSUME NEW l \in Locks, ContextEnds(l) PROVE (Backed /\ WithinTtl)'
    BY <2>12 DEF ContextEnds
  <2>13. ASSUME NEW l \in Locks, Crash(l) PROVE (Backed /\ WithinTtl)'
    BY <2>13 DEF Crash, GivesUp, DogIs, Watched
  <2>14. ASSUME Tick PROVE (Backed /\ WithinTtl)'
    BY <2>14 DEF Tick, Less, Delete, Put, Fault
  <2>15. ASSUME UNCHANGED vars PROVE (Backed /\ WithinTtl)'
    BY <2>15 DEF vars
  <2> QED
    BY <2>1, <2>2, <2>3, <2>4, <2>5, <2>6, <2>7, <2>8, <2>9, <2>10, <2>11, <2>12,
       <2>13, <2>14, <2>15 DEF Next, Dog
<1> QED
  BY <1>1, <1>2, TypeCorrect, PTL DEF Spec, IInv

(* MutualExclusion holds of every reachable state: whatever expires, is    *)
(* lost, delayed or sent again, two callers never both hold the lock.      *)
THEOREM MutualExclusionAlways == Spec => []MutualExclusion
<1>1. IInv => MutualExclusion
  BY DEF IInv, Backed, MutualExclusion
<1> QED
  BY <1>1, InductiveInvariant, PTL

-----------------------------------------------------------------------------
(* KeptWhileWatched holds of every reachable state: without faults, the    *)
(* watchdog of a lock with a TTL over a second renews before the expiry.   *)
THEOREM KeptWhileWatchedAlways == Spec => []KeptWhileWatched
<1>1. Init => InTime
  BY DEF Init, InTime
<1>2. TypeOK /\ InTime /\ [Next]_vars => InTime'
  <2> SUFFICES ASSUME TypeOK, InTime, [Next]_vars
               PROVE  InTime'
    OBVIOUS
  <2> USE LockerAssumption, IntervalBounds DEF TypeOK, keyVars, dogVars, Held,
        Times, Forever, InTime, Fault, Watched
  <2>1. ASSUME NEW l \in Locks, NEW o \in LockOptions, Lock(l, o)
        PROVE  InTime'
    BY <2>1 DEF Lock, LockOptions, SetNX, Put
  <2>2. ASSUME NEW l \in Locks, NEW d \in Ttls, LockReplyLost(l, d)
        PROVE  InTime'
    BY <2>2 DEF LockReplyLost, SetNX, Put
  <2>3. ASSUME NEW l \in Locks, NEW d \in Extensions, Extend(l, d)
        PROVE  InTime'
    BY <2>3 DEF Extend, PExpire, Delete, Put, Promised, GivesUp
  <2>4. ASSUME NEW l \in Locks, NEW d \in Extensions, ExtendFails(l, d)
        PROVE  InTime'
    BY <2>4 DEF ExtendFails, PExpire, Delete, Put, Promised
  <2>5. ASSUME NEW l \in Locks, LockFails(l) PROVE InTime'
    BY <2>5 DEF LockFails
  <2>6. ASSUME NEW l \in Locks, Unlock(l) PROVE InTime'
    BY <2>6 DEF Unlock, MayUnlock, Delete, Put, GivesUp
  <2>7. ASSUME NEW l \in Locks, UnlockFails(l) PROVE InTime'
    BY <2>7 DEF UnlockFails, MayUnlock, Delete, Put, GivesUp
  <2>8. ASSUME NEW l \in Locks, DogLooks(l) PROVE InTime'
    BY <2>8 DEF DogLooks, DogIs
  <2>9. ASSUME NEW l \in Locks, DogRenews(l) PROVE InTime'
    BY <2>9 DEF DogRenews, DogIs, PExpire, Delete, Put
  <2>10. ASSUME NEW l \in Locks, DogStops(l) PROVE InTime'
    BY <2>10 DEF DogStops, DogIs
  <2>11. ASSUME NEW l \in Locks, DogFails(l) PROVE InTime'
    BY <2>11 DEF DogFails, DogIs, PExpire, Delete, Put
  <2>12. ASSUME NEW l \in Locks, ContextEnds(l) PROVE InTime'
    BY <2>12 DEF ContextEnds
  <2>13. ASSUME NEW l \in Locks, Crash(l) PROVE InTime'
    BY <2>13 DEF Crash, GivesUp, DogIs
  <2>14. ASSUME Tick PROVE InTime'
    BY <2>14 DEF Tick, Less, Delete, Put, Late
  <2>15. ASSUME UNCHANGED vars PROVE InTime'
    BY <2>15 DEF vars
  <2> QED
    BY <2>1, <2>2, <2>3, <2>4, <2>5, <2>6, <2>7, <2>8, <2>9, <2>10, <2>11, <2>12,
       <2>13, <2>14, <2>15 DEF Next, Dog
<1>3. InTime => KeptWhileWatched
  BY DEF InTime, KeptWhileWatched
<1> QED
  BY <1>1, <1>2, <1>3, TypeCorrect, PTL DEF Spec
=============================================================================
