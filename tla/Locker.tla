------------------------------- MODULE Locker -------------------------------
(***************************************************************************)
(* The Redis lock of locker/redis_locker.go, for one key: calls of Lock,   *)
(* each with a token of its own (GenerateToken) and hence a name here, the *)
(* Unlock and Extend of the locks they return, and their watchdogs.        *)
(*                                                                         *)
(* Time is counted in ticks.  The key and what a caller was promised run   *)
(* down together; the time an answer travels is left out.  A watchdog      *)
(* renews before the next tick unless a fault delays it.  go-redis sends a *)
(* command again when its reply was lost, so a SET NX that was executed    *)
(* then answers that the lock is taken, and the script of Unlock that the  *)
(* token is invalid.                                                       *)
(***************************************************************************)
EXTENDS Integers

CONSTANTS
  Locks,      \* the calls of Lock
  NoLock,     \* the key does not exist
  Ttls,       \* WithTTL, in ticks; 0: no expiry
  Extensions, \* the ttl given to Extend, in ticks; 0: less than 1 ms
  Second,     \* ticks in a second
  MaxFaults   \* bound: lost commands and replies, late watchdogs

Forever == -1

ASSUME LockerAssumption ==
  /\ NoLock \notin Locks
  /\ Ttls \subseteq Nat /\ Extensions \subseteq Nat
  /\ Second \in Nat \ {0}
  /\ MaxFaults \in Nat

VARIABLES
  value,    \* the value of the key: the token of this lock
  left,     \* ticks until the key expires
  phase,    \* what the caller of each Lock knows
  ttl,      \* LockOptions.TTL
  promise,  \* ticks for which the caller may think that it holds the lock
  dog,      \* its watchdog: "none", "sleep", "renew" (after EXISTS), "ended"
  due,      \* ticks until the watchdog's ticker fires
  ctxDone,  \* the context of Lock has ended
  faults    \* bound

keyVars == <<value, left>>
dogVars == <<dog, due>>
vars == <<value, left, phase, ttl, promise, dog, due, ctxDone, faults>>

Held == {"held", "extended"}
Watched(l) == dog[l] \in {"sleep", "renew"}

Init ==
  /\ value = NoLock
  /\ left = Forever
  /\ phase = [l \in Locks |-> "new"]
  /\ ttl = [l \in Locks |-> 0]
  /\ promise = [l \in Locks |-> 0]
  /\ dog = [l \in Locks |-> "none"]
  /\ due = [l \in Locks |-> 0]
  /\ ctxDone = [l \in Locks |-> FALSE]
  /\ faults = 0

BugInterval(d) == d
Interval(d) == IF d \div 3 < Second THEN Second ELSE d \div 3

Fault == faults < MaxFaults /\ faults' = faults + 1

Put(v, d) == value' = v /\ left' = d
Delete == Put(NoLock, Forever)

\* SET NX: without an expiry if the TTL is 0
BugSetNX(l, d) == value = NoLock /\ Put(l, Forever)
SetNX(l, d) == value = NoLock /\ Put(l, IF d = 0 THEN Forever ELSE d)

\* PEXPIRE of an existing key: 0 deletes it.
PExpire(d) == IF d = 0 THEN Delete ELSE value' = value /\ left' = d

\* What an extension promises: the watchdog goes back to the TTL.
Promised(l, d) == IF dog[l] # "none" /\ ttl[l] < d THEN ttl[l] ELSE d
-----------------------------------------------------------------------------
(* Lock.                                                                   *)

LockOptions == [TTL : Ttls, WatchDog : BOOLEAN]

Lock(l, o) == LET d == o.TTL  watch == o.WatchDog IN
  /\ phase[l] = "new"
  /\ SetNX(l, d)
  /\ phase' = [phase EXCEPT ![l] = "held"]
  /\ ttl' = [ttl EXCEPT ![l] = d]
  /\ promise' = [promise EXCEPT ![l] =
                   IF d > 0 THEN d ELSE IF watch THEN 0 ELSE Forever]
  /\ dog' = [dog EXCEPT ![l] = IF watch THEN "sleep" ELSE "none"]
  /\ due' = [due EXCEPT ![l] = IF watch THEN Interval(d) ELSE 0]
  /\ UNCHANGED <<ctxDone, faults>>

\* ErrLockAcquired, or an error before the SET, of a context that has ended
\* or of the connection
BugLockFails(l) ==
  /\ phase[l] = "new"
  /\ phase' = [phase EXCEPT ![l] = "failed"]
  /\ \E o \in LockOptions :
       /\ dog' = [dog EXCEPT ![l] = IF o.WatchDog THEN "sleep" ELSE "none"]
       /\ due' = [due EXCEPT ![l] = IF o.WatchDog THEN Interval(o.TTL) ELSE 0]
  /\ UNCHANGED <<keyVars, ttl, promise, ctxDone, faults>>
LockFails(l) ==
  /\ phase[l] = "new"
  /\ phase' = [phase EXCEPT ![l] = "failed"]
  /\ UNCHANGED <<keyVars, ttl, promise, dogVars, ctxDone, faults>>

\* The reply of the SET is lost, and the resent SET finds the caller's key.
LockReplyLost(l, d) ==
  /\ phase[l] = "new" /\ Fault
  /\ SetNX(l, d)
  /\ phase' = [phase EXCEPT ![l] = "failed"]
  /\ ttl' = [ttl EXCEPT ![l] = d]
  /\ UNCHANGED <<promise, dogVars, ctxDone>>
-----------------------------------------------------------------------------
(* Unlock and Extend: scripts that compare the token first.                *)

GivesUp(l, to) ==
  /\ phase' = [phase EXCEPT ![l] = to]
  /\ promise' = [promise EXCEPT ![l] = 0]

MayUnlock(l) == phase[l] \in Held \cup {"unlockFailed"}

BugUnlock(l) ==
  /\ MayUnlock(l)
  /\ Delete /\ GivesUp(l, "released")
  /\ UNCHANGED <<ttl, dogVars, ctxDone, faults>>
Unlock(l) ==
  /\ MayUnlock(l)
  /\ \/ value = l /\ Delete /\ GivesUp(l, "released")
     \/ value # l /\ UNCHANGED keyVars /\ GivesUp(l, "lost")
  /\ UNCHANGED <<ttl, dogVars, ctxDone, faults>>

\* An error, or ErrInvalidToken from the script that was sent again
UnlockFails(l) ==
  /\ MayUnlock(l) /\ Fault
  /\ UNCHANGED keyVars \/ (value = l /\ Delete)
  /\ GivesUp(l, "unlockFailed")
  /\ UNCHANGED <<ttl, dogVars, ctxDone>>

Extend(l, d) ==
  /\ phase[l] \in Held
  /\ \/ /\ value = l /\ PExpire(d)
        /\ phase' = [phase EXCEPT ![l] = "extended"]
        /\ promise' = [promise EXCEPT ![l] = Promised(l, d)]
     \/ value # l /\ UNCHANGED keyVars /\ GivesUp(l, "lost")
  /\ UNCHANGED <<ttl, dogVars, ctxDone, faults>>

\* An error: the extension may have been made or not, so that the caller
\* counts on the shorter time.
ExtendFails(l, d) ==
  /\ phase[l] \in Held /\ Fault
  /\ UNCHANGED keyVars \/ (value = l /\ PExpire(d))
  /\ phase' = [phase EXCEPT ![l] = "extended"]
  /\ promise' = [promise EXCEPT ![l] =
                   IF promise[l] \in 0..Promised(l, d) THEN @ ELSE Promised(l, d)]
  /\ UNCHANGED <<ttl, dogVars, ctxDone>>
-----------------------------------------------------------------------------
(* The watchdog.  EXISTS does not look at the token, Extend does.          *)

DogIs(l, s, n) ==
  dog' = [dog EXCEPT ![l] = s] /\ due' = [due EXCEPT ![l] = n]

DogLooks(l) ==
  /\ dog[l] = "sleep" /\ due[l] = 0 /\ ~ctxDone[l]
  /\ IF value = NoLock THEN DogIs(l, "ended", 0)
     ELSE DogIs(l, "renew", Interval(ttl[l]))
  /\ UNCHANGED <<keyVars, phase, ttl, promise, ctxDone, faults>>

BugDogRenews(l) ==
  /\ dog[l] = "renew" /\ ~ctxDone[l] /\ DogIs(l, "sleep", due[l])
  /\ IF value = l THEN PExpire(ttl[l]) ELSE UNCHANGED keyVars
  /\ UNCHANGED <<phase, ttl, promise, ctxDone, faults>>
DogRenews(l) ==
  /\ dog[l] = "renew" /\ ~ctxDone[l]
  /\ \/ /\ value = l /\ PExpire(ttl[l]) /\ DogIs(l, "sleep", due[l])
        /\ promise' = [promise EXCEPT ![l] =
                         IF phase[l] \in Held THEN ttl[l] ELSE 0]
     \/ value # l /\ DogIs(l, "ended", 0) /\ UNCHANGED <<keyVars, promise>>
  /\ UNCHANGED <<phase, ttl, ctxDone, faults>>

\* Either command fails, executed or not: the watchdog ends for good.
DogFails(l) ==
  /\ dog[l] = "renew" \/ (dog[l] = "sleep" /\ due[l] = 0)
  /\ Fault
  /\ UNCHANGED keyVars \/ (dog[l] = "renew" /\ value = l /\ PExpire(ttl[l]))
  /\ DogIs(l, "ended", 0)
  /\ UNCHANGED <<phase, ttl, promise, ctxDone>>

DogStops(l) ==
  /\ Watched(l) /\ ctxDone[l]
  /\ DogIs(l, "ended", 0)
  /\ UNCHANGED <<keyVars, phase, ttl, promise, ctxDone, faults>>
-----------------------------------------------------------------------------
\* The context of Lock ends, which only its watchdog notices.
ContextEnds(l) ==
  /\ Watched(l) /\ ~ctxDone[l] /\ ctxDone' = [ctxDone EXCEPT ![l] = TRUE]
  /\ UNCHANGED <<keyVars, phase, ttl, promise, dogVars, faults>>

\* The process of the caller ends, and its watchdog with it.
Crash(l) ==
  /\ phase[l] \in Held \cup {"unlockFailed"}
  /\ GivesUp(l, "dead")
  /\ DogIs(l, IF Watched(l) THEN "ended" ELSE dog[l], 0)
  /\ UNCHANGED <<keyVars, ttl, ctxDone, faults>>

Late(l) == dog[l] = "renew" \/ (dog[l] = "sleep" /\ due[l] = 0)
Less(n) == IF n > 0 THEN n - 1 ELSE n

Tick ==
  /\ IF \E l \in Locks : Late(l) THEN Fault ELSE UNCHANGED faults
  /\ IF left = 1 THEN Delete ELSE value' = value /\ left' = Less(left)
  /\ promise' = [l \in Locks |-> Less(promise[l])]
  /\ due' = [l \in Locks |-> Less(due[l])]
  /\ UNCHANGED <<phase, ttl, dog, ctxDone>>
-----------------------------------------------------------------------------
Dog(l) == DogLooks(l) \/ DogRenews(l) \/ DogStops(l)

Next ==
  \/ \E l \in Locks, o \in LockOptions : Lock(l, o)
  \/ \E l \in Locks, d \in Ttls : LockReplyLost(l, d)
  \/ \E l \in Locks, d \in Extensions : Extend(l, d) \/ ExtendFails(l, d)
  \/ \E l \in Locks : \/ LockFails(l) \/ Unlock(l) \/ UnlockFails(l)
                      \/ Dog(l) \/ DogFails(l) \/ ContextEnds(l) \/ Crash(l)
  \/ Tick

Spec == Init /\ [][Next]_vars

\* Time passes, and the watchdogs run; nothing makes a caller unlock.
FairSpec == Spec /\ WF_vars(Tick) /\ \A l \in Locks : WF_vars(Dog(l))
=============================================================================
