-------------------------- MODULE LockerProperties --------------------------
(* What the lock must and must not do.                                     *)
EXTENDS Locker

Times == Nat \cup {Forever}

\* The type invariant of the key, the callers and the watchdogs: a key without
\* time left is gone, and only a lock that its caller got has a watchdog.
TypeOK ==
  /\ value \in Locks \cup {NoLock}
  /\ left \in Times /\ (value = NoLock => left = Forever) /\ left # 0
  /\ phase \in [Locks -> Held \cup
        {"new", "failed", "released", "lost", "unlockFailed", "dead"}]
  /\ ttl \in [Locks -> Nat]
  /\ promise \in [Locks -> Times]
  /\ dog \in [Locks -> {"none", "sleep", "renew", "ended"}]
  /\ due \in [Locks -> Nat]
  /\ \A l \in Locks : phase[l] \in {"new", "failed"} => dog[l] = "none"
  /\ ctxDone \in [Locks -> BOOLEAN]
  /\ faults \in 0..MaxFaults

\* The caller thinks that it holds the lock: it has it by Lock, Extend or its
\* watchdog, has not given it up, and the time it was given is not over.
Holds(l) == phase[l] \in Held /\ promise[l] # 0

\* Two callers never hold the lock at once: who holds it has its token in the
\* key, whatever is lost, delayed or sent again, since Unlock, Extend and the
\* watchdog of an expired lock leave the key of the next holder alone
\* (unlockWithToken, extendWithToken).
MutualExclusion == \A l \in Locks : Holds(l) => value = l

\* README.md:32: the watchdog keeps the lock from expiring under a caller that
\* is not done, when no command is lost, the context of Lock lives, the caller
\* does not change the expiry by Extend, and the TTL is over a second, the
\* shortest interval of the watchdog (startWatchDog).
KeptWhileWatched == \A l \in Locks :
  (/\ phase[l] = "held" /\ dog[l] # "none" /\ ~ctxDone[l]
   /\ faults = 0 /\ ttl[l] > Second) => value = l

\* The watchdog of a lock that was released or lost, whose context ended or
\* whose process died does end, also when another takes the key before it
\* looks: EXISTS finds that key, and only the token stops the watchdog.
WatchDogEnds == \A l \in Locks :
  (phase[l] \in {"released", "lost", "dead"} \/ ctxDone[l]) ~> ~Watched(l)

\* A lock with a TTL that nobody can use any more does not stay taken: it
\* expires after a crash, a lost reply of Lock, and an Unlock that failed,
\* unless the watchdog of the last one goes on renewing it.
FreedInTheEnd == \A l \in Locks :
  (phase[l] \notin Held /\ ttl[l] > 0)
    ~> (value # l \/ [](Watched(l) /\ ~ctxDone[l]))
=============================================================================
