------------------------- MODULE RedisQueueLifecycle ------------------------
(* RedisQueue implements TaskLifecycle for the ids that are enqueued once. *)
EXTENDS RedisQueueProperties

StateOf(t) ==
  CASE enqueued[t] = 0   -> "new"
    [] t \in acked       -> "done"
    [] Waits(t)          -> "queued"
    [] processing[t] > 0 -> "running"
    [] dead[t] > 0       -> "dead"
    [] OTHER             -> "purged"

Lifecycle == INSTANCE TaskLifecycle
               WITH Ids   <- Once,
                    state <- [t \in Once |-> StateOf(t)],
                    tries <- [t \in Once |-> attempts[t]]

(* Every step of the queue, its workers, its faults and Purge is a step of *)
(* the life of one task (of several for Purge), or changes nobody's life.  *)
ImplementsLifecycle == Lifecycle!LifecycleSpec
=============================================================================
