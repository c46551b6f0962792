---------------------------- MODULE MCRedisQueue ----------------------------
(* Small instances of RedisQueue for TLC.                                  *)
EXTENDS RedisQueueLifecycle

CONSTANTS t1, t2

MCTasks == {t1, t2}

\* The Enqueue of t2 is repeated, that of t1 is not.
MCRepeat == [t \in MCTasks |-> IF t = t2 THEN 2 ELSE 1]
MCOnce   == [t \in MCTasks |-> 1]

MCSymmetry == Permutations(Workers)
=============================================================================
