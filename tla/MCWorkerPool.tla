---------------------------- MODULE MCWorkerPool ----------------------------
(* Small instance of WorkerPool for TLC.                                   *)
EXTENDS WorkerPoolProperties

CONSTANTS q1, q2, p1, p2, c1, c2

\* The task is for the first queue; the second pool has no workers, and
\* replaces the first one in the manager or stands beside it.
MCQueueName == [i \in Ids |-> q1]
MCMaxConcurrency == [p \in Pools |-> IF p = p1 THEN 2 ELSE 0]
MCRegistrations == {<<p1, q1>>, <<p2, q1>>, <<p2, q2>>}
MCCallerOps == [c \in Callers |-> IF c = c1
  THEN {"register", "startAll", "stopAll"}
  ELSE {"register", "enqueue", "start", "stop"}]
=============================================================================
