---------------------------- MODULE TaskLifecycle ---------------------------
(***************************************************************************)
(* What queue.Queue (queue/interface.go) promises for the tasks whose id   *)
(* is enqueued once, without lists, scripts or workers: each task waits,   *)
(* is taken, is tried by the handler at most MaxRetries + 1 times, and     *)
(* ends completed, in the dead letter queue, or thrown away by Purge.      *)
(* RedisQueue implements it (RedisQueueLifecycle).                         *)
(***************************************************************************)
EXTENDS Naturals

CONSTANTS Ids, MaxRetries

VARIABLES
  state,  \* where each task is in its life
  tries   \* how often its handler was called

lifecycle == <<state, tries>>

States == {"new", "queued", "running", "done", "dead", "purged"}

LifecycleInit ==
  /\ state = [t \in Ids |-> "new"]
  /\ tries = [t \in Ids |-> 0]

Move(t, from, to) ==
  /\ state[t] = from
  /\ state' = [state EXCEPT ![t] = to]

\* Enqueue, EnqueueWithDelay
Submit(t) == Move(t, "new", "queued") /\ UNCHANGED tries

\* Dequeue
Take(t) == Move(t, "queued", "running") /\ UNCHANGED tries

\* Handler.Handle: also for a task Purge removed under its worker
Try(t) ==
  /\ state[t] \in {"running", "purged"}
  /\ tries[t] <= MaxRetries
  /\ tries' = [tries EXCEPT ![t] = @ + 1]
  /\ UNCHANGED state

\* Ack
Complete(t) == tries[t] > 0 /\ Move(t, "running", "done") /\ UNCHANGED tries

\* Nack below and at the limit
Retry(t) ==
  /\ tries[t] \in 1..MaxRetries
  /\ Move(t, "running", "queued")
  /\ UNCHANGED tries

Bury(t) ==
  /\ tries[t] = MaxRetries + 1
  /\ Move(t, "running", "dead")
  /\ UNCHANGED tries

\* One command of Purge removes a whole list.
Purge(S) ==
  /\ \A t \in S : state[t] \in {"queued", "running", "dead"}
  /\ state' = [t \in Ids |-> IF t \in S THEN "purged" ELSE state[t]]
  /\ UNCHANGED tries

LifecycleNext ==
  \/ \E t \in Ids : \/ Submit(t) \/ Take(t) \/ Try(t)
                    \/ Complete(t) \/ Retry(t) \/ Bury(t)
  \/ \E S \in SUBSET Ids : Purge(S)

LifecycleSpec == LifecycleInit /\ [][LifecycleNext]_lifecycle
=============================================================================
