CONSTANTS
  t1 = t1
  t2 = t2
  Tasks <- MCTasks
  Workers = {w1, w2}
  None = None
  MaxRetries = 1
  Delays = {1}
  RetryDelays = {1}
  BatchLimit = 1
  Resends = TRUE
  MaxEnqueues <- MCOnce
  MaxFailures = 3
  MaxFaults = 1
  MaxPurges = 0
SPECIFICATION Spec
INVARIANTS
  RetryBudget
