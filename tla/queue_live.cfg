CONSTANTS
  t1 = t1
  t2 = t2
  Tasks <- MCTasks
  Workers = {w1, w2}
  None = None
  MaxRetries = 1
  Delays = {1}
  RetryDelays = {0}
  BatchLimit = 1
  Resends = FALSE
  MaxEnqueues <- MCRepeat
  MaxFailures = 2
  MaxFaults = 1
  MaxPurges = 0
SPECIFICATION FairSpec
INVARIANTS
  HeldIsProcessing
  DataIsReferenced
PROPERTIES
  EveryTaskSettles
