CONSTANTS
  t1 = t1
  t2 = t2
  Tasks <- MCTasks
  Workers = {w1, w2}
  None = None
  MaxRetries = 1
  Delays = {1}
  RetryDelays = {0}
  BatchLimit = 1
  Resends = FALSE
  MaxEnqueues <- MCOnce
  MaxFailures = 2
  MaxFaults = 1
  MaxPurges = 1
SYMMETRY MCSymmetry
SPECIFICATION Spec
INVARIANTS
  TypeOK
  OnePlace
  NothingLost
  SingleDelivery
  AttemptsBounded
  DeadIsExhausted
  DataIffReferenced
  RetryCountIsAttempts
  LeakNeedsFault
PROPERTIES
  NeverRerun
  ImplementsLifecycle
