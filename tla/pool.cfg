CONSTANTS
  q1 = q1
  q2 = q2
  p1 = p1
  p2 = p2
  c1 = c1
  c2 = c2
  Ids = {t1}
  MaxRetries = 1
  Names = {q1, q2}
  QueueName <- MCQueueName
  Pools = {p1, p2}
  MaxConcurrency <- MCMaxConcurrency
  Registrations <- MCRegistrations
  Callers = {c1, c2}
  CallerOps <- MCCallerOps
  HandlerOps = {"getQueue", "stats", "isRunning", "stop"}
  NoName = NoName
  NoPool = NoPool
  NoTask = NoTask
  MaxCalls = 3
  MaxExpiries = 1
SPECIFICATION FairSpec
CHECK_DEADLOCK FALSE
INVARIANTS
  TypeOK
  StoppedIsQuiet
  OnlyCutOffIsStranded
PROPERTIES
  CallsEnd
  QueuedIsServed
