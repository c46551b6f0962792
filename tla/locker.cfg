CONSTANTS
  Locks = {l1, l2}
  NoLock = NoLock
  Ttls = {0, 1, 6}
  Extensions = {0, 2}
  Second = 1
  MaxFaults = 1
SPECIFICATION FairSpec
CHECK_DEADLOCK FALSE
INVARIANTS
  TypeOK
  MutualExclusion
  KeptWhileWatched
PROPERTIES
  WatchDogEnds
  FreedInTheEnd
