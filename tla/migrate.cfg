CONSTANTS
  s1 = s1
  s2 = s2
  s3 = s3
  s4 = s4
  s5 = s5
  Migrators = {m1, m2}
  Sql <- MCSql
  Marker = Marker
  Dropped = Dropped
  Releases <- MCReleases
  MaxFaults = 2
SPECIFICATION FairSpec
INVARIANTS
  TypeOK
  ProgressIsDone
  InOrder
  SuccessMeansDone
  RepeatsAreBounded
PROPERTIES
  EverythingRuns
