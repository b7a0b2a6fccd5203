SPECIFICATION FairSpec
CONSTANTS
  j1 = j1
  j2 = j2
  j3 = j3
  h1 = h1
  h2 = h2
  Jobs = {j1, j2, j3}
  Holders = {h1, h2}
  Limit = 2
  HasLoader = TRUE
  None = none
  Idle = idle
INVARIANTS
  TypeOK
  WorkersExact
PROPERTIES
  EpochOver
  Settles
CHECK_DEADLOCK FALSE
