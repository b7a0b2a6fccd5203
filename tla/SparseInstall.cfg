SPECIFICATION Spec
CONSTANTS
  Stores = {s1, s2}
  NoStore = NoStore
  Frames = 6
  MaxSpanFrames = 1
  MaxChunkFrames = 3
  Sources <- MCSources
  Generations = 2
  Operations = 2
  Faults = 1
  Crashes = 1
INVARIANTS
  TypeOK
  CommittedExact
  LockCovers
  CleanWhenSettled
PROPERTIES
  OperationsSettle
CHECK_DEADLOCK FALSE
