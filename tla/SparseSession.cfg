SPECIFICATION Spec
CONSTANTS
  a = a
  b = b
  Sources = {a, b}
  NoSource = NoSource
  Opens = 2
  Concurrency = 2
  Active <- MCActive
  Wanted <- MCWanted
  Commits <- MCCommits
  Realms = 3
  MaxWidth = 2
  ReadFrames = 2
  ZeroFrames = 4
  Frames = 4
  MaxSpanFrames = 1
  MaxChunkFrames = 4
  Faults = 1
INVARIANTS
  TypeOK
  VerifyUnderLock
  ProtocolExact
  ReadyComplete
PROPERTY
  SessionSettles
CHECK_DEADLOCK FALSE
