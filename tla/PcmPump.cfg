SPECIFICATION FairSpec
CONSTANTS
  long = long
  short = short
  other = other
  Sources = {long, short, other}
  Frames <- FramesMC
  Quantum = 2
  WindowFrames = 4
  Slots = 2
  MaximumReads = 2
  Targets = {2}
  MaxSeeks = 1
INVARIANTS
  TypeOK
  WindowsSound
PROPERTIES
  Progresses
CHECK_DEADLOCK FALSE
