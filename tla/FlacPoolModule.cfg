SPECIFICATION Spec
CONSTANTS
  j1 = j1
  j2 = j2
  j3 = j3
  h1 = h1
  h2 = h2
  Jobs = {j1, j2, j3}
  Holders = {h1, h2}
  Limit = 2
  HasLoader = TRUE
  None = none
  Idle = idle
INVARIANT
  AbortedLoadUnowned
CHECK_DEADLOCK FALSE
