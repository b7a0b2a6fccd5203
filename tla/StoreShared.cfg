SPECIFICATION Spec
CONSTANTS
  a = a
  b = b
  s1 = s1
  s2 = s2
  s3 = s3
  Openers = {a, b}
  Stems = {s1, s2, s3}
  Wants <- WantsShared
  WrongBytes = {}
  Width = 1
  VerifyWidth = 1
  Quota = 2
  Reasons = {"AbortError"}
  OpenedFirst = TRUE
  LocksQueryable = TRUE
  Faults = {}
  MaxFaults = 0
  Offline = offline
  Free = free
INVARIANTS
  FilesBacked
PROPERTIES
  PinnedFinalKept
CHECK_DEADLOCK FALSE
