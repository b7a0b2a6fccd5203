SPECIFICATION Spec
CONSTANTS
  a = a
  b = b
  s1 = s1
  s2 = s2
  s3 = s3
  Openers = {a, b}
  Stems = {s1, s2}
  Wants <- WantsShared
  WrongBytes = {}
  Width = 2
  VerifyWidth = 2
  Quota = 2
  Reasons = {"AbortError"}
  OpenedFirst = TRUE
  LocksQueryable = TRUE
  Faults = {"resolver"}
  MaxFaults = 0
  Offline = offline
  Free = free
PROPERTY
  PinnedFinalKept
CHECK_DEADLOCK FALSE
