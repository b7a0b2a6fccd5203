SPECIFICATION FairSpec
CONSTANTS
  a = a
  b = b
  s1 = s1
  s2 = s2
  s3 = s3
  Openers = {a, b}
  Stems = {s1, s2}
  Wants <- WantsApart
  WrongBytes = {}
  Width = 1
  VerifyWidth = 1
  Quota = 1
  Reasons = {"AbortError"}
  OpenedFirst = FALSE
  LocksQueryable = TRUE
  Faults = {"resolver"}
  MaxFaults = 0
  Offline = offline
  Free = free
INVARIANTS
  FilesBacked
PROPERTIES
  OpenSettles
CHECK_DEADLOCK FALSE
