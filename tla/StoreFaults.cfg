SPECIFICATION Spec
CONSTANTS
  a = a
  b = b
  s1 = s1
  s2 = s2
  s3 = s3
  Openers = {a, b}
  Stems = {s1, s2}
  Wants <- WantsSame
  WrongBytes = {b}
  Width = 1
  VerifyWidth = 1
  Quota = 1
  Reasons = {"AbortError", "other"}
  OpenedFirst = FALSE
  LocksQueryable = TRUE
  Faults = {"corrupt", "rebuild", "read", "write", "remove", "crash", "resolver"}
  MaxFaults = 2
  Offline = offline
  Free = free
INVARIANTS
  TypeOK
  PinsExact
  NothingStranded
PROPERTIES
  PinsKept
CHECK_DEADLOCK FALSE
