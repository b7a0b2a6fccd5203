CONSTANTS
  Calls = 3
  Configurations <- MCConfigurations
SPECIFICATION Spec
INVARIANTS
  TypeOK
  CleanupExact
  ContextAgrees
PROPERTIES
  PromiseKept
  NeverOpenedAborted
