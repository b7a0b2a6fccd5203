SPECIFICATION FairSpec
CONSTANTS
  staging = staging
  index = index
  probe = probe
  Writers = {staging, index}
  Probes = {probe}
  Signalled = {staging}
  Chunks = 1
INVARIANTS
  TypeOK
  OwnershipExact
  ResourcesOwned
  AcknowledgedKept
PROPERTIES
  CallsSettle
CHECK_DEADLOCK FALSE
