SPECIFICATION Spec
CONSTANTS
  Chunks = 2
  Blocks = 3
  Headers = 2
  MaximumAttempts = 2
  Downloads = 1
INVARIANTS
  TypeOK
  JobExact
  BuffersReturned
  TransportsBounded
PROPERTIES
  ReaderAnswered
