CONSTANTS
  Users = {u1}
  UseExecute = TRUE
  FailureThreshold = 2
  HalfOpenMaxCalls = 1
  RecoveryTimeout = 1
  WindowSize = 1
  SlowRecord = TRUE
SPECIFICATION FairSpec
INVARIANTS
  TypeOK
PROPERTIES
  ImplementsProtocol
  Recovers
