CONSTANTS
  Users = {u1, u2, u3}
  UseExecute = FALSE
  FailureThreshold = 2
  HalfOpenMaxCalls = 1
  RecoveryTimeout = 1
  WindowSize = 1
  SlowRecord = FALSE
SPECIFICATION FairSpec
PROPERTIES
  TripIsFinal
  DetectsFailure
