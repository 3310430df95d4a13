SPECIFICATION Spec
CHECK_DEADLOCK FALSE
CONSTANTS
  MaxRetries = 2
  MaxMissed = 1
  MaxSend = 2
  MaxCalls = 2
INVARIANTS
  TypeOK
  HeartbeatIsOwn
  OpenIsOwned
  OneAttempt
  NeverStranded
  SentInOrder
PROPERTIES
  HalfOpenIsDropped
  KeepsTrying
