SPECIFICATION Spec
CONSTANTS
  None = None
  d1 = d1
  d2 = d2
  Device <- OneDevice
  Misconfigured <- Nobody
  Sensor <- Nobody
  MaxCommands = 0
  MaxConnections = 2
  MaxReadings = 0
  MAX_TRACKED = 1
  MAX_SAMPLES = 1
  HEARTBEAT_EVERY = 1
  HEARTBEAT_TIMEOUT = 1
  MaxTime = 3
INVARIANTS
  TypeOK
  SilentIsFlagged
PROPERTIES
  RttNeverTooLong
  OnlyDeadSocketsAreDropped
CHECK_DEADLOCK FALSE
