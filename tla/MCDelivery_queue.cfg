SPECIFICATION Spec
CONSTANTS
  None = None
  d1 = d1
  d2 = d2
  Device <- TwoDevices
  Misconfigured <- TheSecond
  Sensor <- TwoDevices
  Board <- TheSecond
  MaxCommands = 3
  MaxConnections = 1
  MaxReadings = 1
  COMMAND_MAX_RETRIES = 0
  MAX_TRACKED = 2
  MAX_SAMPLES = 1
INVARIANTS
  ExecutedMeansRan
  UntrustedIsNeverServed
PROPERTIES
  DroppedOnlyForRoom
