SPECIFICATION FairSpec
CONSTANTS
  None = None
  d1 = d1
  Device <- OneDevice
  Misconfigured <- Nobody
  Sensor <- Nobody
  MaxReadings = 0
  MaxConnections = 2
  MaxLosses = 1
  Warmup = 1
  Samples = 1
  Burst = 1
  MaxCommands = 3
  MAX_TRACKED = 4
  MAX_SAMPLES = 2
INVARIANTS
  TypeOK
  ReportsAddUp
  OneInFlight
PROPERTIES
  BenchmarkLeavesNothing
CHECK_DEADLOCK FALSE
