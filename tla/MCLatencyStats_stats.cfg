SPECIFICATION Spec
CONSTANTS
  None = None
  d1 = d1
  d2 = d2
  Device <- TwoDevices
  MaxCommands = 0
  MAX_SAMPLES = 3
  Latency <- SomeLatency
  Percent <- SomePercents
  MaxRecords = 4
INVARIANTS
  TypeOK
  RingKeepsNewest
  PercentileIsNearestRank
  AllDevicesBetweenDevices
  RowsAddUpToLessThanAll
