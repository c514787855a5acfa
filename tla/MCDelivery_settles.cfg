SPECIFICATION FairSpec
CONSTANTS
  None = None
  d1 = d1
  d2 = d2
  Device <- OneDevice
  Misconfigured <- Nobody
  Sensor <- Nobody
  Board <- Nobody
  MaxCommands = 1
  MaxConnections = 2
  MaxReadings = 0
  COMMAND_MAX_RETRIES = 1
  MAX_TRACKED = 1
  MAX_SAMPLES = 2
PROPERTIES
  EveryCommandSettles
  SteadyLinksDeliver
  DeadLinkIsForgotten
  ConnectedIsGreeted
  ImplementsLedger
  PrunedStaysGone
