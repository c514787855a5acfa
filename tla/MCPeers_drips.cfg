SPECIFICATION FairSpec
CONSTANTS
  None = None
  d1 = d1
  d2 = d2
  Device <- OneDevice
  MaxCommands = 0
  MaxConnections = 1
  MaxFrames = 0
  MAX_TRACKED = 1
  MAX_SAMPLES = 2
PROPERTIES
  UnauthenticatedPeerLeaves
CHECK_DEADLOCK FALSE
