SPECIFICATION FairSpec
CONSTANTS
  None = None
  d1 = d1
  d2 = d2
  Device <- TwoDevices
  MaxCommands = 1
  MaxConnections = 1
  MaxFrames = 3
  MAX_TRACKED = 1
  MAX_SAMPLES = 2
INVARIANTS
  TypeOK
  FirstFrameDecides
PROPERTIES
  OnlyGreetedPeersAct
  SilentPeerIsDropped
  EndedSessionCleansUp
CHECK_DEADLOCK FALSE
