SPECIFICATION FairSpec
CONSTANTS
  Sender <- Senders
  Pinger <- Pingers
  MaxFrames = 2
  SendBuffer = 2
INVARIANTS
  TypeOK
  OnlyDisturbedFramesAreTorn
PROPERTIES
  RepliesAreAChannel
  EverySendReturns
  IntactRequestsAreAnswered
CHECK_DEADLOCK FALSE
