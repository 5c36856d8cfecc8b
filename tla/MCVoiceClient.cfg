SPECIFICATION FairSpec
CONSTANTS
  NoFrame = NoFrame
  Frames <- MCFrames
  Capacity = 2
  MaxCalls = 2
  MaxTasks = 1
  MaxInbox = 1
INVARIANTS
  TypeOK
  ServiceThreadOwned
  AfterHelloOwn
  StoppedState
PROPERTIES
  RingIsFifo
  FramesMoveOn
  ConnectReturns
  DisconnectReturns
CHECK_DEADLOCK FALSE
