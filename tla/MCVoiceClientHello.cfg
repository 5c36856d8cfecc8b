SPECIFICATION FairSpec
CONSTANTS
  NoFrame = NoFrame
  Frames <- MCFrames
  Capacity = 2
  MaxCalls = 2
  MaxTasks = 0
  MaxInbox = 1
PROPERTY HandshakeEnds
CHECK_DEADLOCK FALSE
