\* Termination of the shutdown and progress of the commands, under the
\* fairness of the three threads.
CONSTANTS
  None = None
  MaxSent = 2
  Heartbeat = TRUE
  FanMayFail = FALSE
  Messages <- LiveMessages
  WellFormed <- LiveMessages
  Payloads <- MCPayloads
SPECIFICATION FairSpec
PROPERTIES ShutdownCompletes CommandsHandled
CHECK_DEADLOCK FALSE
