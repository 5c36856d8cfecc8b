\* The heartbeat does not survive a lost connection.
CONSTANTS
  None = None
  MaxSent = 1
  Heartbeat = TRUE
  FanMayFail = TRUE
  Messages <- MCMessages
  WellFormed <- MCWellFormed
  Payloads <- MCPayloads
SPECIFICATION Spec
INVARIANT HeartbeatWhileConnected
CHECK_DEADLOCK FALSE
