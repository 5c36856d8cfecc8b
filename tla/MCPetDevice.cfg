CONSTANTS
  None = None
  MaxSent = 2
  Heartbeat = TRUE
  FanMayFail = TRUE
  Messages <- MCMessages
  WellFormed <- MCWellFormed
  Payloads <- MCPayloads
SPECIFICATION Spec
INVARIANTS TypeOK MotorsOutliveCommands PoseMatchesState PlatformUpToDate ThreadsOutlived HeartbeatSilentAfterOffline CommandAnswered
PROPERTIES RepliesInOrder ReplyFollowsReports ServiceSpec
CHECK_DEADLOCK FALSE
