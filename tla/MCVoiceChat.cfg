SPECIFICATION ChatSpec
CONSTANTS
  capture = capture
  player = player
  Inputs = {capture}
  Outputs = {player}
  Duplexes = {}
  MaxTts = 2
INVARIANTS
  ResourcesOutliveUsers
PROPERTIES
  AudioInsideRound
  ArmsQuietCapture
  QuitEnds
