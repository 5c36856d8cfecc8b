SPECIFICATION ChatSpec
CONSTANTS
  capture = capture
  player = player
  Inputs = {capture}
  Outputs = {player}
  Duplexes = {}
  MaxTts = 0
PROPERTY
  RoundsRecord
