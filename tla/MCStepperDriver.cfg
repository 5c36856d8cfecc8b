SPECIFICATION Spec
CONSTANTS
  Travel = 900
  Slack = 20
  SwitchStates = {"works", "stuck", "absent"}
  Angles <- MCAngles
  Starts <- MCStarts
  CutPoints = {120}
  MaxCrashes = 1
INVARIANTS
  TypeOK
  TracksAngle
  CoilsOffWhenIdle
  StallBounded
