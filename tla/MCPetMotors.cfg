CONSTANTS
  Duties = {0, 66, 100}
  MaxCommands = 3
SPECIFICATION MotorsSpec
INVARIANTS MotorsTypeOK FanRuns AllOrNothing
PROPERTIES Stops NoOldPulse
CHECK_DEADLOCK FALSE
