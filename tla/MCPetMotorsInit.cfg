CONSTANTS
  Duties = {0, 66, 100}
  MaxCommands = 3
SPECIFICATION MotorsSpec
INVARIANT ReleasedOnce
CHECK_DEADLOCK FALSE
