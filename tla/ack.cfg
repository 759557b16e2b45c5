SPECIFICATION Spec
CONSTANTS
  N = 2
  MaxRounds = 2
  Stoppable = FALSE
  Level = "PULSE_TIME_ACK"
  Ignored = {}
  Leavers = {}
  Alignment = 1
  Unsteady = {1}
  MaxSpurious = 1
INVARIANTS StrictWorkInTurn
PROPERTIES RefinesLockStep
CHECK_DEADLOCK FALSE
