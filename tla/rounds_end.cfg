SPECIFICATION FairSpec
CONSTANTS
  N = 2
  MaxRounds = 2
  Stoppable = FALSE
  Level = "PULSE_TIME_ACK"
  Ignored = {2}
  Leavers = {1}
  Alignment = 1
  Unsteady = {1}
  MaxSpurious = 1
PROPERTIES RoundsEnd
CHECK_DEADLOCK FALSE
