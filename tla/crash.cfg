SPECIFICATION FairSpec
CONSTANTS
  N = 1
  MaxRounds = 2
  Stoppable = TRUE
  Level = "PULSE"
  Ignored = {}
  Leavers = {1}
  Alignment = 2
  Unsteady = {1}
  MaxSpurious = 1
PROPERTIES DisconnectedAreRemoved
CHECK_DEADLOCK FALSE
