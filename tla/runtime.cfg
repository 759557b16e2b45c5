SPECIFICATION FairSpec
CONSTANTS
  N = 3
  Period <- Periods
  Second = 6
  MaxSeconds = 2
  Threaded = {1, 3}
INVARIANTS HandOverInv OneAtATime
PROPERTIES BlockedWhileHeld NoTurnMissed RunEnds
CHECK_DEADLOCK FALSE
