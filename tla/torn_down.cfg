SPECIFICATION FairSpec
CONSTANTS
  N = 3
  Period <- Periods
  Second = 6
  MaxSeconds = 2
  Threaded = {}
PROPERTIES TornDown
CHECK_DEADLOCK FALSE
