SPECIFICATION FairSpec
CONSTANTS
  N = 3
  Size = 2
  MaxQueued = 1
  Commands = {"play", "pause", "step", "rewind"}
INVARIANTS ImagesMatch NeverStarvesAlone EndsAtTheEnd
PROPERTIES PlayedInOrder ReplayEnds RewindReturns
CHECK_DEADLOCK FALSE
