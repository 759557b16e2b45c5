SPECIFICATION FairSpec
CONSTANTS
  N = 5
  Length <- Lengths
  Window = 3
INVARIANTS WholeAndInOrder NoByteLost
PROPERTIES NeverFurtherBehind
CHECK_DEADLOCK FALSE
