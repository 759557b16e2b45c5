SPECIFICATION Spec
CONSTANTS
  N = 1
  MaxRounds = 4
  Stoppable = TRUE
  Level = "SIMULATION"
  Ignored = {}
  Leavers = {1}
  Alignment = 1
  Unsteady = {1}
  MaxSpurious = 2
INVARIANTS TypeOK LockStepInv VirtualTimeNotAhead
PROPERTIES BatchesOnce  PulsesMoveForward
CHECK_DEADLOCK FALSE
