SPECIFICATION Spec
CONSTANTS
  MaxPackets = 2
  MaxNalus = 2
INVARIANT ReleasedOnce
CHECK_DEADLOCK FALSE
