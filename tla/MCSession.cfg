SPECIFICATION MSpec
CONSTANTS
  MaxPackets = 2
  MaxNalus = 2
INVARIANT QueueInOrder
INVARIANT FaultNeedsRace
INVARIANT ReleasedOnceUnlessRaced
PROPERTY GaplessStream
PROPERTY SessionSpec
PROPERTY EventuallyReleased
CHECK_DEADLOCK FALSE
