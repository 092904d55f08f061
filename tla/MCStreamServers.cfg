SPECIFICATION FairSpec
CONSTANTS
  c1 = c1
  c2 = c2
  Conns <- TwoConns
  NumServers = 2
  CountMod = 4
  CallsMayFail = TRUE
INVARIANT FaultNeedsEarlyAccept
INVARIANT RelayInOrder
INVARIANT NotificationKept
INVARIANT CountExactUnlessCrowded
INVARIANT FlowIdsDistinct
PROPERTY EveryConnServed
CHECK_DEADLOCK FALSE
