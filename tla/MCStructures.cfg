SPECIFICATION StructSpec
CONSTANTS
  InitSize = 2
  MaxLen = 5
  MaxTotal = 20
  Nodes = {n1, n2, n3}
  HEAD = head
  TAIL = tail
  NULL = null
  Items = {x, y}
  MaxFree = 3
  Values = {a, b}
  Garbage = garbage
  DefaultCapacity = 3
  Slack = 1
  MaxCapacity = 5
  StarvationTime = 1
  MaxIdleTime = 2
  MaxJobs = 3
  MaxClock = 2
INVARIANT WriteInBlock
INVARIANT ListConsistent
INVARIANT SamePriorityInOrder
PROPERTY ItemListSpec
PROPERTY VectorSpec
PROPERTY PinnedStays
CHECK_DEADLOCK FALSE
