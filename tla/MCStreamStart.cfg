SPECIFICATION StartFair
CONSTANTS
  Queries = {q1, q2}
  Nodes = {q1, q2}
  RetryMax = 1
  MaxContinues = 1
  PoolThreads = 1
INVARIANT NodeLifetime
INVARIANT SendsOnlyH264
PROPERTY ServiceSpec
PROPERTY SocketReturned
PROPERTY QueryLeadsToPublisher
CHECK_DEADLOCK FALSE
