SPECIFICATION FairSpec
CONSTANTS
  Workers = {w1, w2}
  Clients = {c1, c2}
  Ops <- OpsOnePersistent
  c1 = c1
  c2 = c2
  MinThreads = 0
  MaxThreads = 2
  JobsPerThread = 1
  MaxJobs = 2
  MaxCalls = 4
  SpawnMayFail = FALSE
  IdleIsLong = TRUE
INVARIANT NoJobLost
PROPERTY CallReturns
PROPERTY QueuedStarts
CHECK_DEADLOCK FALSE
