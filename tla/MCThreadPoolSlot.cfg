SPECIFICATION Spec
CONSTANTS
  Workers = {w1, w2}
  Clients = {c1, c2}
  Ops <- OpsPersistent
  c1 = c1
  c2 = c2
  MinThreads = 0
  MaxThreads = 2
  JobsPerThread = 1
  MaxJobs = 2
  MaxCalls = 2
  SpawnMayFail = FALSE
  IdleIsLong = FALSE
INVARIANT NoJobLost
CHECK_DEADLOCK FALSE
