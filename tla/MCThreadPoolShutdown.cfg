CONSTANTS
  Workers = {w1, w2}
  Clients = {c1, c2}
  Ops <- OpsBoth
  MinThreads = 0
  MaxThreads = 2
  JobsPerThread = 1
  MaxJobs = 2
  MaxCalls = 2
  SpawnMayFail = FALSE
  IdleIsLong = FALSE
SPECIFICATION LifeSpec
INVARIANT ShutdownWaits
CHECK_DEADLOCK FALSE
