SPECIFICATION LifeFair
CONSTANTS
  Workers = {w1, w2, w3}
  Clients = {c1, c2}
  Ops <- OpsBoth
  MinThreads = 0
  MaxThreads = 2
  JobsPerThread = 1
  MaxJobs = 2
  MaxCalls = 2
  SpawnMayFail = TRUE
  IdleIsLong = FALSE
INVARIANT TypeOK
INVARIANT ThreadBounds
INVARIANT BusyExact
INVARIANT OneFate
PROPERTY ShutdownEnds
CHECK_DEADLOCK FALSE
