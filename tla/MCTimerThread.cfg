SPECIFICATION FairSpec
CONSTANTS
  Clients = {c1}
  Threads = {t1, t2}
  JobKinds <- MCJobKinds
  MaxEvents = 3
  MaxClock = 1
INVARIANT NeverOversleeps
INVARIANT OneFate
PROPERTY DueHandedOn
PROPERTY ShutdownReturns
CHECK_DEADLOCK FALSE
