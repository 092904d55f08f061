SPECIFICATION Spec
CONSTANTS
  Streams <- MCStreams
  MaxBody = 21
  MaxFailures = 1
INVARIANT UnitsExact
INVARIANT OverrunOnlyAtCodeEnd
CHECK_DEADLOCK FALSE
