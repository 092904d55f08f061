SPECIFICATION Spec
CONSTANTS
  Streams <- MCStreams
  MagicLen = 2
  HdrLen = 3
  PackSize = 6
  Low = 7
  High = 9
INVARIANT CompleteWaits
INVARIANT SuspendedOnlyStalled
PROPERTY ChannelSpec
CHECK_DEADLOCK FALSE
