CONSTANTS
  StreamsChannelCapacity = 2
  SinkCapacity = 1
  MaxUpdates <- TwiceTheChannel
  MaxCalls = 3
SPECIFICATION FairSpec
INVARIANTS
  NoGap
  FilterInForce
PROPERTY EventuallyWritten
\* A closed connection stops.
CHECK_DEADLOCK FALSE
