CONSTANTS
  c1 = c1
  c2 = c2
  Client <- MCClient
  Bodies <- MCBodies
  MAX_TX_ACCOUNT_LOCKS = 2
  MaxLevels = 1
  MaxPercentile = 4
  RequestCallsMax = 3
  RequestQueueMax = 1
  MaxUpdates = 1
SPECIFICATION FairSpec
INVARIANTS
  TypeOK
  EveryCallAnswered
  DroppedOnlyByShutdown
  WaitersAreServed
PROPERTY ShutdownCompletes
CHECK_DEADLOCK FALSE
