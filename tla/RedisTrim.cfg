CONSTANTS
  a = a
  b = b
  Slot <- PairSlot
  Parent <- PairParent
  Height <- PairHeight
  Producer <- MCProducer
  Reported = {"confirmed", "finalized"}
  EveryLevel = FALSE
  Window = 3
  StreamMaxLen = 1
  LruCapacity = 4
  BatchSize = 2
  MaxUnread = 2
SPECIFICATION FairSpec
INVARIANTS
  NothingSwallowed
PROPERTIES
  ImplementsFeed
  EventuallyDelivered
CHECK_DEADLOCK FALSE
