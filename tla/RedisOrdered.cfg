CONSTANTS
  a = a
  b = b
  Slot <- ForkSlot
  Parent <- ForkParent
  Height <- ForkHeight
  Producer <- MCProducer
  Reported = {"confirmed", "finalized"}
  EveryLevel = TRUE
  Window = 2
  StreamMaxLen = 4
  LruCapacity = 4
  BatchSize = 2
  MaxUnread = 2
SPECIFICATION Spec
INVARIANTS
  NoFinalizedGap
  NoDuplicate
PROPERTIES
  ImplementsOrderedFeed
SYMMETRY Symmetry
CHECK_DEADLOCK FALSE
