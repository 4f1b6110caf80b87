CONSTANTS
  Slot <- MCSlot
  Parent <- MCParent
  Height <- MCHeight
  TxCount <- MCTxCount
  Levels = {"confirmed", "finalized"}
  MaxQueue = 2
SPECIFICATION FairSpec
INVARIANTS
  TypeOK
  BlocksWhole
  NothingBelowRoot
  WrittenInOrder
  NothingSkipped
PROPERTY EventuallyWritten
\* A process that has exited stops.
CHECK_DEADLOCK FALSE
