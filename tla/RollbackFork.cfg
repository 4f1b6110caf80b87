CONSTANTS
  Slot <- MCSlot
  Parent <- MCParent
  Height <- MCHeight
  MAX_RECENT_BLOCKHASHES = 1
  EvictionSlack = 1
  MAX_NUM_RECENT_SLOT_INFO = 2
SPECIFICATION LoopSpec
INVARIANT RollbackStaysOnChain
CHECK_DEADLOCK FALSE
