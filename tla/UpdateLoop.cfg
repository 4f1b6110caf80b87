CONSTANTS
  Slot <- MCSlot
  Parent <- MCParent
  Height <- MCHeight
  MAX_RECENT_BLOCKHASHES = 1
  EvictionSlack = 1
  MAX_NUM_RECENT_SLOT_INFO = 2
SPECIFICATION LoopSpec
INVARIANTS
  LoopInv
  FinalizedTotalExact
  NeverSpins
  NeverEvictedEarly
  LatestFinalizedStored
  RollbackReachesStoredAncestors
  MaxRollbackServed
  NewestInfoKept
  InfoIsStored
  CommitmentsAgree
PROPERTY FinalizedNeverGoesBack
\* The feed ends when everything was said.
CHECK_DEADLOCK FALSE
