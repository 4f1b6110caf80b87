CONSTANTS
  l1 = l1
  l2 = l2
  None = None
  Leader = {l1, l2}
  Epoch = {0, 1}
  EpochSlots = 3
  LeaderOf <- MCLeaderOf
  MaxFailures = 3
SPECIFICATION FairSpec
INVARIANTS
  OneFetchPerEpoch
  LeaderIsTrue
PROPERTIES
  KnownForGood
  EventuallyDecided
\* Every block was asked about.
CHECK_DEADLOCK FALSE
