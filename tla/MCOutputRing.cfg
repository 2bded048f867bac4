SPECIFICATION FairSpec
CONSTANTS
  Capacity = 3
  MaxBatch = 2
  MaxSamples = 3
  MaxRetunes = 1
INVARIANTS
  TypeOK
  NothingLost
PROPERTIES
  AllDelivered
  HandoffInOneGeneration
  NothingAfterTimeout
CHECK_DEADLOCK FALSE
