SPECIFICATION FairSpec
CONSTANTS
  RingBlocks = 2
  OutputBlocks = 1
  FamilySwitcher = FALSE
  MaxReconfigures = 2
INVARIANTS
  TypeOK
  IdleMeansIdle
  GateCoversReset
  PurgedNeverDemodulated
  OutputOfThisTuning
PROPERTIES
  ReconfigureEnds
  ExitJoins
CHECK_DEADLOCK FALSE
