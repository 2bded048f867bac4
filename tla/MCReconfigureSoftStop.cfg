SPECIFICATION FairSpec
CONSTANTS
  RingBlocks = 2
  OutputBlocks = 1
  FamilySwitcher = FALSE
  MaxReconfigures = 0
PROPERTIES
  SoftStopJoins
CHECK_DEADLOCK FALSE
