SPECIFICATION Spec
CONSTANTS
  RingBlocks = 2
  OutputBlocks = 1
  FamilySwitcher = TRUE
  MaxReconfigures = 1
INVARIANTS
  GateHasOwner
CHECK_DEADLOCK FALSE
