CONSTANTS
  NRows = 3
  Parked = {}
  Avoided = {}
  CanFail = {1, 3}
  CanSucceed = {2, 3}
  OwnSettings = {3}
  Dual = TRUE
  MaxUpsets = 2
  MaxMaps = 1
SPECIFICATION Spec
INVARIANTS PartialMoveGated
