CONSTANTS
  NRows = 4
  Parked = {4}
  Avoided = {}
  CanFail = {1, 3}
  CanSucceed = {2, 3, 4}
  OwnSettings = {3}
  Dual = FALSE
  MaxUpsets = 3
  MaxMaps = 1
SPECIFICATION Spec
INVARIANTS TypeOK ProfileMatchesReceiver FrameOfThisProfile
PROPERTIES GoodRowsServed
