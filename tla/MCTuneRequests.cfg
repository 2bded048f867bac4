SPECIFICATION Spec
CONSTANTS
  History = 2
  Owners = {o1, o2}
  Observers = {w1}
  MaxRequests = 3
INVARIANTS
  TypeOK
  UnresolvedCountExact
  IdsDistinct
  StatusOkMeansBoundary
PROPERTIES
  NoResurrection
  GateSpec
  GateOfOwnedTunes
