SPECIFICATION Spec
CONSTANTS
  Callers = {c1, c2}
  Freqs = {f1, f2}
  ResultSlots = 2
  MaxCalls = 4
SYMMETRY Symmetry
INVARIANTS
  TypeOK
  IdsAligned
  TruthfulReturn
  GateAhead
  TokensConserved
CHECK_DEADLOCK FALSE
