CONSTANTS
  MaxVisits = 2
  MaxRefusals = 1
  MaxLosses = 1
SPECIFICATION Spec
INVARIANTS TypeOK FrameMatchesState
PROPERTIES ReturnEndsAVisit VisitEnds CcRegained
