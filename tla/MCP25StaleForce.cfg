CONSTANTS
  MaxVisits = 2
  MaxRefusals = 1
  MaxLosses = 0
SPECIFICATION Spec
INVARIANTS ForceIsOfThisVisit
