CONSTANTS
  MaxPpm = 1
  MaxPublished = 3
  MaxRefusals = 4
SPECIFICATION Spec
INVARIANTS TypeOK RefusedAtMostTwice
PROPERTIES OnlyRefusedTakenBack Converges
