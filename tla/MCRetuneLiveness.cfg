SPECIFICATION FairSpec
CONSTANTS
  Callers = {c1, c2}
  Freqs = {f1}
  ResultSlots = 2
  MaxCalls = 3
PROPERTIES
  GateOpens
  TokensAnswered
CHECK_DEADLOCK FALSE
