SPECIFICATION Spec
CONSTANTS
  Requests = {r1, r2}
  RpmLimit = 2
  TokenLimit = 2
  CostLimit = 1
  Usages <- SmallUsages
  MaxTokens = 2
  MinuteLength = 2
  DayLength = 4
  MaxTime = 4
  MaxArrivals = 4
  Faults = {"redis", "crash"}
INVARIANTS TypeOK RequestsWithinLimit TokensWithinLimit
SYMMETRY RequestSymmetry
CHECK_DEADLOCK FALSE
