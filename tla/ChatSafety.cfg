SPECIFICATION HistorySafety
CONSTANTS
  k1 = k1
  k2 = k2
  k3 = k3
  k4 = k4
  Keys = {k1, k2}
  FailureThreshold = 2
  CircuitWindow = 2
  CircuitOpenTtl = 1
  CooldownTtl = 1
  AuthCooldownTtl = 1
  TieSlack = 0
  Requests = {r1, r2}
  Chain <- SharedKey
  RoundRobin = FALSE
  Streams = {TRUE, FALSE}
  Codes = {200, 400, 403, 429, 500}
  RetryAfters <- GoodHeaders
  Faults = {}
  NoKey = none
INVARIANTS TypeOK InflightMatchesHolders NoSlotAfterAnswer ErrorOnlyAfterLastCandidate OneRowPerAttempt FailureCounterExpires FailuresSinceSuccess
SYMMETRY RequestSymmetry
CHECK_DEADLOCK FALSE
