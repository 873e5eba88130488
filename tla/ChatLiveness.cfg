SPECIFICATION FairSpec
CONSTANTS
  k1 = k1
  k2 = k2
  k3 = k3
  k4 = k4
  Keys = {k1, k2}
  FailureThreshold = 2
  CircuitWindow = 1
  CircuitOpenTtl = 1
  CooldownTtl = 1
  AuthCooldownTtl = 1
  TieSlack = 0
  Requests = {r1, r2}
  Chain <- SinglePools
  RoundRobin = FALSE
  Streams = {TRUE, FALSE}
  Codes = {200, 403, 429}
  RetryAfters <- NoneOrRefused
  Faults = {"redis", "secret", "body", "crash", "flush"}
  NoKey = none
INVARIANTS InflightNeverOvercounts
PROPERTIES RequestsFinish KeysRecover
CHECK_DEADLOCK FALSE
