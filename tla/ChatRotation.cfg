SPECIFICATION Spec
CONSTANTS
  k1 = k1
  k2 = k2
  k3 = k3
  k4 = k4
  Keys = {k1, k2, k3}
  FailureThreshold = 9
  CircuitWindow = 2
  CircuitOpenTtl = 1
  CooldownTtl = 2
  AuthCooldownTtl = 3
  TieSlack = 9
  Requests = {r1, r2, r3}
  Chain <- PoolAndSpare
  RoundRobin = TRUE
  Streams = {FALSE}
  Codes = {200, 400}
  RetryAfters <- NoHeaderOnly
  Faults = {}
  NoKey = none
INVARIANTS RotationIsFair
SYMMETRY RequestSymmetry
CHECK_DEADLOCK FALSE
