SPECIFICATION Spec
CONSTANTS
  Tokens = {t1, t2}
  Ttl = 4
  SlideAt = 2
  MaxDelay = 1
  Keys = {k1, k2}
  Requests = {r1, r2}
SYMMETRY MCSymmetry
INVARIANTS TypeOK UsedSessionsStay
PROPERTIES EndedCredentialsStayEnded IdleSessionsExpire
