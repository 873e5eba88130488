SPECIFICATION Spec
CONSTANTS
  r1 = r1
  r2 = r2
  g1 = g1
  e1 = e1
  e2 = e2
  i0 = i0
  i1 = i1
  i2 = i2
  Servers = {s1, s2}
  Requests = {r1, r2}
  Ids = {i0, i1, i2}
  Sentinel = i0
  Emails = {e1, e2}
  AdminEmail = e1
  Accts = {g1}
  PrimaryEmail <- MCPrimaryEmail
  Allowed = {e2}
  MaxSessions = 1
SYMMETRY MCSymmetry
INVARIANTS TypeOK AtMostOneOwner AdminsHaveOwner
PROPERTIES OwnerIsPermanent SetupStaysLocked
