SPECIFICATION FairSpec
CONSTANTS
  ApiKeys = {k1}
  Lookups = {l1, l2}
  Admins = {a1, a2}
  Routes = {"revoke", "mgmtRevoke", "patch", "deleteUser"}
  AuthTtl = 2
  MaxLoad = 1
  MaxVersions = 3
  RedisFails = TRUE
INVARIANTS TypeOK
PROPERTIES BoundedStaleness RevocationTakesEffect
