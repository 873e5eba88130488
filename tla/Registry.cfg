SPECIFICATION RegistrySpec
CONSTANTS
  Providers = {p1, p2}
  Models = {m1, m2, m3}
  Names = {n1}
  Prices = {c1}
  Shown = {s1}
  Admins = {a1, a2}
SYMMETRY MCSymmetry
INVARIANTS TypeOK DuplicatesBounded ReferencesHold
CHECK_DEADLOCK FALSE
