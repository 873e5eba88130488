SPECIFICATION Spec
CONSTANTS
  Providers = {p1}
  Models = {m1}
  Names = {n1, n2}
  Prices = {c1}
  Shown = {s1, s2}
  Admins = {a1, a2}
  Lookups = {l1}
SYMMETRY MCSymmetry
INVARIANTS CacheTypeOK StaleEntriesAreFlushed
CHECK_DEADLOCK FALSE
