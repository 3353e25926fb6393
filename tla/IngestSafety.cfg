SPECIFICATION Spec
CONSTANTS
  None = None
  Device = {d1}
  Tenant = {t1, t2}
  Sample = {s1}
  Hook = {h1, h2}
  Reader = {g1}
  CacheTtlSet = TRUE
SYMMETRY MCSymmetry
INVARIANTS
  NothingInvented
  ApartUntilMoved
  CacheIsNewest
