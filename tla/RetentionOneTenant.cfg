SPECIFICATION Spec
CONSTANTS
  None = None
  Row = {i1, i2}
  Tenant = {t1, t2}
  Place = {p1, p2}
  Script = {s1, s2}
  Days = {1}
  Policies = {2}
  Span = 1
  Longest = 2
  MaxTime = 3
  MaxBegun = 2
SYMMETRY MCSymmetry
PROPERTY PrunesOneTenant
