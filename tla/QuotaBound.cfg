SPECIFICATION Spec
CONSTANTS
  None = None
  Tenant = {t1, t2}
  Request = {r1, r2, r3}
  Quotas = {0, 1, 2}
  MaxDevices = 6
SYMMETRY MCSymmetry
INVARIANTS
  OvershootBound
