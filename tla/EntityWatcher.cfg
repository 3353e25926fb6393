SPECIFICATION WSpec
CONSTANTS
  Email = {e1, e2}
  Tenant = {t0, t1, t2}
  Default = t0
  Request = {r1, r2}
  None = None
  MaxTime = 2
  Fetched = 2
  Listed = 1
INVARIANTS
  ReadsHold
  AccountsComplete
  CountedWereTold
PROPERTIES
  AccountsSpec
  RegisterEnds
