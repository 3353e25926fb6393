SPECIFICATION Spec
CONSTANTS
  None = None
  Token = {t0, t1, t2}
  Legacy = {t0}
  Request = {r1, r2}
  RefreshLife = 2
  MaxTime = 4
SYMMETRY MCSymmetry
CHECK_DEADLOCK FALSE
INVARIANTS
  TypeOK
  AnsweredStaysDead
  BoundedReuse
