SPECIFICATION BSpec
CONSTANTS
  Dir = {d1, d2}
  None = None
  MaxAtOnce = 2
SYMMETRY Symmetry
INVARIANTS
  StatusTrue
  VerifiesItsOwn
