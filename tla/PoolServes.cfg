SPECIFICATION LiveSpec
CONSTANTS
  Lister = {l1, l2, l3}
  Other = {o1, o2}
  PoolSize = 3
INVARIANTS
  Conserved
  NeverAllWaiting
PROPERTIES
  AllAnswered
CHECK_DEADLOCK FALSE
