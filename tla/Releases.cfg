SPECIFICATION Spec
CONSTANTS
  MaxDeploys = 3
  MaxRuns = 4
INVARIANTS
  OkMeansApplied
  RepeatsOnlyAfterStop
  RollbackRestores
CHECK_DEADLOCK FALSE
