SPECIFICATION LiveSpec
CONSTANTS
  Request = {r1, r2}
  Slot = {s1}
  MaxAttempts = 2
  PerSec = 1
  PerMin = 2
  SlotPerMin = 2
  MaxQuota = 2
  Minute = 2
INVARIANTS
  WindowBound
  KeyTimed
PROPERTIES
  WindowEnds
