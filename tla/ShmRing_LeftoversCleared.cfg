SPECIFICATION Spec
CONSTANTS
  Capacity = 2
  Total = 3
  Patient = FALSE
  MaxRuns = 2
  MaxCrashes = 2
INVARIANT LeftoversCleared
CHECK_DEADLOCK FALSE
