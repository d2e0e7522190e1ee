SPECIFICATION LiveSpec
CONSTANTS
  Capacity = 2
  Total = 3
  Patient = TRUE
  MaxRuns = 3
  MaxCrashes = 3
INVARIANT NobodyStuck
PROPERTIES
  ImplementsStream
  CleanRunCompletes
CHECK_DEADLOCK FALSE
