SPECIFICATION CanSpec
CONSTANTS
  NodeIds = {1, 15}
  Positions <- MCPositions
  Timeout = 1
  MaxTime = 3
  MaxLines = 1
INVARIANTS
  StatusSurvivesTheBus
  FaultHasCause
CHECK_DEADLOCK FALSE
