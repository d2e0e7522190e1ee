SPECIFICATION Spec
CONSTANTS
  Targets <- MCTargets
  ClientEvents <- MCOperator
PROPERTY NoStaleReport
CHECK_DEADLOCK FALSE
