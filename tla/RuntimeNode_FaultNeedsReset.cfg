SPECIFICATION Spec
CONSTANTS
  Targets <- MCTargets
  ClientEvents <- MCOperator
PROPERTY FaultNeedsReset
CHECK_DEADLOCK FALSE
