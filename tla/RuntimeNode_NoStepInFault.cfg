SPECIFICATION Spec
CONSTANTS
  Targets <- MCTargets
  ClientEvents <- MCOperator
PROPERTY NoStepInFault
CHECK_DEADLOCK FALSE
