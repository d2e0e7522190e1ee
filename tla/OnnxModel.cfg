SPECIFICATION Spec
CONSTANT Models <- MCModels
INVARIANTS
  LoadsTheModel
PROPERTY InspectorEnds
CHECK_DEADLOCK FALSE
