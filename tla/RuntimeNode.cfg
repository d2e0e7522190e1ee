SPECIFICATION FairSpec
CONSTANTS
  Targets <- MCTargets
  ClientEvents <- MCAnyClient
INVARIANTS
  SlotHasOneOwner
  RunningHasTask
  LostSensorHeartbeat
  ResultAfterTaskState
PROPERTIES
  QueryAgrees
  ImplementsLifecycle
  EveryGoalEnds
  CancelIsHonoured
  ShutdownCompletes
  SensorLossFaults
CHECK_DEADLOCK FALSE
