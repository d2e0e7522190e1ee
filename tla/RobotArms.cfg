SPECIFICATION ArmsSpec
CONSTANTS
  logger = logger
  dash = dash
  Observers <- MCObservers
  MaxSubs = 3
SYMMETRY Interchangeable
INVARIANTS
  SameArm
  StopsBeforeEmergency
  EveryoneTold
