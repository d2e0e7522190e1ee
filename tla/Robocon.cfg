SPECIFICATION FairSpec
CONSTANTS
  Approach = 2
  Grip = 1
  Every = 2
INVARIANT FollowerIsNeverRefused
PROPERTY NextStepIsShown
CHECK_DEADLOCK FALSE
