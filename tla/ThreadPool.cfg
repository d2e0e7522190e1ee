SPECIFICATION FairSpec
CONSTANTS
  w1 = w1
  w2 = w2
  w3 = w3
  Main = Main
  None = 0
  Workers <- MCWorkers
  Jobs = 3
  Child <- MCChild
INVARIANTS
  NoTaskUnattended
  NothingAbandoned
PROPERTY DestructorReturns
CHECK_DEADLOCK FALSE
