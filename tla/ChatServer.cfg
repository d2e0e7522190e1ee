SPECIFICATION LiveSpec
CONSTANTS
  c1 = c1
  c2 = c2
  c3 = c3
  None = None
  Clients <- MCClients
  Talkers <- MCOne
  Leavers <- MCTwo
  Fds <- MCFds
  Workers = 3
INVARIANTS
  TableIsOpen
  EachKnowsOther
PROPERTIES
  StayersHearLeave
  QuitEnds
CHECK_DEADLOCK FALSE
