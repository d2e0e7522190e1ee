SPECIFICATION Spec
CONSTANTS
  c1 = c1
  c2 = c2
  c3 = c3
  None = None
  Clients <- MCClients
  Talkers <- MCNobody
  Leavers <- MCClients
  Fds <- MCFds
  Workers = 2
INVARIANT NotHeardBeforeRegistered
CHECK_DEADLOCK FALSE
