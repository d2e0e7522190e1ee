SPECIFICATION LiveSpec
CONSTANTS
  c1 = c1
  c2 = c2
  c3 = c3
  None = None
  Server = Server
  Clients <- MCClients
  Talkers <- MCTalkers
  Leavers <- MCLeavers
  Slow <- MCSlow
  Fds <- MCFds
INVARIANTS
  BatchIsRegistered
  HearsTheRoom
PROPERTY EveryoneIsServed
CHECK_DEADLOCK FALSE
