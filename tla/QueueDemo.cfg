SPECIFICATION DemoSpec
CONSTANTS
  p1 = p1
  p2 = p2
  c1 = c1
  c2 = c2
  Main = Main
  Producers <- MCProducers
  Consumers <- MCConsumers
  Threads <- MCThreads
  Items <- MCItems
  Capacity = 2
  Frames = 3
INVARIANTS
  NoLostWakeup
  Backpressure
  NothingLeftBehind
  SomebodyGoesOn
PROPERTIES
  ImplementsBoundedQueue
  Termination
CHECK_DEADLOCK FALSE
