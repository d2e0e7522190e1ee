SPECIFICATION Spec
CONSTANTS
  t1 = t1
  t2 = t2
  t3 = t3
  a = a
  b = b
  Threads <- MCThreads
  Items <- MCItems
  Capacity = 2
SYMMETRY Symmetry
INVARIANTS
  TypeOK
  NoLostWakeup
  ShutdownWakesAll
PROPERTY ImplementsBoundedQueue
