CONSTANTS
  t1 = t1
  t2 = t2
  w1 = w1
  Tasks <- MCTasks
  Threads <- MCThreads
  MaxBlockOns = 2
  Escaping <- MCEscaping
  CustomWakers = {"reenter", "panic"}
  None = None
SPECIFICATION Spec
INVARIANTS
  OneSenderPerPendingJoin
  PendingJoinsAreOwned
  ShutdownResolvesJoins
PROPERTIES
  KeepsSpawnContract
\* The executor may be dropped, or the root may wait for a wake for ever.
CHECK_DEADLOCK FALSE
