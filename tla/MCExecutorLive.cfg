CONSTANTS
  t1 = t1
  t2 = t2
  w1 = w1
  Tasks <- MCTasks
  Threads <- MCThreads
  MaxBlockOns = 1
  Escaping = {}
  CustomWakers = {}
  None = None
SPECIFICATION Spec
PROPERTIES
  QueuedIsPolled
  KeepsSpawnContract
  ResolvingWakesTheWaiter
\* The executor may be dropped, or the root may wait for a wake for ever.
CHECK_DEADLOCK FALSE
