CONSTANTS
  t1 = t1
  t2 = t2
  t3 = t3
  w1 = w1
  w2 = w2
  Tasks <- MCTasks
  Threads <- MCThreads
  Executor = Executor
  NoTask = NoTask
SPECIFICATION Spec
INVARIANTS
  QueuedIffRepresented
  RepresentedOnce
  OnlyQueuedIsPolled
  IndInv
PROPERTIES
  KeepsWakeContract
  KeepsWakeSafety
\* Every task may have completed, or wait for a wake nobody can give.
CHECK_DEADLOCK FALSE
