CONSTANTS
  t1 = t1
  t2 = t2
  w1 = w1
  Tasks <- MCTasks
  Threads <- MCThreads
  MaxBlockOns = 2
  Escaping = {}
  CustomWakers = {}
  None = None
SPECIFICATION SafeSpec
SYMMETRY Symmetric
INVARIANTS
  PoppedIsAdmitted
  OnlyQueuedIsPolled
  NoStaleRootId
  IndInv
\* The executor may be dropped, or the root may wait for a wake for ever.
CHECK_DEADLOCK FALSE
