CONSTANTS
  t1 = t1
  t2 = t2
  w1 = w1
  Tasks <- MCTasks
  Threads <- MCThreads
  MaxBlockOns = 1
  Escaping = {}
  CustomWakers = {"reenter"}
  None = None
SPECIFICATION SafeSpec
INVARIANTS
  PoppedIsAdmitted
\* The executor may be dropped, or the root may wait for a wake for ever.
CHECK_DEADLOCK FALSE
