CONSTANTS
  i1 = i1
  t1 = t1
  t2 = t2
  Intervals <- MCIntervals
  Tasks <- MCTasks
  Awaiter = t1
  Periods = {1, 3}
  Grace = 1
  MaxTime = 7
  None = None
SPECIFICATION Spec
INVARIANTS
  TicksStayOnSchedule
  AwaitedTicksAreArmed
  IndInv
PROPERTIES
  MissedTickPromise
  TicksGoOn
\* The time is bounded.
CHECK_DEADLOCK FALSE
