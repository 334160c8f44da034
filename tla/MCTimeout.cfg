CONSTANTS
  s1 = s1
  s2 = s2
  t1 = t1
  t2 = t2
  Timeouts <- MCTimeouts
  Tasks <- MCTasks
  Durations = {2}
  MaxTime = 2
  Panicking <- MCPanicking
  None = None
SPECIFICATION Spec
INVARIANTS
  PartsLiveTogether
  AwaitersAreArmed
  IndInv
PROPERTIES
  ReadyFutureWins
  AwaitedTimeoutsEnd
\* Every timeout may have ended and the time is bounded.
CHECK_DEADLOCK FALSE
