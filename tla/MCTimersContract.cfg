CONSTANTS
  s1 = s1
  s2 = s2
  t1 = t1
  t2 = t2
  Sleeps <- MCSleeps
  Tasks <- MCTasks
  MaxTime = 2
  MaxTimers = 2
  TestClock = TRUE
  CustomWakers = {"reenter"}
  None = None
SPECIFICATION SafeSpec
SYMMETRY SymmetricTasks
PROPERTIES
  KeepsTimerContract
CHECK_DEADLOCK FALSE
