CONSTANTS
  s1 = s1
  s2 = s2
  t1 = t1
  t2 = t2
  Sleeps <- MCSleeps
  Tasks <- MCOneTask
  MaxTime = 2
  MaxTimers = 3
  TestClock = TRUE
  CustomWakers = {"panic"}
  None = None
SPECIFICATION SafeSpec
SYMMETRY Symmetric
INVARIANTS
  HeapCoversRegistrations
  RegistrationsBelongToSleeps
  FiredSleepsHaveElapsed
  PausedClockMovesForward
  NextDeadlineIsEarliest
  IndInv
\* The time and the number of registrations are bounded.
CHECK_DEADLOCK FALSE
