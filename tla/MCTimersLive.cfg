CONSTANTS
  s1 = s1
  s2 = s2
  t1 = t1
  t2 = t2
  Sleeps <- MCSleeps
  Tasks <- MCOneTask
  MaxTime = 2
  MaxTimers = 2
  TestClock = FALSE
  CustomWakers = {}
  None = None
SPECIFICATION Spec
PROPERTIES
  AlarmsGoOff
  PendingSleepsEnd
CHECK_DEADLOCK FALSE
