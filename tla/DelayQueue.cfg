CONSTANTS
  Tasks = {t1, t2, t3}
  Delays = {0, 1, 3}
  MaxSleep = 2
  Steps = {2}
  MaxTime = 3
SPECIFICATION FairDelaySpec
INVARIANTS
  DeltasTell
  WakesInTime
PROPERTIES
  NeverEarly
  DueTasksRun
