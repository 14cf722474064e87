SPECIFICATION Spec
CONSTANTS
  Tasks = {t1, t2}
  RunIds = {r1, r2}
  Schedules = {1, 2}
  OneTime = OneTime
  NoTask = NoTask
  MinMissedGrace = 0
  MaxMissedGrace = 1
  MaxConcurrent = 2
  MaxTime = 3
  MaxOps = 2
  MaxFailures = 1
  MaxCrashes = 1
  CronNext <- MCCronNext
  Priority <- SamePriority
SYMMETRY Symmetry
INVARIANTS
  OneCronRunPerTask
  StopWaitsForTheLoop
PROPERTIES
  MovedSlotNeverFires
  MissedSlotNeverFires
  FiresEachSlotOnce
CHECK_DEADLOCK FALSE
