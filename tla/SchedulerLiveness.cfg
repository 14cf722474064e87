SPECIFICATION FairSpec
CONSTANTS
  Tasks = {1, 2}
  RunIds = {r1}
  Schedules = {1}
  OneTime = OneTime
  NoTask = 0
  MinMissedGrace = 1
  MaxMissedGrace = 1
  MaxConcurrent = 1
  MaxTime = 2
  MaxOps = 2
  MaxFailures = 1
  MaxCrashes = 0
  CronNext <- MCCronNext
  Priority <- ByNumber
PROPERTIES
  DueSlotIsResolved
  FiredTaskIsRescheduled
  StopReturns
CHECK_DEADLOCK FALSE
