SPECIFICATION FairSpec
CONSTANTS
  Tasks = {t1, t2, t3}
  Callers = 2
  MaxTasks = 1
  Keep = 1
INVARIANTS
  CeilingIsNearlyKept
  NoneRunsAfterTheWait
PROPERTIES
  TasksEnd
