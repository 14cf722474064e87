SPECIFICATION FairSpec
CONSTANTS
  MaxCalls = 3
  MaxAttempts = 2
  MaxParallel = 1
INVARIANTS
  NothingOvertakesAWrite
  EveryCallAnswered
  GateIsThePartition
PROPERTIES
  CallsEnd
CHECK_DEADLOCK FALSE
