SPECIFICATION Spec
CONSTANTS
  MaxCalls = 1
  MaxAttempts = 1
  MaxParallel = 1
INVARIANTS
  NoSendAfterClose
CHECK_DEADLOCK FALSE
