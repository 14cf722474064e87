SPECIFICATION FairSpec
CONSTANTS
  None = None
  Runs = {r1}
  Hosts = {h1}
  Awaiters = {a1}
  MaxCalls = 1
  Told = {"blocked"}
PROPERTIES
  CancelledStaysCancelled
CHECK_DEADLOCK FALSE
