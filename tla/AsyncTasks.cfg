SPECIFICATION FairSpec
CONSTANTS
  None = None
  Runs = {r1, r2}
  Hosts = {h1}
  Awaiters = {a1}
  MaxCalls = 2
  Told = {"blocked"}
INVARIANTS
  LiveHasARun
  RowIsCurrent
  AnnouncedIsStored
  NewsIsOnTheWay
PROPERTIES
  AwaitReturns
CHECK_DEADLOCK FALSE
