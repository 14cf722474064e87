SPECIFICATION FairSpec
CONSTANTS
  c1 = c1
  c2 = c2
  c3 = c3
  p1 = p1
  p2 = p2
  Calls = {c1, c2, c3}
  Names = {p1, p2}
  Configured <- ConfiguredDef
  Limit <- OneSlotEach
  Strategies = {"failover", "round_robin"}
  Asks <- AsksDef
  None = None
  MaxChanges = 1
INVARIANTS
  NoSlotIsLost
  WaitersAreTold
PROPERTIES
  CallsEnd
CHECK_DEADLOCK FALSE
