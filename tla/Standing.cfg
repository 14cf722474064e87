SPECIFICATION FairSpec
CONSTANTS
  Ids = {a}
  Scheduled = {a}
  Scanned = {}
  Events = {e1}
  Hosts = {h1, h2}
  Loop = Loop
  Wakes = {w1, w2}
  Nobody = Nobody
  MaxWakesPerDay = 1
  MaxDays = 2
  MaxCalls = 3
  MaxRestarts = 1
INVARIANTS
  EventsAreKept
  OneWakeAtATime
PROPERTIES
  AskedWakeComes
  EventRidesOnTheNext
CHECK_DEADLOCK FALSE
