SPECIFICATION SessionSpec
CONSTANTS
  Copies = {a, b}
  Observed = {a}
  Texts = {ok}
  NoText = NoText
  Earlier = Earlier
  NotFound = NotFound
  Nobody = Nobody
  MaxTurns = 2
  MaxFaults = 1
INVARIANTS
  PassedTurnsAreStored
PROPERTIES
  ImplementsConversation
CHECK_DEADLOCK FALSE
