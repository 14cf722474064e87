SPECIFICATION FairSpec
CONSTANTS
  Runs = {r1}
  MaxRounds = 3
  LintRetries = 1
  MaxSteers = 3
  MaxFailures = 1
  MaxForwarded = 2
INVARIANTS
  StatusMatchesEnd
PROPERTIES
  
  CompletedRowIsFinal
  ImplementsMailbox
  RunEnds
