SPECIFICATION FairSpec
CONSTANTS
  Runs = {r1, r2}
  Names = {n1}
  Tenants = {ta}
  NoTenant = NoTenant
  Sessions = {s1}
  NoRun = NoRun
  MaxConcurrentRuns = 2
  MaxRunsPerTenant = 1
  Undrained = {r2}
  MaxCalls = 1
INVARIANTS
  AdmissionLimits
  RegistryIsExact
  EarlierRunsAreStopped
  StoreOutlivesRuns
PROPERTIES
  CloseReturns
  StoppedRunLeaves
CHECK_DEADLOCK FALSE
