CONSTANTS
  InitialState = "healthy"
  Transitions <- MCTransitions
  StateDefinition <- MCStateDefinition
  Plan <- MCPlan
  MaxCalls = 4
  MaxResets = 3
  MaxFailures = 1
  MaxOverlaps = 1
  Suites <- MCSuites
  MaxFreeResets = 1
  MaxMishaps = 1
SPECIFICATION ContractSpec
INVARIANTS LedgerTellsStory LedgerPairsOwn 
CHECK_DEADLOCK FALSE
