SPECIFICATION Spec
CONSTANTS
  Node <- MCNode
  Kind <- MCKind
  Kids <- MCKids
  Below <- MCBelow
  PhaseRoot <- MCPhaseRoot
  Times <- MCTimes
  Attempts <- MCAttempts
  StepId <- MCStepId
  Timed = {"b"}
  Compensated = {"a"}
  Leasing = {"b"}
  Registering = {}
  MaxFaults = 1
  MaxAttempt = 3
INVARIANTS PassedIsQuiet ReverseOrder 
PROPERTIES AbortStopsProgress  ImplementsContract
