SPECIFICATION FairSpec
CONSTANTS
  Handler = {1, 2}
  Execution = {"initial", "duplicate"}
  Steps <- MCSteps
  Policy <- MCPolicy
  MaxBegins = 3
  MaxRequests = 1
  MaxTroubles = 1
INVARIANTS EvidenceIsWhole 
PROPERTY HandlersEnd
CHECK_DEADLOCK FALSE
