SPECIFICATION FairSpec
CONSTANTS
  Req = {"a"}
  MaxWorkspaces = 1
  MaxRequests = 2
  MaxExpiries = 1
  MaxFaults = 1
  MaxCrashes = 1
INVARIANTS  ErasedIsDeleted
PROPERTIES  ExpiryActs
CHECK_DEADLOCK FALSE
