SPECIFICATION FairSpec
CONSTANTS
  Req = {"a"}
  MaxWorkspaces = 1
  MaxRequests = 1
  MaxExpiries = 1
  MaxFaults = 0
  MaxCrashes = 0
PROPERTY ExpirySparesHibernated
CHECK_DEADLOCK FALSE
