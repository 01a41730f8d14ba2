SPECIFICATION FairSpec
CONSTANTS
  ControlPlane = {"p", "q"}
  Lease = {"l0"}
  Artifact = {"f0", "f1"}
  Hopeless = {"f0"}
  Age <- MCAge
  Batch = 2
  MaxFaults = 1
  MaxCrashes = 1
INVARIANTS SettledIsClean ExclusiveClaims
PROPERTY DueIsSettled
