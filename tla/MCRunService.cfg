SPECIFICATION FairSpec
CONSTANTS
  RunId = {r1}
  Caller = {c1, c2}
  MaxFaults = 1
  MaxCrashes = 2
INVARIANTS NoOrphan EndsAreEarned
PROPERTIES FinishedIsFinal RunsSettle
