CONSTANTS
  Attempt = {h1, h2}
  MaxContainers = 2
  MaxCompiles = 2
  MaxCalls = 2
  MaxStarts = 4
  MaxTroubles = 1
SPECIFICATION FairSpec
INVARIANTS NoContainerUnaccounted CallsRecordedOnce SummaryIsTrue
PROPERTY ContainersConverge
CHECK_DEADLOCK FALSE
