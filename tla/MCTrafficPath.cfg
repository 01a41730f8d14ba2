SPECIFICATION FairSpec
CONSTANTS
  Key = {"k1", "k2"}
  Mutations = {}
  MaxBodyBytes = 64
  MaxRequestTimeoutMs = 120000
  MaxRetryAttempts = 3
  MaxRetryDelayMs = 60000
  Batch <- MCBatch
  MaxRequests = 3
  MaxConcurrency = 2
  MaxTroubles = 1
INVARIANTS ReportsAreTrue CompletedHasOutcome
PROPERTIES ImplementsIngestion BatchSettles
CHECK_DEADLOCK FALSE
