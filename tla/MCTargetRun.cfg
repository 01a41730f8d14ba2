SPECIFICATION FairSpec
CONSTANTS
  Adapter = "gl-eye"
  Attempt = {h1, h2}
  RouteInput <- MCRouteInput
  MaxRoutes = 2
  MaxTargets = 2
  MaxRouteTtlMs = 1
  MaxStarts = 4
  MaxTroubles = 1
INVARIANTS  CompletedIsEnriched
PROPERTIES ReleasedIsGone 
CHECK_DEADLOCK FALSE
