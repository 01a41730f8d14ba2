SPECIFICATION Spec
CONSTANTS
  VendorPackages <- MCVendorPackages
  Requests <- MCRequests
  Scenarios <- MCScenarios
  BrowserPackages <- MCBrowserPackages
  Snapshots <- MCSnapshots
  Assertions <- MCAssertions
INVARIANTS CompiledIsFaithful ResolvesExactlyWhenSound  VerdictsAreRight
CHECK_DEADLOCK FALSE
