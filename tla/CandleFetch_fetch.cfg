SPECIFICATION FairSpec
CONSTANTS
  a = a
  b = b
  x = x
  Instruments = {a, b}
  Unmapped = {x}
  Sessions = {0, 1, 2, 3, 4, 6}
  Main = "main"
  Scope = "scope"
  Listing <- MCListing
  Members <- MCMembers
  Lookback <- MCLookback
  Supported = 5
  Retention = 3
  StartGrace = 0
  EndGrace = 1
  MaxRetries = 1
  FirstDay = 4
  LastDay = 5
  MaxRuns = 2
  MaxDeaths = 1
INVARIANTS
  RunsSettled
  PassedOverIsComplete
PROPERTIES
  KeepsArchive
  MainRunsEnd
CHECK_DEADLOCK FALSE
