SPECIFICATION Spec
CONSTANTS
  a = a
  b = b
  x = x
  Members = {a, b, x}
  Unmapped = {x}
  Sessions = {0, 1, 2, 3, 4, 7}
  Listing <- MCListing
  Lookback = 3
  Supported = 5
  StartGrace = 0
  EndGrace = 1
  Overlap = 1
  MaxRetries = 1
  RetryDelay = 1
  Primary = 1
  Repair = 2
  FinalCheck = 3
  Deadline = 4
  FirstDay = 4
  LastDay = 5
  MaxRuns = 2
  MaxMishaps = 1
INVARIANTS
  RunsInOrder
  FreshMeansWhole
PROPERTIES
  KeepsArchive
CHECK_DEADLOCK FALSE
