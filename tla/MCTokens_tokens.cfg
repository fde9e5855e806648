SPECIFICATION Spec
CONSTANTS
  Life = 5
  Before = 3
  Every <- Intervals
  MaxFailures = 1
  Requests = {"r1"}
  TokenLife = 5
  RenewBefore = 3
  MaxDeaths = 2
INVARIANTS
  NeverRunsOut
  OnlyLiveTokens
PROPERTIES
  WaitsEnd
