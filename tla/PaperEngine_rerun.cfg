SPECIFICATION Spec
CONSTANTS
  s1 = s1
  s2 = s2
  Symbols = {s1}
  Prices <- MCPrices
  Bars <- MCBars
  StartCash = 8010
  Allocation = 8500
  MaxSlots = 1
  MaxBars = 2
  RelativeExits = TRUE
  BaseLow = 0
  SignalTarget = 0
  LegacyPositions <- NoLegacy
  TicksPerDay = 2
  MaxTime = 5
  MaxLate = 2
  MaxCandles = 1
  ReportCrash = TRUE
INVARIANT MissedHadNoEntry
