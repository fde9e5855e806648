SPECIFICATION Spec
CONSTANTS
  s1 = s1
  s2 = s2
  Symbols = {s1, s2}
  Prices <- EdgePrices
  Bars <- MCBars
  StartCash = 20000
  Allocation = 9000
  MaxSlots = 1
  MaxBars = 3
  RelativeExits = FALSE
  BaseLow = 8000
  SignalTarget = 8800
  LegacyPositions <- MCLegacy
  TicksPerDay = 2
  MaxTime = 5
  MaxLate = 0
  MaxCandles = 1
  ReportCrash = FALSE
INVARIANTS
  SlotsBounded
  OneBarPerSession
PROPERTIES
  ImplementsLifecycle
