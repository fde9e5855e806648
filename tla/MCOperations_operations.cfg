SPECIFICATION Spec
CHECK_DEADLOCK FALSE
CONSTANTS
  Invocations = {"p1", "p2"}
  MaxChanges = 1
  Rows = {"r1", "r2"}
  Syncs = {"s1", "s2"}
  MaxClock = 2
  MaxVersion = 2
  MaxFailures = 1
  Minutes = 4
  Intervals = {1, 2, 4}
  Answers <- SmallAnswers
  Universe = {1, 2}
  Kinds = {"moves", "regimes"}
  MaxScans = 3
  Horizon = 2
  MaxSessions = 4
  MaxRadarRuns = 2
  MaxHits = 2
  Candles <- SmallCandles
  Reviews <- SmallReviews
  AnchorLow = 95
  InitialCash = 200
  MaxHolding = 2
  ExpirySessions = 2
  MaxDeskCandles = 3
  MaxDeskHits = 2
  MaxOrders = 2
  MaxDeskDeaths = 1
  InstrumentFiles <- SmallInstrumentFiles
  ConstituentFiles <- SmallConstituentFiles
  OldListings <- SmallListings
  SegmentFilter = "E"
  MaxImports = 3
  MaxDownloads = 2
  Bars <- BarsOf
  Symbols = {"a", "b"}
  Models = {"hgb"}
  MayMiss = {"a"}
  ML_INPUT_WINDOW_SESSIONS = 1
  ML_FUTURE_WINDOW_SESSIONS = 2
  ML_TARGET_PERCENT = 7
  ML_STOP_PERCENT = 3
  MaxDays = 3
  MaxTouches = 1
  CoveragePercent = 50
  BlockMissingSessions = 2
  ExtremeMovePercent = 20
  MaxJobs = 3
  LoggerSessions <- SmallLoggerSessions
  LoggerUniverse = {"a", "b", "c"}
  MayFail = {"a"}
  MAX_SLOTS = 2
  TimeStop = 2
  StartingEquity = 400
  MaxLoggerSessions = 3
  MaxForced = 1
  MaxLogDeaths = 1
  Shapes <- SmallShapes
  SMA_WINDOW = 4
  SLOPE_LOOKBACK = 1
  RANGE_WINDOW = 4
  LookbackSessions = 2
  VolumeSmaSessions = 2
  REVERSAL_TREND_LOOKBACK = 4
  DEFAULT_PIVOT_LEFT = 1
  DEFAULT_PIVOT_RIGHT = 1
  ExtremeWindows = {3, 5}
  MaxCandles = 7
INVARIANTS
  DeskAddsUp
  LoggerAddsUp
  ContinuityRecorded
  CandlesDerived
  RunsTruthful
  SeriesReadRight
  LabelsHonest
PROPERTIES
  NothingGoesBack
