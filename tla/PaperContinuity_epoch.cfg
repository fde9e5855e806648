SPECIFICATION FairSpec
CONSTANTS
  s1 = s1
  s2 = s2
  cron = cron
  manual = manual
  Symbols = {s1}
  Days = {0, 1, 2}
  Runners = {cron}
  MaxSlots = 2
  MaxBars = 2
  SameDayGuard = FALSE
  AlwaysSaves = TRUE
  SessionData <- OneSymbol
  Backfills = TRUE
  MaxDeaths = 1
INVARIANTS
  TypeOK
  OneClaimPerSymbol
  ReportsAscend
  TimeExitKept
PROPERTIES
  EverySessionProcessed
  ReconstructedForGood
