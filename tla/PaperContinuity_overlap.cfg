SPECIFICATION Spec
CONSTANTS
  s1 = s1
  s2 = s2
  cron = cron
  manual = manual
  Symbols = {s1}
  Days = {0, 1}
  Runners = {cron, manual}
  MaxSlots = 1
  MaxBars = 2
  SameDayGuard = FALSE
  AlwaysSaves = TRUE
  SessionData <- OneSymbol
  Backfills = FALSE
  MaxDeaths = 0
INVARIANT ReportedOnce
