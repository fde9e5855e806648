SPECIFICATION Spec
CONSTANTS
  s1 = s1
  s2 = s2
  cron = cron
  manual = manual
  Symbols = {s1}
  Days = {0, 1, 2, 3}
  Runners = {cron}
  MaxSlots = 1
  MaxBars = 2
  SameDayGuard = TRUE
  AlwaysSaves = FALSE
  SessionData <- OneSymbol
  Backfills = FALSE
  MaxDeaths = 0
INVARIANT TimeExitKept
