SPECIFICATION Spec
CONSTANTS
  s1 = s1
  s2 = s2
  cron = cron
  manual = manual
  Symbols = {s1, s2}
  Days = {0, 1, 2}
  Runners = {cron}
  MaxSlots = 1
  MaxBars = 2
  SameDayGuard = FALSE
  AlwaysSaves = TRUE
  SessionData <- TwoSymbols
  Backfills = FALSE
  MaxDeaths = 0
INVARIANTS
  SlotsBounded
  OncePerSession
PROPERTIES
  ImplementsLifecycle
