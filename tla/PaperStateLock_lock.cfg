SPECIFICATION FairSpec
CONSTANTS
  Procs = {worker, trader, manual}
  Stalls = TRUE
INVARIANTS
  TypeOK
  ExclusiveUntilTakeover
PROPERTIES
  OrphanRemoved
