SPECIFICATION Spec
CONSTANTS
  Procs = {worker, trader, manual}
  Stalls = FALSE
INVARIANT MutualExclusion
