\* With a sweep.
SPECIFICATION Spec
CONSTANTS
  Backends <- MCBackends
  Warmups = 1
  Repeats = 2
  MemSweep <- MCSweep
INVARIANTS
  ExitZeroIsClean
  CleanCampaignPasses
\* The campaign ends.
CHECK_DEADLOCK FALSE
