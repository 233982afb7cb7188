SPECIFICATION CompareSpec
CONSTANTS
  BackendNames <- MCBackends
  Days = 2
  Tags = 2
  MaxRuns = 2
INVARIANTS
  LatestWins
\* The runs and the comparison end.
CHECK_DEADLOCK FALSE
