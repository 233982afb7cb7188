\* Both modes.  The container launcher decides as the process sandbox does.
SPECIFICATION Spec
CONSTANTS
  Scenarios <- MCScenarios
  MaxCalls = 1
  MaxErrors <- MCMaxErrors
  MaxInterrupts <- MCMaxInterrupts
INVARIANTS
  LeftBehind
  CleanRunIsComplete
  OpenChannelIsSeen
  TurnsAreCounted
  SampleIsKept
PROPERTIES
  CostIsFinal
  LeavesOutcome
  Finishes
\* The run is over.
CHECK_DEADLOCK FALSE
