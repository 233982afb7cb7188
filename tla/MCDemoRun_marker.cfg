\* Is the process-listing verdict about the host's processes?
SPECIFICATION Spec
CONSTANTS
  Scenarios <- MarkerScenario
  MaxCalls = 1
  MaxErrors <- MCMaxErrors
  MaxInterrupts <- MCMaxInterrupts
INVARIANTS
  HostPidsAreSeen
CHECK_DEADLOCK FALSE
