\* One session with every pin, directive and readiness, one change of readiness, two
\* interrupts of the call and one of the program around it.
SPECIFICATION SessionSpec
CONSTANTS
  MaxFlips = 1
  MaxInterrupts = 2
  MaxSignals = 1
  Scopes <- MCScopes
  Abis = {0, 1, 5}
  Present <- MCPresent
INVARIANTS
  RanWhereAllowed
  SuccessIsReal
  SurvivorsAreKnown
  InterruptIsNoResult
  NeverOnHost
  HookIsUndone
  ConfinedAsDocumented
  RefusedIsNoSuccess
PROPERTIES
  StageOutlivesSandbox
  CallsAreAnswered
  KeepsPromise
\* The session ends.
CHECK_DEADLOCK FALSE
