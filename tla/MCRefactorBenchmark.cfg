\* Two requests that may be under way when aider ends, one edit by somebody else, and a
\* warmup and a measured iteration in two backends.
SPECIFICATION Spec
CONSTANTS
  Requests = {r1, r2}
  Backends = {container, microvm}
  Iterations <- MCIterations
  MaxEdits = 1
INVARIANTS
  AccountIsExact
  PassedIsAccepted
PROPERTIES
  GenerationEnds
\* The replay ends.
CHECK_DEADLOCK FALSE
