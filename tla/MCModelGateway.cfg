\* The Unix socket of a demo run, which is traced, and the service, which is not.
SPECIFICATION Spec
CONSTANTS
  Conns = {c1, c2}
  Deployments = {"demo", "service"}
  MaxRequests = 2
INVARIANTS
  TurnsAreNumbered
  AccountIsSound
  AnswersAreOwn
PROPERTIES
  EveryoneIsServed
\* All connections are closed.
CHECK_DEADLOCK FALSE
