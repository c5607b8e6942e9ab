\* Three parameters, three iterations, a crash at any moment, a new configuration
\* at any signal.
CONSTANTS
  N = 3
  NumIter = 2
  Splits <- TwoServers
SPECIFICATION Spec
INVARIANTS TypeOK PullSeesRequest ParametersCurrent PushOfItsIteration
PROPERTIES FinishReported CrashEndsAgent
CHECK_DEADLOCK FALSE
