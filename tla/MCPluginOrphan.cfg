SPECIFICATION Spec
CONSTANTS
  Ops = {o1}
  MaxGenerations = 2
  MaxFailures = 0
  MaxDisposals = 1
INVARIANT NoBackendOutlivesDispose
CHECK_DEADLOCK FALSE
