\* Against the documented life of the pollers.
SPECIFICATION Spec
CONSTANTS
  lifespan = lifespan
  r1 = r1
  r2 = r2
  Requests <- MCTwoRequests
  MaxStreams = 2
  MaxThreads = 3
INVARIANT
  PollersRunWhileUp
CHECK_DEADLOCK FALSE
