\* Against the documented reconnection, with operators who never stop changing flags.
SPECIFICATION BusySpec
CONSTANTS
  lifespan = lifespan
  r1 = r1
  r2 = r2
  Requests <- MCTwoRequests
  MaxStreams = 2
  MaxThreads = 3
PROPERTY
  StreamReconnects
CHECK_DEADLOCK FALSE
