\* Three request slots, two streams, four threads.
SPECIFICATION FairSpec
CONSTANTS
  lifespan = lifespan
  r1 = r1
  r2 = r2
  Requests <- MCRequests
  MaxStreams = 2
  MaxThreads = 4
INVARIANTS
  TypeOK
  ConnectedIsConsumed
  SpinUpsApart
  ShutdownClosesSession
PROPERTY
  ConnectingEnds
CHECK_DEADLOCK FALSE
