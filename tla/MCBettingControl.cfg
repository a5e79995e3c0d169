\* Two concurrent requests, a batch of two bets, one API thread.
SPECIFICATION FairSpec
CONSTANTS
  r1 = r1
  r2 = r2
  auto = auto
  api = api
  Requests <- MCRequests
  Scripts <- MCScripts
  Manual <- MCManual
  MaxBatch = 2
  MaxOpen = 2
INVARIANTS
  TypeOK
  LeakBounded
  KillLeavesNothing
  KillSwitchFinal
PROPERTIES
  SolitaryRequestTakesEffect
  RequestsFinish
CHECK_DEADLOCK FALSE
