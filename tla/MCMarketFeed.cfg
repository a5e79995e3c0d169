\* Two processing threads on one queue, one market, two plugins, one restart.
SPECIFICATION Spec
CONSTANTS
  t1 = t1
  t2 = t2
  m1 = m1
  m2 = m2
  wide = wide
  tight = tight
  Threads <- MCThreads
  Markets <- MCOneMarket
  Plugins <- MCPlugins
  Window <- MCWindow
  MaxTime = 2
  MaxRestarts = 1
INVARIANTS
  TypeOK
  BetOncePerProcess
