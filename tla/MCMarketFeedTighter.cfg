\* Against the documented second chance of a plugin with a tight window.
SPECIFICATION Spec
CONSTANTS
  t1 = t1
  t2 = t2
  m1 = m1
  m2 = m2
  wide = wide
  tight = tight
  Threads <- MCOneThread
  Markets <- MCOneMarket
  Plugins <- MCPlugins
  Window <- MCWindow
  MaxTime = 2
  MaxRestarts = 0
INVARIANT
  TighterWindowPickedUp
