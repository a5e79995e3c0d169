\* Two workers, three bets of one, a cap of one, one reset or crash.
SPECIFICATION FromScratch
CONSTANTS
  auto = auto
  api = api
  b1 = b1
  b2 = b2
  b3 = b3
  Workers <- MCWorkers
  Bets <- MCBets
  Stakes = {1}
  MinStake = 1
  MaxStake = 1
  Price = 3
  CapEnabled = TRUE
  Cap = 1
  MaxRenewals = 1
  NoBet = NoBet
  NoReport = NoReport
INVARIANTS
  TypeOK
  CapOvershootBounded
  ExposureOfPositions
  OnePollRepairs
  TakenWithinCeilings
PROPERTIES
  NoWrongfulRemoval
  BudgetKept
CONSTRAINT OneLeaves
SYMMETRY Symmetry
CHECK_DEADLOCK FALSE
