\* Two bets over two days, two restarts, each bet forgotten at most once.
SPECIFICATION FairSpec
CONSTANTS
  b1 = b1
  b2 = b2
  Bets <- MCBets
  PageSize = 1
  HistorySize = 1
  MaxDays = 2
  MaxRestarts = 2
  MaxForgets = 1
INVARIANTS
  TypeOK
  RowsJustified
  KnownHasRow
  SummaryCountsOnce
PROPERTIES
  SummaryKeepsCount
  SettledGetsRow
CHECK_DEADLOCK FALSE
