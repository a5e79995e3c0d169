\* Operators only ever ask for a dry run.
SPECIFICATION Spec
CONSTANTS
  r1 = r1
  r2 = r2
  auto = auto
  api = api
  Requests <- MCRequests
  Scripts <- MCDryRunOnly
  Manual <- MCManual
  MaxBatch = 2
  MaxOpen = 3
INVARIANT
  DryRunPlacesNothing
CHECK_DEADLOCK FALSE
