\* Two requests at once, a shipped strategy and one that is not, two edits, two restarts.
SPECIFICATION Spec
CONSTANTS
  r1 = r1
  r2 = r2
  shipped = shipped
  authored = authored
  Requests <- MCRequests
  Names <- MCNames
  Shipped <- MCShipped
  MaxEdits = 2
  MaxRestarts = 2
  NoName = NoName
SYMMETRY MCSymmetry
INVARIANTS
  TypeOK
  AuthoredVisible
  RestartKeeps
  AuditKeeps
PROPERTY
  FrozenButForLate
