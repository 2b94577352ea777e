SPECIFICATION Spec
CONSTANTS
  r1 = r1
  r2 = r2
  r3 = r3
  NoOne = NoOne
  Requests <- MCRequests
  MaxRows = 4
INVARIANTS
  TypeOK
  TruthfulTrail
  NumberedOnce
  OneOpen
  FavoriteCounted
PROPERTIES
  LawfulWrites
CHECK_DEADLOCK FALSE
