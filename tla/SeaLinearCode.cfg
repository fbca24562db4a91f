SPECIFICATION Spec
CONSTANTS
  Ops = {"AddI", "Add", "CmpEqI"}
  Params = 3
  MaxActive = 4
  MaxSched = 7
INVARIANTS
  TypeOK
  RangesCover
  InMachine
  CodeRight
CHECK_DEADLOCK FALSE
