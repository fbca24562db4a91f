SPECIFICATION Spec
CONSTANTS
  Ops = {"AddI", "Add"}
  Params = 1
  MaxActive = 16
  MaxSched = 5
INVARIANTS
  NoShare
CHECK_DEADLOCK FALSE
