SPECIFICATION Spec
CONSTANTS
  MaxInt = 7
  Ops = {"ModI", "SubI", "LesserThanI"}
  Inputs <- Parameter
  Literals = {0, 1, 2, 3}
  MaxExpr = 7
INVARIANTS
  MeaningKept
CHECK_DEADLOCK FALSE
