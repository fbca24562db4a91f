SPECIFICATION Spec
CONSTANTS
  MaxInt = 3
  Ops = {"AddI", "SubI", "MulI", "DivI", "NegI", "LesserThanI", "EqualI", "Not"}
  Inputs <- ParameterAndPhi
  Literals = {0, 1, 2}
  MaxExpr = 5
INVARIANTS
  TypeOK
  TypeSound
  MeaningKept
  Canonical
CHECK_DEADLOCK FALSE
