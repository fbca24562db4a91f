SPECIFICATION GuardedSpec
CONSTANTS
  Node = {start, n1, n2, n3}
  Root = start
  Null = null
  Kinds = {"Start", "Op"}
  MaxIn = 2
  Lens = {0, 2}
  MaxKeep = 1
SYMMETRY Symmetry
INVARIANTS
  NoDangling
PROPERTIES
  KeptSurvives
CHECK_DEADLOCK FALSE
