SPECIFICATION Spec
CONSTANTS
  Node = {start, n1, n2}
  Root = start
  Null = null
  Kinds = {"Start", "Op"}
  MaxIn = 2
  Lens = {0, 2}
  MaxKeep = 1
INVARIANTS
  TypeOK
  DefUse
  TrapNeedsCycle
PROPERTIES
  CallsReturn
CHECK_DEADLOCK FALSE
