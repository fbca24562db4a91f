SPECIFICATION Spec
CONSTANTS
  Var <- One
  MaxStmt = 4
  MaxOp = 2
  MaxDepth = 2
INVARIANTS TypeOK Placement Motion Scheduled CodeRuns
CHECK_DEADLOCK FALSE
