SPECIFICATION Spec
CONSTANTS
  Name = {"x", "y"}
  Arg <- Args
  Conditions = {"any", "true", "false"}
  MaxNode = 9
  MaxStmt = 4
  MaxDepth = 2
INVARIANTS
  TypeOK
  
  LiveCode
  
  
  SameLayout

  
CHECK_DEADLOCK FALSE
