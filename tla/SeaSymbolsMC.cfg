SPECIFICATION Spec
CONSTANTS
  Name = {"simp", "main", "ad", "v"}
  Bucket = {0, 1, 2}
  Hash <- Buckets
  MaxSymbol = 5
  MaxFunction = 3
INVARIANTS
  TypeOK
  FunctionsFound
  NamesOnce
  JitFinds
CHECK_DEADLOCK FALSE
