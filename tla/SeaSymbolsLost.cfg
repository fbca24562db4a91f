SPECIFICATION Spec
CONSTANTS
  Name = {"simp", "main", "ad", "v"}
  Bucket = {0, 1, 2}
  Hash <- Buckets
  MaxSymbol = 4
  MaxFunction = 3
INVARIANTS
  AllFound
CHECK_DEADLOCK FALSE
