CONSTANTS
  text = text
  none = none
  Key = {text, none}
  Path = {text, none}
  PathOf <- Whole
  Written = {text}
  Client = {c1, c2}
  Lane = {l0, l1}
  Lead = l0
  Calls <- Asked
  MaxGen = 1
SPECIFICATION Spec
SYMMETRY Symmetry
INVARIANTS TypeOK HeldStays OneRequest  OnlyInversion
CHECK_DEADLOCK FALSE
