CONSTANTS
  Lane = {l0, l1, l2}
  Lead = l0
  Tick <- MCTick
SPECIFICATION FairSpec
INVARIANTS TypeOK Heard
PROPERTIES LanesInStep AllLeave RequestServed
