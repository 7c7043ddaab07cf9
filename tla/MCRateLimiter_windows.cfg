CONSTANTS
  Calls = {c1, c2, c3}
  MaxItems = 1
  Settings <- OneOrTwoThreads
  Window = 3
  LastSecond = 3
SPECIFICATION Spec
SYMMETRY CallSymmetry
INVARIANTS CountHonest WindowBound
PROPERTY RefusalJustified
CHECK_DEADLOCK FALSE
