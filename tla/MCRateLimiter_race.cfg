CONSTANTS
  Calls = {c1, c2, c3}
  MaxItems = 1
  Settings <- TwoThreads
  Window = 2
  LastSecond = 2
SPECIFICATION Spec
INVARIANT DocumentedLimit
CHECK_DEADLOCK FALSE
