CONSTANTS
  Imports = {i1, i2}
  Formats = {"plausible", "umami", "api"}
  MaxRows = 2
  ApiLimit = 1
  Faults = {"begin", "statement", "commit", "reply", "exit"}
SPECIFICATION Spec
SYMMETRY ImportSymmetry
INVARIANTS AllOrNothing SilentLossExplained ErrorMeansNothing
CHECK_DEADLOCK FALSE
