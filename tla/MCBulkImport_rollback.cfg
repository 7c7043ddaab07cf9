CONSTANTS
  Imports = {i1}
  Formats = {"plausible"}
  MaxRows = 2
  ApiLimit = 2
  Faults = {}
SPECIFICATION Spec
INVARIANT RollbackReported
CHECK_DEADLOCK FALSE
