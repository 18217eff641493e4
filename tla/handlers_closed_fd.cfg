SPECIFICATION Spec
CONSTANTS
  FDs = {f1, f2}
  MaxFiles = 2
  MaxNodes = 2
  MaxRemovals = 2
INVARIANTS ClosedFdIsAccepted
