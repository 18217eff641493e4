SPECIFICATION Spec
CONSTANTS
  MaxTime = 2
  MaxLatency = 0
  MaxHandles = 2
  Periods <- AllVary
CHECK_DEADLOCK FALSE
INVARIANTS RemovedAreErased
