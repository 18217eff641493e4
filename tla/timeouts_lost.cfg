SPECIFICATION Spec
CONSTANTS
  MaxTime = 3
  MaxLatency = 0
  MaxHandles = 2
INVARIANTS OnlyExpiredErased
