SPECIFICATION FairSpec
CONSTANTS
  MaxTime = 3
  MaxLatency = 1
  MaxHandles = 3
INVARIANTS TypeOK SortedTimeouts EarliestIsArmed FiresOnce
PROPERTIES FiresWhenDue NoTimeoutStuck
