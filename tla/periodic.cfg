SPECIFICATION FairSpec
CONSTANTS
  MaxTime = 5
  MaxLatency = 1
  MaxHandles = 3
  Periods <- OneVaries
CHECK_DEADLOCK FALSE
INVARIANTS TypeOK OrderIsKept EarliestIsArmed
PROPERTIES RemovedNeverFires KeepsPeriod KeepsFiring
