SPECIFICATION Spec
CONSTANTS
  Threads = {t1, t2}
  MaxFd = 8
  closed_fd = closed_fd
  invalid_pid = invalid_pid
  NoThread = NoThread
  User = User
  AllSignals = AllSignals
  NoSignals = NoSignals
  Closed = Closed
  Requests <- MCRequests
  Inherited <- MCInherited
  Limits <- MCLimits
INVARIANTS OneChildOnTheStack MasksAreRestored ProgramsGetTheirStreams ObjectsAreConsistent PidsAreOfChildren
PROPERTIES LostOnlyByFailureOrMove CallsEnd
CHECK_DEADLOCK FALSE
