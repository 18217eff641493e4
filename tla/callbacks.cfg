SPECIFICATION FairSpec
CONSTANTS
  Threads = {t1, t2}
  Loop = loop
  NoThread = nobody
  Callbacks = {c1, c2, c3}
  NoCallback = none
  EfdMax = 2
INVARIANTS VectorIsProtected NoLostWakeup DispatchedEventsStaySignalled
PROPERTIES FIFOQueue AddedCallbackIsTaken StopEndsStart CallsReturn
