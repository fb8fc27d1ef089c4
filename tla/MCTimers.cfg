CONSTANTS
  p1 = p1
  p2 = p2
  p3 = p3
  c1 = c1
  c2 = c2
  b1 = b1
  b2 = b2
  Posters <- MCPosters
  Calls <- MCCalls
  Cbs <- MCCbs
  QueueLen = 3
SPECIFICATION AllSpec
INVARIANTS TypesOK NoLostWakeup
PROPERTIES KeepsPromise NotEarly KeepsTimer
