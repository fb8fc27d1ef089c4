CONSTANTS
  f1 = f1
  f2 = f2
  f3 = f3
  Ids <- MCIds
  Callers <- MainAndDone
  QueueLen = 3
SPECIFICATION Spec
INVARIANT InUseAsserted
CHECK_DEADLOCK FALSE
