CONSTANTS
  f1 = f1
  f2 = f2
  g1 = g1
  g2 = g2
  t1 = t1
  t2 = t2
  SpiIds <- MCSpiIds
  LedIds <- MCLedIds
  Targets <- MCTargets
  QueueLen = 4
  DataLen = 4
  MemLen = 2
  MaxWrites = 1
  MaxReads = 0
  ReadMax = 1
SPECIFICATION FairSpec
INVARIANTS TypeOK AssertsHold FrameWhole
PROPERTIES InUseUntouched DoneExactlyOnce ConsoleDrains
