CONSTANTS
  MaxWrites = 4
  MaxReads = 3
  ReadMax = 1
  QueueLen = 20
SPECIFICATION FairSpec
INVARIANTS NothingStuck InputExact
PROPERTY Drains
CHECK_DEADLOCK FALSE
