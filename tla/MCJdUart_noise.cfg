CONSTANTS
  FifoLen = 2
  FullThresh = 2
  EmptyThresh = 1
  MaxBytes = 2
  NumBytes = 3
  MaxFrame = 3
  Faults <- NoiseOnly
SPECIFICATION Spec
INVARIANT NeverRxInTx
CHECK_DEADLOCK FALSE
