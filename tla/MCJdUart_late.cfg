CONSTANTS
  FifoLen = 2
  FullThresh = 2
  EmptyThresh = 1
  MaxBytes = 2
  NumBytes = 3
  MaxFrame = 3
  Faults <- AnyFaults
SPECIFICATION Spec
INVARIANTS CallbacksArmed FifoHasBuffer TxExclusive
CHECK_DEADLOCK FALSE
