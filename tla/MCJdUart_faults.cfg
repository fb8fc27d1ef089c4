CONSTANTS
  FifoLen = 4
  FullThresh = 3
  EmptyThresh = 2
  MaxBytes = 3
  NumBytes = 5
  MaxFrame = 4
  Faults <- PromptFaults
SPECIFICATION Spec
INVARIANT BufferOwnership
PROPERTY HalfDuplex
CHECK_DEADLOCK FALSE
