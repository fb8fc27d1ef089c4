SPECIFICATION FairSpec
CONSTANTS
  EventLen = 2
  MaxFrames = 2
INVARIANTS
  TypeOK
  PendingHasEvent
  FrameHasEvent
  LoopWatched
PROPERTY
  LoopRuns
