SPECIFICATION FairSpec
CONSTANTS
  CmdLen = 2
  EventLen = 2
  MaxOpens = 3
INVARIANTS
  TypeOK
  FdOpen
  NoLeak
  NoStaleWrite
PROPERTIES
  Answered
  PollEnds
