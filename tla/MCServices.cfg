CONSTANTS
  p1 = p1
  p2 = p2
  p3 = p3
  Pins <- MCPins
  Requests <- MCRequests
  Duties <- MCDuties
  WordBits = 20
  TimerMax = 2
  BitMax = 9
  DivMax = 2047
  Colours <- MCColours
  QueueDepth = 4
  MaxAps = 1
  MaxEvents = 3
  Chars <- MCChars
  MaxLen = 5
  MaxKey = 2
SPECIFICATION Spec
INVARIANTS TypeOK SignalRight ColourShown FindsFirst
PROPERTY TellsClient
CHECK_DEADLOCK FALSE
