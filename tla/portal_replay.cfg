SPECIFICATION Spec
CONSTANTS
  NoTime = NoTime
  messageKeepTime = 1
  MaxMessages = 3
  MaxTime = 3
  MaxBreaks = 2
CHECK_DEADLOCK FALSE
INVARIANT
  ReceivedOnce
