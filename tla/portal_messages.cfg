SPECIFICATION FairSpec
CONSTANTS
  NoTime = NoTime
  messageKeepTime = 1
  MaxMessages = 3
  MaxTime = 3
  MaxBreaks = 2
CHECK_DEADLOCK FALSE
INVARIANTS
  TypeOK
  InOrder
  BufferHoldsRecent
PROPERTIES
  DeliversInOrder
  SentIsReceived
  PendingIsReceived
