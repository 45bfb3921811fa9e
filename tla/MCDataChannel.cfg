SPECIFICATION FairSpec
CONSTANTS
  MaxQueuedSendData = 2
  MaxQueuedReceivedData = 2
  MaxSends = 3
  MaxArrivals = 3
  MaxControl = 2
INVARIANTS
  TypeOK
  SendFifo
  ReceiveFifo
  OpenBeforeData
  QueuesMatchState
PROPERTIES
  StateNeverGoesBack
  ClosingEnds
CHECK_DEADLOCK FALSE
