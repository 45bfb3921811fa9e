SPECIFICATION FairSpec
CONSTANTS
  MaxQueuedSendData = 2
  MaxQueuedReceivedData = 2
  MaxSends = 3
  MaxArrivals = 3
  MaxControl = 2
INVARIANT
  DestroyedIsClosed
CHECK_DEADLOCK FALSE
