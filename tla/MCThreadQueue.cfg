SPECIFICATION Spec
CONSTANTS
  signaling = signaling
  worker = worker
  app = app
  Thread <- MCThread
  Loops <- MCLoops
  Starts <- MCThread
  CanSend <- MCCanSend
  CanPost <- MCCanPost
  CanDelay <- MCCanDelay
  CanStop <- MCCanStop
  MaxMessages = 3
  MaxFrom <- MCMaxFrom
  MaxTime = 1
INVARIANTS
  TypeOK
  NoLostWakeUp
  SenderStillWaits
  OnlyCalleeReenters
  PostsInOrder
  SendsReturn
  AllHandled
CHECK_DEADLOCK FALSE
