SPECIFICATION Spec
CONSTANTS
  client = client
  server = server
  End <- MCEnd
  Connects <- MCClient
  Closes <- MCEnd
  Nagles <- MCClient
  Mss = 2
  ConnectLen = 1
  RcvBuf = 3
  SndBuf = 4
  WindowUnit = 1
  CongestionWindow <- MCWindows
  FastRetransmit = 2
  DupAcks = 4
  MaxXmit = 2
  MaxXmitConnecting = 2
  AckDelay = TRUE
  MayRefuse <- MCServer
  Writes = {2}
  MaxData <- MCMaxData
  MaxNet = 2
INVARIANTS
  TypeOK
  StreamIntact
  SegmentsFollow
  WindowIsRoom
  NeverStalls
  AckIsDue
  UserIsWoken
PROPERTIES
  ImplementsStream
CHECK_DEADLOCK FALSE
