SPECIFICATION Spec
CONSTANTS
  client = client
  server = server
  End <- MCEnd
  Connects <- MCClient
  Closes <- MCServer
  Nagles <- MCEnd
  Mss = 1
  ConnectLen = 1
  RcvBuf = 3
  SndBuf = 4
  WindowUnit = 1
  CongestionWindow <- MCWindows
  FastRetransmit = 2
  DupAcks = 4
  MaxXmit = 2
  MaxXmitConnecting = 2
  AckDelay = TRUE
  MayRefuse <- MCServer
  Writes = {1}
  MaxData <- MCMaxDataShort
  MaxNet = 2
INVARIANTS
  RightData
CHECK_DEADLOCK FALSE
