SPECIFICATION FairSpec
CONSTANTS
  Peer = {a, b}
  Client = a
  kMaxSctpSid = 2
  MaxAdds = 9
  MaxMessages = 9
  MaxCreates = 1
PROPERTY CloseIsMutual
CHECK_DEADLOCK FALSE
