SPECIFICATION FairSpec
CONSTANTS
  Peer = {a, b}
  Client = a
  kMaxSctpSid = 1
  MaxAdds = 9
  MaxMessages = 9
  MaxCreates = 1
INVARIANT HighestSidIsUsable
CHECK_DEADLOCK FALSE
