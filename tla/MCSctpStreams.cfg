SPECIFICATION FairSpec
CONSTANTS
  Peer = {a, b}
  Sid = {0, 1}
  kMaxSctpSid = 3
  Body = {m}
  MaxAdds = 2
  MaxMessages = 1
INVARIANTS
  TypeOK
  SetsDisjoint
  SentIsAnswered
  QueuedIsRetried
PROPERTIES
  ResetCompletes
CHECK_DEADLOCK FALSE
