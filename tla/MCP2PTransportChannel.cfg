SPECIFICATION Spec
CONSTANTS
  relay = relay
  direct = direct
  cellular = cellular
  wifi = wifi
  mobile = mobile
  None = None
  Connection <- MCConnection
  Priority <- MCPriority
  Network <- MCNetwork
  MaxConnections = 2
INVARIANTS
  TypeOK
  NoDangling
  SortIsPosted
  PendingIsTaken
  AllTimedOutGo
  SortIsFinal
PROPERTIES
  NominatedStays
  PrunedForBetter
CHECK_DEADLOCK FALSE
