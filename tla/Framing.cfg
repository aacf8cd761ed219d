SPECIFICATION FairSpec
CONSTANTS
  BodySizes = {0, 2}
  HeaderSize = 1
  RequestSize = 2
  RecvSize = 2
  MaxPackets = 3
INVARIANTS
  PacketsIntact
  NothingLeftUnread
PROPERTIES
  Dispatched
CHECK_DEADLOCK FALSE
