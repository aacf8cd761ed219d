SPECIFICATION Spec
CONSTANTS
  Room = 100
  Elsewhere = 101
  PageSize = 2
  Faults = FALSE
  MaxMessages = 2
  MaxElsewhere = 0
  MaxRequests = 1
INVARIANTS
  NothingMissed
CHECK_DEADLOCK FALSE
