SPECIFICATION Spec
CONSTANTS
  Room = 100
  Elsewhere = 101
  PageSize = 1
  Faults = TRUE
  MaxMessages = 2
  MaxElsewhere = 1
  MaxRequests = 4
INVARIANTS
  TypeOK
  PagesExact
  StoredInOrder
  NoneShownTwice
  CutBodiesRefused
CHECK_DEADLOCK FALSE
