SPECIFICATION FairSpec
CONSTANTS
  w1 = w1
  w2 = w2
  Workers <- MCWorkers
  Home = w1
  Sizes = {1, 2}
  RoomMayGo = TRUE
  SocketSize = 1
  MaxPackets = 2
  MaxConnections = 1
INVARIANTS
  TypeOK
  OneSender
  NoneLeftBehind
PROPERTIES
  ImplementsByteStream
  Delivered
CHECK_DEADLOCK FALSE
