SPECIFICATION FairSpec
CONSTANTS
  w1 = w1
  w2 = w2
  Workers <- MCWorkers
  Home = w1
  Sizes = {1, 2}
  RoomMayGo = FALSE
  SocketSize = 1
  MaxPackets = 2
  MaxConnections = 1
PROPERTIES
  CompleteMeansSent
CHECK_DEADLOCK FALSE
