SPECIFICATION Spec
CONSTANTS
  s1 = s1
  s2 = s2
  noSession = noSession
  Sessions <- MCSessions
  NoSession <- noSession
  RoomWorkerNum = 3
  LastRoomId = 101
  MAX_SESSIONS = 2
  MAX_LOBBY_SESSIONS = 2
  DbFailures = {"CreateRoom", "LoadHistory", "SaveMessage"}
  MaxRequests = 1
  PeerRequests <- MCAllRequests
SYMMETRY Symmetry
INVARIANTS
  TypeOK
  ActionsRunAtOwner
  OneResponseEach
  RoomCapacity
  RoutesMatchRooms
  CreateFindsNoRoom
PROPERTIES
  NoEviction
CHECK_DEADLOCK FALSE
