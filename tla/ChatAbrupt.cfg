SPECIFICATION ChatSpec
CONSTANTS
  s1 = s1
  s2 = s2
  noSession = noSession
  Sessions <- MCSessions
  NoSession <- noSession
  RoomWorkerNum = 2
  LastRoomId = 100
  MAX_SESSIONS = 2
  MAX_LOBBY_SESSIONS = 2
  DbFailures = {}
  MaxRequests = 1
  PeerRequests = {}
  Hurried <- MCNobody
  Abrupt <- MCSessions
SYMMETRY Symmetry
INVARIANTS
  NoGhost
CHECK_DEADLOCK FALSE
