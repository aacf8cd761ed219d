SPECIFICATION FairChatSpec
CONSTANTS
  s1 = s1
  s2 = s2
  noSession = noSession
  Sessions <- MCSessions
  NoSession <- noSession
  RoomWorkerNum = 2
  LastRoomId = 101
  MAX_SESSIONS = 2
  MAX_LOBBY_SESSIONS = 2
  DbFailures = {"CreateRoom", "SaveMessage"}
  MaxRequests = 2
  PeerRequests = {}
  Hurried <- MCNobody
  Abrupt <- MCNobody
INVARIANTS
  CurrentRoomAgreement
  NoGhost
PROPERTIES
  RoomsReclaimed
  RequestAnswered
CHECK_DEADLOCK FALSE
