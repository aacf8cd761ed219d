---------------------------- MODULE MCRoomServer ----------------------------
(***************************************************************************)
(* Model values and symmetry for RoomServer.                               *)
(***************************************************************************)
EXTENDS RoomServer, TLC

CONSTANTS s1, s2, noSession

MCSessions == {s1, s2}

\* Every packet with a command of the protocol; CREATE carries no room of its own.
\* Any other command byte is left out: dispatch_packet makes an empty plan for it, which
\* changes nothing and is not answered, or answers RoomNotFound if no worker has the room.
MCAllRequests ==
  {<<"CMD_CREATE_ROOM", LOBBY_ROOM_ID>>}
  \cup (Commands \ {"CMD_CREATE_ROOM"}) \X RoomIds

\* Sessions are only compared with each other.
Symmetry == Permutations(MCSessions)
=============================================================================
