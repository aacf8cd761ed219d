----------------------------- MODULE RoomEvent -----------------------------
(***************************************************************************)
(* The vocabulary shared by the threads of the chat server: room numbers,  *)
(* workers, result codes, packets, and the RoomEvent that travels from     *)
(* thread to thread with the list of actions still to be run.              *)
(*                                                                         *)
(* A session is named by the connection it serves.  The code keys its      *)
(* tables by file descriptor; a descriptor is reused only after the last   *)
(* shared_ptr<Session> is gone, so for as long as an event or a room holds *)
(* the session the two namings coincide.                                   *)
(***************************************************************************)
EXTENDS Integers, Sequences

CONSTANTS
  Sessions,             \* the connections a run may see
  NoSession,            \* nullptr, and the fd -1 of an event without one
  RoomWorkerNum,        \* std::thread::hardware_concurrency()
  LastRoomId            \* bound: the last number the room sequence issues

ASSUME SessionAssumption == NoSession \notin Sessions

\* With fewer than two workers bind_room_worker has no room worker to draw.
ASSUME WorkerAssumption == RoomWorkerNum \in Nat /\ RoomWorkerNum >= 2

LOBBY_ROOM_ID   == 1
LOBBY_WORKER_ID == 1
FIRST_ROOM_ID   == 100          \* ALTER SEQUENCE room_room_id_seq RESTART WITH 100

ASSUME RoomAssumption == LastRoomId \in Nat /\ LastRoomId >= FIRST_ROOM_ID

RoomIds == {LOBBY_ROOM_ID} \cup FIRST_ROOM_ID..LastRoomId

\* numeric_limits<RoomId>::max(): larger than every number that is issued.
PENDING_ROOM_ID == LastRoomId + 1

\* The default room argument of add_action.
NO_ROOM == 0

Workers     == 1..RoomWorkerNum
RoomWorkers == Workers \ {LOBBY_WORKER_ID}

\* The worker number that stands for "no such room".
NO_WORKER == 0

Commands == {"CMD_CREATE_ROOM", "CMD_JOIN_ROOM", "CMD_LEAVE_ROOM",
             "CMD_SEND_MESSAGE", "CMD_LOAD_MESSAGE"}

\* A RoomEvent that accept_client or close_session builds never sets
\* initial_command: the byte is whatever the memory held.
UNINITIALIZED == "UNINITIALIZED"

Results == {"None", "Success", "RoomNotFound", "RoomAlreadyExists", "RoomFull",
            "UserNotFound", "DBNotFound", "DBError", "DBDuplicate"}

ActionCommands == {"CREATE_ROOM", "JOIN_ROOM", "LEAVE_ROOM", "SEND_MESSAGE",
                   "REQUEST_DB_CREATE_ROOM", "REQUEST_DB_LOAD_MESSAGE",
                   "SAVE_MESSAGE", "REQUEST_LEAVE_ROOM", "SEND_RESPONSE",
                   "DISCONNECT_SESSION"}

RoomActions ==
  [command : ActionCommands,
   target_room_id : RoomIds \cup {PENDING_ROOM_ID, NO_ROOM}]

RoomAction(cmd, room) == [command |-> cmd, target_room_id |-> room]

-----------------------------------------------------------------------------
(***************************************************************************)
(* Bodies and packets.  A body is empty, the eight bytes of a room number, *)
(* or a serialized message history (never empty: it starts with a count).  *)
(***************************************************************************)
Bodies      == [kind : {"empty", "room_id", "history"}, room : RoomIds \cup {NO_ROOM}]
EmptyBody   == [kind |-> "empty",   room |-> NO_ROOM]
HistoryBody == [kind |-> "history", room |-> NO_ROOM]
RoomIdBody(room) == [kind |-> "room_id", room |-> room]

Responses ==
  [type : {"PKT_RESPONSE"}, command : Commands \cup {UNINITIALIZED},
   status : Results, body : Bodies]

Broadcasts ==
  [type : {"PKT_BROADCAST"}, sender_id : Sessions \cup {NoSession}, room_id : RoomIds]

Packets == Responses \cup Broadcasts

Response(cmd, status, body) ==
  [type |-> "PKT_RESPONSE", command |-> cmd, status |-> status, body |-> body]

Broadcast(sender, room) ==
  [type |-> "PKT_BROADCAST", sender_id |-> sender, room_id |-> room]

IsResponse(p) == p.type = "PKT_RESPONSE"

-----------------------------------------------------------------------------
(***************************************************************************)
(* Events.                                                                 *)
(***************************************************************************)
RoomEvents ==
  [actions         : Seq(RoomActions),
   current_action  : Nat,
   initial_command : Commands \cup {UNINITIALIZED},
   fd              : Sessions \cup {NoSession},
   session         : Sessions \cup {NoSession},
   response_data   : Bodies,
   result_code     : Results]

\* RoomEvent{}: what a thread holds between two events.
EmptyEvent ==
  [actions         |-> << >>,
   current_action  |-> 0,
   initial_command |-> UNINITIALIZED,
   fd              |-> NoSession,
   session         |-> NoSession,
   response_data   |-> EmptyBody,
   result_code     |-> "None"]

NewEvent(cmd, session, actions) ==
  [EmptyEvent EXCEPT !.initial_command = cmd,
                     !.session = session,
                     !.actions = actions]

\* The action the event runs next, and the one it ran last.
NextAction(e) == e.actions[e.current_action + 1]
LastAction(e) == e.actions[e.current_action]

HasNextAction(e) == e.current_action < Len(e.actions)

\* process_event goes on only while nothing has failed.
NotFailed(e) == e.result_code \in {"Success", "None"}

\* mutant: the number is never written into the plan.
resolve_room_id_Unresolved(e, room) == e

resolve_room_id(e, room) ==
  [e EXCEPT !.actions =
     [i \in DOMAIN e.actions |->
        IF e.actions[i].target_room_id = PENDING_ROOM_ID
          THEN [e.actions[i] EXCEPT !.target_room_id = room]
          ELSE e.actions[i]]]

-----------------------------------------------------------------------------
(***************************************************************************)
(* The recipe of each command.                                             *)
(***************************************************************************)
plan_create_room ==
  << RoomAction("REQUEST_DB_CREATE_ROOM", LOBBY_ROOM_ID),
     RoomAction("CREATE_ROOM", PENDING_ROOM_ID),
     RoomAction("JOIN_ROOM", PENDING_ROOM_ID),
     RoomAction("REQUEST_LEAVE_ROOM", LOBBY_ROOM_ID),
     RoomAction("LEAVE_ROOM", LOBBY_ROOM_ID),
     RoomAction("SEND_RESPONSE", NO_ROOM) >>

\* mutant: the lobby is left on the worker of the new room.
plan_join_room_NoHandOver(room) ==
  << RoomAction("JOIN_ROOM", room),
     RoomAction("LEAVE_ROOM", LOBBY_ROOM_ID),
     RoomAction("REQUEST_DB_LOAD_MESSAGE", room),
     RoomAction("SEND_RESPONSE", NO_ROOM) >>

\* mutant: the lobby is never left.
plan_join_room_StaysInLobby(room) ==
  << RoomAction("JOIN_ROOM", room),
     RoomAction("REQUEST_DB_LOAD_MESSAGE", room),
     RoomAction("SEND_RESPONSE", NO_ROOM) >>

plan_join_room(room) ==
  << RoomAction("JOIN_ROOM", room),
     RoomAction("REQUEST_LEAVE_ROOM", LOBBY_ROOM_ID),
     RoomAction("LEAVE_ROOM", LOBBY_ROOM_ID),
     RoomAction("REQUEST_DB_LOAD_MESSAGE", room),
     RoomAction("SEND_RESPONSE", NO_ROOM) >>

plan_leave_room(room) ==
  << RoomAction("JOIN_ROOM", LOBBY_ROOM_ID),
     RoomAction("REQUEST_LEAVE_ROOM", room),
     RoomAction("LEAVE_ROOM", room),
     RoomAction("SEND_RESPONSE", NO_ROOM) >>

\* mutant: the plan ends without an answer.
plan_send_message_NoResponse(room) ==
  << RoomAction("SEND_MESSAGE", room),
     RoomAction("SAVE_MESSAGE", room) >>

plan_send_message(room) ==
  << RoomAction("SEND_MESSAGE", room),
     RoomAction("SAVE_MESSAGE", room),
     RoomAction("SEND_RESPONSE", NO_ROOM) >>

plan_load_message(room) ==
  << RoomAction("REQUEST_DB_LOAD_MESSAGE", room),
     RoomAction("SEND_RESPONSE", NO_ROOM) >>

Plan(cmd, room) ==
  CASE cmd = "CMD_CREATE_ROOM"  -> plan_create_room
    [] cmd = "CMD_JOIN_ROOM"    -> plan_join_room(room)
    [] cmd = "CMD_LEAVE_ROOM"   -> plan_leave_room(room)
    [] cmd = "CMD_SEND_MESSAGE" -> plan_send_message(room)
    [] cmd = "CMD_LOAD_MESSAGE" -> plan_load_message(room)

\* The room whose worker receives the event first: creating and leaving
\* both start in the lobby.
FirstRoom(cmd, room) ==
  IF cmd \in {"CMD_CREATE_ROOM", "CMD_LEAVE_ROOM"} THEN LOBBY_ROOM_ID ELSE room

AcceptEvent(s) ==
  NewEvent(UNINITIALIZED, s, << RoomAction("JOIN_ROOM", LOBBY_ROOM_ID) >>)

PacketEvent(cmd, s, room) == NewEvent(cmd, s, Plan(cmd, room))

\* What dispatch_packet sends to the lobby when no worker has the room.
RoomNotFoundEvent(cmd, s) ==
  [NewEvent(cmd, s, << RoomAction("SEND_RESPONSE", NO_ROOM) >>)
     EXCEPT !.result_code = "RoomNotFound"]

\* mutant: event.fd keeps its default.
DisconnectEvent_NoFd(s, room) ==
  NewEvent(UNINITIALIZED, NoSession, << RoomAction("DISCONNECT_SESSION", room) >>)

\* Carries the descriptor only: it keeps no session alive.
DisconnectEvent(s, room) ==
  [NewEvent(UNINITIALIZED, NoSession, << RoomAction("DISCONNECT_SESSION", room) >>)
     EXCEPT !.fd = s]
=============================================================================
