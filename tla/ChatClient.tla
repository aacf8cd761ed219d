---------------------------- MODULE ChatClient ----------------------------
(***************************************************************************)
(* The terminal client: one thread that reads the keyboard and the socket. *)
(* It keeps its own idea of where the user is (state_, room_id_), changed  *)
(* only by the answers it gets, and waits for one answer at a time         *)
(* (pending_).  Client s and session s are the two ends of one connection; *)
(* uplink[s] is what the client has written and the server not yet read.   *)
(* Texts, histories and the paging cursor are not modelled.                *)
(***************************************************************************)
EXTENDS RoomEvent

VARIABLES
  running,      \* Client::running_, and that the process is alive
  state_,       \* "LOBBY" or "IN_ROOM"
  room_id_,     \* the room the user is shown, NO_ROOM in the lobby
  pending_,     \* the request that waits for its answer, or NoPending
  uplink        \* requests written to the socket

clientVars == <<running, state_, room_id_, pending_, uplink>>

NoPending == [command |-> UNINITIALIZED, room_id |-> NO_ROOM]
Requests  == [command : Commands, room_id : RoomIds \cup {NO_ROOM}]

\* The type of every variable: one request at a time is on the wire, and a room is
\* remembered exactly while the user is in one.
ClientTypeOK ==
  /\ running \in [Sessions -> BOOLEAN]
  /\ state_ \in [Sessions -> {"LOBBY", "IN_ROOM"}]
  /\ room_id_ \in [Sessions -> RoomIds \cup {NO_ROOM}]
  /\ pending_ \in [Sessions -> Requests \cup {NoPending}]
  /\ uplink \in [Sessions -> Seq(Requests)]
  /\ \A s \in Sessions : /\ Len(uplink[s]) <= 1
                         /\ room_id_[s] \in FIRST_ROOM_ID..LastRoomId <=> state_[s] = "IN_ROOM"

ClientInit ==
  /\ running = [s \in Sessions |-> TRUE]
  /\ state_ = [s \in Sessions |-> "LOBBY"]
  /\ room_id_ = [s \in Sessions |-> NO_ROOM]
  /\ pending_ = [s \in Sessions |-> NoPending]
  /\ uplink = [s \in Sessions |-> << >>]

-----------------------------------------------------------------------------
(***************************************************************************)
(* Keyboard.  handle_input throws the line away while a request waits.     *)
(***************************************************************************)
\* mutant: a line is accepted while a request waits.
AcceptsInput_Always(s) == running[s]

AcceptsInput(s) == running[s] /\ pending_[s] = NoPending

send_request(s, cmd, room) ==
  LET req == [command |-> cmd, room_id |-> room] IN
  /\ uplink' = [uplink EXCEPT ![s] = Append(@, req)]
  /\ pending_' = [pending_ EXCEPT ![s] = req]
  /\ UNCHANGED <<running, state_, room_id_>>

validate_room_id(room) == room \notin {NO_ROOM, LOBBY_ROOM_ID}

\* What the user may ask for in each state, and the room that goes with it.
LobbyRequest(s) ==
  /\ state_[s] = "LOBBY"
  /\ \/ send_request(s, "CMD_CREATE_ROOM", NO_ROOM)
     \/ \E room \in RoomIds :
          validate_room_id(room) /\ send_request(s, "CMD_JOIN_ROOM", room)

RoomRequest(s) ==
  /\ state_[s] = "IN_ROOM"
  /\ \E cmd \in {"CMD_LOAD_MESSAGE", "CMD_LEAVE_ROOM", "CMD_SEND_MESSAGE"} :
       send_request(s, cmd, room_id_[s])

TypeRequest(s) == AcceptsInput(s) /\ (LobbyRequest(s) \/ RoomRequest(s))

TypeExit(s) ==
  /\ AcceptsInput(s)
  /\ running' = [running EXCEPT ![s] = FALSE]
  /\ UNCHANGED <<state_, room_id_, pending_, uplink>>

\* The process is killed or loses its network, whatever it was doing.
Killed(s) ==
  /\ running[s]
  /\ running' = [running EXCEPT ![s] = FALSE]
  /\ UNCHANGED <<state_, room_id_, pending_, uplink>>

-----------------------------------------------------------------------------
(***************************************************************************)
(* Socket.                                                                 *)
(***************************************************************************)
\* Where the answer to a request that succeeded puts the user.
Enter(s, room) ==
  /\ state_' = [state_ EXCEPT ![s] = "IN_ROOM"]
  /\ room_id_' = [room_id_ EXCEPT ![s] = room]

\* mutant: room_id_ is not reset.
Leave_KeepsRoom(s) ==
  /\ state_' = [state_ EXCEPT ![s] = "LOBBY"]
  /\ UNCHANGED room_id_

Leave(s) ==
  /\ state_' = [state_ EXCEPT ![s] = "LOBBY"]
  /\ room_id_' = [room_id_ EXCEPT ![s] = NO_ROOM]

Stay == UNCHANGED <<state_, room_id_>>

Succeeds(s, cmd, res) ==
  \/ cmd = "CMD_CREATE_ROOM" /\ res.body.kind = "room_id" /\ Enter(s, res.body.room)
  \/ cmd = "CMD_CREATE_ROOM" /\ res.body.kind # "room_id" /\ Stay
  \/ cmd = "CMD_JOIN_ROOM" /\ Enter(s, pending_[s].room_id)
  \/ cmd = "CMD_LEAVE_ROOM" /\ Leave(s)
  \/ cmd \in {"CMD_SEND_MESSAGE", "CMD_LOAD_MESSAGE"} /\ Stay

\* The byte of an uninitialized command may happen to be any command.
MayBe(cmd, byte) == byte \in {cmd, UNINITIALIZED}

handle_response(s, res) ==
  LET cmd == pending_[s].command IN
  /\ \/ pending_[s] = NoPending /\ Stay              \* an answer to no request
     \/ /\ pending_[s] # NoPending
        /\ res.command # cmd                         \* the answer to another command
        /\ Stay
     \/ /\ pending_[s] # NoPending
        /\ MayBe(cmd, res.command)
        /\ IF res.status # "Success" THEN Stay ELSE Succeeds(s, cmd, res)
  /\ pending_' = [pending_ EXCEPT ![s] = NoPending]
  /\ UNCHANGED <<running, uplink>>

\* Displayed or ignored; either way nothing the client keeps changes.
handle_broadcast(s, broad) == UNCHANGED clientVars

handle_packet(s, p) ==
  /\ running[s]
  /\ IF IsResponse(p) THEN handle_response(s, p) ELSE handle_broadcast(s, p)
=============================================================================
