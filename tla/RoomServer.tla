----------------------------- MODULE RoomServer -----------------------------
(***************************************************************************)
(* The server: the main thread (Server, RoomManager's packet side), the    *)
(* room workers with the rooms they own, and the database thread.  They    *)
(* share the registry of users, the table room -> worker and the queues;   *)
(* everything else belongs to one thread.                                  *)
(*                                                                         *)
(* Each action is the code one thread runs between two accesses to shared  *)
(* state.  Where the code looks at shared state and acts on it later (the  *)
(* table read by find_worker, then post_event; get_user, then              *)
(* set_current_room; get_current_room, then the disconnect events) the two *)
(* halves are two actions.                                                 *)
(*                                                                         *)
(* What happens to a packet after Session::pack, and the epoll loop under  *)
(* the main thread, are abstracted: sent[s] is the stream of packets       *)
(* packed for s, and a session may be closed whenever the main thread is   *)
(* free, which covers EPOLLRDHUP, EPOLLERR, a failed recv and the          *)
(* Disconnect a worker requests after a failed send.                       *)
(***************************************************************************)
EXTENDS RoomEvent, FiniteSets

CONSTANTS
  MAX_SESSIONS,         \* max_session of create_room, 5 in the code
  MAX_LOBBY_SESSIONS,   \* 999 in the code
  DbFailures,           \* the jobs whose query may fail in this run
  MaxRequests,          \* bound: packets the server reads from one session
  PeerRequests          \* bound: the <<command, room>> pairs the peers of Next use

JobTypes == {"CreateRoom", "LoadHistory", "SaveMessage"}

ASSUME CapacityAssumption == MAX_SESSIONS \in Nat /\ MAX_LOBBY_SESSIONS \in Nat
ASSUME FailureAssumption  == DbFailures \subseteq JobTypes
ASSUME RequestAssumption  == MaxRequests \in Nat
ASSUME PeerAssumption     == PeerRequests \subseteq Commands \X RoomIds

VARIABLES
  conn,             \* whether s is in SessionManager and UserManager
  current_room,     \* User::current_room_
  received,         \* packets read from each session, for the bound
  main,             \* where the main thread is inside close_session
  room_to_worker,   \* RoomManager::room_to_worker_, NO_WORKER when absent
  routing,          \* per thread: an event between find_worker and post_event
  event_queue,      \* RoomWorker::event_queue_
  rooms,            \* the keys of RoomWorker::rooms_
  sessions,         \* Room::sessions_
  current_sessions, \* Room::current_sessions_
  pc,               \* where each worker is inside process_event
  event,            \* the event each worker is processing
  audience,         \* send_message: sessions not yet visited, and sender_id
  job_queue,        \* DBWorker::job_queue_
  room_seq,         \* room_room_id_seq
  messages,         \* rows of the table messages
  sent              \* packets packed for each session

mainVars   == <<conn, received, main>>
roomVars   == <<rooms, sessions, current_sessions>>
workerVars == <<pc, event, audience>>
dbVars     == <<job_queue, room_seq, messages>>
vars == <<conn, received, main, current_room, room_to_worker, routing, event_queue,
          rooms, sessions, current_sessions, pc, event, audience,
          job_queue, room_seq, messages, sent>>

-----------------------------------------------------------------------------
(***************************************************************************)
(* Threads and shared helpers.                                             *)
(***************************************************************************)
MAIN_THREAD == 0
DB_THREAD   == RoomWorkerNum + 1
Threads     == 0..RoomWorkerNum + 1

NotRouting   == [to |-> NO_WORKER, event |-> EmptyEvent]
MainIdle     == [pc |-> "idle", fd |-> NoSession, room |-> LOBBY_ROOM_ID]
NoAudience   == [to |-> {}, sender |-> NoSession]

Jobs ==
  [type : JobTypes, event : RoomEvents, room : RoomIds \cup {PENDING_ROOM_ID, NO_ROOM},
   sender : Sessions \cup {NoSession}]

\* get_user(fd) # nullptr
Users == {s \in Sessions : conn[s] = "open"}

get_user_id(s) == IF s \in Users THEN s ELSE NoSession

find_worker(room) == room_to_worker[room]

\* The two ways of route_event: to a given worker, or by the room's entry.
post_event(w, e) ==
  event_queue' = [event_queue EXCEPT ![w] = Append(@, e)]

route_event(t, e, room) ==
  routing' = IF find_worker(room) = NO_WORKER
               THEN routing
               ELSE [routing EXCEPT ![t] = [to |-> find_worker(room), event |-> e]]

Free(t) == routing[t] = NotRouting

\* The second half of route_event: the worker found is not looked up again.
PostRouted(t) ==
  /\ ~Free(t)
  /\ post_event(routing[t].to, routing[t].event)
  /\ routing' = [routing EXCEPT ![t] = NotRouting]
  /\ UNCHANGED <<mainVars, current_room, room_to_worker, roomVars, workerVars, dbVars, sent>>

-----------------------------------------------------------------------------
(***************************************************************************)
(* Main thread.                                                            *)
(***************************************************************************)
MainFree == main = MainIdle /\ Free(MAIN_THREAD)

AcceptClient(s) ==
  /\ MainFree
  /\ conn[s] = "none"
  /\ conn' = [conn EXCEPT ![s] = "open"]
  /\ current_room' = [current_room EXCEPT ![s] = LOBBY_ROOM_ID]
  /\ post_event(LOBBY_WORKER_ID, AcceptEvent(s))
  /\ UNCHANGED <<received, main, room_to_worker, routing, roomVars, workerVars, dbVars, sent>>

\* handle_request hands one complete packet to dispatch_packet.
DispatchPacket(s, cmd, room) ==
  /\ MainFree
  /\ conn[s] = "open"
  /\ received[s] < MaxRequests
  /\ received' = [received EXCEPT ![s] = @ + 1]
  /\ route_event(MAIN_THREAD, PacketEvent(cmd, s, room), FirstRoom(cmd, room))
  /\ IF find_worker(FirstRoom(cmd, room)) = NO_WORKER
       THEN post_event(LOBBY_WORKER_ID, RoomNotFoundEvent(cmd, s))
       ELSE UNCHANGED event_queue
  /\ UNCHANGED <<conn, main, current_room, room_to_worker, roomVars, workerVars, dbVars, sent>>

\* close_session up to get_current_room.
CloseSession(s) ==
  /\ MainFree
  /\ conn[s] = "open"
  /\ main' = [pc |-> "disconnect_room", fd |-> s, room |-> current_room[s]]
  /\ UNCHANGED <<conn, received, current_room, room_to_worker, routing, event_queue,
                 roomVars, workerVars, dbVars, sent>>

AfterDisconnectRoom(room) == IF room = LOBBY_ROOM_ID THEN "remove" ELSE "disconnect_lobby"

DisconnectRoom ==
  /\ main.pc = "disconnect_room"
  /\ Free(MAIN_THREAD)
  /\ route_event(MAIN_THREAD, DisconnectEvent(main.fd, main.room), main.room)
  /\ main' = [main EXCEPT !.pc = AfterDisconnectRoom(main.room)]
  /\ UNCHANGED <<conn, received, current_room, room_to_worker, event_queue,
                 roomVars, workerVars, dbVars, sent>>

DisconnectLobby ==
  /\ main.pc = "disconnect_lobby"
  /\ Free(MAIN_THREAD)
  /\ route_event(MAIN_THREAD, DisconnectEvent(main.fd, LOBBY_ROOM_ID), LOBBY_ROOM_ID)
  /\ main' = [main EXCEPT !.pc = "remove"]
  /\ UNCHANGED <<conn, received, current_room, room_to_worker, event_queue,
                 roomVars, workerVars, dbVars, sent>>

\* remove_session and remove_user.
RemoveSession ==
  /\ main.pc = "remove"
  /\ Free(MAIN_THREAD)
  /\ conn' = [conn EXCEPT ![main.fd] = "closed"]
  /\ main' = MainIdle
  /\ UNCHANGED <<received, current_room, room_to_worker, routing, event_queue,
                 roomVars, workerVars, dbVars, sent>>

-----------------------------------------------------------------------------
(***************************************************************************)
(* Room workers: thread_main and the parts of process_event.               *)
(***************************************************************************)
Capacity(w) == IF w = LOBBY_WORKER_ID THEN MAX_LOBBY_SESSIONS ELSE MAX_SESSIONS

TakeEvent(w) ==
  /\ pc[w] = "wait"
  /\ Free(w)
  /\ event_queue[w] # << >>
  /\ event' = [event EXCEPT ![w] = Head(event_queue[w])]
  /\ event_queue' = [event_queue EXCEPT ![w] = Tail(@)]
  /\ pc' = [pc EXCEPT ![w] = "run"]
  /\ UNCHANGED <<mainVars, current_room, room_to_worker, routing, roomVars, audience, dbVars, sent>>

\* The event is dropped and the worker returns to its queue.
Return(w) ==
  /\ event' = [event EXCEPT ![w] = EmptyEvent]
  /\ pc' = [pc EXCEPT ![w] = "wait"]

\* The event as it is once NextAction has been fetched, and has returned res.
Advanced(e, res) ==
  [e EXCEPT !.current_action = @ + 1, !.result_code = res]

Continue(w, res) ==
  /\ event' = [event EXCEPT ![w] = Advanced(@, res)]
  /\ pc' = [pc EXCEPT ![w] = "run"]

\* An uninitialized command stays marked as such; its value is chosen when read.
send_response(e, res) ==
  sent' = [sent EXCEPT ![e.session] =
             Append(@, Response(e.initial_command, res, e.response_data))]

\* mutant: the entry outlives the room.
erase_room_to_worker_Kept(room) == room_to_worker

erase_room_to_worker(room) == [room_to_worker EXCEPT ![room] = NO_WORKER]

\* mutant: the loop goes on after a failed action has been answered.
Fail_Continues(w, res) ==
  /\ send_response(event[w], res)
  /\ Continue(w, res)
  /\ UNCHANGED room_to_worker

\* A failed action answers at once and drops the event.  The clean-up it is
\* meant to do for a failed creation tests the first action of the plan, which is
\* REQUEST_DB_CREATE_ROOM: no plan starts with CREATE_ROOM, so it is never done.
Fail(w, res) ==
  /\ send_response(event[w], res)
  /\ Return(w)
  /\ room_to_worker' = IF event[w].actions[1].command = "CREATE_ROOM"
                         THEN erase_room_to_worker(NextAction(event[w]).target_room_id)
                         ELSE room_to_worker

\* Worker w is at the switch of process_event with command cmd.
At(w, cmd) ==
  /\ pc[w] = "run"
  /\ HasNextAction(event[w])
  /\ NotFailed(event[w])
  /\ NextAction(event[w]).command = cmd

\* The loop ends: every action has been run.
FinishEvent(w) ==
  /\ pc[w] = "run"
  /\ ~HasNextAction(event[w])
  /\ Return(w)
  /\ UNCHANGED <<mainVars, current_room, room_to_worker, routing, event_queue, roomVars,
                 audience, dbVars, sent>>

\* The loop head finds a result that a database callback or dispatch_packet left.
AnswerFailed(w) ==
  /\ pc[w] = "run"
  /\ HasNextAction(event[w])
  /\ ~NotFailed(event[w])
  /\ send_response(event[w], event[w].result_code)
  /\ Return(w)
  /\ UNCHANGED <<mainVars, current_room, room_to_worker, routing, event_queue, roomVars,
                 audience, dbVars>>

SendResponse(w) ==
  /\ At(w, "SEND_RESPONSE")
  /\ send_response(event[w], event[w].result_code)
  /\ Return(w)
  /\ UNCHANGED <<mainVars, current_room, room_to_worker, routing, event_queue, roomVars,
                 audience, dbVars>>

\* REQUEST_LEAVE_ROOM: hand the event to the owner of the room, if there is one.
RequestLeaveRoom(w) ==
  /\ At(w, "REQUEST_LEAVE_ROOM")
  /\ route_event(w, Advanced(event[w], event[w].result_code),
                 NextAction(event[w]).target_room_id)
  /\ Return(w)
  /\ UNCHANGED <<mainVars, current_room, room_to_worker, event_queue, roomVars,
                 audience, dbVars, sent>>

CreateRoom(w) ==
  LET room == NextAction(event[w]).target_room_id IN
  /\ At(w, "CREATE_ROOM")
  /\ IF room \in rooms[w]
       THEN Fail(w, "RoomAlreadyExists") /\ UNCHANGED roomVars
       ELSE /\ rooms' = [rooms EXCEPT ![w] = @ \cup {room}]
            /\ sessions' = [sessions EXCEPT ![w][room] = {}]
            /\ current_sessions' = [current_sessions EXCEPT ![w][room] = 0]
            /\ Continue(w, "Success")
            /\ UNCHANGED <<room_to_worker, sent>>
  /\ UNCHANGED <<mainVars, current_room, routing, event_queue, audience, dbVars>>

\* mutant: one session too many.
Full_OffByOne(w, room) == current_sessions[w][room] > Capacity(w)

Full(w, room) == current_sessions[w][room] >= Capacity(w)

\* sessions_.emplace does nothing for a session that is already there; the
\* counter is incremented all the same.
join_session(w, s, room) ==
  /\ sessions' = [sessions EXCEPT ![w][room] = @ \cup {s}]
  /\ current_sessions' = [current_sessions EXCEPT ![w][room] = @ + 1]
  /\ UNCHANGED rooms

\* join_room up to and including get_user.
JoinRoom(w) ==
  LET room == NextAction(event[w]).target_room_id
      s    == event[w].session IN
  /\ At(w, "JOIN_ROOM")
  /\ \/ /\ room \notin rooms[w]
        /\ Fail(w, "RoomNotFound")
        /\ UNCHANGED roomVars
     \/ /\ room \in rooms[w]
        /\ Full(w, room)
        /\ Fail(w, "RoomFull")
        /\ UNCHANGED roomVars
     \/ /\ room \in rooms[w]
        /\ ~Full(w, room)
        /\ join_session(w, s, room)
        /\ IF s \in Users
             THEN /\ pc' = [pc EXCEPT ![w] = "set_current_room"]
                  /\ UNCHANGED <<event, room_to_worker, sent>>
             ELSE Fail(w, "UserNotFound")
  /\ UNCHANGED <<mainVars, current_room, routing, event_queue, audience, dbVars>>

\* mutant: the user's room is not updated.
SetCurrentRoom_Forgotten(w) ==
  /\ pc[w] = "set_current_room"
  /\ Continue(w, "Success")
  /\ UNCHANGED <<mainVars, current_room, room_to_worker, routing, event_queue, roomVars,
                 audience, dbVars, sent>>

\* The rest of join_room, on the User that get_user returned.
SetCurrentRoom(w) ==
  /\ pc[w] = "set_current_room"
  /\ current_room' = [current_room EXCEPT ![event[w].session] =
                                            NextAction(event[w]).target_room_id]
  /\ Continue(w, "Success")
  /\ UNCHANGED <<mainVars, room_to_worker, routing, event_queue, roomVars, audience, dbVars, sent>>

-----------------------------------------------------------------------------
LeaveResult(w, s, room) ==
  IF room \notin rooms[w] THEN "RoomNotFound"
  ELSE IF s \notin sessions[w][room] THEN "UserNotFound"
  ELSE "Success"

\* mutant: a room with one session left is taken for empty.
Vacated_OneLeft(w, room) == current_sessions[w][room] - 1 <= 1 /\ w # LOBBY_WORKER_ID

\* mutant: an empty room is kept.
Vacated_Never(w, room) == current_sessions[w][room] - 1 < 0 /\ w # LOBBY_WORKER_ID

\* The counter says that the last session leaves a room that may disappear.
Vacated(w, room) == current_sessions[w][room] - 1 <= 0 /\ w # LOBBY_WORKER_ID

\* leave_room when it succeeds: exit_session, then the room if it is vacated.
leave_room(w, s, room) ==
  IF Vacated(w, room)
    THEN /\ rooms' = [rooms EXCEPT ![w] = @ \ {room}]
         /\ sessions' = [sessions EXCEPT ![w][room] = {}]
         /\ current_sessions' = [current_sessions EXCEPT ![w][room] = 0]
         /\ room_to_worker' = erase_room_to_worker(room)
    ELSE /\ sessions' = [sessions EXCEPT ![w][room] = @ \ {s}]
         /\ current_sessions' = [current_sessions EXCEPT ![w][room] = @ - 1]
         /\ UNCHANGED <<rooms, room_to_worker>>

LeaveRoom(w) ==
  LET room == NextAction(event[w]).target_room_id
      s    == event[w].session IN
  /\ At(w, "LEAVE_ROOM")
  /\ IF LeaveResult(w, s, room) = "Success"
       THEN leave_room(w, s, room) /\ Continue(w, "Success") /\ UNCHANGED sent
       ELSE Fail(w, LeaveResult(w, s, room)) /\ UNCHANGED roomVars
  /\ UNCHANGED <<mainVars, current_room, routing, event_queue, audience, dbVars>>

\* diconnect_session: the room the event names, otherwise the first room of this
\* worker, in the map's own order, that holds the session.
Disconnects(held, room) == IF room \in held THEN {room} ELSE held

DisconnectSession(w) ==
  LET room == NextAction(event[w]).target_room_id
      s    == event[w].fd
      held == {r \in rooms[w] : s \in sessions[w][r]} IN
  /\ At(w, "DISCONNECT_SESSION")
  /\ \/ \E r \in Disconnects(held, room) : leave_room(w, s, r)
     \/ held = {} /\ UNCHANGED <<roomVars, room_to_worker>>
  /\ Return(w)
  /\ UNCHANGED <<mainVars, current_room, routing, event_queue, audience, dbVars, sent>>

-----------------------------------------------------------------------------
(***************************************************************************)
(* send_message visits the room's sessions one at a time, and looks each   *)
(* one's user and current room up as it goes.                              *)
(***************************************************************************)
SendMessage(w) ==
  LET room == NextAction(event[w]).target_room_id
      s    == event[w].session IN
  /\ At(w, "SEND_MESSAGE")
  /\ IF room \notin rooms[w]
       THEN Fail(w, "RoomNotFound") /\ UNCHANGED audience
       ELSE /\ audience' = [audience EXCEPT ![w] =
                              [to |-> sessions[w][room] \ {s}, sender |-> get_user_id(s)]]
            /\ pc' = [pc EXCEPT ![w] = "send_message"]
            /\ UNCHANGED <<event, room_to_worker, sent>>
  /\ UNCHANGED <<mainVars, current_room, routing, event_queue, roomVars, dbVars>>

\* A member that is on its way to another room is skipped.
Receives(s, room) == s \in Users /\ current_room[s] = room

SendTo(w, s) ==
  LET room == NextAction(event[w]).target_room_id IN
  /\ pc[w] = "send_message"
  /\ s \in audience[w].to
  /\ audience' = [audience EXCEPT ![w].to = @ \ {s}]
  /\ sent' = IF Receives(s, room)
               THEN [sent EXCEPT ![s] = Append(@, Broadcast(audience[w].sender, room))]
               ELSE sent
  /\ UNCHANGED <<mainVars, current_room, room_to_worker, routing, event_queue, roomVars,
                 pc, event, dbVars>>

SentToAll(w) ==
  /\ pc[w] = "send_message"
  /\ audience[w].to = {}
  /\ audience' = [audience EXCEPT ![w] = NoAudience]
  /\ Continue(w, "Success")
  /\ UNCHANGED <<mainVars, current_room, room_to_worker, routing, event_queue, roomVars,
                 dbVars, sent>>

-----------------------------------------------------------------------------
(***************************************************************************)
(* Database jobs.  The event travels in the job's callback.                *)
(***************************************************************************)
post_job(type, e, room, sender) ==
  /\ job_queue' = Append(job_queue,
                         [type |-> type, event |-> e, room |-> room, sender |-> sender])
  /\ UNCHANGED <<room_seq, messages>>

RequestDbCreateRoom(w) ==
  /\ At(w, "REQUEST_DB_CREATE_ROOM")
  /\ post_job("CreateRoom", Advanced(event[w], event[w].result_code), NO_ROOM, NoSession)
  /\ Return(w)
  /\ UNCHANGED <<mainVars, current_room, room_to_worker, routing, event_queue, roomVars,
                 audience, sent>>

RequestDbLoadMessage(w) ==
  /\ At(w, "REQUEST_DB_LOAD_MESSAGE")
  /\ post_job("LoadHistory", Advanced(event[w], event[w].result_code),
              NextAction(event[w]).target_room_id, NoSession)
  /\ Return(w)
  /\ UNCHANGED <<mainVars, current_room, room_to_worker, routing, event_queue, roomVars,
                 audience, sent>>

\* No callback: nobody learns whether the row was written.
SaveMessage(w) ==
  /\ At(w, "SAVE_MESSAGE")
  /\ post_job("SaveMessage", EmptyEvent, NextAction(event[w]).target_room_id,
              get_user_id(event[w].session))
  /\ Continue(w, event[w].result_code)
  /\ UNCHANGED <<mainVars, current_room, room_to_worker, routing, event_queue, roomVars,
                 audience, sent>>

-----------------------------------------------------------------------------
(***************************************************************************)
(* The database thread: thread_main takes one job, process_job runs its    *)
(* query and then its callback.  A query fails only if the run allows it;  *)
(* the sequence also fails once its last number is issued.                 *)
(***************************************************************************)
TakeJob(type) ==
  /\ Free(DB_THREAD)
  /\ job_queue # << >>
  /\ Head(job_queue).type = type
  /\ job_queue' = Tail(job_queue)

\* mutant: the same number is issued again.
nextval_Repeated == room_seq

\* The number the sequence issues after this one.
nextval == room_seq + 1

\* bind_room_worker draws two room workers and takes the one that seems to hold
\* fewer rooms.  Their owners change the two sizes without a lock while they are
\* read, one after the other: whichever room worker wins, the rest must cope.
\* emplace keeps an entry that is already there; the caller uses w all the same.
bind_room_worker(room, w) ==
  room_to_worker' = IF find_worker(room) = NO_WORKER
                      THEN [room_to_worker EXCEPT ![room] = w]
                      ELSE room_to_worker

DbCreateRoom ==
  LET e == Head(job_queue).event IN
  /\ TakeJob("CreateRoom")
  /\ room_seq <= LastRoomId
  /\ room_seq' = nextval
  /\ \E w \in RoomWorkers :
       /\ bind_room_worker(room_seq, w)
       /\ routing' = [routing EXCEPT ![DB_THREAD] =
            [to    |-> w,
             event |-> [resolve_room_id(e, room_seq)
                          EXCEPT !.result_code = "Success",
                                 !.response_data = RoomIdBody(room_seq)]]]
  /\ UNCHANGED <<mainVars, current_room, event_queue, roomVars, workerVars, messages, sent>>

\* db_create_room_on_result with an error: straight to the lobby worker.
DbCreateRoomFails ==
  /\ TakeJob("CreateRoom")
  /\ "CreateRoom" \in DbFailures \/ room_seq > LastRoomId
  /\ post_event(LOBBY_WORKER_ID, [Head(job_queue).event EXCEPT !.result_code = "DBError"])
  /\ UNCHANGED <<mainVars, current_room, room_to_worker, routing, roomVars, workerVars,
                 room_seq, messages, sent>>

\* db_load_messages_on_result: back to the room's worker, if the room is still there.
DbLoadHistory ==
  LET e == Head(job_queue).event IN
  /\ TakeJob("LoadHistory")
  /\ \/ route_event(DB_THREAD, [e EXCEPT !.result_code = "Success",
                                         !.response_data = HistoryBody],
                    LastAction(e).target_room_id)
     \/ /\ "LoadHistory" \in DbFailures
        /\ route_event(DB_THREAD, [e EXCEPT !.result_code = "DBError"],
                       LastAction(e).target_room_id)
  /\ UNCHANGED <<mainVars, current_room, room_to_worker, event_queue, roomVars, workerVars,
                 room_seq, messages, sent>>

DbSaveMessage ==
  /\ TakeJob("SaveMessage")
  /\ \/ messages' = Append(messages, [room_id   |-> Head(job_queue).room,
                                      sender_id |-> Head(job_queue).sender])
     \/ "SaveMessage" \in DbFailures /\ UNCHANGED messages
  /\ UNCHANGED <<mainVars, current_room, room_to_worker, routing, event_queue, roomVars,
                 workerVars, room_seq, sent>>

-----------------------------------------------------------------------------
\* The constructors of Server, RoomManager and RoomWorker: one room, the lobby.
Init ==
  /\ conn = [s \in Sessions |-> "none"]
  /\ current_room = [s \in Sessions |-> LOBBY_ROOM_ID]
  /\ received = [s \in Sessions |-> 0]
  /\ main = MainIdle
  /\ room_to_worker = [r \in RoomIds |-> IF r = LOBBY_ROOM_ID THEN LOBBY_WORKER_ID
                                                              ELSE NO_WORKER]
  /\ routing = [t \in Threads |-> NotRouting]
  /\ event_queue = [w \in Workers |-> << >>]
  /\ rooms = [w \in Workers |-> IF w = LOBBY_WORKER_ID THEN {LOBBY_ROOM_ID} ELSE {}]
  /\ sessions = [w \in Workers |-> [r \in RoomIds |-> {}]]
  /\ current_sessions = [w \in Workers |-> [r \in RoomIds |-> 0]]
  /\ pc = [w \in Workers |-> "wait"]
  /\ event = [w \in Workers |-> EmptyEvent]
  /\ audience = [w \in Workers |-> NoAudience]
  /\ job_queue = << >>
  /\ room_seq = FIRST_ROOM_ID
  /\ messages = << >>
  /\ sent = [s \in Sessions |-> << >>]

\* The part of the main thread that no client decides.
MainStep == DisconnectRoom \/ DisconnectLobby \/ RemoveSession

WorkerStep(w) ==
  \/ TakeEvent(w)         \/ FinishEvent(w)          \/ AnswerFailed(w)
  \/ SendResponse(w)      \/ RequestLeaveRoom(w)     \/ CreateRoom(w)
  \/ JoinRoom(w)          \/ SetCurrentRoom(w)       \/ LeaveRoom(w)
  \/ DisconnectSession(w) \/ SendMessage(w)          \/ SentToAll(w)
  \/ SaveMessage(w)       \/ RequestDbCreateRoom(w)  \/ RequestDbLoadMessage(w)
  \/ \E s \in Sessions : SendTo(w, s)

DbStep == DbCreateRoom \/ DbCreateRoomFails \/ DbLoadHistory \/ DbSaveMessage

\* What the threads do by themselves.
ServerStep ==
  \/ MainStep
  \/ \E t \in Threads : PostRouted(t)
  \/ \E w \in Workers : WorkerStep(w)
  \/ DbStep

\* Any peer, in any order: the server checks no packet against what the session
\* did before.
Next ==
  \/ ServerStep
  \/ \E s \in Sessions : AcceptClient(s) \/ CloseSession(s)
  \/ \E s \in Sessions, req \in PeerRequests : DispatchPacket(s, req[1], req[2])

Spec == Init /\ [][Next]_vars

-----------------------------------------------------------------------------
(***************************************************************************)
(* Properties.                                                             *)
(***************************************************************************)
StateTypeOK ==
  /\ conn \in [Sessions -> {"none", "open", "closed"}]
  /\ current_room \in [Sessions -> RoomIds]
  /\ received \in [Sessions -> 0..MaxRequests]
  /\ main \in [pc : {"idle", "disconnect_room", "disconnect_lobby", "remove"},
               fd : Sessions \cup {NoSession}, room : RoomIds]
  /\ room_to_worker \in [RoomIds -> Workers \cup {NO_WORKER}]
  /\ rooms \in [Workers -> SUBSET RoomIds]
  /\ sessions \in [Workers -> [RoomIds -> SUBSET Sessions]]
  /\ current_sessions \in [Workers -> [RoomIds -> Int]]
  /\ pc \in [Workers -> {"wait", "run", "set_current_room", "send_message"}]
  /\ audience \in [Workers -> [to : SUBSET Sessions, sender : Sessions \cup {NoSession}]]
  /\ room_seq \in FIRST_ROOM_ID..LastRoomId + 1
  /\ messages \in Seq([room_id : RoomIds, sender_id : Sessions \cup {NoSession}])
  /\ sent \in [Sessions -> Seq(Packets)]

EventTypeOK ==
  /\ routing \in [Threads -> [to : Workers \cup {NO_WORKER}, event : RoomEvents]]
  /\ event_queue \in [Workers -> Seq(RoomEvents)]
  /\ event \in [Workers -> RoomEvents]
  /\ job_queue \in Seq(Jobs)

\* The type of every variable.  In particular a room exists only under a number the
\* sequence has issued, never under the placeholder PENDING_ROOM_ID of the plan.
TypeOK == StateTypeOK /\ EventTypeOK

\* Whatever the peers send (a second JOIN of the same room, a LEAVE of a room
\* never entered, a connection lost half way), a room never holds more sessions
\* than max_sessions_: the separate counter of Room never falls below the size of
\* its map, although emplace may insert nothing when the counter goes up.
RoomCapacity ==
  \A w \in Workers : \A r \in rooms[w] :
    /\ Cardinality(sessions[w][r]) <= current_sessions[w][r]
    /\ current_sessions[w][r] <= Capacity(w)

\* leave_room destroys a Room only when the session that leaves is the only one in
\* it: nobody is thrown out of a room by somebody else's LEAVE or disconnect.
NoEviction ==
  [][\A w \in Workers : \A r \in rooms[w] :
       r \notin rooms'[w] => Cardinality(sessions[w][r]) <= 1]_vars

\* The event is still to run CREATE_ROOM for the room.
Creates(e, room) ==
  \E i \in DOMAIN e.actions :
    i > e.current_action /\ e.actions[i] = RoomAction("CREATE_ROOM", room)

\* The table room -> worker, written by the database thread and erased by the
\* workers, agrees with the maps the workers own: every room is routed to the
\* worker that holds it, and an entry without a room (bind_room_worker runs before
\* the event is posted) is being created by an event on its way to that worker.
RoutesMatchRooms ==
  /\ \A w \in Workers : \A r \in rooms[w] : room_to_worker[r] = w
  /\ \A r \in RoomIds : LET w == room_to_worker[r] IN
       w # NO_WORKER /\ r \notin rooms[w] =>
         \/ routing[DB_THREAD].to = w /\ Creates(routing[DB_THREAD].event, r)
         \/ \E i \in DOMAIN event_queue[w] : Creates(event_queue[w][i], r)
         \/ Creates(event[w], r)

\* An action on a room runs on the worker that owns it: a worker that is about to
\* join, leave or send to a room it does not have can only answer RoomNotFound, and
\* it does so only when no other worker has the room.  The route was looked up
\* when the event was posted; by the time it runs the room may have gone, but it
\* has not gone elsewhere.
ActionsRunAtOwner ==
  \A w \in Workers, v \in Workers :
    \A r \in rooms[v] :
      \A cmd \in {"JOIN_ROOM", "LEAVE_ROOM", "SEND_MESSAGE", "SAVE_MESSAGE"} :
        At(w, cmd) /\ NextAction(event[w]).target_room_id = r => w = v

\* The comment in create_room ("cannot happen"): a worker told to create a room
\* never finds that some worker has it already.  The number comes from the
\* sequence and passed through the database thread, the table and a queue.
CreateFindsNoRoom ==
  \A w \in Workers, v \in Workers :
    At(w, "CREATE_ROOM") => NextAction(event[w]).target_room_id \notin rooms[v]

\* The places that hold an event made from a packet of s.
IsRequestOf(e, s) == e.session = s /\ e.initial_command # UNINITIALIZED

Outstanding(s) ==
  {<<"routing", t, 0>> : t \in {u \in Threads : IsRequestOf(routing[u].event, s)}}
  \cup {<<"event", w, 0>> : w \in {v \in Workers : IsRequestOf(event[v], s)}}
  \cup (UNION {{<<"queue", w, i>> : i \in {j \in DOMAIN event_queue[w] :
                                             IsRequestOf(event_queue[w][j], s)}} : w \in Workers})
  \cup {<<"job", 0, i>> : i \in {j \in DOMAIN job_queue : IsRequestOf(job_queue[j].event, s)}}

Answers(s) ==
  {i \in DOMAIN sent[s] : IsResponse(sent[s][i]) /\ sent[s][i].command # UNINITIALIZED}

\* A packet is one event, moved from thread to thread through queues and database
\* callbacks and never copied: the answers a session was sent and its requests still
\* under way together never exceed the packets read from it, so that no request
\* is answered twice on any of the failure paths of process_event.
OneResponseEach ==
  \A s \in Sessions :
    Cardinality(Answers(s)) + Cardinality(Outstanding(s)) <= received[s]

-----------------------------------------------------------------------------
(***************************************************************************)
(* What PROTOCOL.md says and the code does not keep.                       *)
(***************************************************************************)
\* "The body of a failed answer is always 0 bytes" (section 2).  But response_data is
\* filled in the middle of the plan of CREATE and sent with whatever result the rest
\* of the plan has: an action that fails behind the callback is answered with the body.
FailedBodyEmpty ==
  \A s \in Users \ {main.fd} : \A i \in Answers(s) :
    sent[s][i].status # "Success" => sent[s][i].body = EmptyBody
=============================================================================
