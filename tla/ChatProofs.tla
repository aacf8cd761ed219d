----------------------------- MODULE ChatProofs -----------------------------
(***************************************************************************)
(* Proofs about clients and server together, for every number of sessions, *)
(* workers, rooms and requests: the client and the server agree on where   *)
(* the user is.                                                            *)
(*                                                                         *)
(* A move is a plan that several threads run, one room after the other,    *)
(* with the answer at its end.  The invariant says, for every session and  *)
(* wherever the event of its request is, which rooms the session is in     *)
(* after the actions run so far, and so what the answer will tell.         *)
(***************************************************************************)
EXTENDS ChatSystem, RoutesProofs, AnswersProofs

-----------------------------------------------------------------------------
(***************************************************************************)
(* Plans: the rooms that the first d actions of a plan enter and leave,    *)
(* and where a session that was in one room is after them.                 *)
(***************************************************************************)
Entered(acts, d) ==
  {acts[i].target_room_id : i \in {j \in DOMAIN acts : j <= d /\ acts[j].command = "JOIN_ROOM"}}

\* The rooms that the first d actions leave.
Left(acts, d) ==
  {acts[i].target_room_id : i \in {j \in DOMAIN acts : j <= d /\ acts[j].command = "LEAVE_ROOM"}}

\* The rooms of a session that was here before the plan began.
Where(acts, d, here) == ({here} \cup Entered(acts, d)) \ Left(acts, d)

\* The numbers the sequence can issue.
NewRooms == FIRST_ROOM_ID..LastRoomId

\* The plan of CREATE once the database has issued the number.
CreatePlan(r) ==
  << RoomAction("REQUEST_DB_CREATE_ROOM", LOBBY_ROOM_ID),
     RoomAction("CREATE_ROOM", r),
     RoomAction("JOIN_ROOM", r),
     RoomAction("REQUEST_LEAVE_ROOM", LOBBY_ROOM_ID),
     RoomAction("LEAVE_ROOM", LOBBY_ROOM_ID),
     RoomAction("SEND_RESPONSE", NO_ROOM) >>

\* The plan of a request whose first room has no worker.
NotFoundPlan == << RoomAction("SEND_RESPONSE", NO_ROOM) >>

\* The requests that a client which shows the room can have made.
Asks(p, shown) ==
  \/ shown = LOBBY_ROOM_ID /\ p = [command |-> "CMD_CREATE_ROOM", room_id |-> NO_ROOM]
  \/ \E r \in NewRooms :
       \/ shown = LOBBY_ROOM_ID /\ p = [command |-> "CMD_JOIN_ROOM", room_id |-> r]
       \/ \E cmd \in {"CMD_LOAD_MESSAGE", "CMD_LEAVE_ROOM", "CMD_SEND_MESSAGE"} :
            shown = r /\ p = [command |-> cmd, room_id |-> r]

\* The event runs the plan of the request p.
Planned(p, e) ==
  \/ /\ e.actions = Plan(p.command, p.room_id)
     /\ p.command = "CMD_CREATE_ROOM" => e.current_action <= 1 /\ e.response_data = EmptyBody
  \/ /\ p.command = "CMD_CREATE_ROOM"
     /\ e.current_action >= 1
     /\ \E r \in NewRooms : e.actions = CreatePlan(r) /\ e.response_data = RoomIdBody(r)
  \/ /\ e.actions = NotFoundPlan
     /\ e.result_code = "RoomNotFound"

-----------------------------------------------------------------------------
(***************************************************************************)
(* What server and client know of one session.                             *)
(***************************************************************************)
\* The connection, as the main thread sees it.
Link(s) == IF main.fd = s THEN "closing" ELSE conn[s]

\* The event of accept_client has still to join the session to the lobby.
Waits(q, h, p, s) ==
  \/ \E i \in DOMAIN q : IsAccept(q[i], s)
  \/ IsAccept(h, s) /\ h.current_action = 0 /\ p = "run"

\* The session has still to enter the lobby: it is not accepted, or its event waits.
LobbyDue(s) ==
  \/ Link(s) = "none"
  \/ Waits(event_queue[LOBBY_WORKER_ID], event[LOBBY_WORKER_ID], pc[LOBBY_WORKER_ID], s)

\* The rooms whose map holds the session.
InRooms(s) == {r \in RoomIds : \E w \in Workers : s \in sessions[w][r]}

\* The rooms the session is in, the lobby included if it is about to be.
Whereabouts(s) == InRooms(s) \cup (IF LobbyDue(s) THEN {LOBBY_ROOM_ID} ELSE {})

\* The user's room of a client that may ask before it has been let in is left out:
\* accept_client's event sets it at any later time.
View(s) ==
  [link    |-> Link(s),
   at      |-> Whereabouts(s),
   shown   |-> ShownRoom(s),
   pending |-> pending_[s],
   cur     |-> IF s \in Hurried THEN NO_ROOM ELSE current_room[s]]

\* The main thread has not begun to close the session.
Present(v) == v.link \in {"none", "open"}

-----------------------------------------------------------------------------
(***************************************************************************)
(* The invariant.                                                          *)
(***************************************************************************)
\* A request of s of which d actions have been run, on a session with view v.
StageOK(v, s, e, d) ==
  /\ v.link # "none"
  /\ Asks(v.pending, v.shown)
  /\ e.initial_command = v.pending.command
  /\ Planned(v.pending, e)
  /\ v.at \subseteq Where(e.actions, d, v.shown)
  /\ Present(v) => Where(e.actions, d, v.shown) \subseteq v.at
  /\ Entered(e.actions, e.current_action) # {} => e.result_code = "Success"
  /\ e.result_code # "Success" => e.response_data = EmptyBody
  /\ e.current_action = 0 => e.response_data = EmptyBody
  /\ Present(v) /\ s \notin Hurried =>
       v.cur \in IF Entered(e.actions, e.current_action) = {}
                   THEN {v.shown} ELSE Entered(e.actions, e.current_action)

\* What an event means for s, whoever it belongs to.
Fits(v, s, e, d) ==
  /\ e.fd = s => ~Present(v)
  /\ IsRequestOf(e, s) => StageOK(v, s, e, d)
  /\ IsAccept(e, s) => /\ v.link # "none"
                       /\ NotFailed(e)
                       /\ e.actions = AcceptEvent(s).actions

\* Between two workers the event of CREATE is not at its JOIN_ROOM.
Boarded(e) == e.initial_command = "CMD_CREATE_ROOM" => e.current_action # 2

\* An event between two threads, and one in a worker's queue.
RidesWell(v, s, e) == Fits(v, s, e, e.current_action) /\ Boarded(e) /\ ~IsAccept(e, s)
WaitsWell(v, s, e) == Fits(v, s, e, e.current_action) /\ Boarded(e)

\* The actions that the hand of a worker has run: between the two halves of
\* join_room the session is in the room and the action not yet counted.
Progress(e, p) == e.current_action + (IF p = "set_current_room" THEN 1 ELSE 0)

\* The events in every place fit the session.
RoutedFit(s) == \A t \in Threads : RidesWell(View(s), s, routing[t].event)
JobsFit(s)   == \A i \in DOMAIN job_queue : RidesWell(View(s), s, job_queue[i].event)
QueuedFit(s) ==
  \A w \in Workers : \A i \in DOMAIN event_queue[w] : WaitsWell(View(s), s, event_queue[w][i])
HandsFit(s)  == \A w \in Workers : Fits(View(s), s, event[w], Progress(event[w], pc[w]))

\* Where the answer p puts a client with view v.
After(v, p) ==
  IF p.status # "Success" THEN v.shown
  ELSE CASE p.command = "CMD_JOIN_ROOM"   -> v.pending.room_id
         [] p.command = "CMD_CREATE_ROOM" -> p.body.room
         [] p.command = "CMD_LEAVE_ROOM"  -> LOBBY_ROOM_ID
         [] OTHER                         -> v.shown

\* An answer on its way is the one the client waits for and says where the session is.
AnswerOK(v, s, p) ==
  /\ Asks(v.pending, v.shown)
  /\ p.command = v.pending.command
  /\ v.at = {After(v, p)}
  /\ p.status # "Success" => p.body = EmptyBody
  /\ p.status = "Success" /\ p.command = "CMD_CREATE_ROOM" =>
       p.body.kind = "room_id" /\ p.body.room \in NewRooms
  /\ s \notin Hurried => v.cur = After(v, p)

\* Every answer that the client has not read fits what it waits for.
AnswersFit(s) ==
  Present(View(s)) =>
    \A i \in DOMAIN sent[s] : IsResponse(sent[s][i]) => AnswerOK(View(s), s, sent[s][i])

\* How many answers and requests of s the server may hold.
Allowed(p, up) == IF p = NoPending \/ up # << >> THEN 0 ELSE 1

\* The server holds no more requests and answers of s than the client waits for.
Sole(s) == Kept(Allowed(pending_[s], uplink[s]), s)

\* A client whose request has not been read is where it says.
RestsAt(v, s, n) ==
  Present(v) /\ n = 0 => v.at = {v.shown} /\ (s \notin Hurried => v.cur = v.shown)

\* The same for the present view of the session.
Rests(s) == RestsAt(View(s), s, Allowed(pending_[s], uplink[s]))

\* The client itself.
ClientFits(s) ==
  /\ \/ state_[s] = "LOBBY" /\ room_id_[s] = NO_ROOM
     \/ state_[s] = "IN_ROOM" /\ room_id_[s] \in NewRooms
  /\ pending_[s] = NoPending \/ Asks(pending_[s], ShownRoom(s))
  /\ uplink[s] = << >> \/ (pending_[s] # NoPending /\ uplink[s] = << pending_[s] >>)
  /\ running[s] => Link(s) \in {"none", "open"}

\* The event of accept_client is the first of its session in the lobby's queue.
FirstOf(q, h, s) ==
  \A j \in DOMAIN q : IsAccept(q[j], s) =>
    /\ q[j].current_action = 0
    /\ h.session # s
    /\ \A i \in DOMAIN q : i < j => q[i].session # s

\* The event of accept_client comes before all others of the session in the lobby's queue.
AcceptFirst(s) == FirstOf(event_queue[LOBBY_WORKER_ID], event[LOBBY_WORKER_ID], s)

\* A session that has still to enter the lobby is not in it.
DueOut(s) == LobbyDue(s) => s \notin sessions[LOBBY_WORKER_ID][LOBBY_ROOM_ID]

\* A client that is not in a hurry asks for nothing until it has been let in.
Patient(s) ==
  s \notin Hurried /\ ~Settled(s) /\ Link(s) \in {"none", "open"} =>
    pending_[s] = NoPending /\ state_[s] = "LOBBY"

\* All of it, for one session.
SInv(s) ==
  /\ RoutedFit(s) /\ JobsFit(s) /\ QueuedFit(s) /\ HandsFit(s)
  /\ AnswersFit(s) /\ Sole(s) /\ Rests(s) /\ ClientFits(s)
  /\ AcceptFirst(s) /\ DueOut(s) /\ Patient(s)

\* The rooms: the counter is exact, what is not a room holds nobody.
RoomsExact ==
  /\ LOBBY_ROOM_ID \in rooms[LOBBY_WORKER_ID]
  /\ \A w \in Workers, r \in RoomIds :
       /\ current_sessions[w][r] = Cardinality(sessions[w][r])
       /\ r \notin rooms[w] => sessions[w][r] = {}

\* A room that has just been created is empty when its creator joins it.
FreshAt(e, p, held, members) ==
  /\ e.session \in Sessions /\ e.initial_command = "CMD_CREATE_ROOM"
  /\ e.current_action = 2 /\ p = "run"
  => NextAction(e).target_room_id \in held /\ members[NextAction(e).target_room_id] = {}

\* The same for the hand of every worker.
Fresh == \A w \in Workers : FreshAt(event[w], pc[w], rooms[w], sessions[w])

\* The invariant of the composition, on top of those of the server.
CInv == RoomsExact /\ Fresh /\ \A s \in Sessions : SInv(s)

-----------------------------------------------------------------------------
(***************************************************************************)
(* Plans.                                                                  *)
(***************************************************************************)
\* What one more action adds to the rooms entered and left.
LEMMA OneMore ==
  ASSUME NEW acts, NEW d \in Nat, DOMAIN acts \subseteq Nat, d + 1 \in DOMAIN acts, NEW here
  PROVE  /\ acts[d + 1].command = "JOIN_ROOM" =>
              /\ Entered(acts, d + 1) = Entered(acts, d) \cup {acts[d + 1].target_room_id}
              /\ Left(acts, d + 1) = Left(acts, d)
         /\ acts[d + 1].command = "LEAVE_ROOM" =>
              /\ Entered(acts, d + 1) = Entered(acts, d)
              /\ Where(acts, d + 1, here) = Where(acts, d, here) \ {acts[d + 1].target_room_id}
         /\ acts[d + 1].command \notin {"JOIN_ROOM", "LEAVE_ROOM"} =>
              /\ Entered(acts, d + 1) = Entered(acts, d)
              /\ Where(acts, d + 1, here) = Where(acts, d, here)
<1> DEFINE J(n) == {j \in DOMAIN acts : j <= n /\ acts[j].command = "JOIN_ROOM"}
           L(n) == {j \in DOMAIN acts : j <= n /\ acts[j].command = "LEAVE_ROOM"}
<1>1. \A j \in DOMAIN acts : j <= d + 1 <=> j <= d \/ j = d + 1
  OBVIOUS
<1>2. J(d + 1) = IF acts[d + 1].command = "JOIN_ROOM" THEN J(d) \cup {d + 1} ELSE J(d)
  BY <1>1
<1>3. L(d + 1) = IF acts[d + 1].command = "LEAVE_ROOM" THEN L(d) \cup {d + 1} ELSE L(d)
  BY <1>1
<1>4. \A n : /\ Entered(acts, n) = {acts[i].target_room_id : i \in J(n)}
             /\ Left(acts, n) = {acts[i].target_room_id : i \in L(n)}
  BY DEF Entered, Left
<1> HIDE DEF J, L
<1>5. Entered(acts, d + 1) = IF acts[d + 1].command = "JOIN_ROOM"
        THEN Entered(acts, d) \cup {acts[d + 1].target_room_id} ELSE Entered(acts, d)
  <2>1. CASE acts[d + 1].command = "JOIN_ROOM"
    <3>1. J(d + 1) = J(d) \cup {d + 1}
      BY <1>2, <2>1
    <3>2. {acts[i].target_room_id : i \in J(d + 1)}
            = {acts[i].target_room_id : i \in J(d)} \cup {acts[d + 1].target_room_id}
      BY <3>1
    <3> QED
      BY <1>4, <2>1, <3>2
  <2>2. CASE acts[d + 1].command # "JOIN_ROOM"
    BY <1>2, <1>4, <2>2
  <2> QED
    BY <2>1, <2>2
<1>6. Left(acts, d + 1) = IF acts[d + 1].command = "LEAVE_ROOM"
        THEN Left(acts, d) \cup {acts[d + 1].target_room_id} ELSE Left(acts, d)
  <2>1. CASE acts[d + 1].command = "LEAVE_ROOM"
    <3>1. L(d + 1) = L(d) \cup {d + 1}
      BY <1>3, <2>1
    <3>2. {acts[i].target_room_id : i \in L(d + 1)}
            = {acts[i].target_room_id : i \in L(d)} \cup {acts[d + 1].target_room_id}
      BY <3>1
    <3> QED
      BY <1>4, <2>1, <3>2
  <2>2. CASE acts[d + 1].command # "LEAVE_ROOM"
    BY <1>3, <1>4, <2>2
  <2> QED
    BY <2>1, <2>2
<1> QED
  BY <1>5, <1>6 DEF Where

\* A plan that enters one room, as its action j, and then leaves another, as its action k.
Moves(acts, j, k, there, here) ==
  /\ j \in DOMAIN acts /\ k \in DOMAIN acts /\ j < k
  /\ acts[j] = RoomAction("JOIN_ROOM", there) /\ acts[k] = RoomAction("LEAVE_ROOM", here)
  /\ \A i \in DOMAIN acts : /\ acts[i].command = "JOIN_ROOM" => i = j
                            /\ acts[i].command = "LEAVE_ROOM" => i = k

\* A plan that moves nobody.
Stays(acts) == \A i \in DOMAIN acts : acts[i].command \notin {"JOIN_ROOM", "LEAVE_ROOM"}

\* What a plan with one JOIN and one LEAVE has entered and left after d actions.
LEMMA MovesFacts ==
  ASSUME NEW acts, DOMAIN acts \subseteq Nat, NEW j, NEW k, NEW there, NEW here,
         Moves(acts, j, k, there, here), NEW d \in Nat
  PROVE  /\ Entered(acts, d) = IF j <= d THEN {there} ELSE {}
         /\ Left(acts, d) = IF k <= d THEN {here} ELSE {}
<1>1. {i \in DOMAIN acts : i <= d /\ acts[i].command = "JOIN_ROOM"} = IF j <= d THEN {j} ELSE {}
  BY DEF Moves, RoomAction
<1>2. {i \in DOMAIN acts : i <= d /\ acts[i].command = "LEAVE_ROOM"} = IF k <= d THEN {k} ELSE {}
  BY DEF Moves, RoomAction
<1>3. acts[j].target_room_id = there /\ acts[k].target_room_id = here
  BY DEF Moves, RoomAction
<1> QED
  BY <1>1, <1>2, <1>3 DEF Entered, Left

\* A plan that moves nobody enters and leaves nothing.
LEMMA StaysFacts ==
  ASSUME NEW acts, Stays(acts), NEW d
  PROVE  Entered(acts, d) = {} /\ Left(acts, d) = {}
BY DEF Stays, Entered, Left

\* The five plans, and the one of a look-up without a result.
LEMMA JoinPlan ==
  ASSUME NEW r
  PROVE  /\ DOMAIN plan_join_room(r) = 1..5
         /\ Moves(plan_join_room(r), 1, 3, r, LOBBY_ROOM_ID)
         /\ \A i \in DOMAIN plan_join_room(r) :
              /\ plan_join_room(r)[i].command = "SEND_RESPONSE" => i = 5
              /\ plan_join_room(r)[i].command \notin {"SEND_MESSAGE", "CREATE_ROOM"}
BY DEF plan_join_room, Moves, RoomAction

\* LEAVE joins the lobby first and leaves the room third.
LEMMA LeavePlan ==
  ASSUME NEW r
  PROVE  /\ DOMAIN plan_leave_room(r) = 1..4
         /\ Moves(plan_leave_room(r), 1, 3, LOBBY_ROOM_ID, r)
         /\ \A i \in DOMAIN plan_leave_room(r) :
              /\ plan_leave_room(r)[i].command = "SEND_RESPONSE" => i = 4
              /\ plan_leave_room(r)[i].command
                   \notin {"SEND_MESSAGE", "CREATE_ROOM", "REQUEST_DB_LOAD_MESSAGE"}
BY DEF plan_leave_room, Moves, RoomAction

\* CREATE joins its room third and leaves the lobby fifth.
LEMMA CreatePlanFacts ==
  ASSUME NEW r
  PROVE  /\ DOMAIN CreatePlan(r) = 1..6
         /\ Moves(CreatePlan(r), 3, 5, r, LOBBY_ROOM_ID)
         /\ CreatePlan(r)[2] = RoomAction("CREATE_ROOM", r)
         /\ \A i \in DOMAIN CreatePlan(r) :
              /\ CreatePlan(r)[i].command = "SEND_RESPONSE" => i = 6
              /\ CreatePlan(r)[i].command = "CREATE_ROOM" => i = 2
              /\ CreatePlan(r)[i].command \notin {"SEND_MESSAGE", "REQUEST_DB_LOAD_MESSAGE"}
         /\ plan_create_room = CreatePlan(PENDING_ROOM_ID)
BY DEF CreatePlan, plan_create_room, Moves, RoomAction

\* SEND, LOAD and the answer to a failed look-up move nobody.
LEMMA OtherPlans ==
  ASSUME NEW r
  PROVE  /\ DOMAIN plan_send_message(r) = 1..3 /\ Stays(plan_send_message(r))
         /\ DOMAIN plan_load_message(r) = 1..2 /\ Stays(plan_load_message(r))
         /\ DOMAIN NotFoundPlan = 1..1 /\ Stays(NotFoundPlan)
         /\ NotFoundPlan[1].command = "SEND_RESPONSE"
         /\ \A i \in DOMAIN plan_send_message(r) :
              /\ plan_send_message(r)[i].command = "SEND_MESSAGE" => i = 1
              /\ plan_send_message(r)[i].command \notin {"CREATE_ROOM", "REQUEST_DB_LOAD_MESSAGE"}
         /\ \A i \in DOMAIN plan_load_message(r) :
              plan_load_message(r)[i].command \notin {"SEND_MESSAGE", "CREATE_ROOM"}
BY DEF plan_send_message, plan_load_message, NotFoundPlan, Stays, RoomAction

\* Which of them a request runs.
LEMMA PlanCases ==
  ASSUME NEW p, NEW shown, Asks(p, shown), NEW e, Planned(p, e)
  PROVE  \/ /\ p.command = "CMD_CREATE_ROOM" /\ shown = LOBBY_ROOM_ID
            /\ e.actions = plan_create_room /\ e.current_action <= 1
            /\ e.response_data = EmptyBody
         \/ /\ p.command = "CMD_CREATE_ROOM" /\ shown = LOBBY_ROOM_ID
            /\ e.current_action >= 1
            /\ \E r \in NewRooms : e.actions = CreatePlan(r) /\ e.response_data = RoomIdBody(r)
         \/ /\ p.command = "CMD_JOIN_ROOM" /\ shown = LOBBY_ROOM_ID /\ p.room_id \in NewRooms
            /\ e.actions = plan_join_room(p.room_id)
         \/ /\ p.command = "CMD_LEAVE_ROOM" /\ shown = p.room_id /\ p.room_id \in NewRooms
            /\ e.actions = plan_leave_room(p.room_id)
         \/ p.command = "CMD_SEND_MESSAGE" /\ e.actions = plan_send_message(p.room_id)
         \/ p.command = "CMD_LOAD_MESSAGE" /\ e.actions = plan_load_message(p.room_id)
         \/ e.actions = NotFoundPlan /\ e.result_code = "RoomNotFound"
<1>1. CASE p = [command |-> "CMD_CREATE_ROOM", room_id |-> NO_ROOM] /\ shown = LOBBY_ROOM_ID
  BY <1>1 DEF Planned, Plan
<1>2. ASSUME NEW r \in NewRooms, shown = LOBBY_ROOM_ID,
             p = [command |-> "CMD_JOIN_ROOM", room_id |-> r]
      PROVE  \/ /\ p.command = "CMD_JOIN_ROOM" /\ shown = LOBBY_ROOM_ID /\ p.room_id \in NewRooms
                /\ e.actions = plan_join_room(p.room_id)
             \/ e.actions = NotFoundPlan /\ e.result_code = "RoomNotFound"
  BY <1>2 DEF Planned, Plan
<1>3. ASSUME NEW r \in NewRooms, shown = r,
             p = [command |-> "CMD_LEAVE_ROOM", room_id |-> r]
      PROVE  \/ /\ p.command = "CMD_LEAVE_ROOM" /\ shown = p.room_id /\ p.room_id \in NewRooms
                /\ e.actions = plan_leave_room(p.room_id)
             \/ e.actions = NotFoundPlan /\ e.result_code = "RoomNotFound"
  BY <1>3 DEF Planned, Plan
<1>4. ASSUME NEW r \in NewRooms, shown = r,
             p = [command |-> "CMD_SEND_MESSAGE", room_id |-> r]
      PROVE  \/ p.command = "CMD_SEND_MESSAGE" /\ e.actions = plan_send_message(p.room_id)
             \/ e.actions = NotFoundPlan /\ e.result_code = "RoomNotFound"
  BY <1>4 DEF Planned, Plan
<1>5. ASSUME NEW r \in NewRooms, shown = r,
             p = [command |-> "CMD_LOAD_MESSAGE", room_id |-> r]
      PROVE  \/ p.command = "CMD_LOAD_MESSAGE" /\ e.actions = plan_load_message(p.room_id)
             \/ e.actions = NotFoundPlan /\ e.result_code = "RoomNotFound"
  BY <1>5 DEF Planned, Plan
<1> QED
  BY <1>1, <1>2, <1>3, <1>4, <1>5 DEF Asks

\* A move, one action before its end: nowhere but here before it has joined, in both
\* rooms until it has left, there when it answers.
LEMMA MoveStage ==
  ASSUME NEW acts, DOMAIN acts \subseteq Nat, NEW j, NEW k, NEW there, NEW here,
         Moves(acts, j, k, there, here), here # there, NEW c \in Nat, c + 1 \in DOMAIN acts
  PROVE  /\ Entered(acts, c) = {} => Left(acts, c) = {}
         /\ acts[c + 1].command = "JOIN_ROOM" =>
              /\ c + 1 = j /\ acts[c + 1].target_room_id = there
              /\ Entered(acts, c) = {} /\ Left(acts, c) = {}
         /\ acts[c + 1].command = "LEAVE_ROOM" =>
              /\ acts[c + 1].target_room_id = here
              /\ Entered(acts, c) # {} /\ here \in Where(acts, c, here)
         /\ k < c + 1 => Entered(acts, c) = {there} /\ Where(acts, c, here) = {there}
<1>1. j \in Nat /\ k \in Nat /\ j < k
  BY DEF Moves
<1>2. /\ Entered(acts, c) = IF j <= c THEN {there} ELSE {}
      /\ Left(acts, c) = IF k <= c THEN {here} ELSE {}
  BY MovesFacts
<1>3. acts[c + 1].command = "JOIN_ROOM" => c + 1 = j /\ acts[c + 1].target_room_id = there
  BY DEF Moves, RoomAction
<1>4. acts[c + 1].command = "LEAVE_ROOM" => c + 1 = k /\ acts[c + 1].target_room_id = here
  BY DEF Moves, RoomAction
<1> QED
  BY <1>1, <1>2, <1>3, <1>4 DEF Where

\* A room is the lobby or has a number of the sequence, never a placeholder.
LEMMA RoomNumbers ==
  /\ NewRooms \subseteq RoomIds
  /\ LOBBY_ROOM_ID \notin NewRooms
  /\ PENDING_ROOM_ID \notin NewRooms
  /\ NO_ROOM \notin NewRooms
  /\ LOBBY_ROOM_ID # PENDING_ROOM_ID
  /\ RoomIds = {LOBBY_ROOM_ID} \cup NewRooms
BY RoomAssumption DEF NewRooms, RoomIds, FIRST_ROOM_ID, LOBBY_ROOM_ID, PENDING_ROOM_ID, NO_ROOM

\* What a client has asked for has a command, and so has its answer.
LEMMA AsksFacts ==
  ASSUME NEW p, NEW shown, Asks(p, shown)
  PROVE  /\ p.command \in Commands /\ p.command # UNINITIALIZED
         /\ p # NoPending /\ shown \in RoomIds
         /\ p.room_id \in RoomIds \cup {NO_ROOM}
         /\ p = [command |-> p.command, room_id |-> p.room_id]
BY RoomNumbers, ConstantFacts DEF Asks, Commands, UNINITIALIZED, NoPending

\* A plan that has not joined has not left.
LEMMA JoinsFirst ==
  ASSUME NEW p, NEW shown, Asks(p, shown), NEW e \in RoomEvents, Planned(p, e), HasNextAction(e)
  PROVE  /\ e.current_action \in Nat /\ e.current_action + 1 \in DOMAIN e.actions
         /\ DOMAIN e.actions \subseteq Nat
         /\ Entered(e.actions, e.current_action) = {} => Left(e.actions, e.current_action) = {}
<1> DEFINE acts == e.actions
           c == e.current_action
<1>1. c \in Nat /\ c + 1 \in DOMAIN acts /\ DOMAIN acts \subseteq Nat
  BY DEF RoomEvents, HasNextAction
<1>2. ASSUME NEW j, NEW k, NEW there, NEW here, Moves(acts, j, k, there, here), here # there
      PROVE  Entered(acts, c) = {} => Left(acts, c) = {}
  BY <1>1, <1>2, MoveStage
<1>3. Stays(acts) => (Entered(acts, c) = {} => Left(acts, c) = {})
  BY StaysFacts
<1> HIDE DEF acts, c
<1>4. acts = plan_create_room => Moves(acts, 3, 5, PENDING_ROOM_ID, LOBBY_ROOM_ID)
  BY CreatePlanFacts
<1>5. \A r \in NewRooms : acts = CreatePlan(r) => Moves(acts, 3, 5, r, LOBBY_ROOM_ID)
  BY CreatePlanFacts
<1>6. acts = plan_join_room(p.room_id) => Moves(acts, 1, 3, p.room_id, LOBBY_ROOM_ID)
  BY JoinPlan
<1>7. acts = plan_leave_room(p.room_id) => Moves(acts, 1, 3, LOBBY_ROOM_ID, p.room_id)
  BY LeavePlan
<1>8. acts = plan_send_message(p.room_id) \/ acts = plan_load_message(p.room_id)
        \/ acts = NotFoundPlan => Stays(acts)
  BY OtherPlans
<1>9. Entered(acts, c) = {} => Left(acts, c) = {}
  BY <1>2, <1>3, <1>4, <1>5, <1>6, <1>7, <1>8, PlanCases, RoomNumbers DEF acts
<1> QED
  BY <1>1, <1>9 DEF acts, c

\* What a worker at the switch finds in the event of a request.
LEMMA PlanFacts ==
  ASSUME NEW p, NEW shown, Asks(p, shown), NEW e \in RunnableEvents, Planned(p, e),
         HasNextAction(e), NotFailed(e)
  PROVE  /\ NextAction(e).command = "JOIN_ROOM" =>
              /\ Entered(e.actions, e.current_action) = {} /\ Left(e.actions, e.current_action) = {}
              /\ NextAction(e).target_room_id # shown
              /\ e.current_action = 0 \/ (p.command = "CMD_CREATE_ROOM" /\ e.current_action = 2)
         /\ NextAction(e).command = "LEAVE_ROOM" =>
              /\ Entered(e.actions, e.current_action) # {}
              /\ NextAction(e).target_room_id \in Where(e.actions, e.current_action, shown)
         /\ NextAction(e).command = "SEND_MESSAGE" => e.current_action = 0
         /\ NextAction(e).command = "CREATE_ROOM" =>
              /\ e.current_action = 1 /\ 3 \in DOMAIN e.actions
              /\ e.actions[3].target_room_id = NextAction(e).target_room_id
         /\ NextAction(e).command # "CREATE_ROOM" /\ p.command = "CMD_CREATE_ROOM" =>
              e.current_action # 1
         /\ NextAction(e).command = "SEND_RESPONSE" =>
              /\ p.command = "CMD_CREATE_ROOM" =>
                   e.response_data.kind = "room_id" /\ e.response_data.room \in NewRooms
              /\ \A v, pk :
                   /\ v.pending = p /\ v.shown = shown
                   /\ pk.status = "Success" /\ pk.command = p.command
                   /\ pk.body = e.response_data
                   => /\ Where(e.actions, e.current_action, shown) = {After(v, pk)}
                      /\ Entered(e.actions, e.current_action) = {} => After(v, pk) = shown
                      /\ Entered(e.actions, e.current_action) # {} =>
                           Entered(e.actions, e.current_action) = {After(v, pk)}
<1> DEFINE acts == e.actions
           c == e.current_action
<1>0. e \in RoomEvents
  BY DEF RunnableEvents, FormedEvents
<1>1. c \in Nat /\ c + 1 \in DOMAIN acts /\ DOMAIN acts \subseteq Nat
  BY <1>0 DEF RoomEvents, HasNextAction
<1>2. NextAction(e) = acts[c + 1]
  BY DEF NextAction
<1>3. CASE acts = plan_create_room /\ p.command = "CMD_CREATE_ROOM"
  <2>1. ~Resolved(e)
    <3>1. Moves(acts, 3, 5, PENDING_ROOM_ID, LOBBY_ROOM_ID)
      BY <1>3, CreatePlanFacts
    <3>2. 3 \in DOMAIN acts /\ acts[3].target_room_id = PENDING_ROOM_ID
      BY <3>1 DEF Moves, RoomAction
    <3> QED
      BY <3>2 DEF Resolved
  <2>2. c = 0 /\ NextAction(e).command = "REQUEST_DB_CREATE_ROOM"
    BY <2>1 DEF RunnableEvents
  <2> QED
    BY <2>2
<1>4. ASSUME NEW r \in NewRooms, acts = CreatePlan(r), e.response_data = RoomIdBody(r),
             p.command = "CMD_CREATE_ROOM", shown = LOBBY_ROOM_ID, c >= 1
      PROVE  /\ acts[c + 1].command = "JOIN_ROOM" =>
                  /\ Entered(acts, c) = {} /\ Left(acts, c) = {}
                  /\ acts[c + 1].target_room_id # shown /\ c = 2
             /\ acts[c + 1].command = "LEAVE_ROOM" =>
                  Entered(acts, c) # {} /\ acts[c + 1].target_room_id \in Where(acts, c, shown)
             /\ acts[c + 1].command # "SEND_MESSAGE"
             /\ acts[c + 1].command = "CREATE_ROOM" =>
                  c = 1 /\ 3 \in DOMAIN acts /\ acts[3].target_room_id = acts[c + 1].target_room_id
             /\ acts[c + 1].command # "CREATE_ROOM" => c # 1
             /\ acts[c + 1].command = "SEND_RESPONSE" =>
                  Where(acts, c, shown) = {r} /\ Entered(acts, c) = {r}
  <2>1. DOMAIN acts = 1..6 /\ Moves(acts, 3, 5, r, shown) /\ shown # r
    BY <1>4, CreatePlanFacts, RoomNumbers
  <2>2. /\ acts[2] = RoomAction("CREATE_ROOM", r)
        /\ \A i \in DOMAIN acts : /\ acts[i].command = "SEND_RESPONSE" => i = 6
                                  /\ acts[i].command = "CREATE_ROOM" => i = 2
                                  /\ acts[i].command # "SEND_MESSAGE"
    BY <1>4, CreatePlanFacts
  <2>3. acts[3].target_room_id = r /\ acts[2].target_room_id = r /\ acts[2].command = "CREATE_ROOM"
    BY <2>1, <2>2 DEF Moves, RoomAction
  <2> HIDE DEF acts, c
  <2> QED
    BY <1>1, <2>1, <2>2, <2>3, MoveStage
<1>5. ASSUME p.command = "CMD_JOIN_ROOM", shown = LOBBY_ROOM_ID, p.room_id \in NewRooms,
             acts = plan_join_room(p.room_id)
      PROVE  /\ acts[c + 1].command = "JOIN_ROOM" =>
                  /\ Entered(acts, c) = {} /\ Left(acts, c) = {}
                  /\ acts[c + 1].target_room_id # shown /\ c = 0
             /\ acts[c + 1].command = "LEAVE_ROOM" =>
                  Entered(acts, c) # {} /\ acts[c + 1].target_room_id \in Where(acts, c, shown)
             /\ acts[c + 1].command \notin {"SEND_MESSAGE", "CREATE_ROOM"}
             /\ acts[c + 1].command = "SEND_RESPONSE" =>
                  Where(acts, c, shown) = {p.room_id} /\ Entered(acts, c) = {p.room_id}
  <2>1. Moves(acts, 1, 3, p.room_id, shown) /\ shown # p.room_id
    BY <1>5, JoinPlan, RoomNumbers
  <2>2. \A i \in DOMAIN acts : /\ acts[i].command = "SEND_RESPONSE" => i = 5
                               /\ acts[i].command \notin {"SEND_MESSAGE", "CREATE_ROOM"}
    BY <1>5, JoinPlan
  <2> HIDE DEF acts, c
  <2> QED
    BY <1>1, <2>1, <2>2, MoveStage
<1>6. ASSUME p.command = "CMD_LEAVE_ROOM", shown = p.room_id, p.room_id \in NewRooms,
             acts = plan_leave_room(p.room_id)
      PROVE  /\ acts[c + 1].command = "JOIN_ROOM" =>
                  /\ Entered(acts, c) = {} /\ Left(acts, c) = {}
                  /\ acts[c + 1].target_room_id # shown /\ c = 0
             /\ acts[c + 1].command = "LEAVE_ROOM" =>
                  Entered(acts, c) # {} /\ acts[c + 1].target_room_id \in Where(acts, c, shown)
             /\ acts[c + 1].command \notin {"SEND_MESSAGE", "CREATE_ROOM"}
             /\ acts[c + 1].command = "SEND_RESPONSE" =>
                  Where(acts, c, shown) = {LOBBY_ROOM_ID} /\ Entered(acts, c) = {LOBBY_ROOM_ID}
  <2>1. Moves(acts, 1, 3, LOBBY_ROOM_ID, shown) /\ shown # LOBBY_ROOM_ID
    BY <1>6, LeavePlan, RoomNumbers
  <2>2. \A i \in DOMAIN acts : /\ acts[i].command = "SEND_RESPONSE" => i = 4
                               /\ acts[i].command \notin {"SEND_MESSAGE", "CREATE_ROOM"}
    BY <1>6, LeavePlan
  <2> HIDE DEF acts, c
  <2> QED
    BY <1>1, <2>1, <2>2, MoveStage
<1>7. ASSUME \/ p.command = "CMD_SEND_MESSAGE" /\ acts = plan_send_message(p.room_id)
             \/ p.command = "CMD_LOAD_MESSAGE" /\ acts = plan_load_message(p.room_id)
      PROVE  /\ acts[c + 1].command \notin {"JOIN_ROOM", "LEAVE_ROOM", "CREATE_ROOM"}
             /\ acts[c + 1].command = "SEND_MESSAGE" => c = 0
             /\ Where(acts, c, shown) = {shown} /\ Entered(acts, c) = {}
  <2>1. Stays(acts)
    BY <1>7, OtherPlans
  <2>2. \A i \in DOMAIN acts : /\ acts[i].command # "CREATE_ROOM"
                               /\ acts[i].command = "SEND_MESSAGE" => i = 1
    BY <1>7, OtherPlans
  <2> HIDE DEF acts, c
  <2> QED
    BY <1>1, <2>1, <2>2, StaysFacts DEF Stays, Where
<1>8. ~(acts = NotFoundPlan /\ e.result_code = "RoomNotFound")
  BY DEF NotFailed
<1>9. \/ acts = plan_create_room /\ p.command = "CMD_CREATE_ROOM"
      \/ /\ p.command = "CMD_CREATE_ROOM" /\ shown = LOBBY_ROOM_ID /\ c >= 1
         /\ \E r \in NewRooms : acts = CreatePlan(r) /\ e.response_data = RoomIdBody(r)
      \/ /\ p.command = "CMD_JOIN_ROOM" /\ shown = LOBBY_ROOM_ID /\ p.room_id \in NewRooms
         /\ acts = plan_join_room(p.room_id)
      \/ /\ p.command = "CMD_LEAVE_ROOM" /\ shown = p.room_id /\ p.room_id \in NewRooms
         /\ acts = plan_leave_room(p.room_id)
      \/ p.command = "CMD_SEND_MESSAGE" /\ acts = plan_send_message(p.room_id)
      \/ p.command = "CMD_LOAD_MESSAGE" /\ acts = plan_load_message(p.room_id)
  BY <1>8, PlanCases
<1>10. \A r : RoomIdBody(r).kind = "room_id" /\ RoomIdBody(r).room = r
  BY DEF RoomIdBody
<1> HIDE DEF acts, c
<1>11. CASE \E r \in NewRooms : /\ acts = CreatePlan(r) /\ e.response_data = RoomIdBody(r)
                                /\ p.command = "CMD_CREATE_ROOM" /\ shown = LOBBY_ROOM_ID /\ c >= 1
  BY <1>2, <1>4, <1>10, <1>11 DEF acts, c, After
<1>12. CASE p.command = "CMD_JOIN_ROOM" /\ shown = LOBBY_ROOM_ID /\ p.room_id \in NewRooms
            /\ acts = plan_join_room(p.room_id)
  BY <1>2, <1>5, <1>12 DEF acts, c, After
<1>13. CASE p.command = "CMD_LEAVE_ROOM" /\ shown = p.room_id /\ p.room_id \in NewRooms
            /\ acts = plan_leave_room(p.room_id)
  BY <1>2, <1>6, <1>13 DEF acts, c, After
<1>14. CASE \/ p.command = "CMD_SEND_MESSAGE" /\ acts = plan_send_message(p.room_id)
            \/ p.command = "CMD_LOAD_MESSAGE" /\ acts = plan_load_message(p.room_id)
  BY <1>2, <1>7, <1>14 DEF acts, c, After
<1> QED
  BY <1>3, <1>9, <1>11, <1>12, <1>13, <1>14

-----------------------------------------------------------------------------
(***************************************************************************)
(* The stages of a request.                                                *)
(***************************************************************************)
LEMMA AdvancedFields ==
  ASSUME NEW e \in RoomEvents, NEW res
  PROVE  /\ Advanced(e, res).actions = e.actions
         /\ Advanced(e, res).current_action = e.current_action + 1
         /\ Advanced(e, res).result_code = res
         /\ Advanced(e, res).initial_command = e.initial_command
         /\ Advanced(e, res).session = e.session
         /\ Advanced(e, res).fd = e.fd
         /\ Advanced(e, res).response_data = e.response_data
BY DEF Advanced, RoomEvents

\* An action that has run leaves the plan alone.
LEMMA StillPlanned ==
  ASSUME NEW p, NEW shown, Asks(p, shown), NEW e \in RunnableEvents, Planned(p, e),
         HasNextAction(e), NotFailed(e), NEW res
  PROVE  Planned(p, Advanced(e, res))
<1> DEFINE f == Advanced(e, res)
<1>1. e \in RoomEvents /\ e.current_action \in Nat
  BY DEF RunnableEvents, FormedEvents, RoomEvents
<1>2. /\ f.actions = e.actions /\ f.current_action = e.current_action + 1
      /\ f.response_data = e.response_data
  BY <1>1, AdvancedFields
<1> HIDE DEF f
<1>3. ~(e.actions = NotFoundPlan /\ e.result_code = "RoomNotFound")
  BY DEF NotFailed
<1>4. ASSUME e.actions = plan_create_room PROVE e.current_action = 0
  <2>1. Moves(e.actions, 3, 5, PENDING_ROOM_ID, LOBBY_ROOM_ID)
    BY <1>4, CreatePlanFacts
  <2>2. 3 \in DOMAIN e.actions /\ e.actions[3].target_room_id = PENDING_ROOM_ID
    BY <2>1 DEF Moves, RoomAction
  <2> QED
    BY <2>2 DEF RunnableEvents, Resolved
<1>5. p.command = "CMD_CREATE_ROOM" => Plan(p.command, p.room_id) = plan_create_room
  BY DEF Plan
<1> QED
  BY <1>1, <1>2, <1>3, <1>4, <1>5 DEF Planned, f

\* An action that moves nobody.
LEMMA StageAdvance ==
  ASSUME NEW v, NEW s, NEW e \in RunnableEvents, StageOK(v, s, e, e.current_action),
         HasNextAction(e), NotFailed(e), NextAction(e).command \notin {"JOIN_ROOM", "LEAVE_ROOM"},
         NEW res \in {e.result_code, "Success"}
  PROVE  StageOK(v, s, Advanced(e, res), e.current_action + 1)
<1> DEFINE f == Advanced(e, res)
           c == e.current_action
           acts == e.actions
<1>1. e \in RoomEvents /\ c \in Nat
  BY DEF RunnableEvents, FormedEvents, RoomEvents
<1>2. /\ f.actions = acts /\ f.current_action = c + 1 /\ f.result_code = res
      /\ f.initial_command = e.initial_command /\ f.response_data = e.response_data
  BY <1>1, AdvancedFields
<1>3. Planned(v.pending, f)
  BY StillPlanned DEF StageOK
<1>4. c + 1 \in DOMAIN acts /\ DOMAIN acts \subseteq Nat /\ acts[c + 1] = NextAction(e)
  BY <1>1, JoinsFirst DEF StageOK, NextAction
<1>5. /\ Entered(acts, c + 1) = Entered(acts, c)
      /\ Where(acts, c + 1, v.shown) = Where(acts, c, v.shown)
  BY <1>1, <1>4, OneMore
<1> HIDE DEF f, c, acts
<1> QED
  BY <1>1, <1>2, <1>3, <1>5 DEF StageOK, f, c, acts

\* join_session has put the session into the room: the event still stands before the
\* action, one action further in what it has done.
LEMMA StageJoin ==
  ASSUME NEW v, NEW s, NEW e \in RunnableEvents, StageOK(v, s, e, e.current_action),
         HasNextAction(e), NotFailed(e), NextAction(e).command = "JOIN_ROOM",
         NEW u, u.link = v.link, u.shown = v.shown, u.pending = v.pending, u.cur = v.cur,
         u.at = v.at \cup {NextAction(e).target_room_id}
  PROVE  StageOK(u, s, e, e.current_action + 1)
<1> DEFINE c == e.current_action
           acts == e.actions
           room == NextAction(e).target_room_id
<1>1. e \in RoomEvents /\ c \in Nat
  BY DEF RunnableEvents, FormedEvents, RoomEvents
<1>2. c + 1 \in DOMAIN acts /\ DOMAIN acts \subseteq Nat /\ acts[c + 1] = NextAction(e)
  BY <1>1, JoinsFirst DEF StageOK, NextAction
<1>3. Entered(acts, c) = {} /\ Left(acts, c) = {}
  BY PlanFacts DEF StageOK
<1>4. Entered(acts, c + 1) = {room} /\ Left(acts, c + 1) = {}
  BY <1>1, <1>2, <1>3, OneMore
<1>5. Where(acts, c + 1, v.shown) = Where(acts, c, v.shown) \cup {room}
  BY <1>3, <1>4 DEF Where
<1> HIDE DEF c, acts, room
<1> QED
  BY <1>5 DEF StageOK, Present, c, acts, room

\* The room that is joined is a new one for the session.
LEMMA NotThereYet ==
  ASSUME NEW v, NEW s, NEW e \in RunnableEvents, StageOK(v, s, e, e.current_action),
         HasNextAction(e), NotFailed(e), NextAction(e).command = "JOIN_ROOM"
  PROVE  /\ NextAction(e).target_room_id \notin v.at
         /\ v.at \subseteq {v.shown}
         /\ Present(v) => v.at = {v.shown}
         /\ Entered(e.actions, e.current_action) = {}
<1>1. /\ Entered(e.actions, e.current_action) = {} /\ Left(e.actions, e.current_action) = {}
      /\ NextAction(e).target_room_id # v.shown
  BY PlanFacts DEF StageOK
<1> QED
  BY <1>1 DEF StageOK, Where

\* set_current_room counts the action.
LEMMA StageSet ==
  ASSUME NEW v, NEW s, NEW e \in RunnableEvents, StageOK(v, s, e, e.current_action + 1),
         HasNextAction(e), NotFailed(e), NextAction(e).command = "JOIN_ROOM",
         NEW u, u.link = v.link, u.shown = v.shown, u.pending = v.pending, u.at = v.at,
         s \notin Hurried => u.cur = NextAction(e).target_room_id
  PROVE  StageOK(u, s, Advanced(e, "Success"), e.current_action + 1)
<1> DEFINE f == Advanced(e, "Success")
           c == e.current_action
           acts == e.actions
           room == NextAction(e).target_room_id
<1>1. e \in RoomEvents /\ c \in Nat
  BY DEF RunnableEvents, FormedEvents, RoomEvents
<1>2. /\ f.actions = acts /\ f.current_action = c + 1 /\ f.result_code = "Success"
      /\ f.initial_command = e.initial_command /\ f.response_data = e.response_data
  BY <1>1, AdvancedFields
<1>3. Planned(v.pending, f)
  BY StillPlanned DEF StageOK
<1>4. c + 1 \in DOMAIN acts /\ DOMAIN acts \subseteq Nat /\ acts[c + 1] = NextAction(e)
  BY <1>1, JoinsFirst DEF StageOK, NextAction
<1>5. Entered(acts, c) = {}
  BY PlanFacts DEF StageOK
<1> HIDE DEF f
<1>6. Entered(acts, c + 1) = Entered(acts, c) \cup {room}
  BY <1>1, <1>4, OneMore
<1>7. room \in IF Entered(acts, c + 1) = {} THEN {v.shown} ELSE Entered(acts, c + 1)
  BY <1>6
<1> HIDE DEF c, acts, room
<1> QED
  BY <1>1, <1>2, <1>3, <1>7 DEF StageOK, Present, f, c, acts, room

\* exit_session has taken the session out of the room.
LEMMA StageLeave ==
  ASSUME NEW v, NEW s, NEW e \in RunnableEvents, StageOK(v, s, e, e.current_action),
         HasNextAction(e), NotFailed(e), NextAction(e).command = "LEAVE_ROOM",
         NEW u, u.link = v.link, u.shown = v.shown, u.pending = v.pending, u.cur = v.cur,
         u.at = v.at \ {NextAction(e).target_room_id}
  PROVE  StageOK(u, s, Advanced(e, "Success"), e.current_action + 1)
<1> DEFINE f == Advanced(e, "Success")
           c == e.current_action
           acts == e.actions
           room == NextAction(e).target_room_id
<1>1. e \in RoomEvents /\ c \in Nat
  BY DEF RunnableEvents, FormedEvents, RoomEvents
<1>2. /\ f.actions = acts /\ f.current_action = c + 1 /\ f.result_code = "Success"
      /\ f.initial_command = e.initial_command /\ f.response_data = e.response_data
  BY <1>1, AdvancedFields
<1>3. Planned(v.pending, f)
  BY StillPlanned DEF StageOK
<1>4. c + 1 \in DOMAIN acts /\ DOMAIN acts \subseteq Nat /\ acts[c + 1] = NextAction(e)
  BY <1>1, JoinsFirst DEF StageOK, NextAction
<1>5. /\ Entered(acts, c + 1) = Entered(acts, c)
      /\ Where(acts, c + 1, v.shown) = Where(acts, c, v.shown) \ {room}
  BY <1>1, <1>4, OneMore
<1> HIDE DEF f, c, acts, room
<1> QED
  BY <1>1, <1>2, <1>3, <1>5 DEF StageOK, Present, f, c, acts, room

\* A session whose connection goes only loses rooms.
LEMMA StageFades ==
  ASSUME NEW v, NEW s, NEW e, NEW d, StageOK(v, s, e, d),
         NEW u, u.link \notin {"none", "open"}, u.shown = v.shown, u.pending = v.pending,
         u.at \subseteq v.at
  PROVE  StageOK(u, s, e, d)
BY DEF StageOK, Present

\* A request that waits for its number runs the plan with the placeholder.
LEMMA Unresolved ==
  ASSUME NEW p, NEW shown, Asks(p, shown), NEW e, Planned(p, e),
         2 \in DOMAIN e.actions, e.actions[2] = RoomAction("CREATE_ROOM", PENDING_ROOM_ID)
  PROVE  /\ e.actions = plan_create_room /\ p.command = "CMD_CREATE_ROOM"
         /\ shown = LOBBY_ROOM_ID /\ e.response_data = EmptyBody
         /\ \A r : Entered(CreatePlan(r), 1) = {} /\ Left(CreatePlan(r), 1) = {}
<1>1. /\ e.actions[2].command = "CREATE_ROOM" /\ e.actions[2].target_room_id = PENDING_ROOM_ID
  BY DEF RoomAction
<1>2. ASSUME NEW r \in NewRooms PROVE e.actions # CreatePlan(r)
  <2>1. CreatePlan(r)[2] = RoomAction("CREATE_ROOM", r)
    BY CreatePlanFacts
  <2>2. CreatePlan(r)[2].target_room_id = r
    BY <2>1 DEF RoomAction
  <2> QED
    BY <1>1, <2>2, RoomNumbers
<1>3. e.actions # plan_join_room(p.room_id) /\ e.actions # plan_leave_room(p.room_id)
  BY <1>1, JoinPlan, LeavePlan
<1>4. /\ e.actions # plan_send_message(p.room_id) /\ e.actions # plan_load_message(p.room_id)
      /\ e.actions # NotFoundPlan
  BY <1>1, OtherPlans
<1>5. ASSUME NEW r PROVE Entered(CreatePlan(r), 1) = {} /\ Left(CreatePlan(r), 1) = {}
  <2>1. DOMAIN CreatePlan(r) \subseteq Nat /\ Moves(CreatePlan(r), 3, 5, r, LOBBY_ROOM_ID)
    BY CreatePlanFacts
  <2> QED
    BY <2>1, MovesFacts
<1> QED
  BY <1>2, <1>3, <1>4, <1>5, PlanCases

\* db_create_room_on_result, the number issued.
LEMMA StageCreated ==
  ASSUME NEW v, NEW s, NEW e \in RoomEvents, StageOK(v, s, e, e.current_action),
         e.current_action = 1, 2 \in DOMAIN e.actions,
         e.actions[2] = RoomAction("CREATE_ROOM", PENDING_ROOM_ID), NEW r \in NewRooms
  PROVE  StageOK(v, s, [resolve_room_id(e, r) EXCEPT !.result_code = "Success",
                                                     !.response_data = RoomIdBody(r)], 1)
<1> DEFINE f == [resolve_room_id(e, r) EXCEPT !.result_code = "Success",
                                              !.response_data = RoomIdBody(r)]
<1>1. /\ e.actions = plan_create_room /\ v.pending.command = "CMD_CREATE_ROOM"
      /\ \A q : Entered(CreatePlan(q), 1) = {} /\ Left(CreatePlan(q), 1) = {}
  BY Unresolved DEF StageOK
<1>2. /\ f.actions = resolve_room_id(e, r).actions /\ f.current_action = e.current_action
      /\ f.initial_command = e.initial_command
      /\ f.result_code = "Success" /\ f.response_data = RoomIdBody(r)
  BY DEF resolve_room_id, RoomEvents
<1>3. f.actions = CreatePlan(r)
  <2>1. resolve_room_id(e, r).actions =
          [i \in DOMAIN e.actions |->
             IF e.actions[i].target_room_id = PENDING_ROOM_ID
               THEN [e.actions[i] EXCEPT !.target_room_id = r]
               ELSE e.actions[i]]
    BY DEF resolve_room_id, RoomEvents
  <2> DEFINE g == [i \in 1..6 |->
             IF plan_create_room[i].target_room_id = PENDING_ROOM_ID
               THEN [plan_create_room[i] EXCEPT !.target_room_id = r]
               ELSE plan_create_room[i]]
  <2>2. resolve_room_id(e, r).actions = g
    BY <1>1, <2>1, CreatePlanFacts
  <2>3. PENDING_ROOM_ID # NO_ROOM /\ PENDING_ROOM_ID # LOBBY_ROOM_ID
    BY RoomAssumption, RoomNumbers DEF PENDING_ROOM_ID, NO_ROOM
  <2>4. /\ plan_create_room[1] = RoomAction("REQUEST_DB_CREATE_ROOM", LOBBY_ROOM_ID)
        /\ plan_create_room[2] = RoomAction("CREATE_ROOM", PENDING_ROOM_ID)
        /\ plan_create_room[3] = RoomAction("JOIN_ROOM", PENDING_ROOM_ID)
        /\ plan_create_room[4] = RoomAction("REQUEST_LEAVE_ROOM", LOBBY_ROOM_ID)
        /\ plan_create_room[5] = RoomAction("LEAVE_ROOM", LOBBY_ROOM_ID)
        /\ plan_create_room[6] = RoomAction("SEND_RESPONSE", NO_ROOM)
    BY DEF plan_create_room
  <2>5. \A cmd, q : /\ RoomAction(cmd, q).target_room_id = q
                    /\ [RoomAction(cmd, q) EXCEPT !.target_room_id = r] = RoomAction(cmd, r)
    BY DEF RoomAction
  <2>6. /\ g[1] = RoomAction("REQUEST_DB_CREATE_ROOM", LOBBY_ROOM_ID)
        /\ g[2] = RoomAction("CREATE_ROOM", r)
        /\ g[3] = RoomAction("JOIN_ROOM", r)
        /\ g[4] = RoomAction("REQUEST_LEAVE_ROOM", LOBBY_ROOM_ID)
        /\ g[5] = RoomAction("LEAVE_ROOM", LOBBY_ROOM_ID)
        /\ g[6] = RoomAction("SEND_RESPONSE", NO_ROOM)
    BY <2>3, <2>4, <2>5
  <2>7. g = [i \in 1..6 |-> g[i]]
    OBVIOUS
  <2> HIDE DEF g
  <2>8. g = CreatePlan(r)
    BY <2>6, <2>7 DEF CreatePlan
  <2> QED
    BY <1>2, <2>2, <2>8
<1> HIDE DEF f
<1>4. Planned(v.pending, f)
  BY <1>1, <1>2, <1>3 DEF Planned
<1>5. Where(e.actions, 1, v.shown) = {v.shown} /\ Where(f.actions, 1, v.shown) = {v.shown}
  BY <1>1, <1>3, CreatePlanFacts DEF Where
<1>6. Entered(e.actions, 1) = {} /\ Entered(f.actions, 1) = {}
  BY <1>1, <1>3, CreatePlanFacts
<1>7. StageOK(v, s, f, 1)
  BY <1>2, <1>4, <1>5, <1>6 DEF StageOK
<1> QED
  BY <1>7 DEF f

\* db_create_room_on_result with an error.
LEMMA StageCreateFails ==
  ASSUME NEW v, NEW s, NEW e \in RoomEvents, StageOK(v, s, e, e.current_action),
         e.current_action = 1, 2 \in DOMAIN e.actions,
         e.actions[2] = RoomAction("CREATE_ROOM", PENDING_ROOM_ID)
  PROVE  StageOK(v, s, [e EXCEPT !.result_code = "DBError"], 1)
<1> DEFINE f == [e EXCEPT !.result_code = "DBError"]
<1>1. /\ e.actions = plan_create_room /\ e.response_data = EmptyBody
      /\ v.pending.command = "CMD_CREATE_ROOM"
      /\ Entered(CreatePlan(PENDING_ROOM_ID), 1) = {}
  BY Unresolved DEF StageOK
<1>2. Entered(e.actions, 1) = {}
  BY <1>1, CreatePlanFacts
<1>3. /\ f.actions = e.actions /\ f.current_action = e.current_action
      /\ f.initial_command = e.initial_command
      /\ f.result_code = "DBError" /\ f.response_data = e.response_data
  BY DEF RoomEvents
<1> HIDE DEF f
<1>4. Planned(v.pending, f)
  BY <1>1, <1>3 DEF Planned, Plan
<1>5. StageOK(v, s, f, 1)
  BY <1>1, <1>2, <1>3, <1>4 DEF StageOK
<1> QED
  BY <1>5 DEF f

\* db_load_messages_on_result.
LEMMA StageLoaded ==
  ASSUME NEW v, NEW s, NEW e \in FormedEvents, StageOK(v, s, e, e.current_action),
         e.current_action > 0, LastAction(e).command = "REQUEST_DB_LOAD_MESSAGE"
  PROVE  StageOK(v, s, [e EXCEPT !.result_code = "Success", !.response_data = HistoryBody],
                 e.current_action)
<1> DEFINE f == [e EXCEPT !.result_code = "Success", !.response_data = HistoryBody]
           c == e.current_action
<1>1. e \in RoomEvents /\ c \in Nat /\ c \in DOMAIN e.actions
  BY DEF FormedEvents, Formed, RoomEvents
<1>2. e.actions[c].command = "REQUEST_DB_LOAD_MESSAGE"
  BY DEF LastAction
<1>3. /\ f.actions = e.actions /\ f.current_action = c
      /\ f.initial_command = e.initial_command
      /\ f.result_code = "Success" /\ f.response_data = HistoryBody
  BY <1>1 DEF RoomEvents
<1> HIDE DEF f, c
<1>4. \A r : e.actions # CreatePlan(r)
  BY <1>1, <1>2, CreatePlanFacts
<1>5. e.actions # NotFoundPlan
  BY <1>1, <1>2, OtherPlans
<1>6. v.pending.command # "CMD_CREATE_ROOM" /\ Planned(v.pending, e) /\ Asks(v.pending, v.shown)
  BY <1>4, <1>5, CreatePlanFacts DEF StageOK, Planned, Plan
<1>7. Planned(v.pending, f)
  BY <1>3, <1>5, <1>6 DEF Planned
<1>8. StageOK(v, s, f, c)
  BY <1>1, <1>3, <1>7 DEF StageOK, c
<1> QED
  BY <1>8 DEF f, c

\* An action that fails before anything has been entered.
LEMMA AnswerOfFailure ==
  ASSUME NEW v, NEW s, NEW e \in RoomEvents, StageOK(v, s, e, e.current_action), Present(v),
         HasNextAction(e), NEW res, res # "Success", e.response_data = EmptyBody,
         Entered(e.actions, e.current_action) = {}
  PROVE  AnswerOK(v, s, Response(e.initial_command, res, e.response_data))
<1> DEFINE p == Response(e.initial_command, res, e.response_data)
<1>1. p.command = e.initial_command /\ p.status = res /\ p.body = e.response_data
  BY DEF Response
<1> HIDE DEF p
<1>2. Left(e.actions, e.current_action) = {}
  BY JoinsFirst DEF StageOK
<1>3. v.at = {v.shown}
  BY <1>2 DEF StageOK, Where
<1>4. After(v, p) = v.shown
  BY <1>1 DEF After
<1>5. AnswerOK(v, s, p)
  BY <1>1, <1>3, <1>4 DEF AnswerOK, StageOK
<1> QED
  BY <1>5 DEF p

\* SEND_RESPONSE.
LEMMA AnswerOfPlan ==
  ASSUME NEW v, NEW s, NEW e \in RunnableEvents, StageOK(v, s, e, e.current_action), Present(v),
         HasNextAction(e), NotFailed(e), NextAction(e).command = "SEND_RESPONSE"
  PROVE  AnswerOK(v, s, Response(e.initial_command, e.result_code, e.response_data))
<1> DEFINE p == Response(e.initial_command, e.result_code, e.response_data)
<1>0. e \in RoomEvents
  BY DEF RunnableEvents, FormedEvents
<1>1. p.command = e.initial_command /\ p.status = e.result_code /\ p.body = e.response_data
  BY DEF Response
<1> HIDE DEF p
<1>2. CASE e.result_code # "Success"
  BY <1>0, <1>2, AnswerOfFailure DEF StageOK
<1>3. CASE e.result_code = "Success"
  <2>1. /\ Asks(v.pending, v.shown) /\ Planned(v.pending, e)
        /\ p.command = v.pending.command
    BY <1>1 DEF StageOK
  <2>2. /\ Where(e.actions, e.current_action, v.shown) = {After(v, p)}
        /\ Entered(e.actions, e.current_action) = {} => After(v, p) = v.shown
        /\ Entered(e.actions, e.current_action) # {} =>
             Entered(e.actions, e.current_action) = {After(v, p)}
        /\ v.pending.command = "CMD_CREATE_ROOM" =>
             p.body.kind = "room_id" /\ p.body.room \in NewRooms
    BY <1>1, <1>3, <2>1, PlanFacts
  <2>3. v.at = {After(v, p)}
    BY <2>2 DEF StageOK
  <2>4. s \notin Hurried => v.cur = After(v, p)
    BY <2>2 DEF StageOK
  <2>5. AnswerOK(v, s, p)
    BY <1>1, <1>3, <2>1, <2>2, <2>3, <2>4 DEF AnswerOK
  <2> QED
    BY <2>5 DEF p
<1> QED
  BY <1>2, <1>3

-----------------------------------------------------------------------------
(***************************************************************************)
(* Steps that leave a session where it is, or that take something from a   *)
(* session whose connection goes.                                          *)
(***************************************************************************)
\* RoomEvent{} says nothing about anybody.
LEMMA EmptyFits ==
  ASSUME NEW v, NEW s \in Sessions, NEW d
  PROVE  Fits(v, s, EmptyEvent, d) /\ RidesWell(v, s, EmptyEvent)
BY SessionAssumption DEF Fits, RidesWell, Boarded, IsRequestOf, IsAccept, EmptyEvent

\* The view is the same, or it fades, or the connection is new and nothing has happened on it.
StillThere(v, u) ==
  \/ u = v
  \/ v.link = "none" /\ u.link = "open"
  \/ /\ u.link \notin {"none", "open"}
     /\ u.shown = v.shown /\ u.pending = v.pending /\ u.at \subseteq v.at

\* An event that fits a view fits every later view of a session that did not move.
LEMMA FitsStill ==
  ASSUME NEW v, NEW u, StillThere(v, u), NEW s, NEW e, NEW d, Fits(v, s, e, d)
  PROVE  Fits(u, s, e, d)
<1>1. CASE v.link = "none" /\ u.link = "open"
  BY <1>1 DEF Fits, Present, StageOK
<1>2. CASE u = v \/ (u.link \notin {"none", "open"} /\ u.shown = v.shown /\ u.pending = v.pending
                     /\ u.at \subseteq v.at)
  BY <1>2, StageFades DEF Fits, Present
<1> QED
  BY <1>1, <1>2 DEF StillThere

\* Each place holds what it held, or something that fits the view u.
QuietRouted(u, s) ==
  \A t \in Threads : routing'[t] = routing[t] \/ RidesWell(u, s, routing'[t].event)

\* The same for the jobs, the queues, the hands and the answers.
QuietJobs(u, s) ==
  \A i \in DOMAIN job_queue' :
    \/ \E k \in DOMAIN job_queue : job_queue'[i] = job_queue[k]
    \/ RidesWell(u, s, job_queue'[i].event)

QuietQueued(u, s) ==
  \A w \in Workers : \A i \in DOMAIN event_queue'[w] :
    \/ \E k \in DOMAIN event_queue[w] : event_queue'[w][i] = event_queue[w][k]
    \/ WaitsWell(u, s, event_queue'[w][i])

QuietHand(u, s) ==
  \A w \in Workers :
    \/ event'[w] = event[w] /\ Progress(event'[w], pc'[w]) = Progress(event[w], pc[w])
    \/ Fits(u, s, event'[w], Progress(event'[w], pc'[w]))

QuietSent(u, s) ==
  \A i \in DOMAIN sent'[s] :
    \/ \E k \in DOMAIN sent[s] : sent'[s][i] = sent[s][k]
    \/ Present(u) /\ IsResponse(sent'[s][i]) => AnswerOK(u, s, sent'[s][i])

\* The events of all places fit s.
PlacesFit(s) == RoutedFit(s) /\ JobsFit(s) /\ QueuedFit(s) /\ HandsFit(s)

\* A quiet step on a session that stays where it is keeps every event fitting.
LEMMA PlacesKept ==
  ASSUME NEW s, PlacesFit(s), NEW u, u = View(s)', StillThere(View(s), u),
         QuietRouted(u, s), QuietJobs(u, s), QuietQueued(u, s), QuietHand(u, s)
  PROVE  PlacesFit(s)'
<1> DEFINE v == View(s)
<1>1. \A e, d : Fits(v, s, e, d) => Fits(u, s, e, d)
  BY FitsStill
<1>2. \A e : RidesWell(v, s, e) => RidesWell(u, s, e)
  BY <1>1 DEF RidesWell
<1>3. \A e : WaitsWell(v, s, e) => WaitsWell(u, s, e)
  BY <1>1 DEF WaitsWell
<1> HIDE DEF v
<1>4. RoutedFit(s)'
  BY <1>2 DEF QuietRouted, PlacesFit, RoutedFit, v
<1>5. JobsFit(s)'
  BY <1>2 DEF QuietJobs, PlacesFit, JobsFit, v
<1>6. QueuedFit(s)'
  BY <1>3 DEF QuietQueued, PlacesFit, QueuedFit, v
<1>7. HandsFit(s)'
  BY <1>1 DEF QuietHand, PlacesFit, HandsFit, v
<1> QED
  BY <1>4, <1>5, <1>6, <1>7 DEF PlacesFit

\* What the lobby's queue, the event in the hands of its worker and where that
\* worker is may do without touching the event of accept_client.
NoAccept(q, h, s) == ~IsAccept(h, s) /\ \A i \in DOMAIN q : ~IsAccept(q[i], s)

\* The hand is about to join s to the lobby.
InTurn(h, p, s) == IsAccept(h, s) /\ h.current_action = 0 /\ p = "run"

\* What may happen at the lobby's worker without changing what waits for s: nothing, an
\* event of others is queued, the next one is taken, or the hand goes on with another.
LobbyStep(q, h, p, q2, h2, p2, s) ==
  \/ q2 = q /\ h2 = h /\ p2 = p
  \/ \E x : q2 = Append(q, x) /\ ~IsAccept(x, s) /\ h2 = h /\ p2 = p
  \/ q # << >> /\ h = EmptyEvent /\ q2 = Tail(q) /\ h2 = Head(q) /\ p2 = "run"
  \/ /\ q2 = q
     /\ h2.session \in {h.session, NoSession}
     /\ IsAccept(h2, s) => IsAccept(h, s)
     /\ InTurn(h2, p2, s) <=> InTurn(h, p, s)

\* Such a step keeps the order of the queue and whether s waits.
LEMMA LobbyKept ==
  ASSUME NEW S, NEW q \in Seq(S), NEW h, NEW p, NEW q2 \in Seq(S), NEW h2, NEW p2,
         NEW s \in Sessions, FirstOf(q, h, s), LobbyStep(q, h, p, q2, h2, p2, s)
  PROVE  /\ FirstOf(q2, h2, s)
         /\ Waits(q2, h2, p2, s) <=> Waits(q, h, p, s)
         /\ NoAccept(q, h, s) => NoAccept(q2, h2, s)
<1>1. CASE q2 = q /\ h2 = h /\ p2 = p
  BY <1>1
<1>2. CASE \E x : q2 = Append(q, x) /\ ~IsAccept(x, s) /\ h2 = h /\ p2 = p
  <2>1. PICK x : q2 = Append(q, x) /\ ~IsAccept(x, s) /\ h2 = h /\ p2 = p
    BY <1>2
  <2>2. /\ DOMAIN q2 = DOMAIN q \cup {Len(q) + 1} /\ DOMAIN q = 1..Len(q) /\ Len(q) \in Nat
        /\ q2[Len(q) + 1] = x
        /\ \A i \in DOMAIN q : q2[i] = q[i]
    <3>1. Len(q2) = Len(q) + 1
      BY <2>1
    <3> QED
      BY <2>1, <3>1
  <2>3. FirstOf(q2, h2, s)
    BY <2>1, <2>2 DEF FirstOf
  <2>4. Waits(q2, h2, p2, s) <=> Waits(q, h, p, s)
    BY <2>1, <2>2 DEF Waits
  <2>5. NoAccept(q, h, s) => NoAccept(q2, h2, s)
    BY <2>1, <2>2 DEF NoAccept
  <2> QED
    BY <2>3, <2>4, <2>5
<1>3. CASE q # << >> /\ h = EmptyEvent /\ q2 = Tail(q) /\ h2 = Head(q) /\ p2 = "run"
  <2>1. ~IsAccept(h, s)
    BY <1>3, SessionAssumption DEF IsAccept, EmptyEvent
  <2>2. /\ DOMAIN q = 1..Len(q) /\ Len(q) \in Nat /\ Len(q) >= 1
        /\ DOMAIN q2 = 1..(Len(q) - 1)
        /\ h2 = q[1]
        /\ \A i \in DOMAIN q2 : i + 1 \in DOMAIN q /\ q2[i] = q[i + 1]
    BY <1>3
  <2>3. \A i \in DOMAIN q : i # 1 => i - 1 \in DOMAIN q2 /\ q2[i - 1] = q[i]
    BY <1>3, <2>2
  <2>4. FirstOf(q2, h2, s)
    <3> SUFFICES ASSUME NEW j \in DOMAIN q2, IsAccept(q2[j], s)
                 PROVE  /\ q2[j].current_action = 0 /\ h2.session # s
                        /\ \A i \in DOMAIN q2 : i < j => q2[i].session # s
      BY DEF FirstOf
    <3>1. /\ j + 1 \in DOMAIN q /\ q2[j] = q[j + 1] /\ j \in Nat /\ j >= 1
      BY <2>2
    <3>2. /\ q[j + 1].current_action = 0
          /\ \A i \in DOMAIN q : i < j + 1 => q[i].session # s
      BY <3>1 DEF FirstOf
    <3>3. 1 \in DOMAIN q /\ 1 < j + 1
      BY <2>2, <3>1
    <3>4. h2.session # s
      BY <2>2, <3>2, <3>3
    <3>5. ASSUME NEW i \in DOMAIN q2, i < j PROVE q2[i].session # s
      <4>1. i + 1 \in DOMAIN q /\ q2[i] = q[i + 1] /\ i + 1 < j + 1
        BY <2>2, <3>1, <3>5
      <4> QED
        BY <3>2, <4>1
    <3> QED
      BY <3>1, <3>2, <3>4, <3>5
  <2>5. IsAccept(q[1], s) => q[1].current_action = 0
    BY <2>2 DEF FirstOf
  <2>6. Waits(q2, h2, p2, s) <=> Waits(q, h, p, s)
    <3>1. ASSUME Waits(q2, h2, p2, s) PROVE Waits(q, h, p, s)
      <4>1. 1 \in DOMAIN q
        BY <2>2
      <4>2. \E i \in DOMAIN q : IsAccept(q[i], s)
        BY <2>2, <3>1, <4>1 DEF Waits
      <4> QED
        BY <4>2 DEF Waits
    <3>2. ASSUME Waits(q, h, p, s) PROVE Waits(q2, h2, p2, s)
      <4>1. PICK i \in DOMAIN q : IsAccept(q[i], s)
        BY <2>1, <3>2 DEF Waits
      <4>2. CASE i = 1
        BY <1>3, <2>2, <2>5, <4>1, <4>2 DEF Waits
      <4>3. CASE i # 1
        BY <2>3, <4>1, <4>3 DEF Waits
      <4> QED
        BY <4>2, <4>3
    <3> QED
      BY <3>1, <3>2
  <2>7. NoAccept(q, h, s) => NoAccept(q2, h2, s)
    BY <2>2 DEF NoAccept
  <2> QED
    BY <2>4, <2>6, <2>7
<1>4. CASE /\ q2 = q /\ h2.session \in {h.session, NoSession}
           /\ IsAccept(h2, s) => IsAccept(h, s)
           /\ InTurn(h2, p2, s) <=> InTurn(h, p, s)
  BY <1>4, SessionAssumption DEF FirstOf, Waits, NoAccept, InTurn
<1> QED
  BY <1>1, <1>2, <1>3, <1>4 DEF LobbyStep

\* Nothing the client of s holds changes; it may be gone.
SameClient(s) ==
  /\ running'[s] => running[s]
  /\ state_'[s] = state_[s] /\ room_id_'[s] = room_id_[s] /\ pending_'[s] = pending_[s]
  /\ uplink'[s] = uplink[s]

\* Nothing the server knows of s changes.
Unmoved(s) ==
  /\ Link(s)' = Link(s) /\ (s \notin Hurried => current_room'[s] = current_room[s])
  /\ \A w \in Workers, r \in RoomIds : s \in sessions'[w][r] <=> s \in sessions[w][r]

\* The client of s has gone, and the server takes s out of rooms.
Fading(s) ==
  /\ Link(s)' \in {"closing", "closed"} /\ ~running[s]
  /\ \A w \in Workers, r \in RoomIds : s \in sessions'[w][r] => s \in sessions[w][r]

\* The step at the lobby's worker is one of those.
LobbyQuiet(s) ==
  LobbyStep(event_queue[LOBBY_WORKER_ID], event[LOBBY_WORKER_ID], pc[LOBBY_WORKER_ID],
            event_queue'[LOBBY_WORKER_ID], event'[LOBBY_WORKER_ID], pc'[LOBBY_WORKER_ID], s)

\* Then the session is due in the lobby exactly when it was.
LEMMA LobbyFacts ==
  ASSUME IInv, IInv', NEW s \in Sessions, AcceptFirst(s), LobbyQuiet(s),
         Unmoved(s) \/ Fading(s)
  PROVE  /\ AcceptFirst(s)'
         /\ LobbyDue(s)' => LobbyDue(s)
         /\ Unmoved(s) => (LobbyDue(s) => LobbyDue(s)')
         /\ Unmoved(s) /\ Link(s) \in {"none", "open"} => (Settled(s) => Settled(s)')
<1> DEFINE W == LOBBY_WORKER_ID
<1>0. W \in Workers
  BY ConstantFacts
<1>1. event_queue[W] \in Seq(RunnableEvents) /\ event_queue'[W] \in Seq(RunnableEvents)
  BY <1>0 DEF IInv, EventInv
<1>2. /\ FirstOf(event_queue'[W], event'[W], s)
      /\ Waits(event_queue'[W], event'[W], pc'[W], s) <=> Waits(event_queue[W], event[W], pc[W], s)
      /\ NoAccept(event_queue[W], event[W], s) => NoAccept(event_queue'[W], event'[W], s)
  BY <1>1, LobbyKept DEF AcceptFirst, LobbyQuiet
<1>3. LobbyDue(s)' <=> Link(s)' = "none" \/ Waits(event_queue'[W], event'[W], pc'[W], s)
  BY DEF LobbyDue
<1>4. LobbyDue(s) <=> Link(s) = "none" \/ Waits(event_queue[W], event[W], pc[W], s)
  BY DEF LobbyDue
<1>5. Link(s)' = "none" => Link(s) = "none"
  BY DEF Unmoved, Fading
<1>6. ASSUME Unmoved(s), Link(s) \in {"none", "open"}, Settled(s) PROVE Settled(s)'
  <2>1. main.fd # s /\ main'.fd # s
    BY <1>6 DEF Unmoved, Link
  <2>2. conn'[s] = conn[s]
    BY <1>6, <2>1 DEF Unmoved, Link
  <2>3. NoAccept(event_queue[W], event[W], s) /\ conn[s] = "open"
    BY <1>6 DEF Settled, NoAccept
  <2> QED
    BY <1>2, <2>2, <2>3 DEF Settled, NoAccept
<1> QED
  BY <1>2, <1>3, <1>4, <1>5, <1>6 DEF AcceptFirst, Unmoved

\* A session that no step moves has the view it had, or is being closed.
LEMMA ViewFacts ==
  ASSUME IInv, IInv', NEW s \in Sessions, AcceptFirst(s), SameClient(s), LobbyQuiet(s),
         Unmoved(s) \/ Fading(s)
  PROVE  /\ StillThere(View(s), View(s)')
         /\ Unmoved(s) => View(s)' = View(s)
<1>1. ShownRoom(s)' = ShownRoom(s) /\ pending_'[s] = pending_[s]
  BY DEF SameClient, ShownRoom
<1>2. InRooms(s)' \subseteq InRooms(s)
  BY DEF InRooms, Unmoved, Fading
<1>3. Whereabouts(s)' \subseteq Whereabouts(s)
  BY <1>2, LobbyFacts DEF Whereabouts
<1>4. ASSUME Unmoved(s) PROVE View(s)' = View(s)
  <2>1. InRooms(s)' = InRooms(s)
    BY <1>4 DEF InRooms, Unmoved
  <2>2. Whereabouts(s)' = Whereabouts(s)
    BY <1>4, <2>1, LobbyFacts DEF Whereabouts
  <2> QED
    BY <1>1, <1>4, <2>2 DEF View, Unmoved
<1>5. ASSUME Fading(s) PROVE StillThere(View(s), View(s)')
  BY <1>1, <1>3, <1>5 DEF View, StillThere, Fading
<1> QED
  BY <1>4, <1>5 DEF StillThere

\* A quiet step keeps everything the invariant says of the session.
LEMMA SessionKept ==
  ASSUME IInv, IInv', NEW s \in Sessions, SInv(s), SameClient(s), LobbyQuiet(s),
         Unmoved(s) \/ Fading(s), Sole(s)', NEW u, u = View(s)',
         QuietRouted(u, s), QuietJobs(u, s), QuietQueued(u, s), QuietHand(u, s), QuietSent(u, s)
  PROVE  SInv(s)'
<1>1. PlacesFit(s) /\ AcceptFirst(s)
  BY DEF SInv, PlacesFit
<1>2. StillThere(View(s), u) /\ (Unmoved(s) => u = View(s))
  BY <1>1, ViewFacts
<1>3. PlacesFit(s)'
  BY <1>1, <1>2, PlacesKept
<1>4. u.link = Link(s)' /\ View(s).link = Link(s)
  BY DEF View
<1>5. Link(s)' \in {"none", "open"} => Unmoved(s) /\ u = View(s) /\ Link(s) = Link(s)'
  BY <1>2 DEF Fading, Unmoved
<1>6. AnswersFit(s)'
  <2> SUFFICES ASSUME Present(u), NEW i \in DOMAIN sent'[s], IsResponse(sent'[s][i])
               PROVE  AnswerOK(u, s, sent'[s][i])
    BY DEF AnswersFit
  <2>1. u = View(s) /\ Present(View(s))
    BY <1>4, <1>5 DEF Present
  <2>2. ASSUME NEW k \in DOMAIN sent[s], sent'[s][i] = sent[s][k]
        PROVE  AnswerOK(u, s, sent'[s][i])
    BY <2>1, <2>2 DEF SInv, AnswersFit
  <2> QED
    BY <2>2 DEF QuietSent
<1>7. Rests(s)'
  <2>1. Allowed(pending_'[s], uplink'[s]) = Allowed(pending_[s], uplink[s])
    BY DEF SameClient
  <2>2. RestsAt(View(s), s, Allowed(pending_[s], uplink[s]))
    BY DEF SInv, Rests
  <2>3. Present(u) => u = View(s)
    BY <1>4, <1>5 DEF Present
  <2>4. RestsAt(u, s, Allowed(pending_'[s], uplink'[s]))
    BY <2>1, <2>2, <2>3 DEF RestsAt
  <2> QED
    BY <2>4 DEF Rests
<1>8. ClientFits(s)'
  <2>1. ShownRoom(s)' = ShownRoom(s)
    BY DEF SameClient, ShownRoom
  <2>2. running[s] => Link(s)' = Link(s)
    BY DEF Unmoved, Fading
  <2>3. ClientFits(s)
    BY DEF SInv
  <2> QED
    BY <2>1, <2>2, <2>3 DEF ClientFits, SameClient
<1>9. AcceptFirst(s)' /\ DueOut(s)'
  <2>1. DueOut(s)
    BY DEF SInv
  <2>2. AcceptFirst(s)' /\ (LobbyDue(s)' => LobbyDue(s))
    BY <1>1, LobbyFacts
  <2>3. s \in sessions'[LOBBY_WORKER_ID][LOBBY_ROOM_ID] => s \in sessions[LOBBY_WORKER_ID][LOBBY_ROOM_ID]
    BY ConstantFacts DEF Unmoved, Fading
  <2> QED
    BY <2>1, <2>2, <2>3 DEF DueOut
<1>10. Patient(s)'
  <2> SUFFICES ASSUME s \notin Hurried, ~Settled(s)', Link(s)' \in {"none", "open"}
               PROVE  pending_'[s] = NoPending /\ state_'[s] = "LOBBY"
    BY DEF Patient
  <2>1. Link(s) \in {"none", "open"} /\ ~Settled(s)
    BY <1>1, <1>5, LobbyFacts
  <2>2. Patient(s)
    BY DEF SInv
  <2> QED
    BY <2>1, <2>2 DEF Patient, SameClient
<1> QED
  BY <1>3, <1>6, <1>7, <1>8, <1>9, <1>10 DEF SInv, PlacesFit

\* The same for a session that stays where it is.
LEMMA UnmovedKept ==
  ASSUME IInv, IInv', NEW s \in Sessions, SInv(s), SameClient(s), LobbyQuiet(s), Unmoved(s), Sole(s)',
         QuietRouted(View(s), s), QuietJobs(View(s), s), QuietQueued(View(s), s),
         QuietHand(View(s), s), QuietSent(View(s), s)
  PROVE  SInv(s)'
<1>1. AcceptFirst(s)
  BY DEF SInv
<1>2. View(s)' = View(s)
  BY <1>1, ViewFacts
<1> DEFINE u == View(s)
<1>3. u = View(s)'
  BY <1>2
<1>4. /\ QuietRouted(u, s) /\ QuietJobs(u, s) /\ QuietQueued(u, s)
      /\ QuietHand(u, s) /\ QuietSent(u, s)
  OBVIOUS
<1> HIDE DEF u
<1> QED
  BY <1>3, <1>4, SessionKept

\* And for a step that changes nothing the server knows of any session.
LEMMA StayKept ==
  ASSUME IInv, IInv', NEW s \in Sessions, SInv(s), SameClient(s), LobbyQuiet(s),
         UNCHANGED <<conn, current_room, sessions>>, main'.fd = main.fd, Sole(s)',
         QuietRouted(View(s), s), QuietJobs(View(s), s), QuietQueued(View(s), s),
         QuietHand(View(s), s), QuietSent(View(s), s)
  PROVE  SInv(s)'
<1>1. Unmoved(s)
  BY DEF Unmoved, Link
<1> QED
  BY <1>1, UnmovedKept

\* What each kind of change must put in its place to be quiet.
LEMMA SameQuiet ==
  ASSUME NEW u, NEW s
  PROVE  /\ UNCHANGED routing => QuietRouted(u, s)
         /\ UNCHANGED job_queue => QuietJobs(u, s)
         /\ UNCHANGED event_queue => QuietQueued(u, s)
         /\ UNCHANGED <<event, pc>> => QuietHand(u, s)
         /\ sent'[s] = sent[s] => QuietSent(u, s)
         /\ UNCHANGED <<event_queue, event, pc>> => LobbyQuiet(s)
         /\ UNCHANGED clientVars => SameClient(s)
BY DEF QuietRouted, QuietJobs, QuietQueued, QuietHand, QuietSent, LobbyQuiet, LobbyStep,
   SameClient, clientVars

\* Routing an event that fits is quiet; so are posting, a job, taking one, a hand
\* that goes on, and an answer.
LEMMA RouteQuietly ==
  ASSUME IInv, NEW t \in Threads, NEW x, NEW u, NEW s, RidesWell(u, s, x.event),
         routing' = routing \/ routing' = [routing EXCEPT ![t] = x]
  PROVE  QuietRouted(u, s)
BY DEF IInv, EventInv, QuietRouted

\* An event that fits is posted.
LEMMA PostQuietly ==
  ASSUME IInv, NEW w \in Workers, NEW e, NEW u, NEW s, WaitsWell(u, s, e), post_event(w, e)
  PROVE  /\ QuietQueued(u, s)
         /\ ~IsAccept(e, s) /\ UNCHANGED <<event, pc>> => LobbyQuiet(s)
<1>1. /\ event_queue'[w] = Append(event_queue[w], e)
      /\ \A v \in Workers : v # w => event_queue'[v] = event_queue[v]
  BY DEF post_event, IInv, EventInv
<1>2. event_queue[w] \in Seq(RunnableEvents)
  BY DEF IInv, EventInv
<1>3. \A i \in DOMAIN event_queue'[w] :
        \/ i \in DOMAIN event_queue[w] /\ event_queue'[w][i] = event_queue[w][i]
        \/ event_queue'[w][i] = e
  BY <1>1, <1>2
<1>4. QuietQueued(u, s)
  BY <1>1, <1>3 DEF QuietQueued
<1>5. ASSUME ~IsAccept(e, s), UNCHANGED <<event, pc>> PROVE LobbyQuiet(s)
  <2>1. \/ event_queue'[LOBBY_WORKER_ID] = event_queue[LOBBY_WORKER_ID]
        \/ event_queue'[LOBBY_WORKER_ID] = Append(event_queue[LOBBY_WORKER_ID], e)
    BY <1>1, ConstantFacts
  <2> QED
    BY <1>5, <2>1 DEF LobbyQuiet, LobbyStep
<1> QED
  BY <1>4, <1>5

\* An event that fits is put into a job.
LEMMA PostJobQuietly ==
  ASSUME IInv, NEW j, job_queue' = Append(job_queue, j), NEW u, NEW s, RidesWell(u, s, j.event)
  PROVE  QuietJobs(u, s)
<1>1. job_queue \in Seq(RunnableJobs)
  BY DEF IInv, EventInv
<1>2. \A i \in DOMAIN job_queue' :
        (i \in DOMAIN job_queue /\ job_queue'[i] = job_queue[i]) \/ job_queue'[i] = j
  BY <1>1
<1> QED
  BY <1>2 DEF QuietJobs

\* The database thread takes a job, whose event fits.
LEMMA TakeJobQuietly ==
  ASSUME IInv, NEW type, TakeJob(type), NEW u, NEW s \in Sessions
  PROVE  /\ QuietJobs(u, s)
         /\ 1 \in DOMAIN job_queue /\ Head(job_queue) = job_queue[1]
         /\ JobsFit(s) => RidesWell(View(s), s, Head(job_queue).event)
<1>1. job_queue \in Seq(RunnableJobs) /\ job_queue # << >> /\ job_queue' = Tail(job_queue)
  BY DEF IInv, EventInv, TakeJob
<1>2. \A i \in DOMAIN job_queue' : i + 1 \in DOMAIN job_queue /\ job_queue'[i] = job_queue[i + 1]
  BY <1>1
<1>3. 1 \in DOMAIN job_queue /\ Head(job_queue) = job_queue[1]
  BY <1>1
<1> QED
  BY <1>2, <1>3 DEF QuietJobs, JobsFit

\* A worker's hand changes to an event that fits.
LEMMA HandQuietly ==
  ASSUME IInv, NEW w \in Workers, NEW e, NEW p, NEW u, NEW s,
         event' = [event EXCEPT ![w] = e], pc' = [pc EXCEPT ![w] = p]
  PROVE  /\ Fits(u, s, e, Progress(e, p)) => QuietHand(u, s)
         /\ /\ UNCHANGED event_queue
            /\ e.session \in {event[w].session, NoSession}
            /\ IsAccept(e, s) => IsAccept(event[w], s)
            /\ InTurn(e, p, s) <=> InTurn(event[w], pc[w], s)
            => LobbyQuiet(s)
<1>1. /\ event'[w] = e /\ pc'[w] = p
      /\ \A v \in Workers : v # w => event'[v] = event[v] /\ pc'[v] = pc[v]
  BY DEF IInv, StateTypeOK, EventInv
<1> QED
  BY <1>1, ConstantFacts DEF QuietHand, LobbyQuiet, LobbyStep

\* A packet is packed that is for another session, or is an answer that fits.
LEMMA SendQuietly ==
  ASSUME IInv, NEW c, NEW p, sent' = [sent EXCEPT ![c] = Append(@, p)],
         NEW u, NEW s \in Sessions, s = c /\ Present(u) /\ IsResponse(p) => AnswerOK(u, s, p)
  PROVE  QuietSent(u, s)
<1>1. sent[s] \in Seq(Packets)
  BY DEF IInv, StateTypeOK
<1>2. CASE s # c
  BY <1>2 DEF IInv, StateTypeOK, QuietSent
<1>3. CASE s = c
  <2>1. sent'[s] = Append(sent[s], p)
    BY <1>3 DEF IInv, StateTypeOK
  <2>2. \A i \in DOMAIN sent'[s] :
          (i \in DOMAIN sent[s] /\ sent'[s][i] = sent[s][i]) \/ sent'[s][i] = p
    BY <1>1, <2>1
  <2> QED
    BY <1>3, <2>2 DEF QuietSent
<1> QED
  BY <1>2, <1>3

\* A worker that drops its event forgets it.
LEMMA DropQuietly ==
  ASSUME IInv, NEW w \in Workers, Return(w), NEW u, NEW s \in Sessions
  PROVE  /\ QuietHand(u, s)
         /\ UNCHANGED event_queue /\ ~InTurn(event[w], pc[w], s) => LobbyQuiet(s)
<1>1. event' = [event EXCEPT ![w] = EmptyEvent] /\ pc' = [pc EXCEPT ![w] = "wait"]
  BY DEF Return
<1>2. Fits(u, s, EmptyEvent, Progress(EmptyEvent, "wait"))
  BY EmptyFits
<1>3. EmptyEvent.session = NoSession /\ ~IsAccept(EmptyEvent, s)
  BY SessionAssumption DEF EmptyEvent, IsAccept
<1> QED
  BY <1>1, <1>2, <1>3, HandQuietly DEF InTurn

-----------------------------------------------------------------------------
(***************************************************************************)
(* The event in the hands of a worker.                                     *)
(***************************************************************************)
\* The event of accept_client has one action, and nothing fails before it.
LEMMA AcceptHand ==
  ASSUME IInv, NEW w \in Workers, NEW s \in Sessions, HandsFit(s), IsAccept(event[w], s)
  PROVE  /\ NotFailed(event[w]) /\ Link(s) # "none"
         /\ event[w].current_action = 0 <=> HasNextAction(event[w])
         /\ HasNextAction(event[w]) =>
              /\ NextAction(event[w]).command = "JOIN_ROOM"
              /\ NextAction(event[w]).target_room_id = LOBBY_ROOM_ID
<1>1. /\ NotFailed(event[w]) /\ event[w].actions = AcceptEvent(s).actions
      /\ View(s).link # "none"
  BY DEF HandsFit, Fits
<1>2. AcceptEvent(s).actions = << RoomAction("JOIN_ROOM", LOBBY_ROOM_ID) >>
  BY DEF AcceptEvent, NewEvent, EmptyEvent
<1>3. event[w].current_action \in Nat
  BY DEF IInv, EventInv, RunnableEvents, FormedEvents, RoomEvents
<1> QED
  BY <1>1, <1>2, <1>3 DEF HasNextAction, NextAction, RoomAction, View

\* A worker at the switch, or half way through an action.
LEMMA HandFits ==
  ASSUME IInv, NEW w \in Workers, NEW s \in Sessions, HandsFit(s), pc[w] # "set_current_room"
  PROVE  /\ Fits(View(s), s, event[w], event[w].current_action)
         /\ event[w] \in RunnableEvents /\ event[w] \in RoomEvents
<1>1. event[w] \in RunnableEvents /\ event[w] \in RoomEvents
  BY DEF IInv, EventInv, RunnableEvents, FormedEvents
<1>2. Progress(event[w], pc[w]) = event[w].current_action
  BY <1>1 DEF Progress, RoomEvents
<1> QED
  BY <1>1, <1>2 DEF HandsFit

\* An action that moves nobody keeps the event fitting.
LEMMA FitsAdvance ==
  ASSUME NEW v, NEW s \in Sessions, NEW e \in RunnableEvents, Fits(v, s, e, e.current_action),
         HasNextAction(e), NotFailed(e), NextAction(e).command \notin {"JOIN_ROOM", "LEAVE_ROOM"},
         NEW res \in {e.result_code, "Success"}
  PROVE  /\ Fits(v, s, Advanced(e, res), e.current_action + 1)
         /\ Advanced(e, res).current_action = e.current_action + 1
<1>1. e \in RoomEvents
  BY DEF RunnableEvents, FormedEvents
<1> DEFINE f == Advanced(e, res)
<1>2. /\ f.actions = e.actions /\ f.current_action = e.current_action + 1 /\ f.result_code = res
      /\ f.initial_command = e.initial_command /\ f.session = e.session /\ f.fd = e.fd
  BY <1>1, AdvancedFields
<1>3. IsRequestOf(f, s) => StageOK(v, s, f, e.current_action + 1)
  BY <1>2, StageAdvance DEF Fits, IsRequestOf
<1> HIDE DEF f
<1>4. Fits(v, s, f, e.current_action + 1)
  BY <1>2, <1>3 DEF Fits, IsRequestOf, IsAccept, NotFailed
<1> QED
  BY <1>2, <1>4 DEF f

\* An event that has gone one action further is not about to join a room it has created,
\* unless the action was CREATE_ROOM.
LEMMA AdvancedFresh ==
  ASSUME NEW e \in RunnableEvents, HasNextAction(e), NotFailed(e),
         NextAction(e).command # "CREATE_ROOM",
         e.session \in Sessions => \E v, d : Fits(v, e.session, e, d), NEW res
  PROVE  /\ \A p, held, members : FreshAt(Advanced(e, res), p, held, members)
         /\ e.session \in Sessions => Boarded(Advanced(e, res))
<1> DEFINE f == Advanced(e, res)
           s == e.session
<1>1. e \in RoomEvents /\ e.current_action \in Nat
  BY DEF RunnableEvents, FormedEvents, RoomEvents
<1>2. /\ f.current_action = e.current_action + 1 /\ f.session = e.session
      /\ f.initial_command = e.initial_command
  BY <1>1, AdvancedFields
<1> HIDE DEF f
<1>3. ASSUME s \in Sessions, e.initial_command = "CMD_CREATE_ROOM"
      PROVE  e.current_action # 1
  <2>1. PICK v, d : Fits(v, s, e, d)
    BY <1>3
  <2>2. IsRequestOf(e, s)
    BY <1>3 DEF IsRequestOf, UNINITIALIZED
  <2>3. /\ Asks(v.pending, v.shown) /\ Planned(v.pending, e)
        /\ v.pending.command = "CMD_CREATE_ROOM"
    BY <1>3, <2>1, <2>2 DEF Fits, StageOK
  <2> QED
    BY <2>3, PlanFacts
<1>4. s \in Sessions /\ f.initial_command = "CMD_CREATE_ROOM" => f.current_action # 2
  BY <1>1, <1>2, <1>3
<1> QED
  BY <1>2, <1>4 DEF FreshAt, Boarded, f

\* The rooms of the other workers stay as they are.
LEMMA HandFresh ==
  ASSUME IInv, Fresh, NEW w \in Workers, NEW e, NEW p,
         event' = [event EXCEPT ![w] = e], pc' = [pc EXCEPT ![w] = p],
         \A v \in Workers : v # w => rooms'[v] = rooms[v] /\ sessions'[v] = sessions[v],
         FreshAt(e, p, rooms'[w], sessions'[w])
  PROVE  Fresh'
<1>1. /\ event'[w] = e /\ pc'[w] = p
      /\ \A v \in Workers : v # w => event'[v] = event[v] /\ pc'[v] = pc[v]
  BY DEF IInv, StateTypeOK, EventInv
<1>2. ASSUME NEW v \in Workers PROVE FreshAt(event'[v], pc'[v], rooms'[v], sessions'[v])
  <2>1. CASE v = w
    BY <1>1, <2>1
  <2>2. CASE v # w
    BY <1>1, <2>2 DEF Fresh
  <2> QED
    BY <2>1, <2>2
<1> QED
  BY <1>2 DEF Fresh

\* An empty hand creates nothing.
LEMMA EmptyFresh ==
  \A p, held, members : FreshAt(EmptyEvent, p, held, members)
BY DEF FreshAt, EmptyEvent

\* The worker goes on with an event that it has not moved anybody with.
LEMMA GoOnQuietly ==
  ASSUME IInv, NEW w \in Workers, NEW s \in Sessions, HandsFit(s), pc[w] # "set_current_room",
         HasNextAction(event[w]), NotFailed(event[w]),
         NextAction(event[w]).command \notin {"JOIN_ROOM", "LEAVE_ROOM"},
         NEW res \in {event[w].result_code, "Success"}, Continue(w, res)
  PROVE  /\ QuietHand(View(s), s)
         /\ UNCHANGED event_queue => LobbyQuiet(s)
<1> DEFINE e == event[w]
           f == Advanced(e, res)
<1>1. event' = [event EXCEPT ![w] = f] /\ pc' = [pc EXCEPT ![w] = "run"]
  BY DEF Continue
<1>2. Fits(View(s), s, e, e.current_action) /\ e \in RunnableEvents /\ e \in RoomEvents
  BY HandFits
<1>3. Fits(View(s), s, f, e.current_action + 1) /\ f.current_action = e.current_action + 1
  BY <1>2, FitsAdvance
<1>4. e.current_action \in Nat
  BY <1>2 DEF RoomEvents
<1>5. Fits(View(s), s, f, Progress(f, "run"))
  BY <1>3, <1>4 DEF Progress
<1>6. f.session = e.session /\ f.initial_command = e.initial_command
  BY <1>2, AdvancedFields
<1>7. ~IsAccept(e, s)
  BY AcceptHand
<1> HIDE DEF f
<1>8. ~IsAccept(f, s)
  BY <1>6, <1>7 DEF IsAccept
<1> QED
  BY <1>1, <1>5, <1>6, <1>7, <1>8, HandQuietly DEF InTurn

-----------------------------------------------------------------------------
(***************************************************************************)
(* The steps of the server, one after the other.                           *)
(***************************************************************************)
Sound   == IInv /\ RInv /\ CInv
\* The counts of every session, which AnswersProofs keeps.
Counted == \A s \in Sessions : Sole(s)

\* A step that leaves the rooms alone.
LEMMA RoomsStay ==
  ASSUME Sound, UNCHANGED roomVars
  PROVE  /\ RoomsExact'
         /\ UNCHANGED <<event, pc>> => Fresh'
         /\ \A w \in Workers : Return(w) => Fresh'
<1>1. RoomsExact'
  BY DEF Sound, CInv, RoomsExact, roomVars
<1>2. UNCHANGED <<event, pc>> => Fresh'
  BY DEF Sound, CInv, Fresh, roomVars
<1>3. ASSUME NEW w \in Workers, Return(w) PROVE Fresh'
  BY <1>3, EmptyFresh, HandFresh DEF Sound, CInv, Return, roomVars
<1> QED
  BY <1>1, <1>2, <1>3

\* A worker that goes on, not with CREATE_ROOM, keeps Fresh.
LEMMA GoOnFresh ==
  ASSUME Sound, NEW w \in Workers, HasNextAction(event[w]), NotFailed(event[w]),
         NextAction(event[w]).command # "CREATE_ROOM", NEW res, Continue(w, res),
         \A v \in Workers : v # w => rooms'[v] = rooms[v] /\ sessions'[v] = sessions[v]
  PROVE  Fresh'
<1>1. event[w] \in RunnableEvents
  BY DEF Sound, IInv, EventInv
<1>2. event[w].session \in Sessions => \E v, d : Fits(v, event[w].session, event[w], d)
  BY DEF Sound, CInv, SInv, HandsFit
<1>3. FreshAt(Advanced(event[w], res), "run", rooms'[w], sessions'[w])
  BY <1>1, <1>2, AdvancedFresh
<1> QED
  BY <1>3, HandFresh DEF Sound, CInv, Continue

\* The second half of route_event.
LEMMA PostRoutedSound ==
  ASSUME Sound, IInv', Counted', UNCHANGED clientVars, NEW t \in Threads, PostRouted(t)
  PROVE  CInv'
<1>1. /\ post_event(routing[t].to, routing[t].event)
      /\ routing' = [routing EXCEPT ![t] = NotRouting]
      /\ UNCHANGED <<conn, main, current_room, sessions, rooms, current_sessions,
                     event, pc, job_queue, sent>>
  BY DEF PostRouted, mainVars, roomVars, workerVars, dbVars
<1>2. RoomsExact' /\ Fresh'
  BY <1>1, RoomsStay DEF roomVars
<1>3. ASSUME NEW s \in Sessions PROVE SInv(s)'
  <2> DEFINE v == View(s)
             e == routing[t].event
  <2>1. SInv(s) /\ IInv
    BY DEF Sound, CInv
  <2>2. RidesWell(v, s, e)
    BY <2>1 DEF SInv, RoutedFit
  <2>3. WaitsWell(v, s, e) /\ ~IsAccept(e, s)
    BY <2>2 DEF RidesWell, WaitsWell
  <2>4. QuietRouted(v, s)
    <3>1. RidesWell(v, s, NotRouting.event)
      BY EmptyFits DEF NotRouting
    <3> QED
      BY <1>1, <2>1, <3>1, RouteQuietly
  <2>5. QuietQueued(v, s) /\ LobbyQuiet(s)
    <3>1. CASE routing[t].to \in Workers
      BY <1>1, <2>1, <2>3, <3>1, PostQuietly
    <3>2. CASE routing[t].to \notin Workers
      <4>1. event_queue' = event_queue
        BY <1>1, <2>1, <3>2 DEF post_event, IInv, EventInv
      <4> QED
        BY <1>1, <4>1, SameQuiet
    <3> QED
      BY <3>1, <3>2
  <2>6. SameClient(s) /\ QuietJobs(v, s) /\ QuietHand(v, s) /\ QuietSent(v, s)
    BY <1>1, SameQuiet
  <2>7. Sole(s)'
    BY DEF Counted
  <2> QED
    BY <1>1, <2>1, <2>4, <2>5, <2>6, <2>7, StayKept
<1> QED
  BY <1>2, <1>3 DEF CInv

\* A worker takes the next event of its queue.
LEMMA TakeEventSound ==
  ASSUME Sound, IInv', Counted', UNCHANGED clientVars, NEW w \in Workers, TakeEvent(w)
  PROVE  CInv'
<1> DEFINE e == Head(event_queue[w])
<1>1. /\ event' = [event EXCEPT ![w] = e]
      /\ event_queue' = [event_queue EXCEPT ![w] = Tail(event_queue[w])]
      /\ pc' = [pc EXCEPT ![w] = "run"]
      /\ event_queue[w] # << >> /\ pc[w] = "wait"
      /\ UNCHANGED <<conn, main, current_room, sessions, rooms, current_sessions,
                     routing, job_queue, sent>>
  BY DEF TakeEvent, mainVars, roomVars, workerVars, dbVars
<1>2. event_queue[w] \in Seq(RunnableEvents) /\ event[w] = EmptyEvent /\ IInv
  BY <1>1 DEF Sound, IInv, EventInv, RInv, Waiting
<1>3. 1 \in DOMAIN event_queue[w] /\ e = event_queue[w][1] /\ e \in RunnableEvents
  BY <1>1, <1>2
<1>4. \A s \in Sessions : WaitsWell(View(s), s, e)
  BY <1>3 DEF Sound, CInv, SInv, QueuedFit
<1> HIDE DEF e
<1>5. RoomsExact' /\ Fresh'
  <2>1. FreshAt(e, "run", rooms'[w], sessions'[w])
    BY <1>4 DEF FreshAt, WaitsWell, Boarded
  <2> QED
    BY <1>1, <1>2, <2>1, RoomsStay, HandFresh DEF roomVars, Sound, CInv
<1>6. ASSUME NEW s \in Sessions PROVE SInv(s)'
  <2> DEFINE v == View(s)
  <2>1. SInv(s)
    BY DEF Sound, CInv
  <2>2. \A i \in DOMAIN event_queue'[w] :
          i + 1 \in DOMAIN event_queue[w] /\ event_queue'[w][i] = event_queue[w][i + 1]
    BY <1>1, <1>2 DEF IInv, EventInv
  <2>3. QuietQueued(v, s)
    BY <1>1, <1>2, <2>2 DEF QuietQueued, IInv, EventInv
  <2>4. Progress(e, "run") = e.current_action
    BY <1>3 DEF Progress, RunnableEvents, FormedEvents, RoomEvents
  <2>5. QuietHand(v, s)
    BY <1>1, <1>2, <1>4, <2>4, HandQuietly DEF WaitsWell
  <2>6. LobbyQuiet(s)
    <3>1. CASE w = LOBBY_WORKER_ID
      BY <1>1, <1>2, <3>1 DEF LobbyQuiet, LobbyStep, IInv, EventInv, StateTypeOK, e
    <3>2. CASE w # LOBBY_WORKER_ID
      BY <1>1, <1>2, <3>2, ConstantFacts DEF LobbyQuiet, LobbyStep, IInv, EventInv, StateTypeOK
    <3> QED
      BY <3>1, <3>2
  <2>7. SameClient(s) /\ QuietJobs(v, s) /\ QuietRouted(v, s) /\ QuietSent(v, s)
    BY <1>1, SameQuiet
  <2>8. Sole(s)'
    BY DEF Counted
  <2> QED
    BY <1>1, <1>2, <2>1, <2>3, <2>5, <2>6, <2>7, <2>8, StayKept
<1> QED
  BY <1>5, <1>6 DEF CInv

\* A worker is done with its event and changes nothing else, or sends the answer that
\* the event has become.
LEMMA EndSound ==
  ASSUME Sound, IInv', Counted', UNCHANGED clientVars, NEW w \in Workers,
         pc[w] = "run", Return(w),
         UNCHANGED <<conn, main, current_room, roomVars, routing, event_queue, job_queue>>,
         \A s \in Sessions : ~InTurn(event[w], pc[w], s),
         \A s \in Sessions : QuietSent(View(s), s)
  PROVE  CInv'
<1>1. RoomsExact' /\ Fresh'
  BY RoomsStay
<1>2. ASSUME NEW s \in Sessions PROVE SInv(s)'
  <2>1. SInv(s) /\ IInv /\ Sole(s)' /\ UNCHANGED sessions
    BY DEF Sound, CInv, Counted, roomVars
  <2>2. QuietHand(View(s), s) /\ LobbyQuiet(s)
    BY <2>1, DropQuietly
  <2>3. SameClient(s) /\ QuietJobs(View(s), s) /\ QuietRouted(View(s), s) /\ QuietQueued(View(s), s)
    BY SameQuiet
  <2>4. QuietSent(View(s), s)
    OBVIOUS
  <2> QED
    BY <2>1, <2>2, <2>3, <2>4, StayKept
<1> QED
  BY <1>1, <1>2 DEF CInv

\* An answer is quiet if it is right for the session whose request it answers.
LEMMA AnswerQuietly ==
  ASSUME Sound, NEW w \in Workers, NEW res, send_response(event[w], res), NEW s \in Sessions,
         Present(View(s)) => ~IsAccept(event[w], s),
         Present(View(s)) /\ IsRequestOf(event[w], s) =>
           AnswerOK(View(s), s, Response(event[w].initial_command, res, event[w].response_data))
  PROVE  QuietSent(View(s), s)
<1> DEFINE p == Response(event[w].initial_command, res, event[w].response_data)
           c == event[w].session
<1>1. sent' = [sent EXCEPT ![c] = Append(@, p)] /\ IInv
  BY DEF send_response, Sound
<1>2. s = c /\ Present(View(s)) => AnswerOK(View(s), s, p)
  BY DEF IsAccept, IsRequestOf
<1> HIDE DEF p, c
<1> QED
  BY <1>1, <1>2, SendQuietly

\* The loop of process_event ends.
LEMMA FinishEventSound ==
  ASSUME Sound, IInv', Counted', UNCHANGED clientVars, NEW w \in Workers, FinishEvent(w)
  PROVE  CInv'
<1>1. /\ pc[w] = "run" /\ Return(w) /\ ~HasNextAction(event[w])
      /\ UNCHANGED <<conn, main, current_room, roomVars, routing, event_queue, job_queue, sent>>
  BY DEF FinishEvent, mainVars, dbVars
<1>2. \A s \in Sessions : ~InTurn(event[w], pc[w], s)
  BY <1>1, AcceptHand DEF InTurn, Sound, CInv, SInv
<1>3. \A s \in Sessions : QuietSent(View(s), s)
  BY <1>1, SameQuiet
<1> QED
  BY <1>1, <1>2, <1>3, EndSound

\* The loop head answers a result left by a callback or by dispatch_packet.
LEMMA AnswerFailedSound ==
  ASSUME Sound, IInv', Counted', UNCHANGED clientVars, NEW w \in Workers, AnswerFailed(w)
  PROVE  CInv'
<1>1. /\ pc[w] = "run" /\ Return(w) /\ HasNextAction(event[w]) /\ ~NotFailed(event[w])
      /\ send_response(event[w], event[w].result_code)
      /\ UNCHANGED <<conn, main, current_room, roomVars, routing, event_queue, job_queue>>
  BY DEF AnswerFailed, mainVars, dbVars
<1>2. ASSUME NEW s \in Sessions
      PROVE  ~IsAccept(event[w], s) /\ QuietSent(View(s), s)
  <2>1. IInv /\ HandsFit(s)
    BY DEF Sound, CInv, SInv
  <2>2. ~IsAccept(event[w], s)
    BY <1>1, <2>1, AcceptHand
  <2>3. Fits(View(s), s, event[w], event[w].current_action) /\ event[w] \in RoomEvents
    BY <1>1, <2>1, HandFits
  <2>4. event[w].result_code # "Success"
    BY <1>1 DEF NotFailed
  <2>5. ASSUME IsRequestOf(event[w], s), Present(View(s))
        PROVE  AnswerOK(View(s), s, Response(event[w].initial_command, event[w].result_code,
                                             event[w].response_data))
    <3>1. StageOK(View(s), s, event[w], event[w].current_action)
      BY <2>3, <2>5 DEF Fits
    <3>2. event[w].response_data = EmptyBody /\ Entered(event[w].actions, event[w].current_action) = {}
      BY <2>4, <3>1 DEF StageOK
    <3> QED
      BY <1>1, <2>3, <2>4, <2>5, <3>1, <3>2, AnswerOfFailure
  <2> QED
    BY <1>1, <2>2, <2>5, AnswerQuietly
<1> QED
  BY <1>1, <1>2, EndSound DEF InTurn

\* The last action of a plan answers.
LEMMA SendResponseSound ==
  ASSUME Sound, IInv', Counted', UNCHANGED clientVars, NEW w \in Workers, SendResponse(w)
  PROVE  CInv'
<1>1. /\ pc[w] = "run" /\ Return(w) /\ HasNextAction(event[w]) /\ NotFailed(event[w])
      /\ NextAction(event[w]).command = "SEND_RESPONSE"
      /\ send_response(event[w], event[w].result_code)
      /\ UNCHANGED <<conn, main, current_room, roomVars, routing, event_queue, job_queue>>
  BY DEF SendResponse, At, mainVars, dbVars
<1>2. ASSUME NEW s \in Sessions
      PROVE  ~IsAccept(event[w], s) /\ QuietSent(View(s), s)
  <2>1. IInv /\ HandsFit(s)
    BY DEF Sound, CInv, SInv
  <2>2. ~IsAccept(event[w], s)
    BY <1>1, <2>1, AcceptHand
  <2>3. Fits(View(s), s, event[w], event[w].current_action) /\ event[w] \in RunnableEvents
    BY <1>1, <2>1, HandFits
  <2>4. ASSUME IsRequestOf(event[w], s), Present(View(s))
        PROVE  AnswerOK(View(s), s, Response(event[w].initial_command, event[w].result_code,
                                             event[w].response_data))
    <3>1. StageOK(View(s), s, event[w], event[w].current_action)
      BY <2>3, <2>4 DEF Fits
    <3> QED
      BY <1>1, <2>3, <2>4, <3>1, AnswerOfPlan
  <2> QED
    BY <1>1, <2>2, <2>4, AnswerQuietly
<1> QED
  BY <1>1, <1>2, EndSound DEF InTurn

\* An action that fails, if the answer is right for the request and it is not the
\* event of accept_client that fails.
LEMMA FailSound ==
  ASSUME Sound, IInv', Counted', UNCHANGED clientVars, NEW w \in Workers,
         pc[w] = "run", HasNextAction(event[w]), NEW res, res # "Success", Fail(w, res),
         UNCHANGED <<conn, main, current_room, roomVars, routing, event_queue, job_queue>>,
         \A s \in Sessions :
           /\ ~IsAccept(event[w], s)
           /\ IsRequestOf(event[w], s) /\ Present(View(s)) =>
                /\ event[w].response_data = EmptyBody
                /\ Entered(event[w].actions, event[w].current_action) = {}
  PROVE  CInv'
<1>1. Return(w) /\ send_response(event[w], res)
  BY DEF Fail
<1>2. ASSUME NEW s \in Sessions PROVE QuietSent(View(s), s)
  <2>1. IInv /\ HandsFit(s)
    BY DEF Sound, CInv, SInv
  <2>2. Fits(View(s), s, event[w], event[w].current_action) /\ event[w] \in RoomEvents
    BY <2>1, HandFits
  <2>3. ASSUME IsRequestOf(event[w], s), Present(View(s))
        PROVE  AnswerOK(View(s), s, Response(event[w].initial_command, res,
                                             event[w].response_data))
    <3>1. StageOK(View(s), s, event[w], event[w].current_action)
      BY <2>2, <2>3 DEF Fits
    <3> QED
      BY <2>2, <2>3, <3>1, AnswerOfFailure
  <2> QED
    BY <1>1, <2>3, AnswerQuietly
<1> QED
  BY <1>1, <1>2, EndSound DEF InTurn

\* Nothing is entered before the first action.
LEMMA NothingEntered ==
  ASSUME NEW e \in RoomEvents
  PROVE  Entered(e.actions, 0) = {}
BY DEF Entered, RoomEvents

\* SEND_MESSAGE: the room has gone, or the visit of its sessions begins.
LEMMA SendMessageSound ==
  ASSUME Sound, IInv', Counted', UNCHANGED clientVars, NEW w \in Workers, SendMessage(w)
  PROVE  CInv'
<1>1. /\ pc[w] = "run" /\ HasNextAction(event[w]) /\ NotFailed(event[w])
      /\ NextAction(event[w]).command = "SEND_MESSAGE"
      /\ \/ Fail(w, "RoomNotFound")
         \/ pc' = [pc EXCEPT ![w] = "send_message"] /\ UNCHANGED <<event, sent>>
      /\ UNCHANGED <<conn, main, current_room, roomVars, routing, event_queue, job_queue>>
  BY DEF SendMessage, At, mainVars, dbVars
<1>2. ASSUME NEW s \in Sessions
      PROVE  /\ ~IsAccept(event[w], s) /\ Fits(View(s), s, event[w], event[w].current_action)
             /\ event[w] \in RunnableEvents /\ event[w] \in RoomEvents
             /\ IsRequestOf(event[w], s) =>
                  /\ event[w].response_data = EmptyBody
                  /\ Entered(event[w].actions, event[w].current_action) = {}
  <2>1. IInv /\ HandsFit(s)
    BY DEF Sound, CInv, SInv
  <2>2. ~IsAccept(event[w], s)
    BY <1>1, <2>1, AcceptHand
  <2>3. /\ Fits(View(s), s, event[w], event[w].current_action)
        /\ event[w] \in RunnableEvents /\ event[w] \in RoomEvents
    BY <1>1, <2>1, HandFits
  <2>4. ASSUME IsRequestOf(event[w], s)
        PROVE  /\ event[w].response_data = EmptyBody
               /\ Entered(event[w].actions, event[w].current_action) = {}
    <3>1. StageOK(View(s), s, event[w], event[w].current_action)
      BY <2>3, <2>4 DEF Fits
    <3>2. event[w].current_action = 0
      BY <1>1, <2>3, <3>1, PlanFacts DEF StageOK
    <3> QED
      BY <2>3, <3>1, <3>2, NothingEntered DEF StageOK
  <2> QED
    BY <2>2, <2>3, <2>4
<1>3. CASE Fail(w, "RoomNotFound")
  BY <1>1, <1>2, <1>3, FailSound
<1>4. CASE pc' = [pc EXCEPT ![w] = "send_message"] /\ UNCHANGED <<event, sent>>
  <2>1. event' = [event EXCEPT ![w] = event[w]] /\ IInv
    BY <1>4 DEF Sound, IInv, EventInv
  <2>2. RoomsExact'
    BY <1>1, RoomsStay
  <2>3. FreshAt(event[w], "send_message", rooms'[w], sessions'[w])
    BY DEF FreshAt
  <2>4. Fresh'
    BY <1>1, <1>4, <2>1, <2>3, HandFresh DEF Sound, CInv, roomVars
  <2>5. ASSUME NEW s \in Sessions PROVE SInv(s)'
    <3>1. SInv(s) /\ Sole(s)' /\ UNCHANGED sessions
      BY <1>1 DEF Sound, CInv, Counted, roomVars
    <3>2. Progress(event[w], "send_message") = event[w].current_action
      BY <1>2 DEF Progress, RoomEvents
    <3>3. QuietHand(View(s), s) /\ LobbyQuiet(s)
      <4>1. Fits(View(s), s, event[w], Progress(event[w], "send_message"))
        BY <1>2, <3>2
      <4>2. ~InTurn(event[w], pc[w], s) /\ ~InTurn(event[w], "send_message", s)
        BY <1>2 DEF InTurn
      <4> QED
        BY <1>1, <1>4, <2>1, <4>1, <4>2, HandQuietly
    <3>4. /\ SameClient(s) /\ QuietJobs(View(s), s) /\ QuietRouted(View(s), s)
          /\ QuietQueued(View(s), s) /\ QuietSent(View(s), s)
      BY <1>1, <1>4, SameQuiet
    <3> QED
      BY <1>1, <2>1, <3>1, <3>3, <3>4, StayKept
  <2> QED
    BY <2>2, <2>4, <2>5 DEF CInv
<1> QED
  BY <1>1, <1>3, <1>4

\* A broadcast is no answer.
LEMMA SendToSound ==
  ASSUME Sound, IInv', Counted', UNCHANGED clientVars, NEW w \in Workers, NEW c \in Sessions,
         SendTo(w, c)
  PROVE  CInv'
<1>1. UNCHANGED <<conn, main, current_room, sessions, rooms, current_sessions,
                  routing, event_queue, event, pc, job_queue>>
  BY DEF SendTo, mainVars, roomVars, dbVars
<1>2. PICK p : ~IsResponse(p) /\ (sent' = sent \/ sent' = [sent EXCEPT ![c] = Append(@, p)])
  <2> DEFINE p == Broadcast(audience[w].sender, NextAction(event[w]).target_room_id)
  <2>1. ~IsResponse(p)
    BY DEF IsResponse, Broadcast
  <2>2. sent' = sent \/ sent' = [sent EXCEPT ![c] = Append(@, p)]
    BY DEF SendTo
  <2> QED
    BY <2>1, <2>2
<1>3. RoomsExact' /\ Fresh'
  BY <1>1, RoomsStay DEF roomVars
<1>4. ASSUME NEW s \in Sessions PROVE SInv(s)'
  <2>1. SInv(s) /\ Sole(s)' /\ IInv
    BY DEF Sound, CInv, Counted
  <2>2. QuietSent(View(s), s)
    BY <1>2, <2>1, SameQuiet, SendQuietly
  <2>3. /\ SameClient(s) /\ QuietJobs(View(s), s) /\ QuietRouted(View(s), s)
        /\ QuietQueued(View(s), s) /\ QuietHand(View(s), s) /\ LobbyQuiet(s)
    BY <1>1, SameQuiet
  <2> QED
    BY <1>1, <2>1, <2>2, <2>3, StayKept
<1> QED
  BY <1>3, <1>4 DEF CInv

\* A worker goes on with its event.
LEMMA GoOnSound ==
  ASSUME Sound, IInv', Counted', UNCHANGED clientVars, NEW w \in Workers,
         pc[w] # "set_current_room", HasNextAction(event[w]), NotFailed(event[w]),
         NextAction(event[w]).command \notin {"JOIN_ROOM", "LEAVE_ROOM", "CREATE_ROOM"},
         NEW res \in {event[w].result_code, "Success"}, Continue(w, res),
         UNCHANGED <<conn, main, current_room, roomVars, routing, event_queue, sent>>,
         \A s \in Sessions : QuietJobs(View(s), s)
  PROVE  CInv'
<1>1. RoomsExact' /\ Fresh'
  BY RoomsStay, GoOnFresh DEF roomVars
<1>2. ASSUME NEW s \in Sessions PROVE SInv(s)'
  <2>1. SInv(s) /\ Sole(s)' /\ IInv /\ HandsFit(s) /\ UNCHANGED sessions
    BY DEF Sound, CInv, SInv, Counted, roomVars
  <2>2. QuietHand(View(s), s) /\ LobbyQuiet(s)
    BY <2>1, GoOnQuietly
  <2>3. /\ SameClient(s) /\ QuietRouted(View(s), s) /\ QuietQueued(View(s), s)
        /\ QuietSent(View(s), s)
    BY SameQuiet
  <2>4. QuietJobs(View(s), s)
    OBVIOUS
  <2> QED
    BY <2>1, <2>2, <2>3, <2>4, StayKept
<1> QED
  BY <1>1, <1>2 DEF CInv

\* send_message has visited every member.
LEMMA SentToAllSound ==
  ASSUME Sound, IInv', Counted', UNCHANGED clientVars, NEW w \in Workers, SentToAll(w)
  PROVE  CInv'
<1>1. /\ pc[w] = "send_message" /\ Continue(w, "Success")
      /\ UNCHANGED <<conn, main, current_room, roomVars, routing, event_queue, job_queue, sent>>
  BY DEF SentToAll, mainVars, dbVars
<1>2. HalfWay(w, "SEND_MESSAGE")
  BY <1>1 DEF Sound, IInv, PcInv
<1>3. \A s \in Sessions : QuietJobs(View(s), s)
  BY <1>1, SameQuiet
<1> QED
  BY <1>1, <1>2, <1>3, GoOnSound DEF HalfWay

\* The message is given to the database thread, which answers nobody.
LEMMA SaveMessageSound ==
  ASSUME Sound, IInv', Counted', UNCHANGED clientVars, NEW w \in Workers, SaveMessage(w)
  PROVE  CInv'
<1> DEFINE j == [type |-> "SaveMessage", event |-> EmptyEvent,
                 room |-> NextAction(event[w]).target_room_id,
                 sender |-> get_user_id(event[w].session)]
<1>1. /\ pc[w] = "run" /\ HasNextAction(event[w]) /\ NotFailed(event[w])
      /\ NextAction(event[w]).command = "SAVE_MESSAGE"
      /\ Continue(w, event[w].result_code) /\ job_queue' = Append(job_queue, j)
      /\ UNCHANGED <<conn, main, current_room, roomVars, routing, event_queue, sent>>
  BY DEF SaveMessage, At, post_job, mainVars
<1>2. j.event = EmptyEvent
  OBVIOUS
<1> HIDE DEF j
<1>3. \A s \in Sessions : QuietJobs(View(s), s)
  BY <1>1, <1>2, EmptyFits, PostJobQuietly DEF Sound
<1> QED
  BY <1>1, <1>3, GoOnSound

-----------------------------------------------------------------------------
\* The event that a hand-over sends on its way.
LEMMA TravelsWell ==
  ASSUME Sound, NEW w \in Workers, NEW s \in Sessions,
         NEW cmd \in {"REQUEST_LEAVE_ROOM", "REQUEST_DB_CREATE_ROOM", "REQUEST_DB_LOAD_MESSAGE"},
         At(w, cmd)
  PROVE  /\ RidesWell(View(s), s, Advanced(event[w], event[w].result_code))
         /\ ~IsAccept(event[w], s)
<1> DEFINE e == event[w]
           f == Advanced(e, e.result_code)
<1>1. /\ pc[w] = "run" /\ HasNextAction(e) /\ NotFailed(e) /\ NextAction(e).command = cmd
      /\ IInv /\ HandsFit(s)
  BY DEF At, Sound, CInv, SInv
<1>2. Fits(View(s), s, e, e.current_action) /\ e \in RunnableEvents /\ e \in RoomEvents
  BY <1>1, HandFits
<1>3. ~IsAccept(e, s)
  BY <1>1, AcceptHand
<1>4. Fits(View(s), s, f, e.current_action + 1) /\ f.current_action = e.current_action + 1
  BY <1>1, <1>2, FitsAdvance
<1>5. ~IsAccept(f, s)
  BY <1>2, <1>3, AdvancedFields DEF IsAccept
<1>6. Boarded(f)
  <2>1. e.session \in Sessions
    BY <1>1, <1>2, NextFacts
  <2>2. \E v, d : Fits(v, e.session, e, d)
    BY <2>1 DEF Sound, CInv, SInv, HandsFit
  <2> QED
    BY <1>1, <1>2, <2>1, <2>2, AdvancedFresh
<1> QED
  BY <1>3, <1>4, <1>5, <1>6 DEF RidesWell

\* A worker hands its event over.
LEMMA HandOverSound ==
  ASSUME Sound, IInv', Counted', UNCHANGED clientVars, NEW w \in Workers,
         NEW cmd \in {"REQUEST_LEAVE_ROOM", "REQUEST_DB_CREATE_ROOM", "REQUEST_DB_LOAD_MESSAGE"},
         At(w, cmd), Return(w),
         UNCHANGED <<conn, main, current_room, roomVars, event_queue, sent>>,
         \A s \in Sessions : QuietJobs(View(s), s) /\ QuietRouted(View(s), s)
  PROVE  CInv'
<1>1. RoomsExact' /\ Fresh'
  BY RoomsStay
<1>2. ASSUME NEW s \in Sessions PROVE SInv(s)'
  <2>1. SInv(s) /\ IInv /\ Sole(s)' /\ UNCHANGED sessions
    BY DEF Sound, CInv, Counted, roomVars
  <2>2. QuietHand(View(s), s) /\ LobbyQuiet(s)
    BY <2>1, DropQuietly, TravelsWell DEF InTurn
  <2>3. SameClient(s) /\ QuietSent(View(s), s) /\ QuietQueued(View(s), s)
    BY SameQuiet
  <2>4. QuietJobs(View(s), s) /\ QuietRouted(View(s), s)
    OBVIOUS
  <2> QED
    BY <2>1, <2>2, <2>3, <2>4, StayKept
<1> QED
  BY <1>1, <1>2 DEF CInv

\* The event is handed to the worker of the room to be left.
LEMMA RequestLeaveRoomSound ==
  ASSUME Sound, IInv', Counted', UNCHANGED clientVars, NEW w \in Workers, RequestLeaveRoom(w)
  PROVE  CInv'
<1> DEFINE f == Advanced(event[w], event[w].result_code)
           x == [to |-> find_worker(NextAction(event[w]).target_room_id), event |-> f]
<1>1. /\ At(w, "REQUEST_LEAVE_ROOM") /\ Return(w)
      /\ routing' = routing \/ routing' = [routing EXCEPT ![w] = x]
      /\ UNCHANGED <<conn, main, current_room, roomVars, event_queue, job_queue, sent>>
  BY DEF RequestLeaveRoom, route_event, mainVars, dbVars
<1>2. \A s \in Sessions : RidesWell(View(s), s, x.event)
  BY <1>1, TravelsWell
<1> HIDE DEF x, f
<1>3. w \in Threads /\ IInv
  BY ConstantFacts DEF Sound
<1>4. ASSUME NEW s \in Sessions PROVE QuietJobs(View(s), s) /\ QuietRouted(View(s), s)
  BY <1>1, <1>2, <1>3, RouteQuietly, SameQuiet
<1> QED
  BY <1>1, <1>4, HandOverSound

\* The event is handed to the database thread.
LEMMA RequestDbSound ==
  ASSUME Sound, IInv', Counted', UNCHANGED clientVars, NEW w \in Workers,
         RequestDbCreateRoom(w) \/ RequestDbLoadMessage(w)
  PROVE  CInv'
<1> DEFINE f == Advanced(event[w], event[w].result_code)
<1>1. PICK cmd, j :
        /\ cmd \in {"REQUEST_DB_CREATE_ROOM", "REQUEST_DB_LOAD_MESSAGE"}
        /\ At(w, cmd) /\ Return(w) /\ job_queue' = Append(job_queue, j) /\ j.event = f
        /\ UNCHANGED <<conn, main, current_room, roomVars, routing, event_queue, sent>>
  <2>1. CASE RequestDbCreateRoom(w)
    <3> DEFINE j == [type |-> "CreateRoom", event |-> f, room |-> NO_ROOM, sender |-> NoSession]
    <3>1. /\ At(w, "REQUEST_DB_CREATE_ROOM") /\ Return(w) /\ job_queue' = Append(job_queue, j)
          /\ UNCHANGED <<conn, main, current_room, roomVars, routing, event_queue, sent>>
      BY <2>1 DEF RequestDbCreateRoom, post_job, mainVars
    <3>2. j.event = f
      OBVIOUS
    <3> QED
      BY <3>1, <3>2
  <2>2. CASE RequestDbLoadMessage(w)
    <3> DEFINE j == [type |-> "LoadHistory", event |-> f,
                     room |-> NextAction(event[w]).target_room_id, sender |-> NoSession]
    <3>1. /\ At(w, "REQUEST_DB_LOAD_MESSAGE") /\ Return(w) /\ job_queue' = Append(job_queue, j)
          /\ UNCHANGED <<conn, main, current_room, roomVars, routing, event_queue, sent>>
      BY <2>2 DEF RequestDbLoadMessage, post_job, mainVars
    <3>2. j.event = f
      OBVIOUS
    <3> QED
      BY <3>1, <3>2
  <2> QED
    BY <2>1, <2>2
<1>2. \A s \in Sessions : RidesWell(View(s), s, j.event)
  BY <1>1, TravelsWell
<1> HIDE DEF f
<1>3. ASSUME NEW s \in Sessions PROVE QuietJobs(View(s), s) /\ QuietRouted(View(s), s)
  BY <1>1, <1>2, PostJobQuietly, SameQuiet DEF Sound
<1> QED
  BY <1>1, <1>3, HandOverSound

-----------------------------------------------------------------------------
\* A step of the database thread.
LEMMA CallbackSound ==
  ASSUME Sound, IInv', Counted', UNCHANGED clientVars,
         UNCHANGED <<conn, main, current_room, roomVars, event, pc, sent>>,
         \A s \in Sessions : /\ QuietJobs(View(s), s) /\ QuietRouted(View(s), s)
                             /\ QuietQueued(View(s), s) /\ LobbyQuiet(s)
  PROVE  CInv'
<1>1. RoomsExact' /\ Fresh'
  BY RoomsStay
<1>2. ASSUME NEW s \in Sessions PROVE SInv(s)'
  <2>1. SInv(s) /\ IInv /\ Sole(s)' /\ UNCHANGED sessions
    BY DEF Sound, CInv, Counted, roomVars
  <2>2. SameClient(s) /\ QuietSent(View(s), s) /\ QuietHand(View(s), s)
    BY SameQuiet
  <2>3. /\ QuietJobs(View(s), s) /\ QuietRouted(View(s), s)
        /\ QuietQueued(View(s), s) /\ LobbyQuiet(s)
    OBVIOUS
  <2> QED
    BY <2>1, <2>2, <2>3, StayKept
<1> QED
  BY <1>1, <1>2 DEF CInv

\* The event in the job that the database thread takes.
LEMMA JobEvent ==
  ASSUME Sound, NEW type, TakeJob(type)
  PROVE  /\ Head(job_queue).event \in FormedEvents /\ Head(job_queue).event \in RoomEvents
         /\ JobOK(Head(job_queue)) /\ Head(job_queue) \in RunnableJobs
         /\ Head(job_queue).type = type
         /\ \A s \in Sessions : /\ QuietJobs(View(s), s)
                                /\ RidesWell(View(s), s, Head(job_queue).event)
<1>1. job_queue \in Seq(RunnableJobs) /\ job_queue # << >> /\ IInv
  BY DEF TakeJob, Sound, IInv, EventInv
<1>2. 1 \in DOMAIN job_queue /\ Head(job_queue) = job_queue[1] /\ Head(job_queue) \in RunnableJobs
  BY <1>1
<1>3. JobOK(Head(job_queue))
  BY <1>2 DEF Sound, RInv, JobInv
<1>4. \A s \in Sessions : /\ QuietJobs(View(s), s)
                          /\ RidesWell(View(s), s, Head(job_queue).event)
  BY <1>1, TakeJobQuietly DEF Sound, CInv, SInv
<1> QED
  BY <1>2, <1>3, <1>4 DEF RunnableJobs, FormedEvents, TakeJob

\* A callback that keeps the plan's place, the session and the command.
LEMMA CallbackRides ==
  ASSUME NEW v, NEW s, NEW e, NEW f, RidesWell(v, s, e),
         f.fd = e.fd, f.session = e.session, f.initial_command = e.initial_command,
         f.current_action = e.current_action,
         StageOK(v, s, e, e.current_action) => StageOK(v, s, f, e.current_action)
  PROVE  RidesWell(v, s, f)
BY DEF RidesWell, Fits, Boarded, IsRequestOf, IsAccept

\* The number is issued and the plan resolved with it.
LEMMA DbCreateRoomSound ==
  ASSUME Sound, IInv', Counted', UNCHANGED clientVars, DbCreateRoom
  PROVE  CInv'
<1> DEFINE e == Head(job_queue).event
           f == [resolve_room_id(e, room_seq) EXCEPT !.result_code = "Success",
                                                     !.response_data = RoomIdBody(room_seq)]
<1>1. /\ TakeJob("CreateRoom") /\ room_seq <= LastRoomId
      /\ \E w \in RoomWorkers : routing' = [routing EXCEPT ![DB_THREAD] = [to |-> w, event |-> f]]
      /\ UNCHANGED <<conn, main, current_room, roomVars, event, pc, sent, event_queue>>
  BY DEF DbCreateRoom, mainVars, workerVars
<1>2. /\ e \in RoomEvents /\ JobOK(Head(job_queue)) /\ Head(job_queue).type = "CreateRoom"
      /\ \A s \in Sessions : QuietJobs(View(s), s) /\ RidesWell(View(s), s, e)
  BY <1>1, JobEvent
<1>3. /\ e.current_action = 1 /\ 2 \in DOMAIN e.actions
      /\ e.actions[2] = RoomAction("CREATE_ROOM", PENDING_ROOM_ID)
  BY <1>2 DEF JobOK
<1>4. room_seq \in NewRooms
  BY <1>1, RoomAssumption DEF Sound, IInv, StateTypeOK, NewRooms, FIRST_ROOM_ID
<1>5. /\ f.fd = e.fd /\ f.session = e.session /\ f.initial_command = e.initial_command
      /\ f.current_action = e.current_action
  BY <1>2 DEF resolve_room_id, RoomEvents
<1>6. ASSUME NEW s \in Sessions, StageOK(View(s), s, e, e.current_action)
      PROVE  StageOK(View(s), s, f, e.current_action)
  BY <1>2, <1>3, <1>4, <1>6, StageCreated
<1> HIDE DEF f, e
<1>7. ASSUME NEW s \in Sessions PROVE RidesWell(View(s), s, f)
  BY <1>2, <1>5, <1>6, CallbackRides
<1>8. ASSUME NEW s \in Sessions PROVE QuietRouted(View(s), s)
  <2>1. PICK w \in RoomWorkers :
          routing' = [routing EXCEPT ![DB_THREAD] = [to |-> w, event |-> f]]
    BY <1>1
  <2>2. RidesWell(View(s), s, [to |-> w, event |-> f].event)
    BY <1>7
  <2> QED
    BY <2>1, <2>2, ConstantFacts, RouteQuietly DEF Sound
<1>9. \A s \in Sessions : QuietQueued(View(s), s) /\ LobbyQuiet(s)
  BY <1>1, SameQuiet
<1> QED
  BY <1>1, <1>2, <1>8, <1>9, CallbackSound

\* No number is issued: the event goes back to the lobby with an error.
LEMMA DbCreateRoomFailsSound ==
  ASSUME Sound, IInv', Counted', UNCHANGED clientVars, DbCreateRoomFails
  PROVE  CInv'
<1> DEFINE e == Head(job_queue).event
           f == [e EXCEPT !.result_code = "DBError"]
<1>1. /\ TakeJob("CreateRoom") /\ post_event(LOBBY_WORKER_ID, f)
      /\ UNCHANGED <<conn, main, current_room, roomVars, event, pc, sent, routing>>
  BY DEF DbCreateRoomFails, mainVars, workerVars
<1>2. /\ e \in RoomEvents /\ JobOK(Head(job_queue)) /\ Head(job_queue).type = "CreateRoom"
      /\ \A s \in Sessions : QuietJobs(View(s), s) /\ RidesWell(View(s), s, e)
  BY <1>1, JobEvent
<1>3. /\ e.current_action = 1 /\ 2 \in DOMAIN e.actions
      /\ e.actions[2] = RoomAction("CREATE_ROOM", PENDING_ROOM_ID)
  BY <1>2 DEF JobOK
<1>4. /\ f.fd = e.fd /\ f.session = e.session /\ f.initial_command = e.initial_command
      /\ f.current_action = e.current_action
  BY <1>2 DEF RoomEvents
<1>5. ASSUME NEW s \in Sessions, StageOK(View(s), s, e, e.current_action)
      PROVE  StageOK(View(s), s, f, e.current_action)
  BY <1>2, <1>3, <1>5, StageCreateFails
<1> HIDE DEF f, e
<1>6. ASSUME NEW s \in Sessions PROVE RidesWell(View(s), s, f)
  BY <1>2, <1>4, <1>5, CallbackRides
<1>7. ASSUME NEW s \in Sessions PROVE QuietQueued(View(s), s) /\ LobbyQuiet(s)
  <2>1. WaitsWell(View(s), s, f) /\ ~IsAccept(f, s)
    BY <1>6 DEF RidesWell, WaitsWell
  <2> QED
    BY <1>1, <2>1, ConstantFacts, PostQuietly DEF Sound
<1>8. \A s \in Sessions : QuietRouted(View(s), s)
  BY <1>1, SameQuiet
<1> QED
  BY <1>1, <1>2, <1>7, <1>8, CallbackSound

\* The history is found and the event goes back to the room.
LEMMA DbLoadHistorySound ==
  ASSUME Sound, IInv', Counted', UNCHANGED clientVars, DbLoadHistory,
         "LoadHistory" \notin DbFailures
  PROVE  CInv'
<1> DEFINE e == Head(job_queue).event
           f == [e EXCEPT !.result_code = "Success", !.response_data = HistoryBody]
           x == [to |-> find_worker(LastAction(e).target_room_id), event |-> f]
<1>1. /\ TakeJob("LoadHistory")
      /\ routing' = routing \/ routing' = [routing EXCEPT ![DB_THREAD] = x]
      /\ UNCHANGED <<conn, main, current_room, roomVars, event, pc, sent, event_queue>>
  BY DEF DbLoadHistory, route_event, mainVars, workerVars
<1>2. /\ e \in RoomEvents /\ e \in FormedEvents /\ Head(job_queue) \in RunnableJobs
      /\ Head(job_queue).type = "LoadHistory"
      /\ \A s \in Sessions : QuietJobs(View(s), s) /\ RidesWell(View(s), s, e)
  BY <1>1, JobEvent
<1>3. e.current_action > 0 /\ LastAction(e).command = "REQUEST_DB_LOAD_MESSAGE"
  BY <1>2 DEF RunnableJobs
<1>4. /\ f.fd = e.fd /\ f.session = e.session /\ f.initial_command = e.initial_command
      /\ f.current_action = e.current_action
  BY <1>2 DEF RoomEvents
<1>5. ASSUME NEW s \in Sessions, StageOK(View(s), s, e, e.current_action)
      PROVE  StageOK(View(s), s, f, e.current_action)
  BY <1>2, <1>3, <1>5, StageLoaded
<1>6. x.event = f
  OBVIOUS
<1> HIDE DEF f, e, x
<1>7. ASSUME NEW s \in Sessions PROVE RidesWell(View(s), s, x.event)
  BY <1>2, <1>4, <1>5, <1>6, CallbackRides
<1>8. \A s \in Sessions : QuietRouted(View(s), s)
  BY <1>1, <1>7, ConstantFacts, RouteQuietly DEF Sound
<1>9. \A s \in Sessions : QuietQueued(View(s), s) /\ LobbyQuiet(s)
  BY <1>1, SameQuiet
<1> QED
  BY <1>1, <1>2, <1>8, <1>9, CallbackSound

\* The message is stored, or is not.
LEMMA DbSaveMessageSound ==
  ASSUME Sound, IInv', Counted', UNCHANGED clientVars, DbSaveMessage
  PROVE  CInv'
<1>1. /\ TakeJob("SaveMessage")
      /\ UNCHANGED <<conn, main, current_room, roomVars, event, pc, sent, event_queue, routing>>
  BY DEF DbSaveMessage, mainVars, workerVars
<1>2. \A s \in Sessions : QuietJobs(View(s), s)
  BY <1>1, JobEvent
<1>3. \A s \in Sessions : QuietRouted(View(s), s) /\ QuietQueued(View(s), s) /\ LobbyQuiet(s)
  BY <1>1, SameQuiet
<1> QED
  BY <1>1, <1>2, <1>3, CallbackSound

-----------------------------------------------------------------------------
\* A step of the main thread that posts nothing: no place and no packet changes.
LEMMA LinkKept ==
  ASSUME Sound, IInv', Counted', UNCHANGED clientVars, NEW s \in Sessions, Unmoved(s) \/ Fading(s),
         UNCHANGED <<routing, event_queue, event, pc, job_queue, sent>>
  PROVE  SInv(s)'
<1>1. SInv(s) /\ IInv /\ Sole(s)'
  BY DEF Sound, CInv, Counted
<1>2. PICK u : u = View(s)'
  OBVIOUS
<1>3. /\ SameClient(s) /\ QuietSent(u, s) /\ QuietHand(u, s) /\ QuietJobs(u, s)
      /\ QuietRouted(u, s) /\ QuietQueued(u, s) /\ LobbyQuiet(s)
  BY SameQuiet
<1> QED
  BY <1>1, <1>2, <1>3, SessionKept

\* The main thread is in the middle of close_session only for a client that has gone.
LEMMA ClosingFacts ==
  ASSUME Sound
  PROVE  /\ main = MainIdle => \A s \in Sessions : Link(s) = conn[s] /\ main.fd # s
         /\ main.fd \in Sessions => ~running[main.fd] /\ Link(main.fd) = "closing"
         /\ \A s \in Sessions : s # main.fd => Link(s) = conn[s]
<1>1. main = MainIdle => main.fd = NoSession
  BY DEF MainIdle
<1>2. ASSUME main.fd \in Sessions PROVE ~running[main.fd] /\ Link(main.fd) = "closing"
  <2>1. Link(main.fd) = "closing"
    BY DEF Link
  <2>2. ClientFits(main.fd)
    BY <1>2 DEF Sound, CInv, SInv
  <2> QED
    BY <2>1, <2>2 DEF ClientFits
<1> QED
  BY <1>1, <1>2, SessionAssumption DEF Link

\* close_session posts its events.
LEMMA DisconnectSound ==
  ASSUME Sound, IInv', Counted', UNCHANGED clientVars, DisconnectRoom \/ DisconnectLobby
  PROVE  CInv'
<1>1. PICK room, x :
        /\ routing' = routing \/ routing' = [routing EXCEPT ![MAIN_THREAD] = x]
        /\ x.event = DisconnectEvent(main.fd, room)
        /\ main'.fd = main.fd
        /\ UNCHANGED <<conn, current_room, sessions, rooms, current_sessions,
                       event_queue, event, pc, job_queue, sent>>
  <2>0. \A p : [main EXCEPT !.pc = p].fd = main.fd
    BY DEF Sound, IInv, StateTypeOK
  <2>1. CASE DisconnectRoom
    <3> DEFINE x == [to |-> find_worker(main.room), event |-> DisconnectEvent(main.fd, main.room)]
    <3>1. /\ routing' = routing \/ routing' = [routing EXCEPT ![MAIN_THREAD] = x]
          /\ main'.fd = main.fd
          /\ UNCHANGED <<conn, current_room, sessions, rooms, current_sessions,
                         event_queue, event, pc, job_queue, sent>>
      BY <2>0, <2>1 DEF DisconnectRoom, route_event, roomVars, workerVars, dbVars
    <3>2. x.event = DisconnectEvent(main.fd, main.room)
      OBVIOUS
    <3> QED
      BY <3>1, <3>2
  <2>2. CASE DisconnectLobby
    <3> DEFINE x == [to |-> find_worker(LOBBY_ROOM_ID),
                     event |-> DisconnectEvent(main.fd, LOBBY_ROOM_ID)]
    <3>1. /\ routing' = routing \/ routing' = [routing EXCEPT ![MAIN_THREAD] = x]
          /\ main'.fd = main.fd
          /\ UNCHANGED <<conn, current_room, sessions, rooms, current_sessions,
                         event_queue, event, pc, job_queue, sent>>
      BY <2>0, <2>2 DEF DisconnectLobby, route_event, roomVars, workerVars, dbVars
    <3>2. x.event = DisconnectEvent(main.fd, LOBBY_ROOM_ID)
      OBVIOUS
    <3> QED
      BY <3>1, <3>2
  <2> QED
    BY <2>1, <2>2
<1>2. /\ x.event.fd = main.fd /\ x.event.session = NoSession
      /\ x.event.initial_command = UNINITIALIZED
  BY <1>1 DEF DisconnectEvent, NewEvent, EmptyEvent
<1>3. RoomsExact' /\ Fresh'
  BY <1>1, RoomsStay DEF roomVars
<1>4. ASSUME NEW s \in Sessions PROVE SInv(s)'
  <2>1. SInv(s) /\ IInv /\ Sole(s)'
    BY DEF Sound, CInv, Counted
  <2>2. main.fd = s => ~Present(View(s))
    BY DEF Present, View, Link
  <2>3. RidesWell(View(s), s, x.event)
    BY <1>2, <2>2, SessionAssumption
    DEF RidesWell, Fits, Boarded, IsRequestOf, IsAccept, UNINITIALIZED
  <2>4. QuietRouted(View(s), s)
    BY <1>1, <2>1, <2>3, ConstantFacts, RouteQuietly
  <2>5. /\ SameClient(s) /\ QuietSent(View(s), s) /\ QuietHand(View(s), s)
        /\ QuietJobs(View(s), s) /\ QuietQueued(View(s), s) /\ LobbyQuiet(s)
    BY <1>1, SameQuiet
  <2> QED
    BY <1>1, <2>1, <2>4, <2>5, StayKept
<1> QED
  BY <1>3, <1>4 DEF CInv

\* remove_session and remove_user, at the end of close_session.
LEMMA RemoveSessionSound ==
  ASSUME Sound, IInv', Counted', UNCHANGED clientVars, RemoveSession
  PROVE  CInv'
<1>1. /\ conn' = [conn EXCEPT ![main.fd] = "closed"] /\ main' = MainIdle
      /\ UNCHANGED <<current_room, sessions, rooms, current_sessions, routing, event_queue,
                     event, pc, job_queue, sent>>
  BY DEF RemoveSession, roomVars, workerVars, dbVars
<1>2. RoomsExact' /\ Fresh'
  BY <1>1, RoomsStay DEF roomVars
<1>3. ASSUME NEW s \in Sessions PROVE SInv(s)'
  <2>1. main'.fd # s
    BY <1>1, SessionAssumption DEF MainIdle
  <2>2. CASE s = main.fd
    <3>1. conn'[s] = "closed"
      BY <1>1, <2>2 DEF Sound, IInv, StateTypeOK
    <3>2. Link(s)' = "closed" /\ ~running[s]
      BY <2>1, <2>2, <3>1, ClosingFacts DEF Link
    <3>3. Fading(s)
      BY <1>1, <3>2 DEF Fading
    <3> QED
      BY <1>1, <3>3, LinkKept
  <2>3. CASE s # main.fd
    <3>1. conn'[s] = conn[s]
      BY <1>1, <2>3 DEF Sound, IInv, StateTypeOK
    <3>2. Unmoved(s)
      BY <1>1, <2>1, <2>3, <3>1 DEF Unmoved, Link
    <3> QED
      BY <1>1, <3>2, LinkKept
  <2> QED
    BY <2>2, <2>3
<1> QED
  BY <1>2, <1>3 DEF CInv

\* close_session begins.
LEMMA HangUpSound ==
  ASSUME Sound, IInv', Counted', NEW c \in Sessions, HangUp(c)
  PROVE  CInv'
<1>1. /\ main = MainIdle /\ main'.fd = c /\ ~running[c] /\ UNCHANGED clientVars
      /\ UNCHANGED <<conn, current_room, sessions, rooms, current_sessions, routing, event_queue,
                     event, pc, job_queue, sent>>
  BY DEF HangUp, CloseSession, MainFree, roomVars, workerVars, dbVars
<1>2. RoomsExact' /\ Fresh'
  BY <1>1, RoomsStay DEF roomVars
<1>3. ASSUME NEW s \in Sessions PROVE SInv(s)'
  <2>1. main.fd # s
    BY <1>1, ClosingFacts
  <2>2. CASE s = c
    <3>1. Fading(s)
      BY <1>1, <2>2 DEF Fading, Link
    <3> QED
      BY <1>1, <3>1, LinkKept
  <2>3. CASE s # c
    <3>1. Unmoved(s)
      BY <1>1, <2>1, <2>3 DEF Unmoved, Link
    <3> QED
      BY <1>1, <3>1, LinkKept
  <2> QED
    BY <2>2, <2>3
<1> QED
  BY <1>2, <1>3 DEF CInv

-----------------------------------------------------------------------------
\* Before its connection is accepted a session is in no event.
LEMMA NobodyYet ==
  ASSUME NEW s \in Sessions, View(s).link = "none"
  PROVE  \A e, d : Fits(View(s), s, e, d) => e.session # s
BY DEF Fits, StageOK, IsRequestOf, IsAccept

\* accept_client: the lobby is now due through an event of its queue.
LEMMA AcceptSound ==
  ASSUME Sound, IInv', Counted', NEW c \in Sessions, Accept(c)
  PROVE  CInv'
<1> DEFINE a == AcceptEvent(c)
           W == LOBBY_WORKER_ID
<1>1. /\ main = MainIdle /\ conn[c] = "none" /\ UNCHANGED clientVars
      /\ conn' = [conn EXCEPT ![c] = "open"]
      /\ current_room' = [current_room EXCEPT ![c] = LOBBY_ROOM_ID]
      /\ post_event(W, a)
      /\ UNCHANGED <<main, sessions, rooms, current_sessions, routing, event, pc, job_queue, sent>>
  BY DEF Accept, AcceptClient, MainFree, roomVars, workerVars, dbVars
<1>2. /\ a.session = c /\ a.fd = NoSession /\ a.initial_command = UNINITIALIZED
      /\ a.current_action = 0 /\ NotFailed(a)
  BY DEF AcceptEvent, NewEvent, EmptyEvent, NotFailed
<1>3. \A s \in Sessions : main.fd # s
  BY <1>1, ClosingFacts
<1> HIDE DEF a
<1>4. RoomsExact' /\ Fresh'
  BY <1>1, RoomsStay DEF roomVars
<1>5. ASSUME NEW s \in Sessions, s # c PROVE SInv(s)'
  <2>1. SInv(s) /\ IInv /\ Sole(s)'
    BY DEF Sound, CInv, Counted
  <2>2. conn'[s] = conn[s] /\ current_room'[s] = current_room[s]
    BY <1>1, <1>5, <2>1 DEF IInv, StateTypeOK
  <2>3. Unmoved(s)
    BY <1>1, <2>2 DEF Unmoved, Link
  <2>4. PICK u : u = View(s)'
    OBVIOUS
  <2>5. WaitsWell(u, s, a) /\ ~IsAccept(a, s)
    BY <1>2, <1>5, SessionAssumption
    DEF WaitsWell, Fits, Boarded, IsRequestOf, IsAccept, UNINITIALIZED
  <2>6. QuietQueued(u, s) /\ LobbyQuiet(s)
    BY <1>1, <2>1, <2>5, ConstantFacts, PostQuietly
  <2>7. /\ SameClient(s) /\ QuietSent(u, s) /\ QuietHand(u, s)
        /\ QuietJobs(u, s) /\ QuietRouted(u, s)
    BY <1>1, SameQuiet
  <2> QED
    BY <2>1, <2>3, <2>4, <2>6, <2>7, SessionKept
<1>6. SInv(c)'
  <2> DEFINE v == View(c)
  <2>1. SInv(c) /\ IInv /\ Sole(c)'
    BY DEF Sound, CInv, Counted
  <2>2. /\ Link(c) = "none" /\ Link(c)' = "open" /\ conn'[c] = "open"
        /\ current_room'[c] = LOBBY_ROOM_ID
    BY <1>1, <1>3, <2>1 DEF Link, IInv, StateTypeOK
  <2>3. /\ event_queue'[W] = Append(event_queue[W], a) /\ event_queue[W] \in Seq(RunnableEvents)
        /\ W \in Workers
    BY <1>1, <2>1, ConstantFacts DEF post_event, IInv, EventInv
  <2>4. /\ DOMAIN event_queue'[W] = DOMAIN event_queue[W] \cup {Len(event_queue[W]) + 1}
        /\ event_queue'[W][Len(event_queue[W]) + 1] = a
        /\ \A i \in DOMAIN event_queue[W] : event_queue'[W][i] = event_queue[W][i]
        /\ DOMAIN event_queue[W] = 1..Len(event_queue[W])
    BY <2>3
  <2>5. IsAccept(a, c)
    BY <1>2 DEF IsAccept
  <2>6. LobbyDue(c) /\ LobbyDue(c)'
    <3>1. \E i \in DOMAIN event_queue'[W] : IsAccept(event_queue'[W][i], c)
      BY <2>4, <2>5
    <3> QED
      BY <2>2, <3>1 DEF LobbyDue, Waits
  <2>7. Whereabouts(c)' = Whereabouts(c) /\ ShownRoom(c)' = ShownRoom(c)
    BY <1>1, <2>6 DEF Whereabouts, InRooms, ShownRoom, clientVars
  <2>8. ASSUME c \notin Hurried
        PROVE  /\ pending_[c] = NoPending /\ state_[c] = "LOBBY"
               /\ current_room[c] = LOBBY_ROOM_ID
    <3>1. ~Settled(c)
      BY <1>1 DEF Settled
    <3>2. pending_[c] = NoPending /\ state_[c] = "LOBBY"
      BY <2>1, <2>2, <2>8, <3>1 DEF SInv, Patient
    <3>3. Allowed(pending_[c], uplink[c]) = 0 /\ Present(View(c))
      BY <2>2, <3>2 DEF Allowed, Present, View
    <3>4. View(c).cur = View(c).shown
      BY <2>1, <2>8, <3>3 DEF SInv, Rests, RestsAt
    <3> QED
      BY <2>8, <3>2, <3>4 DEF View, ShownRoom
  <2>9. PICK u : u = View(c)'
    OBVIOUS
  <2>10. /\ u.link = "open" /\ u.at = v.at /\ u.shown = v.shown /\ u.pending = v.pending
         /\ u.cur = v.cur /\ v.link = "none"
    BY <1>1, <2>2, <2>7, <2>8, <2>9 DEF View, clientVars
  <2> HIDE DEF v
  <2>11. PlacesFit(c)'
    <3>1. WaitsWell(u, c, a)
      BY <1>2, <2>10, SessionAssumption
      DEF WaitsWell, Fits, Boarded, IsRequestOf, IsAccept, UNINITIALIZED, a
    <3>2. QuietQueued(u, c)
      BY <1>1, <2>1, <2>3, <3>1, PostQuietly
    <3>3. QuietHand(u, c) /\ QuietJobs(u, c) /\ QuietRouted(u, c)
      BY <1>1, SameQuiet
    <3>4. StillThere(View(c), u) /\ PlacesFit(c)
      BY <2>1, <2>10 DEF StillThere, SInv, PlacesFit, v
    <3> QED
      BY <2>9, <3>2, <3>3, <3>4, PlacesKept
  <2>12. AnswersFit(c)'
    <3>1. ASSUME NEW p, AnswerOK(v, c, p) PROVE AnswerOK(u, c, p)
      BY <2>10, <3>1 DEF AnswerOK, After
    <3>2. \A i \in DOMAIN sent[c] : IsResponse(sent[c][i]) => AnswerOK(v, c, sent[c][i])
      BY <2>1, <2>10 DEF SInv, AnswersFit, Present, v
    <3> QED
      BY <1>1, <2>9, <3>1, <3>2 DEF AnswersFit
  <2>13. Rests(c)'
    <3>1. RestsAt(v, c, Allowed(pending_[c], uplink[c]))
      BY <2>1 DEF SInv, Rests, v
    <3>2. RestsAt(u, c, Allowed(pending_[c], uplink[c]))
      BY <2>10, <3>1 DEF RestsAt, Present
    <3> QED
      BY <1>1, <2>9, <3>2 DEF Rests, clientVars
  <2>14. ClientFits(c)'
    BY <1>1, <2>1, <2>2, <2>7 DEF SInv, ClientFits, clientVars
  <2>15. AcceptFirst(c)'
    <3>1. \A e, d : Fits(v, c, e, d) => e.session # c
      BY <2>10, NobodyYet DEF v
    <3>2. \A i \in DOMAIN event_queue[W] : event_queue[W][i].session # c
      BY <2>1, <2>3, <3>1 DEF SInv, QueuedFit, WaitsWell, v
    <3>3. event[W].session # c
      BY <2>1, <2>3, <3>1 DEF SInv, HandsFit, v
    <3>4. ASSUME NEW j \in DOMAIN event_queue'[W], IsAccept(event_queue'[W][j], c)
          PROVE  /\ event_queue'[W][j].current_action = 0
                 /\ \A i \in DOMAIN event_queue'[W] : i < j => event_queue'[W][i].session # c
      <4>1. j = Len(event_queue[W]) + 1
        BY <2>4, <3>2, <3>4 DEF IsAccept
      <4>2. event_queue'[W][j].current_action = 0
        BY <1>2, <2>4, <4>1
      <4>3. \A i \in DOMAIN event_queue'[W] : i < j => i \in DOMAIN event_queue[W]
        BY <2>3, <2>4, <4>1
      <4> QED
        BY <2>4, <3>2, <4>2, <4>3
    <3> QED
      BY <1>1, <3>3, <3>4 DEF AcceptFirst, FirstOf
  <2>16. DueOut(c)'
    BY <1>1, <2>1, <2>6 DEF SInv, DueOut
  <2>17. Patient(c)'
    BY <1>1, <2>8 DEF Patient, clientVars
  <2> QED
    BY <2>1, <2>11, <2>12, <2>13, <2>14, <2>15, <2>16, <2>17 DEF SInv, PlacesFit
<1> QED
  BY <1>4, <1>5, <1>6 DEF CInv

-----------------------------------------------------------------------------
(***************************************************************************)
(* Rooms.                                                                  *)
(***************************************************************************)
\* join_session puts one session into one room and counts it.
LEMMA RoomJoined ==
  ASSUME IInv, RoomsExact, NEW w \in Workers, NEW room \in rooms[w], NEW s \in Sessions,
         s \notin sessions[w][room], join_session(w, s, room)
  PROVE  /\ RoomsExact'
         /\ \A v \in Workers : v # w => rooms'[v] = rooms[v] /\ sessions'[v] = sessions[v]
         /\ \A v \in Workers, r \in RoomIds :
              sessions'[v][r] = IF v = w /\ r = room THEN sessions[v][r] \cup {s} ELSE sessions[v][r]
<1>1. /\ sessions \in [Workers -> [RoomIds -> SUBSET Sessions]]
      /\ current_sessions \in [Workers -> [RoomIds -> Int]]
      /\ rooms \in [Workers -> SUBSET RoomIds] /\ room \in RoomIds
      /\ IsFiniteSet(sessions[w][room])
  BY DEF IInv, StateTypeOK, CountInv
<1>2. /\ sessions' = [sessions EXCEPT ![w][room] = @ \cup {s}]
      /\ current_sessions' = [current_sessions EXCEPT ![w][room] = @ + 1]
      /\ rooms' = rooms
  BY DEF join_session
<1>3. \A v \in Workers : v # w => rooms'[v] = rooms[v] /\ sessions'[v] = sessions[v]
  BY <1>1, <1>2
<1>4. ASSUME NEW v \in Workers, NEW r \in RoomIds
      PROVE  /\ sessions'[v][r] =
                  IF v = w /\ r = room THEN sessions[v][r] \cup {s} ELSE sessions[v][r]
             /\ current_sessions'[v][r] =
                  IF v = w /\ r = room THEN current_sessions[v][r] + 1 ELSE current_sessions[v][r]
  BY <1>1, <1>2
<1>5. Cardinality(sessions[w][room] \cup {s}) = Cardinality(sessions[w][room]) + 1
  BY <1>1, FS_AddElement
<1>6. RoomsExact'
  BY <1>2, <1>4, <1>5 DEF RoomsExact
<1> QED
  BY <1>3, <1>4, <1>6

\* leave_room takes one session out of one room, whether or not the room goes.
LEMMA RoomLeft ==
  ASSUME IInv, RoomsExact, NEW w \in Workers, NEW room \in rooms[w], NEW s \in sessions[w][room],
         leave_room(w, s, room)
  PROVE  /\ RoomsExact'
         /\ \A v \in Workers : v # w => rooms'[v] = rooms[v] /\ sessions'[v] = sessions[v]
         /\ \A v \in Workers, r \in RoomIds :
              sessions'[v][r] = IF v = w /\ r = room THEN sessions[v][r] \ {s} ELSE sessions[v][r]
<1>1. /\ sessions \in [Workers -> [RoomIds -> SUBSET Sessions]]
      /\ current_sessions \in [Workers -> [RoomIds -> Int]]
      /\ rooms \in [Workers -> SUBSET RoomIds] /\ room \in RoomIds
      /\ IsFiniteSet(sessions[w][room])
  BY DEF IInv, StateTypeOK, CountInv
<1>2. current_sessions[w][room] = Cardinality(sessions[w][room])
  BY <1>1 DEF RoomsExact
<1>3. /\ Cardinality(sessions[w][room]) \in Nat /\ IsFiniteSet(sessions[w][room] \ {s})
      /\ Cardinality(sessions[w][room] \ {s}) = Cardinality(sessions[w][room]) - 1
      /\ Cardinality(sessions[w][room] \ {s}) \in Nat
  BY <1>1, FS_RemoveElement, FS_CardinalityType
<1>4. CASE Vacated(w, room)
  <2>1. /\ rooms' = [rooms EXCEPT ![w] = @ \ {room}]
        /\ sessions' = [sessions EXCEPT ![w][room] = {}]
        /\ current_sessions' = [current_sessions EXCEPT ![w][room] = 0]
        /\ w # LOBBY_WORKER_ID
    BY <1>4 DEF leave_room, Vacated
  <2>2. Cardinality(sessions[w][room] \ {s}) = 0
    BY <1>2, <1>3, <1>4 DEF Vacated
  <2>3. sessions[w][room] \ {s} = {}
    BY <1>3, <2>2, FS_EmptySet
  <2>4. /\ \A v \in Workers : v # w => rooms'[v] = rooms[v] /\ sessions'[v] = sessions[v]
        /\ rooms'[w] = rooms[w] \ {room}
    BY <1>1, <2>1
  <2>5. ASSUME NEW v \in Workers, NEW r \in RoomIds
        PROVE  /\ sessions'[v][r] =
                    IF v = w /\ r = room THEN sessions[v][r] \ {s} ELSE sessions[v][r]
               /\ current_sessions'[v][r] = IF v = w /\ r = room THEN 0 ELSE current_sessions[v][r]
    BY <1>1, <2>1, <2>3
  <2>6. RoomsExact'
    <3>1. LOBBY_ROOM_ID \in rooms'[LOBBY_WORKER_ID]
      BY <2>1, <2>4, ConstantFacts DEF RoomsExact
    <3>2. ASSUME NEW v \in Workers, NEW r \in RoomIds
          PROVE  /\ r \notin rooms'[v] => sessions'[v][r] = {}
                 /\ current_sessions'[v][r] = Cardinality(sessions'[v][r])
      <4>1. CASE v = w /\ r = room
        <5>1. sessions'[v][r] = sessions[w][room] \ {s} /\ current_sessions'[v][r] = 0
          BY <2>5, <4>1
        <5> QED
          BY <2>2, <2>3, <5>1
      <4>2. CASE ~(v = w /\ r = room)
        <5>1. /\ sessions'[v][r] = sessions[v][r] /\ current_sessions'[v][r] = current_sessions[v][r]
          BY <2>5, <4>2
        <5>2. r \notin rooms'[v] => r \notin rooms[v]
          BY <2>4, <4>2
        <5>3. current_sessions[v][r] = Cardinality(sessions[v][r])
          BY DEF RoomsExact
        <5>4. r \notin rooms[v] => sessions[v][r] = {}
          BY DEF RoomsExact
        <5> QED
          BY <5>1, <5>2, <5>3, <5>4
      <4> QED
        BY <4>1, <4>2
    <3> QED
      BY <3>1, <3>2 DEF RoomsExact
  <2> QED
    BY <2>4, <2>5, <2>6
<1>5. CASE ~Vacated(w, room)
  <2>1. /\ sessions' = [sessions EXCEPT ![w][room] = @ \ {s}]
        /\ current_sessions' = [current_sessions EXCEPT ![w][room] = @ - 1]
        /\ rooms' = rooms
    BY <1>5 DEF leave_room
  <2>2. \A v \in Workers : v # w => rooms'[v] = rooms[v] /\ sessions'[v] = sessions[v]
    BY <1>1, <2>1
  <2>3. ASSUME NEW v \in Workers, NEW r \in RoomIds
        PROVE  /\ sessions'[v][r] =
                    IF v = w /\ r = room THEN sessions[v][r] \ {s} ELSE sessions[v][r]
               /\ current_sessions'[v][r] =
                    IF v = w /\ r = room THEN current_sessions[v][r] - 1 ELSE current_sessions[v][r]
    BY <1>1, <2>1
  <2>4. RoomsExact'
    BY <1>2, <1>3, <2>1, <2>3 DEF RoomsExact
  <2> QED
    BY <2>2, <2>3, <2>4
<1> QED
  BY <1>4, <1>5

\* CREATE_ROOM makes an empty room that was not there: nobody moves, and the creator
\* finds it empty.
LEMMA CreateRoomSound ==
  ASSUME Sound, IInv', Counted', UNCHANGED clientVars, NEW w \in Workers, CreateRoom(w)
  PROVE  CInv'
<1> DEFINE room == NextAction(event[w]).target_room_id
           e == event[w]
<1>1. At(w, "CREATE_ROOM") /\ IInv /\ RInv /\ RoomsExact
  BY DEF CreateRoom, Sound, CInv
<1>2. /\ e \in RunnableEvents /\ e \in RoomEvents /\ HasNextAction(e) /\ NotFailed(e)
      /\ NextAction(e).command = "CREATE_ROOM" /\ pc[w] = "run"
  BY <1>1, AtFacts DEF At
<1>3. room \in RoomIds
  BY <1>2, NextFacts
<1>4. room \notin rooms[w]
  BY <1>1, FindsNoRoom DEF CreateFindsNoRoom
<1>5. /\ rooms' = [rooms EXCEPT ![w] = @ \cup {room}]
      /\ sessions' = [sessions EXCEPT ![w][room] = {}]
      /\ current_sessions' = [current_sessions EXCEPT ![w][room] = 0]
      /\ Continue(w, "Success")
      /\ UNCHANGED <<conn, main, current_room, routing, event_queue, job_queue, sent>>
  BY <1>4 DEF CreateRoom, mainVars, dbVars
<1> HIDE DEF room, e
<1>6. /\ sessions \in [Workers -> [RoomIds -> SUBSET Sessions]]
      /\ current_sessions \in [Workers -> [RoomIds -> Int]]
      /\ rooms \in [Workers -> SUBSET RoomIds]
  BY <1>1 DEF IInv, StateTypeOK
<1>7. sessions[w][room] = {} /\ current_sessions[w][room] = 0
  <2>1. sessions[w][room] = {}
    BY <1>1, <1>3, <1>4 DEF RoomsExact
  <2>2. current_sessions[w][room] = Cardinality(sessions[w][room])
    BY <1>1, <1>3 DEF RoomsExact
  <2>3. Cardinality({}) = 0
    BY FS_EmptySet
  <2> QED
    BY <2>1, <2>2, <2>3
<1>8. \A v \in Workers, r \in RoomIds :
        /\ sessions'[v][r] = sessions[v][r] /\ current_sessions'[v][r] = current_sessions[v][r]
  BY <1>3, <1>5, <1>6, <1>7
<1>9. /\ \A v \in Workers : v # w => rooms'[v] = rooms[v] /\ sessions'[v] = sessions[v]
      /\ rooms'[w] = rooms[w] \cup {room}
  BY <1>5, <1>6
<1>10. RoomsExact'
  BY <1>1, <1>8, <1>9, ConstantFacts DEF RoomsExact
<1>11. Fresh'
  <2> DEFINE f == Advanced(e, "Success")
             s == e.session
  <2>1. /\ f.actions = e.actions /\ f.current_action = e.current_action + 1
        /\ f.initial_command = e.initial_command /\ f.session = e.session
    BY <1>2, AdvancedFields
  <2>2. ASSUME s \in Sessions, e.initial_command = "CMD_CREATE_ROOM"
        PROVE  NextAction(f).target_room_id = room
    <3>1. IsRequestOf(e, s)
      BY <2>2 DEF IsRequestOf, UNINITIALIZED
    <3>2. Fits(View(s), s, e, e.current_action)
      BY <1>1, <1>2, <2>2, HandFits DEF Sound, CInv, SInv, e
    <3>3. StageOK(View(s), s, e, e.current_action)
      BY <3>1, <3>2 DEF Fits
    <3>4. e.current_action = 1 /\ e.actions[3].target_room_id = NextAction(e).target_room_id
      BY <1>2, <3>3, PlanFacts DEF StageOK
    <3> QED
      BY <2>1, <3>4 DEF NextAction, room, e
  <2> HIDE DEF f, s
  <2>3. FreshAt(f, "run", rooms'[w], sessions'[w])
    BY <1>3, <1>7, <1>8, <1>9, <2>1, <2>2 DEF FreshAt, s
  <2> QED
    BY <1>1, <1>5, <1>9, <2>3, HandFresh DEF Continue, Sound, CInv, f, e
<1>12. ASSUME NEW s \in Sessions PROVE SInv(s)'
  <2>1. SInv(s) /\ Sole(s)' /\ HandsFit(s)
    BY DEF Sound, CInv, SInv, Counted
  <2>2. Unmoved(s)
    BY <1>5, <1>8 DEF Unmoved, Link
  <2>3. QuietHand(View(s), s) /\ LobbyQuiet(s)
    BY <1>1, <1>2, <1>5, <2>1, GoOnQuietly DEF e
  <2>4. /\ SameClient(s) /\ QuietRouted(View(s), s) /\ QuietQueued(View(s), s)
        /\ QuietSent(View(s), s) /\ QuietJobs(View(s), s)
    BY <1>5, SameQuiet
  <2> QED
    BY <1>1, <2>1, <2>2, <2>3, <2>4, UnmovedKept
<1> QED
  BY <1>10, <1>11, <1>12 DEF CInv

-----------------------------------------------------------------------------
(***************************************************************************)
(* The request of a session is in one place.                               *)
(***************************************************************************)
LEMMA SoleEvent ==
  ASSUME NEW s \in Sessions, Sole(s), NEW w \in Workers, IsRequestOf(event[w], s)
  PROVE  /\ Allowed(pending_[s], uplink[s]) = 1
         /\ AnswersOf(sent[s]) = {}
         /\ \A t \in Threads : ~IsRequestOf(routing[t].event, s)
         /\ \A v \in Workers : v # w => ~IsRequestOf(event[v], s)
         /\ \A v \in Workers : \A i \in DOMAIN event_queue[v] : ~IsRequestOf(event_queue[v][i], s)
         /\ \A i \in DOMAIN job_queue : ~IsRequestOf(job_queue[i].event, s)
<1> DEFINE P == Places(routing, event_queue, event, job_queue, s)
           A == AnswersOf(sent[s])
           n == Allowed(pending_[s], uplink[s])
           p == <<"event", w, 0>>
<1>1. IsFiniteSet(P) /\ IsFiniteSet(A) /\ Cardinality(A) + Cardinality(P) <= n
  BY DEF Sole, Kept, Balanced
<1>2. p \in P
  BY PlaceFacts
<1>3. n \in {0, 1}
  BY DEF Allowed
<1>4. /\ \A t \in Threads : IsRequestOf(routing[t].event, s) => <<"routing", t, 0>> \in P
      /\ \A v \in Workers : IsRequestOf(event[v], s) => <<"event", v, 0>> \in P
      /\ \A v \in Workers : \A i \in DOMAIN event_queue[v] :
           IsRequestOf(event_queue[v][i], s) => <<"queue", v, i>> \in P
      /\ \A i \in DOMAIN job_queue : IsRequestOf(job_queue[i].event, s) => <<"job", 0, i>> \in P
  BY PlaceFacts
<1> HIDE DEF P, A, n
<1>5. /\ Cardinality(P) \in Nat /\ Cardinality(A) \in Nat
      /\ IsFiniteSet(P \ {p}) /\ Cardinality(P \ {p}) = Cardinality(P) - 1
      /\ Cardinality(P \ {p}) \in Nat
  BY <1>1, <1>2, FS_RemoveElement, FS_CardinalityType
<1>6. n = 1 /\ Cardinality(A) = 0 /\ Cardinality(P \ {p}) = 0
  BY <1>1, <1>3, <1>5
<1>7. A = {} /\ P \ {p} = {}
  BY <1>1, <1>5, <1>6, FS_EmptySet
<1>8. \A q \in P : q = p
  BY <1>7
<1> QED
  BY <1>4, <1>6, <1>7, <1>8 DEF n, A

\* A client that waits for nothing has nothing anywhere.
LEMMA NothingHeld ==
  ASSUME NEW s \in Sessions, NEW q, Balanced(routing, event_queue, event, job_queue, q, 0, s)
  PROVE  /\ AnswersOf(q) = {}
         /\ \A t \in Threads : ~IsRequestOf(routing[t].event, s)
         /\ \A v \in Workers : ~IsRequestOf(event[v], s)
         /\ \A v \in Workers : \A i \in DOMAIN event_queue[v] : ~IsRequestOf(event_queue[v][i], s)
         /\ \A i \in DOMAIN job_queue : ~IsRequestOf(job_queue[i].event, s)
<1> DEFINE P == Places(routing, event_queue, event, job_queue, s)
           A == AnswersOf(q)
<1>1. IsFiniteSet(P) /\ IsFiniteSet(A) /\ Cardinality(A) + Cardinality(P) <= 0
  BY DEF Balanced
<1>2. /\ \A t \in Threads : IsRequestOf(routing[t].event, s) => <<"routing", t, 0>> \in P
      /\ \A v \in Workers : IsRequestOf(event[v], s) => <<"event", v, 0>> \in P
      /\ \A v \in Workers : \A i \in DOMAIN event_queue[v] :
           IsRequestOf(event_queue[v][i], s) => <<"queue", v, i>> \in P
      /\ \A i \in DOMAIN job_queue : IsRequestOf(job_queue[i].event, s) => <<"job", 0, i>> \in P
  BY PlaceFacts
<1> HIDE DEF P, A
<1>3. Cardinality(P) \in Nat /\ Cardinality(A) \in Nat
  BY <1>1, FS_CardinalityType
<1>4. Cardinality(P) = 0 /\ Cardinality(A) = 0
  BY <1>1, <1>3
<1>5. A = {} /\ P = {}
  BY <1>1, <1>4, FS_EmptySet
<1> QED
  BY <1>2, <1>5 DEF A

\* An answer that fits is counted.
LEMMA AnswerCounted ==
  ASSUME NEW v, NEW s, NEW p, AnswerOK(v, s, p)
  PROVE  p.command # UNINITIALIZED
BY AsksFacts DEF AnswerOK

\* What an event that is no request of the session means for it depends only on
\* whether the session is connected.
LEMMA FitsBystander ==
  ASSUME NEW v, NEW u, u.link = v.link, NEW s, NEW e, ~IsRequestOf(e, s), NEW d, Fits(v, s, e, d)
  PROVE  \A c : Fits(u, s, e, c)
BY DEF Fits, Present

\* A step on the request of s that changes where s is or what the server knows of it.
LEMMA SessionMoved ==
  ASSUME IInv, IInv', NEW s \in Sessions, SInv(s), SameClient(s), LobbyQuiet(s),
         Link(s)' = Link(s), NEW w \in Workers, IsRequestOf(event[w], s),
         UNCHANGED <<routing, event_queue, job_queue>>,
         \A v \in Workers : v # w => event'[v] = event[v] /\ pc'[v] = pc[v],
         NEW u, u = View(s)', Fits(u, s, event'[w], Progress(event'[w], pc'[w])),
         Present(u) => sent'[s] = sent[s], Sole(s)', DueOut(s)'
  PROVE  SInv(s)'
<1> DEFINE v == View(s)
           W == LOBBY_WORKER_ID
<1>1. /\ Allowed(pending_[s], uplink[s]) = 1 /\ AnswersOf(sent[s]) = {}
      /\ \A t \in Threads : ~IsRequestOf(routing[t].event, s)
      /\ \A x \in Workers : x # w => ~IsRequestOf(event[x], s)
      /\ \A x \in Workers : \A i \in DOMAIN event_queue[x] : ~IsRequestOf(event_queue[x][i], s)
      /\ \A i \in DOMAIN job_queue : ~IsRequestOf(job_queue[i].event, s)
  BY SoleEvent DEF SInv
<1>2. u.link = v.link /\ v.link = Link(s) /\ u.link = Link(s)'
  BY DEF View
<1>3. /\ RoutedFit(s) /\ JobsFit(s) /\ QueuedFit(s) /\ HandsFit(s) /\ AnswersFit(s)
      /\ ClientFits(s) /\ AcceptFirst(s) /\ Patient(s)
  BY DEF SInv
<1> HIDE DEF v
<1>4. \A e, d : ~IsRequestOf(e, s) /\ Fits(v, s, e, d) => \A c : Fits(u, s, e, c)
  BY <1>2, FitsBystander
<1>5. RoutedFit(s)'
  BY <1>1, <1>3, <1>4 DEF RoutedFit, RidesWell, v
<1>6. JobsFit(s)'
  BY <1>1, <1>3, <1>4 DEF JobsFit, RidesWell, v
<1>7. QueuedFit(s)'
  BY <1>1, <1>3, <1>4 DEF QueuedFit, WaitsWell, v
<1>8. HandsFit(s)'
  <2>1. ASSUME NEW x \in Workers PROVE Fits(u, s, event'[x], Progress(event'[x], pc'[x]))
    <3>1. CASE x = w
      BY <3>1
    <3>2. CASE x # w
      BY <1>1, <1>3, <1>4, <3>2 DEF HandsFit, v
    <3> QED
      BY <3>1, <3>2
  <2> QED
    BY <2>1 DEF HandsFit
<1>9. AnswersFit(s)'
  <2> SUFFICES ASSUME Present(u), NEW i \in DOMAIN sent'[s], IsResponse(sent'[s][i])
               PROVE  AnswerOK(u, s, sent'[s][i])
    BY DEF AnswersFit
  <2>1. sent'[s] = sent[s] /\ Present(v)
    BY <1>2 DEF Present
  <2>2. AnswerOK(v, s, sent[s][i])
    BY <1>3, <2>1 DEF AnswersFit, v
  <2>3. i \in AnswersOf(sent[s])
    BY <2>1, <2>2, AnswerCounted DEF AnswersOf
  <2> QED
    BY <1>1, <2>3
<1>10. Rests(s)'
  BY <1>1 DEF Rests, RestsAt, SameClient
<1>11. ClientFits(s)'
  <2>1. ShownRoom(s)' = ShownRoom(s)
    BY DEF SameClient, ShownRoom
  <2> QED
    BY <1>3, <2>1 DEF ClientFits, SameClient
<1>12. /\ FirstOf(event_queue'[W], event'[W], s)
       /\ NoAccept(event_queue[W], event[W], s) => NoAccept(event_queue'[W], event'[W], s)
  <2>1. event_queue[W] \in Seq(RunnableEvents) /\ event_queue'[W] \in Seq(RunnableEvents)
    BY ConstantFacts DEF IInv, EventInv
  <2> QED
    BY <1>3, <2>1, LobbyKept DEF AcceptFirst, LobbyQuiet
<1>13. AcceptFirst(s)'
  BY <1>12 DEF AcceptFirst
<1>14. Patient(s)'
  <2> SUFFICES ASSUME s \notin Hurried, ~Settled(s)', Link(s)' \in {"none", "open"}
               PROVE  FALSE
    BY DEF Patient
  <2>1. pending_[s] # NoPending
    BY <1>1 DEF Allowed
  <2>2. Settled(s)
    BY <1>3, <2>1 DEF Patient
  <2>3. main.fd # s /\ main'.fd # s
    BY DEF Link
  <2>4. conn'[s] = conn[s]
    BY <2>3 DEF Link
  <2> QED
    BY <1>12, <2>2, <2>4 DEF Settled, NoAccept
<1> QED
  BY <1>5, <1>6, <1>7, <1>8, <1>9, <1>10, <1>11, <1>13, <1>14 DEF SInv

-----------------------------------------------------------------------------
(***************************************************************************)
(* JOIN_ROOM.                                                              *)
(***************************************************************************)
\* What the theorems need of the constants: nobody is turned away from the lobby, a
\* new room takes its creator, and the history of a room can be read.
Ample ==
  /\ IsFiniteSet(Sessions) /\ Cardinality(Sessions) <= MAX_LOBBY_SESSIONS
  /\ MAX_SESSIONS >= 1
  /\ "LoadHistory" \notin DbFailures

\* An event that joins the lobby, at the switch or half way, is at the lobby's worker.
LEMMA LobbyOwner ==
  ASSUME IInv, RInv, NEW w \in Workers, HalfWay(w, "JOIN_ROOM"),
         NextAction(event[w]).target_room_id = LOBBY_ROOM_ID
  PROVE  w = LOBBY_WORKER_ID
<1> DEFINE acts == event[w].actions
           c == event[w].current_action
           i == c + 1
<1>1. /\ event[w] \in RunnableEvents /\ event[w] \in RoomEvents
      /\ HasNextAction(event[w]) /\ NotFailed(event[w])
      /\ NextAction(event[w]).command = "JOIN_ROOM"
      /\ EventOK(w, event[w], room_to_worker, rooms, room_seq)
      /\ room_to_worker[LOBBY_ROOM_ID] = LOBBY_WORKER_ID
  BY DEF HalfWay, IInv, EventInv, RInv, HandOK, TableInv, RunnableEvents, FormedEvents
<1>2. /\ i \in DOMAIN acts /\ acts[i] = NextAction(event[w])
      /\ c \in Nat /\ DOMAIN acts \subseteq Nat
  BY <1>1, NextFacts DEF NextAction, RoomEvents
<1>3. c < i /\ \A k \in DOMAIN acts : ~(c < k /\ k < i)
  BY <1>2
<1> HIDE DEF i
<1>4. Reached(acts, c, i) /\ acts[i].target_room_id = LOBBY_ROOM_ID
  BY <1>1, <1>2, <1>3 DEF Reached, RoomBound
<1>5. Serves(acts, c, LOBBY_ROOM_ID)
  BY <1>2, <1>4 DEF Serves
<1>6. room_to_worker[LOBBY_ROOM_ID] \in {w, NO_WORKER}
  BY <1>1, <1>5, ConstantFacts DEF EventOK
<1> QED
  BY <1>1, <1>6, ConstantFacts

\* Who joins, and that she is not there yet.
LEMMA JoinFacts ==
  ASSUME Sound, NEW w \in Workers, At(w, "JOIN_ROOM"),
         NEW room, room = NextAction(event[w]).target_room_id, NEW c, c = event[w].session
  PROVE  /\ c \in Sessions /\ room \in RoomIds
         /\ event[w] \in RunnableEvents /\ event[w] \in RoomEvents
         /\ IsAccept(event[w], c) \/ IsRequestOf(event[w], c)
         /\ ~(IsAccept(event[w], c) /\ IsRequestOf(event[w], c))
         /\ IsAccept(event[w], c) =>
              /\ room = LOBBY_ROOM_ID /\ w = LOBBY_WORKER_ID
              /\ event[w].current_action = 0 /\ LobbyDue(c)
         /\ IsRequestOf(event[w], c) =>
              /\ StageOK(View(c), c, event[w], event[w].current_action)
              /\ room \notin Whereabouts(c)
         /\ c \notin sessions[w][room]
<1> DEFINE e == event[w]
<1>1. /\ pc[w] = "run" /\ HasNextAction(e) /\ NotFailed(e) /\ NextAction(e).command = "JOIN_ROOM"
      /\ IInv /\ RInv /\ e \in RunnableEvents /\ e \in RoomEvents
  BY AtFacts DEF At, Sound
<1>2. c \in Sessions /\ room \in RoomIds
  BY <1>1, NextFacts
<1>3. SInv(c) /\ HandsFit(c)
  BY <1>2 DEF Sound, CInv, SInv
<1>4. IsAccept(e, c) \/ IsRequestOf(e, c)
  BY DEF IsAccept, IsRequestOf
<1>5. ASSUME IsAccept(e, c)
      PROVE  /\ room = LOBBY_ROOM_ID /\ w = LOBBY_WORKER_ID
             /\ e.current_action = 0 /\ LobbyDue(c) /\ c \notin sessions[w][room]
  <2>1. room = LOBBY_ROOM_ID /\ e.current_action = 0
    BY <1>1, <1>2, <1>3, <1>5, AcceptHand
  <2>2. w = LOBBY_WORKER_ID
    BY <1>1, <2>1, LobbyOwner DEF HalfWay
  <2>3. LobbyDue(c)
    BY <1>1, <1>5, <2>1, <2>2 DEF LobbyDue, Waits
  <2>4. DueOut(c)
    BY <1>3 DEF SInv
  <2> QED
    BY <2>1, <2>2, <2>3, <2>4 DEF DueOut
<1>6. ASSUME IsRequestOf(e, c)
      PROVE  /\ StageOK(View(c), c, e, e.current_action)
             /\ room \notin Whereabouts(c) /\ c \notin sessions[w][room]
  <2>1. StageOK(View(c), c, e, e.current_action)
    BY <1>1, <1>2, <1>3, <1>6, HandFits DEF Fits
  <2>2. room \notin View(c).at
    BY <1>1, <2>1, NotThereYet
  <2>3. room \notin Whereabouts(c)
    BY <2>2 DEF View
  <2> QED
    BY <1>2, <2>1, <2>3 DEF Whereabouts, InRooms
<1> QED
  BY <1>1, <1>2, <1>4, <1>5, <1>6 DEF IsAccept, IsRequestOf

\* Only a session that is told nothing but its own room can be turned away.
LEMMA JoinFails ==
  ASSUME Ample, Sound, NEW w \in Workers, At(w, "JOIN_ROOM"),
         NEW room, room = NextAction(event[w]).target_room_id,
         room \notin rooms[w] \/ Full(w, room), NEW s \in Sessions
  PROVE  /\ ~IsAccept(event[w], s)
         /\ IsRequestOf(event[w], s) =>
              /\ event[w].response_data = EmptyBody
              /\ Entered(event[w].actions, event[w].current_action) = {}
<1> DEFINE e == event[w]
           c == e.session
<1>1. /\ c \in Sessions /\ room \in RoomIds /\ e \in RunnableEvents /\ e \in RoomEvents
      /\ IsAccept(e, c) => room = LOBBY_ROOM_ID /\ w = LOBBY_WORKER_ID
      /\ IsRequestOf(e, c) => StageOK(View(c), c, e, e.current_action)
      /\ c \notin sessions[w][room]
  BY JoinFacts
<1>2. /\ pc[w] = "run" /\ HasNextAction(e) /\ NotFailed(e) /\ NextAction(e).command = "JOIN_ROOM"
  BY DEF At
<1>3. /\ RoomsExact /\ Fresh /\ sessions[w][room] \subseteq Sessions
      /\ current_sessions[w][room] = Cardinality(sessions[w][room])
  <2>1. RoomsExact /\ Fresh
    BY DEF Sound, CInv
  <2>2. sessions[w][room] \subseteq Sessions
    BY <1>1 DEF Sound, IInv, StateTypeOK
  <2>3. current_sessions[w][room] = Cardinality(sessions[w][room])
    BY <1>1, <2>1 DEF RoomsExact
  <2> QED
    BY <2>1, <2>2, <2>3
<1>4. Cardinality(Sessions) \in Nat /\ Cardinality(Sessions) >= 1
  <2>1. /\ Cardinality(Sessions) \in Nat /\ Cardinality(Sessions \ {c}) = Cardinality(Sessions) - 1
        /\ IsFiniteSet(Sessions \ {c}) /\ Cardinality(Sessions \ {c}) \in Nat
    BY <1>1, FS_RemoveElement, FS_CardinalityType DEF Ample
  <2> QED
    BY <2>1
<1>5. ASSUME IsAccept(e, s) PROVE FALSE
  <2>1. c = s /\ room = LOBBY_ROOM_ID /\ w = LOBBY_WORKER_ID
    BY <1>1, <1>5 DEF IsAccept
  <2>2. Full(w, room)
    BY <1>3, <2>1 DEF RoomsExact
  <2>3. IsFiniteSet(Sessions \ {c}) /\ Cardinality(Sessions \ {c}) = Cardinality(Sessions) - 1
    BY <1>1, FS_RemoveElement DEF Ample
  <2>4. /\ sessions[w][room] \subseteq Sessions \ {c}
    BY <1>1, <1>3
  <2>5. /\ Cardinality(sessions[w][room]) <= Cardinality(Sessions \ {c})
        /\ IsFiniteSet(sessions[w][room])
    BY <2>3, <2>4, FS_Subset
  <2>6. Cardinality(sessions[w][room]) \in Nat
    BY <2>5, FS_CardinalityType
  <2>7. current_sessions[w][room] >= MAX_LOBBY_SESSIONS
    BY <2>1, <2>2 DEF Full, Capacity
  <2> QED
    BY <1>3, <1>4, <2>3, <2>5, <2>6, <2>7, CapacityAssumption DEF Ample
<1>6. ASSUME IsRequestOf(e, s)
      PROVE  e.response_data = EmptyBody /\ Entered(e.actions, e.current_action) = {}
  <2>1. c = s /\ StageOK(View(c), c, e, e.current_action)
    BY <1>1, <1>6 DEF IsRequestOf
  <2>2. /\ Entered(e.actions, e.current_action) = {}
        /\ e.current_action = 0 \/ (e.initial_command = "CMD_CREATE_ROOM" /\ e.current_action = 2)
    BY <1>1, <1>2, <2>1, PlanFacts DEF StageOK
  <2>3. ASSUME e.initial_command = "CMD_CREATE_ROOM", e.current_action = 2 PROVE FALSE
    <3>1. room \in rooms[w] /\ sessions[w][room] = {}
      BY <1>1, <1>2, <1>3, <2>3 DEF Fresh, FreshAt
    <3>2. current_sessions[w][room] = 0
      BY <1>3, <3>1, FS_EmptySet
    <3>3. Capacity(w) >= 1
      BY <1>4, CapacityAssumption DEF Ample, Capacity
    <3> QED
      BY <3>1, <3>2, <3>3, ConstantFacts DEF Full
  <2> QED
    BY <2>1, <2>2, <2>3 DEF StageOK
<1> QED
  BY <1>5, <1>6

\* Whether the lobby is still due does not change under a quiet step.
LEMMA DueKept ==
  ASSUME IInv, IInv', NEW s \in Sessions, AcceptFirst(s), LobbyQuiet(s), Link(s)' = Link(s)
  PROVE  LobbyDue(s)' <=> LobbyDue(s)
<1> DEFINE W == LOBBY_WORKER_ID
<1>1. event_queue[W] \in Seq(RunnableEvents) /\ event_queue'[W] \in Seq(RunnableEvents)
  BY ConstantFacts DEF IInv, EventInv
<1>2. Waits(event_queue'[W], event'[W], pc'[W], s) <=> Waits(event_queue[W], event[W], pc[W], s)
  BY <1>1, LobbyKept DEF AcceptFirst, LobbyQuiet
<1>3. LobbyDue(s)' <=> Link(s)' = "none" \/ Waits(event_queue'[W], event'[W], pc'[W], s)
  BY DEF LobbyDue
<1>4. LobbyDue(s) <=> Link(s) = "none" \/ Waits(event_queue[W], event[W], pc[W], s)
  BY DEF LobbyDue
<1> QED
  BY <1>2, <1>3, <1>4

\* The hand of a worker after the first half of join_room, whether or not the user is
\* still known: for a session that the event is not about, nothing new.
LEMMA JoinsQuietly ==
  ASSUME Sound, NEW w \in Workers, At(w, "JOIN_ROOM"), NEW s \in Sessions,
         ~IsRequestOf(event[w], s),
         \/ pc' = [pc EXCEPT ![w] = "set_current_room"] /\ UNCHANGED event
         \/ Return(w)
  PROVE  QuietHand(View(s), s)
<1>1. IInv /\ HandsFit(s) /\ pc[w] = "run"
  BY DEF Sound, CInv, SInv, At
<1>2. CASE Return(w)
  BY <1>1, <1>2, DropQuietly
<1>3. CASE pc' = [pc EXCEPT ![w] = "set_current_room"] /\ UNCHANGED event
  <2>1. event' = [event EXCEPT ![w] = event[w]]
    BY <1>1, <1>3 DEF IInv, EventInv
  <2>2. Fits(View(s), s, event[w], event[w].current_action)
    BY <1>1, HandFits
  <2>3. Fits(View(s), s, event[w], Progress(event[w], "set_current_room"))
    BY <2>2, FitsBystander
  <2> QED
    BY <1>1, <1>3, <2>1, <2>3, HandQuietly
<1> QED
  BY <1>2, <1>3

\* A session that the join is not about.
LEMMA JoinOthers ==
  ASSUME Sound, IInv', Counted', UNCHANGED clientVars, NEW w \in Workers, At(w, "JOIN_ROOM"),
         NEW room \in RoomIds, NEW s \in Sessions, s # event[w].session,
         \/ pc' = [pc EXCEPT ![w] = "set_current_room"] /\ UNCHANGED <<event, sent>>
         \/ \E res : Fail(w, res),
         UNCHANGED <<conn, main, current_room, routing, event_queue, job_queue>>,
         \A v \in Workers, r \in RoomIds :
           sessions'[v][r] = IF v = w /\ r = room THEN sessions[v][r] \cup {event[w].session}
                                                  ELSE sessions[v][r]
  PROVE  SInv(s)'
<1> DEFINE e == event[w]
           c == event[w].session
<1>1. SInv(s) /\ Sole(s)' /\ IInv
  BY DEF Sound, CInv, Counted
<1>2. Unmoved(s)
  <2>1. \A v \in Workers, r \in RoomIds : s \in sessions'[v][r] <=> s \in sessions[v][r]
    OBVIOUS
  <2> QED
    BY <2>1 DEF Unmoved, Link
<1>3. ~IsRequestOf(e, s) /\ ~IsAccept(e, s)
  BY DEF IsRequestOf, IsAccept
<1>4. QuietHand(View(s), s)
  BY <1>3, JoinsQuietly DEF Fail
<1>5. LobbyQuiet(s) /\ QuietSent(View(s), s)
  <2>1. CASE pc' = [pc EXCEPT ![w] = "set_current_room"] /\ UNCHANGED <<event, sent>>
    <3>1. event' = [event EXCEPT ![w] = event[w]]
      BY <1>1, <2>1 DEF IInv, EventInv
    <3>2. QuietSent(View(s), s)
      BY <2>1, SameQuiet
    <3> QED
      BY <1>1, <1>3, <2>1, <3>1, <3>2, HandQuietly DEF InTurn
  <2>2. ASSUME NEW res, Fail(w, res) PROVE LobbyQuiet(s) /\ QuietSent(View(s), s)
    <3>1. Return(w) /\ send_response(e, res)
      BY <2>2 DEF Fail
    <3>2. LobbyQuiet(s)
      BY <1>1, <1>3, <3>1, DropQuietly DEF InTurn
    <3>3. QuietSent(View(s), s)
      BY <1>3, <3>1, AnswerQuietly
    <3> QED
      BY <3>2, <3>3
  <2> QED
    BY <2>1, <2>2
<1>6. SameClient(s) /\ QuietRouted(View(s), s) /\ QuietQueued(View(s), s) /\ QuietJobs(View(s), s)
  BY SameQuiet
<1> QED
  BY <1>1, <1>2, <1>4, <1>5, <1>6, UnmovedKept

\* The session whose request it is.
LEMMA JoinRequest ==
  ASSUME Sound, IInv', Counted', UNCHANGED clientVars, NEW w \in Workers, At(w, "JOIN_ROOM"),
         NEW room \in RoomIds, room = NextAction(event[w]).target_room_id,
         NEW s \in Sessions, s = event[w].session, IsRequestOf(event[w], s),
         \/ s \in Users /\ pc' = [pc EXCEPT ![w] = "set_current_room"] /\ UNCHANGED <<event, sent>>
         \/ s \notin Users /\ \E res : Fail(w, res),
         UNCHANGED <<conn, main, current_room, routing, event_queue, job_queue>>,
         \A v \in Workers, r \in RoomIds :
           sessions'[v][r] = IF v = w /\ r = room THEN sessions[v][r] \cup {s} ELSE sessions[v][r]
  PROVE  SInv(s)'
<1> DEFINE e == event[w]
           v == View(s)
<1>1. /\ s \in Sessions /\ room \in RoomIds /\ e \in RunnableEvents /\ e \in RoomEvents
      /\ StageOK(v, s, e, e.current_action) /\ room \notin Whereabouts(s)
  BY JoinFacts
<1>2. /\ SInv(s) /\ Sole(s)' /\ IInv /\ RInv /\ RoomsExact /\ HandsFit(s)
      /\ AcceptFirst(s) /\ DueOut(s)
  BY <1>1 DEF Sound, CInv, SInv, Counted
<1>3. /\ pc[w] = "run" /\ HasNextAction(e) /\ NotFailed(e) /\ NextAction(e).command = "JOIN_ROOM"
  BY DEF At
<1>4. ~IsAccept(e, s)
  BY DEF IsAccept, IsRequestOf
<1>5. LobbyQuiet(s)
  <2>1. CASE pc' = [pc EXCEPT ![w] = "set_current_room"] /\ UNCHANGED event
    <3>1. event' = [event EXCEPT ![w] = event[w]]
      BY <1>2, <2>1 DEF IInv, EventInv
    <3> QED
      BY <1>2, <1>4, <2>1, <3>1, HandQuietly DEF InTurn
  <2>2. CASE Return(w)
    BY <1>1, <1>2, <1>4, <2>2, DropQuietly DEF InTurn
  <2> QED
    BY <2>1, <2>2 DEF Fail
<1>6. Link(s)' = Link(s) /\ SameClient(s)
  BY SameQuiet DEF Link
<1>7. LobbyDue(s)' <=> LobbyDue(s)
  BY <1>1, <1>2, <1>5, <1>6, DueKept
<1>8. Whereabouts(s)' = Whereabouts(s) \cup {room}
  <2>1. ASSUME NEW r \in RoomIds
        PROVE  (\E x \in Workers : s \in sessions'[x][r])
                 <=> r = room \/ \E x \in Workers : s \in sessions[x][r]
    OBVIOUS
  <2>2. InRooms(s)' = InRooms(s) \cup {room}
    BY <1>1, <2>1 DEF InRooms
  <2> QED
    BY <1>7, <2>2 DEF Whereabouts
<1>9. PICK u : u = View(s)'
  OBVIOUS
<1>10. /\ u.link = v.link /\ u.shown = v.shown /\ u.pending = v.pending /\ u.cur = v.cur
       /\ u.at = v.at \cup {room} /\ v.link = Link(s)
  BY <1>6, <1>8, <1>9 DEF View, SameClient, ShownRoom
<1> HIDE DEF v
<1>11. DueOut(s)'
  <2>1. CASE LobbyDue(s)
    <3>1. room # LOBBY_ROOM_ID
      BY <1>1, <2>1 DEF Whereabouts
    <3>2. s \notin sessions[LOBBY_WORKER_ID][LOBBY_ROOM_ID]
      BY <1>2, <2>1 DEF DueOut
    <3> QED
      BY <3>1, <3>2, ConstantFacts DEF DueOut
  <2>2. CASE ~LobbyDue(s)
    BY <1>7, <2>2 DEF DueOut
  <2> QED
    BY <2>1, <2>2
<1>12. \A x \in Workers : x # w => event'[x] = event[x] /\ pc'[x] = pc[x]
  BY <1>2 DEF Fail, Return, IInv, StateTypeOK, EventInv
<1>13. /\ Fits(u, s, event'[w], Progress(event'[w], pc'[w]))
       /\ Present(u) => sent'[s] = sent[s]
  <2>1. CASE s \in Users /\ pc' = [pc EXCEPT ![w] = "set_current_room"] /\ UNCHANGED <<event, sent>>
    <3>1. event'[w] = e /\ pc'[w] = "set_current_room"
      BY <1>2, <2>1 DEF IInv, StateTypeOK
    <3>2. Progress(e, "set_current_room") = e.current_action + 1
      BY DEF Progress
    <3>3. StageOK(u, s, e, e.current_action + 1)
      BY <1>1, <1>3, <1>10, StageJoin DEF v
    <3>4. e.fd = s => ~Present(v)
      BY <1>1, <1>2, <1>3, HandFits DEF Fits, v
    <3>5. Fits(u, s, e, e.current_action + 1)
      BY <1>4, <1>10, <3>3, <3>4 DEF Fits, Present
    <3> QED
      BY <2>1, <3>1, <3>2, <3>5
  <2>2. CASE s \notin Users /\ \E res : Fail(w, res)
    <3>1. event'[w] = EmptyEvent
      BY <1>2, <2>2 DEF Fail, Return, IInv, EventInv
    <3>2. ~Present(u)
      BY <1>1, <1>10, <2>2 DEF Present, Link, Users, StageOK
    <3> QED
      BY <1>1, <3>1, <3>2, EmptyFits
  <2> QED
    BY <2>1, <2>2
<1> QED
  BY <1>1, <1>2, <1>5, <1>6, <1>9, <1>11, <1>12, <1>13, SessionMoved

\* The session that accept_client sent to the lobby: it was due there and now is there.
LEMMA JoinAccepted ==
  ASSUME Sound, IInv', Counted', UNCHANGED clientVars, NEW w \in Workers, At(w, "JOIN_ROOM"),
         NEW room \in RoomIds, room = NextAction(event[w]).target_room_id,
         NEW s \in Sessions, s = event[w].session, IsAccept(event[w], s),
         \/ s \in Users /\ pc' = [pc EXCEPT ![w] = "set_current_room"] /\ UNCHANGED <<event, sent>>
         \/ s \notin Users /\ \E res : Fail(w, res),
         UNCHANGED <<conn, main, current_room, routing, event_queue, job_queue>>,
         \A v \in Workers, r \in RoomIds :
           sessions'[v][r] = IF v = w /\ r = room THEN sessions[v][r] \cup {s} ELSE sessions[v][r]
  PROVE  SInv(s)'
<1> DEFINE e == event[w]
           v == View(s)
           W == LOBBY_WORKER_ID
<1>1. /\ s \in Sessions /\ room = LOBBY_ROOM_ID /\ w = W /\ LobbyDue(s) /\ ~IsRequestOf(e, s)
  BY JoinFacts
<1>2. /\ SInv(s) /\ Sole(s)' /\ IInv /\ HandsFit(s) /\ AcceptFirst(s) /\ Patient(s)
  BY <1>1 DEF Sound, CInv, SInv, Counted
<1>3. NotFailed(e) /\ Link(s) # "none"
  BY <1>1, <1>2, AcceptHand
<1>4. Link(s)' = Link(s) /\ SameClient(s)
  BY SameQuiet DEF Link
<1>5. \A i \in DOMAIN event_queue[W] : ~IsAccept(event_queue[W][i], s)
  BY <1>1, <1>2 DEF AcceptFirst, FirstOf
<1>6. event'[W] = EmptyEvent \/ pc'[W] = "set_current_room"
  BY <1>1, <1>2 DEF Fail, Return, IInv, EventInv, StateTypeOK
<1>7. ~LobbyDue(s)' /\ AcceptFirst(s)'
  <2>1. ~IsAccept(EmptyEvent, s)
    BY <1>1, SessionAssumption DEF IsAccept, EmptyEvent
  <2> QED
    BY <1>3, <1>4, <1>5, <1>6, <2>1 DEF LobbyDue, Waits, AcceptFirst, FirstOf
<1>8. Whereabouts(s)' = Whereabouts(s)
  <2>1. ASSUME NEW r \in RoomIds
        PROVE  (\E x \in Workers : s \in sessions'[x][r])
                 <=> r = room \/ \E x \in Workers : s \in sessions[x][r]
    OBVIOUS
  <2>2. InRooms(s)' = InRooms(s) \cup {LOBBY_ROOM_ID}
    BY <1>1, <2>1, ConstantFacts DEF InRooms
  <2> QED
    BY <1>1, <1>7, <2>2 DEF Whereabouts
<1>9. PICK u : u = View(s)'
  OBVIOUS
<1>10. u = v /\ v.link = Link(s)
  BY <1>4, <1>8, <1>9 DEF View, SameClient, ShownRoom
<1>11. PlacesFit(s)'
  <2>1. QuietHand(u, s)
    BY <1>1, <1>10, JoinsQuietly DEF Fail
  <2>2. QuietRouted(u, s) /\ QuietJobs(u, s) /\ QuietQueued(u, s)
    BY SameQuiet
  <2>3. PlacesFit(s) /\ StillThere(View(s), u)
    BY <1>2, <1>10 DEF SInv, PlacesFit, StillThere
  <2> QED
    BY <1>9, <2>1, <2>2, <2>3, PlacesKept
<1>12. AnswersFit(s)'
  <2>1. Present(u) => sent'[s] = sent[s]
    BY <1>1, <1>3, <1>10 DEF Present, Link, Users
  <2>2. AnswersFit(s)
    BY <1>2 DEF SInv
  <2> QED
    BY <1>9, <1>10, <2>1, <2>2 DEF AnswersFit
<1>13. Rests(s)'
  <2>1. Rests(s)
    BY <1>2 DEF SInv
  <2> QED
    BY <1>4, <1>9, <1>10, <2>1 DEF Rests, SameClient
<1>14. ClientFits(s)'
  <2>1. ShownRoom(s)' = ShownRoom(s) /\ ClientFits(s)
    BY <1>2, <1>4 DEF SameClient, ShownRoom, SInv
  <2> QED
    BY <1>4, <2>1 DEF ClientFits, SameClient
<1>15. DueOut(s)'
  BY <1>7 DEF DueOut
<1>16. Patient(s)'
  <2>1. ~Settled(s)
    BY <1>1 DEF Settled
  <2> QED
    BY <1>2, <1>4, <2>1 DEF Patient, SameClient
<1> QED
  BY <1>2, <1>7, <1>11, <1>12, <1>13, <1>14, <1>15, <1>16 DEF SInv, PlacesFit

\* The first half of join_room.
LEMMA JoinRoomSound ==
  ASSUME Ample, Sound, IInv', Counted', UNCHANGED clientVars, NEW w \in Workers, JoinRoom(w)
  PROVE  CInv'
<1> DEFINE e == event[w]
<1>0. PICK room, s : room = NextAction(event[w]).target_room_id /\ s = event[w].session
  OBVIOUS
<1>1. /\ At(w, "JOIN_ROOM") /\ pc[w] = "run" /\ HasNextAction(e)
      /\ UNCHANGED <<conn, main, current_room, routing, event_queue, job_queue>>
  BY DEF JoinRoom, At, mainVars, dbVars
<1>2. CASE /\ room \notin rooms[w] \/ Full(w, room)
           /\ Fail(w, "RoomNotFound") \/ Fail(w, "RoomFull")
           /\ UNCHANGED roomVars
  <2>1. \A x \in Sessions :
          /\ ~IsAccept(event[w], x)
          /\ IsRequestOf(event[w], x) /\ Present(View(x)) =>
               /\ event[w].response_data = EmptyBody
               /\ Entered(event[w].actions, event[w].current_action) = {}
    BY <1>0, <1>1, <1>2, JoinFails
  <2> QED
    BY <1>1, <1>2, <2>1, FailSound
<1>3. CASE /\ room \in rooms[w] /\ join_session(w, s, room)
           /\ \/ /\ s \in Users /\ pc' = [pc EXCEPT ![w] = "set_current_room"]
                 /\ UNCHANGED <<event, sent>>
              \/ s \notin Users /\ Fail(w, "UserNotFound")
  <2>1. /\ s \in Sessions /\ room \in RoomIds /\ s \notin sessions[w][room]
        /\ IsAccept(e, s) \/ IsRequestOf(e, s)
    BY <1>0, <1>1, JoinFacts
  <2>2. IInv /\ RoomsExact /\ Fresh
    BY DEF Sound, CInv
  <2>3. /\ RoomsExact'
        /\ \A v \in Workers : v # w => rooms'[v] = rooms[v] /\ sessions'[v] = sessions[v]
        /\ \A v \in Workers, r \in RoomIds :
             sessions'[v][r] = IF v = w /\ r = room THEN sessions[v][r] \cup {s} ELSE sessions[v][r]
    BY <1>3, <2>1, <2>2, RoomJoined
  <2>4. Fresh'
    <3>1. CASE pc' = [pc EXCEPT ![w] = "set_current_room"] /\ UNCHANGED <<event, sent>>
      <4>1. event' = [event EXCEPT ![w] = event[w]]
        BY <2>2, <3>1 DEF IInv, EventInv
      <4>2. FreshAt(event[w], "set_current_room", rooms'[w], sessions'[w])
        BY DEF FreshAt
      <4> QED
        BY <2>2, <2>3, <3>1, <4>1, <4>2, HandFresh
    <3>2. CASE Fail(w, "UserNotFound")
      BY <2>2, <2>3, <3>2, EmptyFresh, HandFresh DEF Fail, Return
    <3> QED
      BY <1>3, <3>1, <3>2
  <2>5. ASSUME NEW x \in Sessions PROVE SInv(x)'
    <3>1. CASE x # s
      BY <1>0, <1>1, <1>3, <2>1, <2>3, <3>1, JoinOthers
    <3>2. \/ s \in Users /\ pc' = [pc EXCEPT ![w] = "set_current_room"] /\ UNCHANGED <<event, sent>>
          \/ s \notin Users /\ \E res : Fail(w, res)
      BY <1>3
    <3>3. ASSUME IsRequestOf(event[w], s) PROVE SInv(s)'
      BY <1>0, <1>1, <2>1, <2>3, <3>2, <3>3, JoinRequest
    <3>4. ASSUME IsAccept(event[w], s) PROVE SInv(s)'
      BY <1>0, <1>1, <2>1, <2>3, <3>2, <3>4, JoinAccepted
    <3> QED
      BY <2>1, <3>1, <3>3, <3>4
  <2> QED
    BY <2>3, <2>4, <2>5 DEF CInv
<1> QED
  BY <1>0, <1>2, <1>3 DEF JoinRoom

-----------------------------------------------------------------------------
\* The rest of join_room: the user's room is set and the action counted.
LEMMA SetCurrentRoomSound ==
  ASSUME Sound, IInv', Counted', UNCHANGED clientVars, NEW w \in Workers, SetCurrentRoom(w)
  PROVE  CInv'
<1> DEFINE e == event[w]
           f == Advanced(e, "Success")
<1>0. PICK room, c : room = NextAction(e).target_room_id /\ c = e.session
  OBVIOUS
<1>1. /\ pc[w] = "set_current_room" /\ Continue(w, "Success")
      /\ current_room' = [current_room EXCEPT ![c] = room]
      /\ UNCHANGED <<conn, main, routing, event_queue, roomVars, job_queue, sent>>
  BY <1>0 DEF SetCurrentRoom, mainVars, dbVars
<1>2. HalfWay(w, "JOIN_ROOM") /\ IInv /\ RInv
  BY <1>1 DEF Sound, IInv, PcInv
<1>3. /\ HasNextAction(e) /\ NotFailed(e) /\ NextAction(e).command = "JOIN_ROOM"
      /\ e \in RunnableEvents /\ e \in RoomEvents
  BY <1>2 DEF HalfWay, IInv, EventInv, RunnableEvents, FormedEvents
<1>4. c \in Sessions /\ room \in RoomIds
  BY <1>0, <1>3, NextFacts
<1>5. RoomsExact' /\ Fresh'
  BY <1>1, <1>3, RoomsStay, GoOnFresh DEF roomVars
<1>6. event' = [event EXCEPT ![w] = f] /\ pc' = [pc EXCEPT ![w] = "run"]
  BY <1>1 DEF Continue
<1>7. /\ f.actions = e.actions /\ f.current_action = e.current_action + 1
      /\ f.initial_command = e.initial_command /\ f.session = c /\ f.fd = e.fd
      /\ f.result_code = "Success"
  BY <1>0, <1>3, AdvancedFields
<1>8. e.current_action \in Nat
  BY <1>3 DEF RoomEvents
<1> HIDE DEF f
<1>9. ASSUME NEW s \in Sessions
      PROVE  /\ LobbyQuiet(s) /\ SameClient(s) /\ Link(s)' = Link(s)
             /\ SInv(s) /\ Sole(s)' /\ HandsFit(s) /\ AcceptFirst(s)
             /\ Fits(View(s), s, e, e.current_action + 1)
             /\ QuietRouted(View(s), s) /\ QuietQueued(View(s), s)
             /\ QuietSent(View(s), s) /\ QuietJobs(View(s), s)
  <2>1. IsAccept(f, s) => IsAccept(e, s)
    BY <1>0, <1>7 DEF IsAccept
  <2>2. ~InTurn(f, "run", s) /\ ~InTurn(e, pc[w], s)
    BY <1>1, <1>7, <1>8 DEF InTurn
  <2>3. LobbyQuiet(s)
    BY <1>0, <1>1, <1>2, <1>6, <1>7, <2>1, <2>2, HandQuietly
  <2>4. Link(s)' = Link(s)
    BY <1>1 DEF Link
  <2>5. Progress(e, pc[w]) = e.current_action + 1
    BY <1>1 DEF Progress
  <2>6. SInv(s) /\ Sole(s)' /\ HandsFit(s) /\ AcceptFirst(s)
    BY DEF Sound, CInv, SInv, Counted
  <2>7. Fits(View(s), s, e, e.current_action + 1)
    BY <2>5, <2>6 DEF HandsFit
  <2>8. /\ SameClient(s) /\ QuietRouted(View(s), s) /\ QuietQueued(View(s), s)
        /\ QuietSent(View(s), s) /\ QuietJobs(View(s), s)
    BY <1>1, SameQuiet
  <2> QED
    BY <2>3, <2>4, <2>6, <2>7, <2>8
<1>10. Progress(f, "run") = e.current_action + 1
  BY <1>7, <1>8 DEF Progress
<1>11. ASSUME NEW s \in Sessions, ~IsRequestOf(e, s), NEW u, Fits(u, s, e, e.current_action + 1)
       PROVE  QuietHand(u, s)
  <2>1. Fits(u, s, f, Progress(f, "run"))
    BY <1>0, <1>7, <1>11 DEF Fits, IsRequestOf, IsAccept, NotFailed
  <2> QED
    BY <1>2, <1>6, <2>1, HandQuietly
<1>12. ASSUME NEW s \in Sessions, s # c PROVE SInv(s)'
  <2>1. ~IsRequestOf(e, s)
    BY <1>0, <1>12 DEF IsRequestOf
  <2>2. QuietHand(View(s), s)
    BY <1>9, <1>11, <2>1
  <2>3. current_room'[s] = current_room[s]
    BY <1>1, <1>2, <1>12 DEF IInv, StateTypeOK
  <2>4. Unmoved(s)
    BY <1>1, <1>9, <2>3 DEF Unmoved, roomVars
  <2> QED
    BY <1>2, <1>9, <2>2, <2>4, UnmovedKept
<1>13. ASSUME IsAccept(e, c) PROVE SInv(c)'
  <2>1. ~IsRequestOf(e, c) /\ current_room'[c] = room
    BY <1>1, <1>2, <1>4, <1>13 DEF IsAccept, IsRequestOf, IInv, StateTypeOK
  <2>2. room = LOBBY_ROOM_ID /\ Link(c) # "none"
    BY <1>0, <1>2, <1>3, <1>4, <1>9, <1>13, AcceptHand
  <2>3. w = LOBBY_WORKER_ID
    BY <1>0, <1>2, <2>2, LobbyOwner
  <2>4. ~Settled(c)
    BY <1>13, <2>3 DEF Settled
  <2>5. CASE Link(c) \notin {"none", "open"}
    <3>1. ~running[c] /\ Link(c)' \in {"closing", "closed"}
      <4>1. ClientFits(c)
        BY <1>4, <1>9 DEF SInv
      <4>2. Link(c) \in {"closing", "none", "open", "closed"}
        BY <1>2, <1>4 DEF Link, IInv, StateTypeOK
      <4> QED
        BY <1>4, <1>9, <2>5, <4>1, <4>2 DEF ClientFits
    <3>2. Fading(c)
      BY <1>1, <3>1 DEF Fading, roomVars
    <3>3. PICK u : u = View(c)'
      OBVIOUS
    <3>4. u.link = View(c).link
      BY <1>4, <1>9, <3>3 DEF View
    <3>5. Fits(u, c, e, e.current_action + 1)
      BY <1>4, <1>9, <2>1, <3>4, FitsBystander
    <3>6. QuietHand(u, c)
      BY <1>4, <1>11, <2>1, <3>5
    <3>7. QuietRouted(u, c) /\ QuietQueued(u, c) /\ QuietSent(u, c) /\ QuietJobs(u, c)
      BY <1>1, SameQuiet
    <3> QED
      BY <1>2, <1>4, <1>9, <3>2, <3>3, <3>6, <3>7, SessionKept
  <2>6. CASE Link(c) \in {"none", "open"}
    <3>1. c \notin Hurried => current_room[c] = LOBBY_ROOM_ID
      <4> SUFFICES ASSUME c \notin Hurried PROVE current_room[c] = LOBBY_ROOM_ID
        OBVIOUS
      <4>1. pending_[c] = NoPending /\ state_[c] = "LOBBY"
        BY <1>4, <1>9, <2>4, <2>6 DEF SInv, Patient
      <4>2. Allowed(pending_[c], uplink[c]) = 0 /\ Present(View(c))
        BY <2>6, <4>1 DEF Allowed, Present, View
      <4>3. View(c).cur = View(c).shown
        BY <1>4, <1>9, <4>2 DEF SInv, Rests, RestsAt
      <4> QED
        BY <4>1, <4>3 DEF View, ShownRoom
    <3>2. Unmoved(c)
      BY <1>1, <1>4, <1>9, <2>1, <2>2, <3>1 DEF Unmoved, roomVars
    <3>3. QuietHand(View(c), c)
      BY <1>4, <1>9, <1>11, <2>1
    <3> QED
      BY <1>2, <1>4, <1>9, <3>2, <3>3, UnmovedKept
  <2> QED
    BY <2>5, <2>6
<1>14. ASSUME IsRequestOf(e, c) PROVE SInv(c)'
  <2> DEFINE v == View(c)
  <2>1. StageOK(v, c, e, e.current_action + 1) /\ ~IsAccept(e, c)
    BY <1>4, <1>9, <1>14 DEF Fits, IsAccept, IsRequestOf
  <2>2. LobbyDue(c)' <=> LobbyDue(c)
    BY <1>2, <1>4, <1>9, DueKept
  <2>3. Whereabouts(c)' = Whereabouts(c)
    BY <1>1, <2>2 DEF Whereabouts, InRooms, roomVars
  <2>4. PICK u : u = View(c)'
    OBVIOUS
  <2>5. current_room'[c] = room
    BY <1>1, <1>2, <1>4 DEF IInv, StateTypeOK
  <2>6. /\ u.link = v.link /\ u.shown = v.shown /\ u.pending = v.pending /\ u.at = v.at
        /\ c \notin Hurried => u.cur = room
    BY <1>4, <1>9, <2>3, <2>4, <2>5 DEF View, SameClient, ShownRoom
  <2>7. e.fd = c => ~Present(v)
    BY <1>4, <1>9 DEF Fits
  <2> HIDE DEF v
  <2>8. StageOK(u, c, f, e.current_action + 1)
    BY <1>0, <1>3, <2>1, <2>6, StageSet DEF f
  <2>9. Fits(u, c, f, e.current_action + 1)
    BY <1>0, <1>7, <2>1, <2>6, <2>7, <2>8 DEF Fits, IsAccept, Present
  <2>10. /\ event'[w] = f /\ pc'[w] = "run"
         /\ \A x \in Workers : x # w => event'[x] = event[x] /\ pc'[x] = pc[x]
    BY <1>2, <1>6 DEF IInv, StateTypeOK, EventInv
  <2>11. DueOut(c)'
    <3>1. DueOut(c)
      BY <1>4, <1>9 DEF SInv
    <3> QED
      BY <1>1, <2>2, <3>1 DEF DueOut, roomVars
  <2>12. Fits(u, c, event'[w], Progress(event'[w], pc'[w]))
    BY <1>10, <2>9, <2>10
  <2> QED
    BY <1>1, <1>2, <1>4, <1>9, <1>14, <2>4, <2>10, <2>11, <2>12, SessionMoved
<1>15. IsAccept(e, c) \/ IsRequestOf(e, c)
  BY <1>0 DEF IsAccept, IsRequestOf
<1>16. \A s \in Sessions : SInv(s)'
  BY <1>12, <1>13, <1>14, <1>15
<1> QED
  BY <1>5, <1>16 DEF CInv

-----------------------------------------------------------------------------
(***************************************************************************)
(* LEAVE_ROOM and DISCONNECT_SESSION.                                      *)
(***************************************************************************)
\* A room has its sessions at one worker.
LEMMA OneOwner ==
  ASSUME Sound, NEW w \in Workers, NEW room \in rooms[w], NEW v \in Workers,
         NEW s \in sessions[v][room]
  PROVE  v = w
<1>1. room \in RoomIds /\ RoomsExact /\ TableInv
  BY DEF Sound, IInv, StateTypeOK, CInv, RInv
<1>2. room \in rooms[v]
  BY <1>1 DEF RoomsExact
<1>3. room_to_worker[room] = w /\ room_to_worker[room] = v
  BY <1>2, <1>1 DEF TableInv
<1> QED
  BY <1>3

\* A session that leaves a room is no longer in it.
LEMMA OutOfRoom ==
  ASSUME Sound, IInv', NEW w \in Workers, NEW room \in rooms[w], NEW s \in sessions[w][room],
         s \in Sessions, AcceptFirst(s), LobbyQuiet(s), Link(s)' = Link(s), DueOut(s),
         \A v \in Workers, r \in RoomIds :
           sessions'[v][r] = IF v = w /\ r = room THEN sessions[v][r] \ {s} ELSE sessions[v][r]
  PROVE  Whereabouts(s)' = Whereabouts(s) \ {room} /\ DueOut(s)'
<1>1. room \in RoomIds /\ IInv /\ TableInv
  BY DEF Sound, IInv, StateTypeOK, RInv
<1>2. LobbyDue(s)' <=> LobbyDue(s)
  BY <1>1, DueKept
<1>3. ASSUME NEW r \in RoomIds
      PROVE  (\E x \in Workers : s \in sessions'[x][r])
               <=> r # room /\ \E x \in Workers : s \in sessions[x][r]
  <2>1. CASE r = room
    BY <2>1, OneOwner
  <2>2. CASE r # room
    BY <2>2
  <2> QED
    BY <2>1, <2>2
<1>4. InRooms(s)' = InRooms(s) \ {room}
  BY <1>1, <1>3 DEF InRooms
<1>5. room = LOBBY_ROOM_ID => ~LobbyDue(s)
  <2>1. room = LOBBY_ROOM_ID => w = LOBBY_WORKER_ID
    BY <1>1 DEF TableInv
  <2> QED
    BY <2>1 DEF DueOut
<1>6. Whereabouts(s)' = Whereabouts(s) \ {room}
  BY <1>2, <1>4, <1>5 DEF Whereabouts
<1>7. DueOut(s)'
  BY <1>2, ConstantFacts DEF DueOut
<1> QED
  BY <1>6, <1>7

\* A session that is connected is in the room that its request leaves.
LEMMA LeavesWhereItIs ==
  ASSUME Sound, NEW w \in Workers, At(w, "LEAVE_ROOM"),
         NEW room \in RoomIds, room = NextAction(event[w]).target_room_id,
         NEW c \in Sessions, c = event[w].session, IsRequestOf(event[w], c), Present(View(c))
  PROVE  LeaveResult(w, c, room) = "Success"
<1> DEFINE e == event[w]
           W == LOBBY_WORKER_ID
<1>1. /\ pc[w] = "run" /\ HasNextAction(e) /\ NotFailed(e) /\ NextAction(e).command = "LEAVE_ROOM"
      /\ IInv /\ RInv /\ HandsFit(c) /\ AcceptFirst(c) /\ RoomsExact
  BY DEF At, Sound, CInv, SInv
<1>2. StageOK(View(c), c, e, e.current_action) /\ e \in RunnableEvents
  BY <1>1, HandFits DEF Fits
<1>3. room \in View(c).at /\ View(c).link # "none"
  <2>1. room \in Where(e.actions, e.current_action, View(c).shown)
    BY <1>1, <1>2, PlanFacts DEF StageOK
  <2> QED
    BY <1>2, <2>1 DEF StageOK
<1>4. ~(room = LOBBY_ROOM_ID /\ LobbyDue(c))
  <2> SUFFICES ASSUME room = LOBBY_ROOM_ID, LobbyDue(c) PROVE FALSE
    OBVIOUS
  <2>1. LOBBY_ROOM_ID \in rooms[W] /\ W \in Workers
    BY <1>1, ConstantFacts DEF RoomsExact
  <2>2. w = W
    BY <1>1, <2>1, AtOwner DEF ActionsRunAtOwner
  <2>3. ~IsAccept(event[W], c) /\ event[W].session = c
    BY <2>2 DEF IsAccept, IsRequestOf
  <2>4. PICK i \in DOMAIN event_queue[W] : IsAccept(event_queue[W][i], c)
    BY <1>3, <2>3 DEF LobbyDue, Waits, View
  <2> QED
    BY <1>1, <2>3, <2>4 DEF AcceptFirst, FirstOf
<1>5. PICK v \in Workers : c \in sessions[v][room]
  BY <1>3, <1>4 DEF View, Whereabouts, InRooms
<1>6. room \in rooms[v]
  BY <1>1, <1>5 DEF RoomsExact
<1>7. w = v
  BY <1>1, <1>6, AtOwner DEF ActionsRunAtOwner
<1> QED
  BY <1>5, <1>6, <1>7 DEF LeaveResult

\* leave_room ends the stay in the first room, and perhaps the room.
LEMMA LeaveRoomSound ==
  ASSUME Sound, IInv', Counted', UNCHANGED clientVars, NEW w \in Workers, LeaveRoom(w)
  PROVE  CInv'
<1> DEFINE e == event[w]
           f == Advanced(e, "Success")
<1>0. PICK room, c : room = NextAction(e).target_room_id /\ c = e.session
  OBVIOUS
<1>1. /\ At(w, "LEAVE_ROOM") /\ IInv /\ RInv
      /\ UNCHANGED <<conn, main, current_room, routing, event_queue, job_queue>>
  BY DEF LeaveRoom, mainVars, dbVars, Sound
<1>2. /\ pc[w] = "run" /\ HasNextAction(e) /\ NotFailed(e) /\ NextAction(e).command = "LEAVE_ROOM"
      /\ e \in RunnableEvents /\ e \in RoomEvents
  BY <1>1, AtFacts DEF At
<1>3. c \in Sessions /\ room \in RoomIds
  BY <1>0, <1>2, NextFacts
<1>4. \A s \in Sessions : ~IsAccept(e, s)
  BY <1>1, <1>2, AcceptHand DEF Sound, CInv, SInv
<1>5. IsRequestOf(e, c)
  BY <1>0, <1>3, <1>4 DEF IsAccept, IsRequestOf
<1>6. CASE LeaveResult(w, c, room) # "Success"
  <2>1. Fail(w, LeaveResult(w, c, room)) /\ UNCHANGED roomVars
    BY <1>0, <1>6 DEF LeaveRoom
  <2>2. \A s \in Sessions : IsRequestOf(e, s) => ~Present(View(s))
    BY <1>0, <1>1, <1>3, <1>6, LeavesWhereItIs DEF IsRequestOf
  <2> QED
    BY <1>1, <1>2, <1>4, <1>6, <2>1, <2>2, FailSound
<1>7. CASE LeaveResult(w, c, room) = "Success"
  <2>1. /\ leave_room(w, c, room) /\ Continue(w, "Success") /\ UNCHANGED sent
        /\ room \in rooms[w] /\ c \in sessions[w][room]
    BY <1>0, <1>7 DEF LeaveRoom, LeaveResult
  <2>2. /\ RoomsExact'
        /\ \A v \in Workers : v # w => rooms'[v] = rooms[v] /\ sessions'[v] = sessions[v]
        /\ \A v \in Workers, r \in RoomIds :
             sessions'[v][r] = IF v = w /\ r = room THEN sessions[v][r] \ {c} ELSE sessions[v][r]
    <3>1. RoomsExact
      BY DEF Sound, CInv
    <3> QED
      BY <1>1, <2>1, <3>1, RoomLeft
  <2>3. Fresh'
    BY <1>2, <2>1, <2>2, GoOnFresh
  <2>4. event' = [event EXCEPT ![w] = f] /\ pc' = [pc EXCEPT ![w] = "run"]
    BY <2>1 DEF Continue
  <2>5. /\ f.actions = e.actions /\ f.current_action = e.current_action + 1
        /\ f.initial_command = e.initial_command /\ f.session = c /\ f.fd = e.fd
    BY <1>0, <1>2, AdvancedFields
  <2>6. Progress(f, "run") = e.current_action + 1
    BY <1>2, <2>5 DEF Progress, RoomEvents
  <2> HIDE DEF f
  <2>7. ASSUME NEW s \in Sessions
        PROVE  /\ LobbyQuiet(s) /\ SameClient(s) /\ Link(s)' = Link(s)
               /\ SInv(s) /\ Sole(s)' /\ HandsFit(s) /\ AcceptFirst(s) /\ DueOut(s)
               /\ Fits(View(s), s, e, e.current_action)
    <3>1. ~IsAccept(f, s) /\ ~IsAccept(e, s)
      BY <1>0, <1>4, <2>5 DEF IsAccept
    <3>2. LobbyQuiet(s)
      BY <1>0, <1>1, <2>4, <2>5, <3>1, HandQuietly DEF InTurn
    <3>3. SInv(s) /\ Sole(s)' /\ HandsFit(s) /\ AcceptFirst(s) /\ DueOut(s)
      BY DEF Sound, CInv, SInv, Counted
    <3>4. Fits(View(s), s, e, e.current_action)
      BY <1>1, <1>2, <3>3, HandFits
    <3>5. Link(s)' = Link(s) /\ SameClient(s)
      BY <1>1, SameQuiet DEF Link
    <3> QED
      BY <3>2, <3>3, <3>4, <3>5
  <2>8. ASSUME NEW s \in Sessions, s # c PROVE SInv(s)'
    <3>1. Fits(View(s), s, f, Progress(f, "run"))
      BY <1>0, <1>4, <2>5, <2>7, <2>8 DEF Fits, IsRequestOf, IsAccept
    <3>2. QuietHand(View(s), s)
      BY <1>1, <2>4, <3>1, HandQuietly
    <3>3. \A v \in Workers, r \in RoomIds : s \in sessions'[v][r] <=> s \in sessions[v][r]
      BY <2>2, <2>8
    <3>4. Unmoved(s)
      BY <1>1, <2>7, <3>3 DEF Unmoved
    <3>5. /\ QuietRouted(View(s), s) /\ QuietQueued(View(s), s)
          /\ QuietSent(View(s), s) /\ QuietJobs(View(s), s)
      BY <1>1, <2>1, SameQuiet
    <3> QED
      BY <1>1, <2>7, <3>2, <3>4, <3>5, UnmovedKept
  <2>9. SInv(c)'
    <3> DEFINE v == View(c)
    <3>1. Whereabouts(c)' = Whereabouts(c) \ {room} /\ DueOut(c)'
      BY <1>3, <2>1, <2>2, <2>7, OutOfRoom
    <3>2. PICK u : u = View(c)'
      OBVIOUS
    <3>3. /\ u.link = v.link /\ u.shown = v.shown /\ u.pending = v.pending
          /\ u.cur = v.cur /\ u.at = v.at \ {room}
      BY <1>1, <1>3, <2>7, <3>1, <3>2 DEF View, SameClient, ShownRoom
    <3>4. StageOK(v, c, e, e.current_action) /\ (e.fd = c => ~Present(v))
      BY <1>3, <1>5, <2>7 DEF Fits
    <3> HIDE DEF v
    <3>5. StageOK(u, c, f, e.current_action + 1)
      BY <1>0, <1>2, <3>3, <3>4, StageLeave DEF f
    <3>6. Fits(u, c, f, e.current_action + 1)
      BY <1>0, <1>3, <1>4, <2>5, <3>3, <3>4, <3>5 DEF Fits, IsAccept, Present
    <3>7. /\ event'[w] = f /\ pc'[w] = "run"
          /\ \A x \in Workers : x # w => event'[x] = event[x] /\ pc'[x] = pc[x]
      BY <1>1, <2>4 DEF IInv, StateTypeOK, EventInv
    <3>8. Fits(u, c, event'[w], Progress(event'[w], pc'[w]))
      BY <2>6, <3>6, <3>7
    <3> QED
      BY <1>1, <1>3, <1>5, <2>1, <2>7, <3>1, <3>2, <3>7, <3>8, SessionMoved
  <2>10. \A s \in Sessions : SInv(s)'
    BY <2>8, <2>9
  <2> QED
    BY <2>2, <2>3, <2>10 DEF CInv
<1> QED
  BY <1>6, <1>7

\* close_session's event takes the session out of a room; its client has gone.
LEMMA DisconnectSessionSound ==
  ASSUME Sound, IInv', Counted', UNCHANGED clientVars, NEW w \in Workers, DisconnectSession(w)
  PROVE  CInv'
<1> DEFINE e == event[w]
<1>0. PICK c : c = e.fd
  OBVIOUS
<1>1. /\ At(w, "DISCONNECT_SESSION") /\ IInv /\ RInv /\ Return(w)
      /\ UNCHANGED <<conn, main, current_room, routing, event_queue, job_queue, sent>>
  BY DEF DisconnectSession, mainVars, dbVars, Sound
<1>2. /\ pc[w] = "run" /\ HasNextAction(e) /\ NotFailed(e)
      /\ NextAction(e).command = "DISCONNECT_SESSION"
  BY <1>1 DEF At
<1>3. \A s \in Sessions : ~InTurn(e, pc[w], s)
  BY <1>1, <1>2, AcceptHand DEF Sound, CInv, SInv, InTurn
<1>4. CASE UNCHANGED roomVars
  <2>1. \A s \in Sessions : QuietSent(View(s), s)
    BY <1>1, SameQuiet
  <2> QED
    BY <1>1, <1>2, <1>3, <1>4, <2>1, EndSound
<1>5. ASSUME NEW room \in rooms[w], c \in sessions[w][room], leave_room(w, c, room)
      PROVE  CInv'
  <2>1. RoomsExact /\ Fresh
    BY DEF Sound, CInv
  <2>2. /\ RoomsExact'
        /\ \A v \in Workers : v # w => rooms'[v] = rooms[v] /\ sessions'[v] = sessions[v]
        /\ \A v \in Workers, r \in RoomIds :
             sessions'[v][r] = IF v = w /\ r = room THEN sessions[v][r] \ {c} ELSE sessions[v][r]
    BY <1>1, <1>5, <2>1, RoomLeft
  <2>3. Fresh'
    BY <1>1, <2>1, <2>2, EmptyFresh, HandFresh DEF Return
  <2>4. ASSUME NEW s \in Sessions PROVE SInv(s)'
    <3>1. SInv(s) /\ Sole(s)' /\ HandsFit(s) /\ ClientFits(s)
      BY DEF Sound, CInv, SInv, Counted
    <3>2. PICK u : u = View(s)'
      OBVIOUS
    <3>3. QuietHand(u, s) /\ LobbyQuiet(s)
      BY <1>1, <1>3, DropQuietly
    <3>4. /\ SameClient(s) /\ QuietRouted(u, s) /\ QuietQueued(u, s)
          /\ QuietSent(u, s) /\ QuietJobs(u, s) /\ Link(s)' = Link(s)
      BY <1>1, SameQuiet DEF Link
    <3>5. CASE s # c
      <4>1. \A v \in Workers, r \in RoomIds : s \in sessions'[v][r] <=> s \in sessions[v][r]
        BY <2>2, <3>5
      <4>2. Unmoved(s)
        BY <1>1, <3>4, <4>1 DEF Unmoved
      <4> QED
        BY <1>1, <3>1, <3>2, <3>3, <3>4, <4>2, SessionKept
    <3>6. CASE s = c
      <4>1. Fits(View(s), s, e, e.current_action)
        BY <1>1, <1>2, <3>1, HandFits
      <4>2. Link(s) \notin {"none", "open"}
        BY <1>0, <3>6, <4>1 DEF Fits, Present, View
      <4>3. Link(s) \in {"closing", "none", "open", "closed"}
        BY <1>1 DEF Link, IInv, StateTypeOK
      <4>4. ~running[s]
        BY <3>1, <4>2 DEF ClientFits
      <4>5. \A v \in Workers, r \in RoomIds : s \in sessions'[v][r] => s \in sessions[v][r]
        BY <2>2
      <4>6. Fading(s)
        BY <3>4, <4>2, <4>3, <4>4, <4>5 DEF Fading
      <4> QED
        BY <1>1, <3>1, <3>2, <3>3, <3>4, <4>6, SessionKept
    <3> QED
      BY <3>5, <3>6
  <2> QED
    BY <2>2, <2>3, <2>4 DEF CInv
<1> QED
  BY <1>0, <1>4, <1>5 DEF DisconnectSession, Disconnects, roomVars

-----------------------------------------------------------------------------
(***************************************************************************)
(* The steps of the clients.                                               *)
(***************************************************************************)
\* The client of each session has variables of its own.
ClientShape ==
  /\ running \in [Sessions -> BOOLEAN]
  /\ state_ \in [Sessions -> {"LOBBY", "IN_ROOM"}]
  /\ room_id_ \in [Sessions -> RoomIds \cup {NO_ROOM}]
  /\ pending_ \in [Sessions -> Requests \cup {NoPending}]
  /\ uplink \in [Sessions -> Seq(Requests)]

\* What a client changes of the server: nothing but the packets it takes.
AtTheServer == <<conn, received, main, current_room, room_to_worker, routing, event_queue,
                 rooms, sessions, current_sessions, pc, event, audience,
                 job_queue, room_seq, messages>>

\* The rooms and the routes are as they were.
LEMMA ServerStays ==
  ASSUME Sound, UNCHANGED AtTheServer, sent' \in [Sessions -> Seq(Packets)]
  PROVE  IInv' /\ RInv' /\ RoomsExact' /\ Fresh'
<1>1. IInv'
  BY DEF Sound, IInv, StateTypeOK, EventInv, PcInv, CountInv, HalfWay, AtTheServer
<1>2. RInv'
  BY SameRoutes DEF Sound, AtTheServer, Tables
<1>3. RoomsExact' /\ Fresh'
  BY RoomsStay DEF AtTheServer, roomVars
<1> QED
  BY <1>1, <1>2, <1>3

\* And so is every session whose own client did nothing, or has only gone.
LEMMA BystanderKept ==
  ASSUME Sound, UNCHANGED AtTheServer, IInv', NEW s \in Sessions, SameClient(s), Sole(s)',
         \A i \in DOMAIN sent'[s] : \E k \in DOMAIN sent[s] : sent'[s][i] = sent[s][k]
  PROVE  SInv(s)'
<1>1. SInv(s) /\ IInv
  BY DEF Sound, CInv
<1>2. UNCHANGED <<conn, main, current_room, sessions, routing, event_queue, event, pc, job_queue>>
  BY DEF AtTheServer
<1>3. /\ QuietRouted(View(s), s) /\ QuietJobs(View(s), s) /\ QuietQueued(View(s), s)
      /\ QuietHand(View(s), s) /\ LobbyQuiet(s)
  BY <1>2, SameQuiet
<1>4. QuietSent(View(s), s)
  BY DEF QuietSent
<1> QED
  BY <1>1, <1>2, <1>3, <1>4, StayKept

\* A client nobody owes anything may change its mind.
LEMMA ClientMoves ==
  ASSUME Sound, UNCHANGED AtTheServer, NEW s \in Sessions, Kept(0, s)',
         \A i \in DOMAIN sent'[s] : \E k \in DOMAIN sent[s] : sent'[s][i] = sent[s][k],
         Sole(s)', Rests(s)', ClientFits(s)', Patient(s)'
  PROVE  SInv(s)'
<1>1. PICK u : u = View(s)'
  OBVIOUS
<1> DEFINE v == View(s)
<1>2. UNCHANGED <<conn, main, current_room, sessions, routing, event_queue, event, pc, job_queue>>
  BY DEF AtTheServer
<1>3. u.link = v.link
  BY <1>1, <1>2 DEF View, Link
<1>4. /\ AnswersOf(sent'[s]) = {}
      /\ \A t \in Threads : ~IsRequestOf(routing'[t].event, s)
      /\ \A x \in Workers : ~IsRequestOf(event'[x], s)
      /\ \A x \in Workers : \A i \in DOMAIN event_queue'[x] : ~IsRequestOf(event_queue'[x][i], s)
      /\ \A i \in DOMAIN job_queue' : ~IsRequestOf(job_queue'[i].event, s)
  <2>1. Balanced(routing, event_queue, event, job_queue, sent'[s], 0, s)
    BY <1>2 DEF Kept
  <2> QED
    BY <1>2, <2>1, NothingHeld
<1>5. SInv(s)
  BY DEF Sound, CInv
<1> HIDE DEF v
<1>6. \A e, d : ~IsRequestOf(e, s) /\ Fits(v, s, e, d) => \A c : Fits(u, s, e, c)
  BY <1>3, FitsBystander
<1>7. RoutedFit(s)'
  BY <1>1, <1>2, <1>4, <1>5, <1>6 DEF SInv, RoutedFit, RidesWell, v
<1>8. JobsFit(s)'
  BY <1>1, <1>2, <1>4, <1>5, <1>6 DEF SInv, JobsFit, RidesWell, v
<1>9. QueuedFit(s)'
  BY <1>1, <1>2, <1>4, <1>5, <1>6 DEF SInv, QueuedFit, WaitsWell, v
<1>10. HandsFit(s)'
  BY <1>1, <1>2, <1>4, <1>5, <1>6 DEF SInv, HandsFit, v
<1>11. AnswersFit(s)'
  <2> SUFFICES ASSUME Present(u), NEW i \in DOMAIN sent'[s], IsResponse(sent'[s][i])
               PROVE  FALSE
    BY <1>1 DEF AnswersFit
  <2>1. PICK k \in DOMAIN sent[s] : sent'[s][i] = sent[s][k]
    OBVIOUS
  <2>2. AnswerOK(v, s, sent'[s][i])
    BY <1>3, <1>5, <2>1 DEF SInv, AnswersFit, Present, v
  <2>3. i \in AnswersOf(sent'[s])
    BY <2>2, AnswerCounted DEF AnswersOf
  <2> QED
    BY <1>4, <2>3
<1>12. AcceptFirst(s)'
  BY <1>2, <1>5 DEF SInv, AcceptFirst
<1>13. DueOut(s)'
  BY <1>2, <1>5 DEF SInv, DueOut, LobbyDue, Link
<1> QED
  BY <1>7, <1>8, <1>9, <1>10, <1>11, <1>12, <1>13 DEF SInv

\* Places and packets are as they were.
LEMMA KeptStill ==
  ASSUME UNCHANGED <<routing, event_queue, event, job_queue>>, NEW s, sent'[s] = sent[s],
         NEW n, Kept(n, s)
  PROVE  Kept(n, s)'
BY DEF Kept

\* One packet less.
LEMMA TakenCounts ==
  ASSUME NEW q \in Seq(Packets), q # << >>, IsFiniteSet(AnswersOf(q))
  PROVE  /\ IsFiniteSet(AnswersOf(Tail(q)))
         /\ Cardinality(AnswersOf(q)) \in Nat /\ Cardinality(AnswersOf(Tail(q))) \in Nat
         /\ Cardinality(AnswersOf(Tail(q)))
              <= Cardinality(AnswersOf(q)) - (IF 1 \in AnswersOf(q) THEN 1 ELSE 0)
<1> DEFINE S == AnswersOf(q)
           T == AnswersOf(Tail(q))
           U == S \ {1}
           F == [i \in T |-> i + 1]
<1>1. /\ DOMAIN Tail(q) \subseteq Nat \ {0}
      /\ \A i \in DOMAIN Tail(q) : i + 1 \in DOMAIN q /\ Tail(q)[i] = q[i + 1] /\ i + 1 # 1
  OBVIOUS
<1>2. T \subseteq Nat /\ \A i \in T : i + 1 \in U
  BY <1>1 DEF AnswersOf
<1>3. /\ IsFiniteSet(U) /\ Cardinality(S) \in Nat
      /\ Cardinality(U) = Cardinality(S) - (IF 1 \in S THEN 1 ELSE 0)
  BY FS_RemoveElement, FS_CardinalityType
<1> HIDE DEF S, T, U
<1>4. F \in [T -> U] /\ \A i, j \in T : F[i] = F[j] => i = j
  BY <1>2
<1> HIDE DEF F
<1>5. F \in Injection(T, U)
  BY <1>4 DEF Injection, IsInjective
<1>6. IsFiniteSet(T) /\ Cardinality(T) <= Cardinality(U)
  BY <1>3, <1>5, FS_Injection
<1>7. Cardinality(T) \in Nat
  BY <1>6, FS_CardinalityType
<1> QED
  BY <1>3, <1>6, <1>7 DEF S, T

\* The user types a request, exits, or is gone.
LEMMA RequestSound ==
  ASSUME Sound, ClientShape, NEW c \in Sessions, Request(c)
  PROVE  IInv' /\ RInv' /\ CInv' /\ ClientShape'
<1>1. /\ UNCHANGED AtTheServer /\ sent' = sent /\ (Settled(c) \/ c \in Hurried)
      /\ running[c] /\ pending_[c] = NoPending
  BY DEF Request, TypeRequest, AcceptsInput, vars, AtTheServer
<1>2. UNCHANGED <<conn, main, current_room, sessions, routing, event_queue, event, pc, job_queue>>
  BY <1>1 DEF AtTheServer
<1>3. IInv' /\ RInv' /\ RoomsExact' /\ Fresh'
  BY <1>1, ServerStays DEF Sound, IInv, StateTypeOK
<1>4. SInv(c) /\ ClientFits(c) /\ uplink[c] = << >>
  BY <1>1 DEF Sound, CInv, SInv, ClientFits
<1>5. PICK cmd, room :
        /\ Asks([command |-> cmd, room_id |-> room], ShownRoom(c))
        /\ send_request(c, cmd, room)
  <2>1. CASE LobbyRequest(c)
    <3>1. ShownRoom(c) = LOBBY_ROOM_ID
      BY <2>1 DEF LobbyRequest, ShownRoom
    <3>2. \A r \in RoomIds : validate_room_id(r) => r \in NewRooms
      BY RoomNumbers DEF validate_room_id
    <3>3. CASE send_request(c, "CMD_CREATE_ROOM", NO_ROOM)
      BY <3>1, <3>3 DEF Asks
    <3>4. ASSUME NEW r \in RoomIds, validate_room_id(r), send_request(c, "CMD_JOIN_ROOM", r)
          PROVE  /\ Asks([command |-> "CMD_JOIN_ROOM", room_id |-> r], ShownRoom(c))
                 /\ send_request(c, "CMD_JOIN_ROOM", r)
      BY <3>1, <3>2, <3>4 DEF Asks
    <3> QED
      BY <2>1, <3>3, <3>4 DEF LobbyRequest
  <2>2. CASE RoomRequest(c)
    <3>1. ShownRoom(c) = room_id_[c] /\ room_id_[c] \in NewRooms
      BY <1>4, <2>2 DEF RoomRequest, ShownRoom, ClientFits
    <3> QED
      BY <2>2, <3>1 DEF RoomRequest, Asks
  <2> QED
    BY <2>1, <2>2 DEF Request, TypeRequest
<1> DEFINE req == [command |-> cmd, room_id |-> room]
<1>6. /\ req \in Requests /\ req # NoPending /\ Asks(req, ShownRoom(c))
      /\ uplink' = [uplink EXCEPT ![c] = Append(uplink[c], req)]
      /\ pending_' = [pending_ EXCEPT ![c] = req]
      /\ UNCHANGED <<running, state_, room_id_>>
  BY <1>5, AsksFacts DEF send_request, Requests
<1> HIDE DEF req
<1>7. ClientShape'
  BY <1>6 DEF ClientShape
<1>8. /\ uplink'[c] = << req >> /\ pending_'[c] = req
      /\ \A s \in Sessions : s # c => uplink'[s] = uplink[s] /\ pending_'[s] = pending_[s]
  BY <1>4, <1>6 DEF ClientShape
<1>9. ASSUME NEW s \in Sessions, s # c PROVE SInv(s)'
  <2>1. SameClient(s)
    BY <1>6, <1>8, <1>9 DEF SameClient
  <2>2. Sole(s)
    BY DEF Sound, CInv, SInv
  <2>3. Sole(s)'
    BY <1>1, <1>2, <1>8, <1>9, <2>2 DEF Sole, Kept
  <2> QED
    BY <1>1, <1>3, <2>1, <2>3, BystanderKept
<1>10. SInv(c)'
  <2>1. Allowed(pending_[c], uplink[c]) = 0 /\ Allowed(pending_'[c], uplink'[c]) = 0
    BY <1>1, <1>8 DEF Allowed
  <2>2. Kept(0, c)
    BY <1>4, <2>1 DEF SInv, Sole
  <2>3. Kept(0, c)'
    BY <1>1, <1>2, <2>2, KeptStill
  <2>4. Sole(c)'
    BY <2>1, <2>3 DEF Sole
  <2>5. ShownRoom(c)' = ShownRoom(c) /\ Link(c)' = Link(c) /\ (Settled(c)' <=> Settled(c))
    BY <1>2, <1>6 DEF ShownRoom, Link, Settled
  <2>6. Rests(c)'
    <3>1. PICK u : u = View(c)'
      OBVIOUS
    <3>2. /\ u.link = View(c).link /\ u.at = View(c).at /\ u.shown = View(c).shown
          /\ u.cur = View(c).cur
      BY <1>2, <2>5, <3>1 DEF View, Whereabouts, InRooms, LobbyDue
    <3>3. RestsAt(View(c), c, 0)
      BY <1>4, <2>1 DEF SInv, Rests
    <3>4. RestsAt(u, c, 0)
      BY <3>2, <3>3 DEF RestsAt, Present
    <3> QED
      BY <2>1, <3>1, <3>4 DEF Rests
  <2>7. ClientFits(c)'
    BY <1>4, <1>6, <1>8, <2>5 DEF ClientFits
  <2>8. Patient(c)'
    BY <1>1, <2>5 DEF Patient
  <2> QED
    BY <1>1, <2>3, <2>4, <2>6, <2>7, <2>8, ClientMoves
<1> QED
  BY <1>3, <1>7, <1>9, <1>10 DEF CInv

\* A client goes away: nothing at the server changes.
LEMMA GoneSound ==
  ASSUME Sound, ClientShape, NEW c \in Sessions, Exit(c) \/ Vanish(c)
  PROVE  IInv' /\ RInv' /\ CInv' /\ ClientShape'
<1>1. /\ UNCHANGED AtTheServer /\ sent' = sent
      /\ running' = [running EXCEPT ![c] = FALSE]
      /\ UNCHANGED <<state_, room_id_, pending_, uplink>>
  BY DEF Exit, TypeExit, Vanish, Killed, vars, AtTheServer
<1>2. UNCHANGED <<routing, event_queue, event, job_queue>>
  BY <1>1 DEF AtTheServer
<1>3. IInv' /\ RInv' /\ RoomsExact' /\ Fresh'
  BY <1>1, ServerStays DEF Sound, IInv, StateTypeOK
<1>4. ClientShape'
  BY <1>1 DEF ClientShape
<1>5. ASSUME NEW s \in Sessions PROVE SInv(s)'
  <2>1. SameClient(s)
    BY <1>1 DEF SameClient, ClientShape
  <2>2. Sole(s)
    BY DEF Sound, CInv, SInv
  <2>3. Sole(s)'
    BY <1>1, <1>2, <2>2 DEF Sole, Kept
  <2> QED
    BY <1>1, <1>3, <2>1, <2>3, BystanderKept
<1> QED
  BY <1>3, <1>4, <1>5 DEF CInv

\* A client that asks to join a room names one that the sequence may have issued.
LEMMA JoinAsked ==
  ASSUME NEW p, NEW shown, Asks(p, shown), p.command = "CMD_JOIN_ROOM"
  PROVE  p.room_id \in NewRooms
<1>1. p # [command |-> "CMD_CREATE_ROOM", room_id |-> NO_ROOM]
  OBVIOUS
<1>2. ASSUME NEW r \in NewRooms,
             NEW cmd \in {"CMD_LOAD_MESSAGE", "CMD_LEAVE_ROOM", "CMD_SEND_MESSAGE"}
      PROVE  p # [command |-> cmd, room_id |-> r]
  OBVIOUS
<1>3. PICK r \in NewRooms : p = [command |-> "CMD_JOIN_ROOM", room_id |-> r]
  BY <1>1, <1>2, Zenon DEF Asks
<1> QED
  BY <1>3

\* The client takes a packet.
LEMMA HandlePacketSound ==
  ASSUME Sound, ClientShape, NEW c \in Sessions, HandlePacket(c)
  PROVE  IInv' /\ RInv' /\ CInv' /\ ClientShape'
<1> DEFINE q == sent[c]
           p == Head(q)
           v == View(c)
<1>1. /\ UNCHANGED AtTheServer /\ q # << >> /\ running[c]
      /\ sent' = [sent EXCEPT ![c] = Tail(q)]
      /\ IF IsResponse(p) THEN handle_response(c, p) ELSE UNCHANGED clientVars
  BY DEF HandlePacket, handle_packet, handle_broadcast, AtTheServer, mainVars, roomVars,
     workerVars, dbVars
<1>2. UNCHANGED <<conn, main, current_room, sessions, routing, event_queue, event, pc, job_queue>>
  BY <1>1 DEF AtTheServer
<1>3. /\ q \in Seq(Packets) /\ Tail(q) \in Seq(Packets) /\ sent'[c] = Tail(q)
      /\ sent' \in [Sessions -> Seq(Packets)]
      /\ \A s \in Sessions : s # c => sent'[s] = sent[s]
  BY <1>1 DEF Sound, IInv, StateTypeOK
<1>4. IInv' /\ RInv' /\ RoomsExact' /\ Fresh'
  BY <1>1, <1>3, ServerStays
<1>5. /\ 1 \in DOMAIN q /\ p = q[1]
      /\ \A i \in DOMAIN Tail(q) : i + 1 \in DOMAIN q /\ Tail(q)[i] = q[i + 1]
  BY <1>1, <1>3
<1>6. \A i \in DOMAIN sent'[c] : \E k \in DOMAIN sent[c] : sent'[c][i] = sent[c][k]
  BY <1>3, <1>5
<1>7. SInv(c) /\ ClientFits(c) /\ Present(v) /\ Sole(c)
  BY <1>1 DEF Sound, CInv, SInv, ClientFits, Present, View
<1>8. ASSUME NEW n \in Int, Kept(n, c),
             NEW m, m = n - (IF 1 \in AnswersOf(q) THEN 1 ELSE 0)
      PROVE  Kept(m, c)'
  <2>1. /\ IsFiniteSet(Places(routing, event_queue, event, job_queue, c))
        /\ IsFiniteSet(AnswersOf(q))
        /\ Cardinality(AnswersOf(q)) + Cardinality(Places(routing, event_queue, event, job_queue, c))
             <= n
    BY <1>8 DEF Kept, Balanced
  <2>2. Cardinality(Places(routing, event_queue, event, job_queue, c)) \in Nat
    BY <2>1, FS_CardinalityType
  <2>3. /\ IsFiniteSet(AnswersOf(Tail(q)))
        /\ Cardinality(AnswersOf(q)) \in Nat /\ Cardinality(AnswersOf(Tail(q))) \in Nat
        /\ Cardinality(AnswersOf(Tail(q)))
             <= Cardinality(AnswersOf(q)) - (IF 1 \in AnswersOf(q) THEN 1 ELSE 0)
    BY <1>1, <1>3, <2>1, TakenCounts
  <2>4. Balanced(routing, event_queue, event, job_queue, Tail(q), m, c)
    BY <1>8, <2>1, <2>2, <2>3 DEF Balanced
  <2> QED
    BY <1>2, <1>3, <2>4 DEF Kept
<1>9. ASSUME NEW s \in Sessions, s # c, SameClient(s) PROVE SInv(s)'
  <2>1. Sole(s)
    BY DEF Sound, CInv, SInv
  <2>2. Sole(s)'
    BY <1>2, <1>3, <1>9, <2>1 DEF Sole, Kept, SameClient
  <2>3. \A i \in DOMAIN sent'[s] : \E k \in DOMAIN sent[s] : sent'[s][i] = sent[s][k]
    BY <1>3, <1>9
  <2> QED
    BY <1>1, <1>4, <1>9, <2>2, <2>3, BystanderKept
<1>10. Allowed(pending_[c], uplink[c]) \in {0, 1}
  BY DEF Allowed
<1> HIDE DEF q, p, v
<1>11. CASE ~IsResponse(p)
  <2>1. UNCHANGED clientVars
    BY <1>1, <1>11
  <2>2. \A s \in Sessions : SameClient(s)
    BY <2>1, SameQuiet
  <2>3. 1 \notin AnswersOf(q)
    BY <1>5, <1>11 DEF AnswersOf
  <2>4. Sole(c)'
    <3>1. PICK n \in Int : n = Allowed(pending_[c], uplink[c])
      BY <1>10
    <3>2. Kept(n, c)'
      BY <1>7, <1>8, <2>3, <3>1 DEF Sole
    <3> QED
      BY <2>1, <3>1, <3>2 DEF Sole, clientVars
  <2>5. SInv(c)'
    BY <1>1, <1>4, <1>6, <2>2, <2>4, BystanderKept
  <2>6. ClientShape'
    BY <2>1 DEF ClientShape, clientVars
  <2> QED
    BY <1>4, <1>9, <2>2, <2>5, <2>6 DEF CInv
<1>12. CASE IsResponse(p)
  <2>1. AnswerOK(v, c, p)
    BY <1>5, <1>7, <1>12 DEF SInv, AnswersFit, v, q
  <2>2. 1 \in AnswersOf(q)
    BY <1>5, <1>12, <2>1, AnswerCounted DEF AnswersOf
  <2>3. v.pending = pending_[c] /\ v.shown = ShownRoom(c)
    BY DEF v, View
  <2>4. /\ pending_[c] # NoPending /\ p.command = pending_[c].command
        /\ pending_[c].command \in Commands /\ p.command # UNINITIALIZED
    BY <2>1, <2>3, AsksFacts DEF AnswerOK
  <2>5. Allowed(pending_[c], uplink[c]) = 1 /\ uplink[c] = << >>
    <3>1. Allowed(pending_[c], uplink[c]) # 0
      <4>1. SUFFICES ASSUME Kept(0, c) PROVE FALSE
        BY <1>7 DEF Sole
      <4>2. Balanced(routing, event_queue, event, job_queue, q, 0, c)
        BY <4>1 DEF Kept, q
      <4> QED
        BY <2>2, <4>2, NothingHeld
    <3> QED
      BY <3>1 DEF Allowed
  <2>6. Kept(0, c)'
    <3>1. Kept(1, c) /\ 0 = 1 - (IF 1 \in AnswersOf(q) THEN 1 ELSE 0)
      BY <1>7, <2>2, <2>5 DEF Sole
    <3> QED
      BY <1>8, <3>1
  <2>7. /\ pending_' = [pending_ EXCEPT ![c] = NoPending] /\ UNCHANGED <<running, uplink>>
        /\ IF p.status # "Success" THEN Stay ELSE Succeeds(c, p.command, p)
    BY <1>1, <1>12, <2>4 DEF handle_response, MayBe
  <2>8. \/ Stay /\ After(v, p) = v.shown
        \/ Leave(c) /\ After(v, p) = LOBBY_ROOM_ID
        \/ After(v, p) \in NewRooms /\ Enter(c, After(v, p))
    <3>1. CASE p.status # "Success"
      BY <2>7, <3>1 DEF After
    <3>2. CASE p.status = "Success" /\ p.command = "CMD_CREATE_ROOM"
      BY <2>1, <2>7, <3>2 DEF After, AnswerOK, Succeeds
    <3>3. CASE p.status = "Success" /\ p.command = "CMD_JOIN_ROOM"
      <4>1. v.pending.room_id \in NewRooms
        <5>1. v.pending.command = "CMD_JOIN_ROOM" /\ Asks(v.pending, v.shown)
          BY <2>1, <3>3 DEF AnswerOK
        <5> QED
          BY <5>1, JoinAsked
      <4> QED
        BY <2>3, <2>7, <3>3, <4>1 DEF After, Succeeds
    <3>4. CASE p.status = "Success" /\ p.command = "CMD_LEAVE_ROOM"
      BY <2>7, <3>4 DEF After, Succeeds
    <3>5. CASE p.status = "Success" /\ p.command \in {"CMD_SEND_MESSAGE", "CMD_LOAD_MESSAGE"}
      BY <2>7, <3>5 DEF After, Succeeds
    <3> QED
      BY <2>4, <3>1, <3>2, <3>3, <3>4, <3>5 DEF Commands
  <2>9. /\ pending_'[c] = NoPending
        /\ \A s \in Sessions : s # c => /\ pending_'[s] = pending_[s]
                                        /\ state_'[s] = state_[s] /\ room_id_'[s] = room_id_[s]
    BY <2>7, <2>8 DEF ClientShape, Stay, Leave, Enter
  <2>10. ClientShape'
    <3>1. NewRooms \subseteq RoomIds
      BY RoomNumbers
    <3> QED
      BY <2>7, <2>8, <3>1 DEF ClientShape, Stay, Leave, Enter
  <2>11. /\ ShownRoom(c)' = After(v, p)
         /\ \/ state_'[c] = "LOBBY" /\ room_id_'[c] = NO_ROOM
            \/ state_'[c] = "IN_ROOM" /\ room_id_'[c] \in NewRooms
    <3>1. CASE Stay /\ After(v, p) = v.shown
      BY <1>7, <2>3, <3>1 DEF Stay, ShownRoom, ClientFits
    <3>2. CASE Leave(c) /\ After(v, p) = LOBBY_ROOM_ID
      <4>1. state_'[c] = "LOBBY" /\ room_id_'[c] = NO_ROOM
        BY <3>2 DEF Leave, ClientShape
      <4> QED
        BY <3>2, <4>1 DEF ShownRoom
    <3>3. CASE After(v, p) \in NewRooms /\ Enter(c, After(v, p))
      <4>1. state_'[c] = "IN_ROOM" /\ room_id_'[c] = After(v, p)
        BY <3>3 DEF Enter, ClientShape
      <4> QED
        BY <3>3, <4>1 DEF ShownRoom
    <3> QED
      BY <2>8, <3>1, <3>2, <3>3
  <2>12. Allowed(pending_'[c], uplink'[c]) = 0
    BY <2>9 DEF Allowed
  <2>13. Sole(c)'
    BY <2>6, <2>12 DEF Sole
  <2>14. Link(c)' = Link(c) /\ Whereabouts(c)' = Whereabouts(c) /\ (Settled(c)' <=> Settled(c))
    BY <1>2 DEF Link, Whereabouts, InRooms, LobbyDue, Settled
  <2>15. Rests(c)'
    <3>1. PICK u : u = View(c)'
      OBVIOUS
    <3>2. u.at = v.at /\ u.shown = After(v, p) /\ u.cur = v.cur
      BY <1>2, <2>11, <2>14, <3>1 DEF View, v
    <3>3. RestsAt(u, c, 0)
      BY <2>1, <3>2 DEF RestsAt, AnswerOK
    <3> QED
      BY <2>12, <3>1, <3>3 DEF Rests
  <2>16. ClientFits(c)'
    BY <1>7, <2>5, <2>7, <2>9, <2>11, <2>14 DEF ClientFits
  <2>17. Patient(c)'
    <3>1. Patient(c)
      BY <1>7 DEF SInv
    <3> QED
      BY <2>4, <2>14, <3>1 DEF Patient
  <2>18. SInv(c)'
    BY <1>1, <1>6, <2>6, <2>13, <2>15, <2>16, <2>17, ClientMoves
  <2>19. \A s \in Sessions : s # c => SameClient(s)
    BY <2>7, <2>9 DEF SameClient
  <2> QED
    BY <1>4, <1>9, <2>10, <2>18, <2>19 DEF CInv
<1> QED
  BY <1>11, <1>12

\* A plan before its first action.
LEMMA NothingRun ==
  ASSUME NEW acts, DOMAIN acts \subseteq Nat \ {0}, NEW here
  PROVE  Entered(acts, 0) = {} /\ Where(acts, 0, here) = {here}
BY DEF Entered, Left, Where

\* dispatch_packet ignores the room of a packet that creates one.
LEMMA CreateNamesNoRoom ==
  ASSUME NEW s, DispatchPacket(s, "CMD_CREATE_ROOM", NO_ROOM)
  PROVE  DispatchPacket(s, "CMD_CREATE_ROOM", LOBBY_ROOM_ID)
BY DEF DispatchPacket, PacketEvent, Plan, FirstRoom

\* Every other request names a room.
LEMMA NamesARoom ==
  ASSUME NEW p, NEW shown, Asks(p, shown), p.room_id \notin RoomIds
  PROVE  p = [command |-> "CMD_CREATE_ROOM", room_id |-> NO_ROOM]
<1>1. ASSUME NEW r \in NewRooms, NEW cmd PROVE p # [command |-> cmd, room_id |-> r]
  BY RoomNumbers
<1> QED
  BY <1>1, Zenon DEF Asks

\* dispatch_packet makes an event of what the client has asked for.
LEMMA FirstStage ==
  ASSUME NEW v, v.link = "open", NEW s, Asks(v.pending, v.shown), v.at = {v.shown},
         s \notin Hurried => v.cur = v.shown,
         NEW e \in {PacketEvent(v.pending.command, s, v.pending.room_id),
                    RoomNotFoundEvent(v.pending.command, s)},
         DOMAIN e.actions \subseteq Nat \ {0}
  PROVE  StageOK(v, s, e, e.current_action)
<1>1. /\ e.current_action = 0 /\ e.response_data = EmptyBody
      /\ e.initial_command = v.pending.command
      /\ \/ e.actions = Plan(v.pending.command, v.pending.room_id)
         \/ e.actions = NotFoundPlan /\ e.result_code = "RoomNotFound"
  BY DEF PacketEvent, RoomNotFoundEvent, NewEvent, EmptyEvent, NotFoundPlan
<1>2. Planned(v.pending, e)
  BY <1>1 DEF Planned
<1>3. Entered(e.actions, 0) = {} /\ Where(e.actions, 0, v.shown) = {v.shown}
  BY NothingRun
<1> QED
  BY <1>1, <1>2, <1>3 DEF StageOK, Present

\* The server reads the request that the client has written.
LEMMA HandleRequestSound ==
  ASSUME Sound, ClientShape, NEW c \in Sessions, HandleRequest(c)
  PROVE  IInv' /\ RInv' /\ CInv' /\ ClientShape'
<1> DEFINE v == View(c)
<1>1. /\ uplink[c] # << >> /\ running[c]
      /\ DispatchPacket(c, Head(uplink[c]).command, Head(uplink[c]).room_id)
      /\ uplink' = [uplink EXCEPT ![c] = Tail(uplink[c])]
      /\ UNCHANGED <<running, state_, room_id_, pending_>>
  BY DEF HandleRequest
<1>2. /\ SInv(c) /\ ClientFits(c) /\ IInv /\ RInv
      /\ pending_[c] # NoPending /\ uplink[c] = << pending_[c] >>
      /\ Asks(pending_[c], ShownRoom(c))
  BY <1>1 DEF Sound, CInv, SInv, ClientFits
<1>3. PICK req : req = pending_[c]
  OBVIOUS
<1>4. PICK cmd \in Commands : cmd = req.command
  BY <1>2, <1>3, AsksFacts
<1>5. Head(uplink[c]) = req /\ Tail(uplink[c]) = << >> /\ DispatchPacket(c, cmd, req.room_id)
  BY <1>1, <1>2, <1>3, <1>4
<1>6. PICK room \in RoomIds : DispatchPacket(c, cmd, room) /\ Plan(cmd, room) = Plan(cmd, req.room_id)
  <2>1. CASE req.room_id \in RoomIds
    BY <1>5, <2>1
  <2>2. CASE req.room_id \notin RoomIds
    <3>1. req = [command |-> "CMD_CREATE_ROOM", room_id |-> NO_ROOM]
      BY <1>2, <1>3, <2>2, NamesARoom
    <3>2. cmd = "CMD_CREATE_ROOM" /\ req.room_id = NO_ROOM
      BY <1>4, <3>1
    <3> QED
      BY <1>5, <3>2, CreateNamesNoRoom, ConstantFacts DEF Plan
  <2> QED
    BY <2>1, <2>2
<1> DEFINE e == PacketEvent(cmd, c, room)
           f == RoomNotFoundEvent(cmd, c)
           x == [to |-> find_worker(FirstRoom(cmd, room)), event |-> e]
<1>7. /\ main = MainIdle /\ conn[c] = "open"
      /\ routing' = routing \/ routing' = [routing EXCEPT ![MAIN_THREAD] = x]
      /\ post_event(LOBBY_WORKER_ID, f) \/ UNCHANGED event_queue
      /\ UNCHANGED <<conn, main, current_room, sessions, rooms, current_sessions, event, pc,
                     job_queue, sent>>
  BY <1>6 DEF DispatchPacket, MainFree, route_event, roomVars, workerVars, dbVars
<1>8. IInv' /\ RInv'
  BY <1>2, <1>6, DispatchPacketInv, DispatchPacketRoutes
<1>9. RoomsExact' /\ Fresh'
  BY <1>7, RoomsStay DEF roomVars
<1>10. /\ uplink'[c] = << >> /\ uplink' \in [Sessions -> Seq(Requests)]
       /\ \A s \in Sessions : s # c => uplink'[s] = uplink[s]
  <2>1. << >> \in Seq(Requests)
    OBVIOUS
  <2> QED
    BY <1>1, <1>5, <2>1 DEF ClientShape
<1>11. ClientShape'
  BY <1>1, <1>10 DEF ClientShape
<1>12. /\ x.event = e
       /\ e.session = c /\ e.fd = NoSession /\ e.initial_command = cmd /\ e.current_action = 0
       /\ f.session = c /\ f.fd = NoSession /\ f.initial_command = cmd /\ f.current_action = 0
       /\ e.actions = Plan(cmd, room) /\ f.actions = NotFoundPlan
  BY DEF PacketEvent, RoomNotFoundEvent, NewEvent, EmptyEvent, NotFoundPlan
<1>13. cmd # UNINITIALIZED
  BY DEF Commands, UNINITIALIZED
<1>14. DOMAIN e.actions \subseteq Nat \ {0} /\ DOMAIN f.actions \subseteq Nat \ {0}
  <2>1. DOMAIN Plan(cmd, room) \subseteq Nat \ {0}
    BY CreatePlanFacts, JoinPlan, LeavePlan, OtherPlans DEF Plan, Commands
  <2> QED
    BY <1>12, <2>1, OtherPlans
<1>15. /\ e = PacketEvent(req.command, c, req.room_id) /\ f = RoomNotFoundEvent(req.command, c)
  BY <1>4, <1>6 DEF PacketEvent
<1> HIDE DEF e, f, x
<1>16. \A s \in Sessions : Unmoved(s)
  BY <1>7 DEF Unmoved, Link
<1>17. ASSUME NEW s \in Sessions, NEW u, RidesWell(u, s, e), RidesWell(u, s, f)
       PROVE  QuietRouted(u, s) /\ QuietQueued(u, s) /\ LobbyQuiet(s)
  <2>1. QuietRouted(u, s)
    BY <1>2, <1>7, <1>12, <1>17, ConstantFacts, RouteQuietly
  <2>2. CASE post_event(LOBBY_WORKER_ID, f)
    <3>1. WaitsWell(u, s, f) /\ ~IsAccept(f, s)
      BY <1>17 DEF RidesWell, WaitsWell
    <3>2. QuietQueued(u, s) /\ LobbyQuiet(s)
      BY <1>2, <1>7, <2>2, <3>1, ConstantFacts, PostQuietly
    <3> QED
      BY <2>1, <3>2
  <2>3. CASE UNCHANGED event_queue
    BY <1>7, <2>1, <2>3, SameQuiet
  <2> QED
    BY <1>7, <2>2, <2>3
<1>18. ASSUME NEW s \in Sessions, s # c PROVE SInv(s)'
  <2>1. RidesWell(View(s), s, e) /\ RidesWell(View(s), s, f)
    BY <1>12, <1>18, SessionAssumption DEF RidesWell, Fits, Boarded, IsRequestOf, IsAccept
  <2>2. SInv(s) /\ Sole(s)
    BY DEF Sound, CInv, SInv
  <2>3. SameClient(s)
    BY <1>1, <1>10, <1>18 DEF SameClient
  <2>4. Sole(s)'
    <3>1. PICK n \in Int : n = Allowed(pending_[s], uplink[s])
      BY DEF Allowed
    <3>2. Kept(n + (IF s = c THEN 1 ELSE 0), s)'
      BY <1>2, <1>6, <2>2, <3>1, DispatchKeeps DEF Sole
    <3>3. Kept(n, s)'
      BY <1>18, <3>2
    <3> QED
      BY <1>1, <1>10, <1>18, <3>1, <3>3 DEF Sole
  <2>5. QuietJobs(View(s), s) /\ QuietHand(View(s), s) /\ QuietSent(View(s), s)
    BY <1>7, SameQuiet
  <2> QED
    BY <1>2, <1>8, <1>16, <1>17, <2>1, <2>2, <2>3, <2>4, <2>5, UnmovedKept
<1>19. SInv(c)'
  <2>1. Link(c) = "open" /\ v.link = "open" /\ v.pending = req /\ v.shown = ShownRoom(c)
    BY <1>3, <1>7, ClosingFacts DEF View
  <2>2. Allowed(pending_[c], uplink[c]) = 0
    BY <1>1 DEF Allowed
  <2>3. v.at = {v.shown} /\ (c \notin Hurried => v.cur = v.shown)
    BY <1>2, <2>1, <2>2 DEF SInv, Rests, RestsAt, Present
  <2>4. RidesWell(v, c, e) /\ RidesWell(v, c, f)
    <3>1. StageOK(v, c, e, e.current_action) /\ StageOK(v, c, f, f.current_action)
      <4> HIDE DEF v
      <4> QED
        BY <1>2, <1>3, <1>14, <1>15, <2>1, <2>3, FirstStage
    <3> HIDE DEF v
    <3> QED
      BY <1>12, <1>13, <3>1, SessionAssumption DEF RidesWell, Fits, Boarded, IsRequestOf, IsAccept
  <2>5. QuietRouted(v, c) /\ QuietQueued(v, c) /\ LobbyQuiet(c)
    BY <1>17, <2>4
  <2>6. QuietJobs(v, c) /\ QuietHand(v, c)
    BY <1>7, SameQuiet
  <2>7. /\ AcceptFirst(c)' /\ (LobbyDue(c)' <=> LobbyDue(c))
        /\ Settled(c) => Settled(c)'
    <3>1. AcceptFirst(c) /\ Unmoved(c)
      BY <1>2, <1>16 DEF SInv
    <3> QED
      BY <1>2, <1>8, <2>1, <2>5, <3>1, LobbyFacts
  <2>8. ShownRoom(c)' = ShownRoom(c) /\ Link(c)' = Link(c)
    BY <1>1, <1>7 DEF ShownRoom, Link
  <2>9. View(c)' = View(c)
    BY <1>1, <1>7, <2>7, <2>8 DEF View, Whereabouts, InRooms
  <2>10. PICK u : u = View(c)
    OBVIOUS
  <2>11. PlacesFit(c)'
    <3>1. /\ u = View(c)' /\ StillThere(View(c), u)
          /\ QuietRouted(u, c) /\ QuietQueued(u, c) /\ QuietJobs(u, c) /\ QuietHand(u, c)
      BY <2>5, <2>6, <2>9, <2>10 DEF StillThere
    <3>2. PlacesFit(c)
      BY <1>2 DEF SInv, PlacesFit
    <3> QED
      BY <3>1, <3>2, PlacesKept
  <2>12. AnswersFit(c)'
    BY <1>2, <1>7, <2>9 DEF SInv, AnswersFit
  <2>13. Allowed(pending_'[c], uplink'[c]) = 1
    BY <1>1, <1>2, <1>10 DEF Allowed
  <2>14. Sole(c)'
    <3>1. Kept(0, c)
      BY <1>2, <2>2 DEF SInv, Sole
    <3>2. Kept(0 + (IF c = c THEN 1 ELSE 0), c)'
      BY <1>2, <1>6, <3>1, DispatchKeeps
    <3> QED
      BY <2>13, <3>2 DEF Sole
  <2>15. Rests(c)'
    BY <2>13 DEF Rests, RestsAt
  <2>16. ClientFits(c)'
    BY <1>1, <1>2, <1>10, <2>8 DEF ClientFits
  <2>17. DueOut(c)'
    BY <1>2, <1>7, <2>7 DEF SInv, DueOut
  <2>18. Patient(c)'
    BY <1>1, <1>2, <2>7, <2>8 DEF SInv, Patient
  <2> QED
    BY <2>7, <2>11, <2>12, <2>14, <2>15, <2>16, <2>17, <2>18 DEF SInv, PlacesFit
<1> QED
  BY <1>8, <1>9, <1>11, <1>18, <1>19 DEF CInv

-----------------------------------------------------------------------------
(***************************************************************************)
(* The invariant holds.                                                    *)
(***************************************************************************)
Agreed == Sound /\ ClientShape

\* The initial state.
LEMMA InitAgreed ==
  ASSUME ChatInit
  PROVE  Agreed
<1>1. Init /\ ClientInit
  BY DEF ChatInit
<1>2. IInv /\ RInv /\ CountsInv
  BY <1>1, InitInv, InitRoutes, InitCounts
<1>3. ClientShape
  <2>1. << >> \in Seq(Requests)
    OBVIOUS
  <2> QED
    BY <1>1, <2>1 DEF ClientInit, ClientShape
<1>4. /\ \A t \in Threads : routing[t].event = EmptyEvent
      /\ \A w \in Workers : event_queue[w] = << >> /\ event[w] = EmptyEvent
      /\ job_queue = << >> /\ main.fd = NoSession
  BY <1>1 DEF Init, NotRouting, MainIdle
<1>5. DOMAIN job_queue = {} /\ \A w \in Workers : DOMAIN event_queue[w] = {}
  BY <1>4
<1>6. RoomsExact
  <2>1. Cardinality({}) = 0
    BY FS_EmptySet
  <2> QED
    BY <1>1, <2>1, ConstantFacts DEF Init, RoomsExact
<1>7. Fresh
  BY <1>4, EmptyFresh DEF Fresh
<1>8. ASSUME NEW s \in Sessions PROVE SInv(s)
  <2>1. /\ running[s] = TRUE /\ state_[s] = "LOBBY" /\ room_id_[s] = NO_ROOM
        /\ pending_[s] = NoPending /\ uplink[s] = << >>
        /\ conn[s] = "none" /\ sent[s] = << >> /\ current_room[s] = LOBBY_ROOM_ID
        /\ received[s] = 0
        /\ \A w \in Workers, r \in RoomIds : sessions[w][r] = {}
    BY <1>1 DEF Init, ClientInit
  <2>2. Link(s) = "none" /\ ShownRoom(s) = LOBBY_ROOM_ID
    BY <1>4, <2>1, SessionAssumption DEF Link, ShownRoom
  <2>3. PlacesFit(s)
    BY <1>4, <1>5, EmptyFits DEF PlacesFit, RoutedFit, JobsFit, QueuedFit, HandsFit
  <2>4. AnswersFit(s)
    BY <2>1 DEF AnswersFit
  <2>5. Sole(s)
    BY <1>2, <2>1, CountsAreKept DEF Sole, Allowed
  <2>6. Whereabouts(s) = {LOBBY_ROOM_ID}
    BY <2>1, <2>2 DEF Whereabouts, InRooms, LobbyDue
  <2>7. Rests(s)
    <3>1. View(s).at = {View(s).shown} /\ (s \notin Hurried => View(s).cur = View(s).shown)
      BY <2>1, <2>2, <2>6 DEF View
    <3> QED
      BY <3>1 DEF Rests, RestsAt
  <2>8. ClientFits(s)
    BY <2>1, <2>2 DEF ClientFits
  <2>9. AcceptFirst(s)
    BY <1>5, ConstantFacts DEF AcceptFirst, FirstOf
  <2>10. DueOut(s) /\ Patient(s)
    BY <2>1, ConstantFacts DEF DueOut, Patient
  <2> QED
    BY <2>3, <2>4, <2>5, <2>7, <2>8, <2>9, <2>10 DEF SInv, PlacesFit
<1> QED
  BY <1>2, <1>3, <1>6, <1>7, <1>8 DEF Agreed, Sound, CInv

\* A step of the threads, a connection that is accepted, a session that is closed.
LEMMA WorkerSound ==
  ASSUME Ample, Sound, IInv', Counted', UNCHANGED clientVars, NEW w \in Workers, WorkerStep(w)
  PROVE  CInv'
<1>1. CASE TakeEvent(w) \/ FinishEvent(w) \/ AnswerFailed(w) \/ SendResponse(w)
  BY <1>1, TakeEventSound, FinishEventSound, AnswerFailedSound, SendResponseSound
<1>2. CASE RequestLeaveRoom(w) \/ CreateRoom(w) \/ JoinRoom(w) \/ SetCurrentRoom(w)
  BY <1>2, RequestLeaveRoomSound, CreateRoomSound, JoinRoomSound, SetCurrentRoomSound
<1>3. CASE LeaveRoom(w) \/ DisconnectSession(w) \/ SendMessage(w) \/ SentToAll(w) \/ SaveMessage(w)
  BY <1>3, LeaveRoomSound, DisconnectSessionSound, SendMessageSound, SentToAllSound, SaveMessageSound
<1>4. CASE RequestDbCreateRoom(w) \/ RequestDbLoadMessage(w)
  BY <1>4, RequestDbSound
<1>5. CASE \E s \in Sessions : SendTo(w, s)
  BY <1>5, SendToSound
<1> QED
  BY <1>1, <1>2, <1>3, <1>4, <1>5 DEF WorkerStep

\* Every step that the threads of the server take by themselves.
LEMMA ServerSound ==
  ASSUME Ample, Sound, IInv', Counted', UNCHANGED clientVars, ServerStep
  PROVE  CInv'
<1>1. CASE MainStep
  BY <1>1, DisconnectSound, RemoveSessionSound DEF MainStep
<1>2. CASE \E t \in Threads : PostRouted(t)
  BY <1>2, PostRoutedSound
<1>3. CASE \E w \in Workers : WorkerStep(w)
  BY <1>3, WorkerSound
<1>4. CASE DbStep
  BY <1>4, DbCreateRoomSound, DbCreateRoomFailsSound, DbLoadHistorySound, DbSaveMessageSound
  DEF DbStep, Ample
<1> QED
  BY <1>1, <1>2, <1>3, <1>4 DEF ServerStep

\* Every step keeps the invariant.
LEMMA NextAgreed ==
  ASSUME Ample, Agreed, [ChatNext]_allVars
  PROVE  Agreed'
<1>1. Sound /\ ClientShape /\ IInv /\ RInv
  BY DEF Agreed, Sound
<1>2. ASSUME UNCHANGED clientVars,
             \/ ServerStep
             \/ \E s \in Sessions : AcceptClient(s) \/ CloseSession(s)
      PROVE  IInv' /\ RInv' /\ Counted' /\ ClientShape'
  <2>1. IInv' /\ RInv'
    BY <1>1, <1>2, StepInv, StepRoutes
  <2>2. ASSUME NEW s \in Sessions PROVE Sole(s)'
    <3>1. PICK n \in Int : n = Allowed(pending_[s], uplink[s])
      BY DEF Allowed
    <3>2. Kept(n, s)
      BY <1>1, <3>1 DEF Sound, CInv, SInv, Sole
    <3>3. Kept(n, s)'
      BY <1>1, <1>2, <2>1, <3>2, StepCounts
    <3> QED
      BY <1>2, <3>1, <3>3 DEF Sole, clientVars
  <2>3. ClientShape'
    BY <1>1, <1>2 DEF ClientShape, clientVars
  <2> QED
    BY <2>1, <2>2, <2>3 DEF Counted
<1>3. CASE ServerStep /\ UNCHANGED clientVars
  BY <1>1, <1>2, <1>3, ServerSound DEF Agreed, Sound
<1>4. ASSUME NEW s \in Sessions, Accept(s) PROVE Agreed'
  BY <1>1, <1>2, <1>4, AcceptSound DEF Agreed, Sound, Accept
<1>5. ASSUME NEW s \in Sessions, HangUp(s) PROVE Agreed'
  BY <1>1, <1>2, <1>5, HangUpSound DEF Agreed, Sound, HangUp
<1>6. ASSUME NEW s \in Sessions,
             Request(s) \/ Exit(s) \/ Vanish(s) \/ HandlePacket(s) \/ HandleRequest(s)
      PROVE  Agreed'
  BY <1>1, <1>6, RequestSound, GoneSound, HandlePacketSound, HandleRequestSound DEF Agreed, Sound
<1>7. CASE UNCHANGED allVars
  <2>1. UNCHANGED AtTheServer /\ sent' = sent /\ UNCHANGED clientVars
    BY <1>7 DEF allVars, vars, AtTheServer
  <2>2. UNCHANGED <<routing, event_queue, event, job_queue>>
    BY <2>1 DEF AtTheServer
  <2>3. IInv' /\ RInv' /\ RoomsExact' /\ Fresh'
    BY <1>1, <2>1, ServerStays DEF IInv, StateTypeOK
  <2>4. ASSUME NEW s \in Sessions PROVE SInv(s)'
    <3>1. Sole(s)
      BY <1>1 DEF Sound, CInv, SInv
    <3>2. Sole(s)'
      BY <2>1, <2>2, <3>1 DEF Sole, Kept, clientVars
    <3> QED
      BY <1>1, <2>1, <2>3, <3>2, SameQuiet, BystanderKept
  <2>5. ClientShape'
    BY <1>1, <2>1 DEF ClientShape, clientVars
  <2> QED
    BY <2>3, <2>4, <2>5 DEF Agreed, Sound, CInv
<1> QED
  BY <1>3, <1>4, <1>5, <1>6, <1>7 DEF ChatNext

\* Client and server agree in every reachable state.
LEMMA Agreement == Ample => (ChatSpec => []Agreed)
<1> SUFFICES ASSUME Ample PROVE ChatSpec => []Agreed
  OBVIOUS
<1>1. ChatInit => Agreed
  BY InitAgreed
<1>2. Agreed /\ [ChatNext]_allVars => Agreed'
  BY NextAgreed
<1> QED
  BY <1>1, <1>2, PTL DEF ChatSpec

-----------------------------------------------------------------------------
(***************************************************************************)
(* What the invariant says to the users.                                   *)
(***************************************************************************)
\* A client that waits for nothing has been let in, and is where it says.
LEMMA AtRestFacts ==
  ASSUME Agreed, NEW s \in Sessions, AtRest(s)
  PROVE  /\ InRooms(s) = {ShownRoom(s)}
         /\ s \notin Hurried => current_room[s] = ShownRoom(s)
         /\ s \in Users
<1>1. /\ running[s] /\ pending_[s] = NoPending /\ conn[s] = "open"
      /\ ~IsAccept(event[LOBBY_WORKER_ID], s)
      /\ \A i \in DOMAIN event_queue[LOBBY_WORKER_ID] :
           ~IsAccept(event_queue[LOBBY_WORKER_ID][i], s)
  BY DEF AtRest, Settled
<1>2. ClientFits(s) /\ Rests(s)
  BY DEF Agreed, Sound, CInv, SInv
<1>3. Link(s) \in {"none", "open"}
  BY <1>1, <1>2 DEF ClientFits
<1>4. Link(s) = "open"
  BY <1>1, <1>3 DEF Link
<1>5. ~LobbyDue(s)
  BY <1>1, <1>4 DEF LobbyDue, Waits
<1>6. Present(View(s)) /\ Allowed(pending_[s], uplink[s]) = 0
  BY <1>1, <1>4 DEF Present, View, Allowed
<1>7. View(s).at = {View(s).shown} /\ (s \notin Hurried => View(s).cur = View(s).shown)
  BY <1>2, <1>6 DEF Rests, RestsAt
<1>8. Whereabouts(s) = {ShownRoom(s)} /\ (s \notin Hurried => current_room[s] = ShownRoom(s))
  BY <1>7 DEF View
<1> QED
  BY <1>1, <1>5, <1>8 DEF Whereabouts, Users

\* What a client has on the wire is one request at most.
LEMMA OneAtMost ==
  ASSUME NEW q, NEW p, q = << >> \/ q = << p >>
  PROVE  Len(q) <= 1
<1>1. CASE q = << >>
  BY <1>1
<1>2. CASE q = << p >>
  BY <1>2
<1> QED
  BY <1>1, <1>2

\* A client of the terminal program has one request on the wire at most, and shows a
\* room exactly while it is in one, whatever the server sends and when.
THEOREM ClientTyped == Ample => (ChatSpec => []ClientTypeOK)
<1>1. Agreed => ClientTypeOK
  <2> SUFFICES ASSUME Agreed PROVE ClientTypeOK
    OBVIOUS
  <2>1. ClientShape
    BY DEF Agreed
  <2>2. ASSUME NEW s \in Sessions
        PROVE  /\ Len(uplink[s]) <= 1
               /\ room_id_[s] \in FIRST_ROOM_ID..LastRoomId <=> state_[s] = "IN_ROOM"
    <3>1. ClientFits(s)
      BY DEF Agreed, Sound, CInv, SInv
    <3>2. uplink[s] = << >> \/ uplink[s] = << pending_[s] >>
      BY <3>1 DEF ClientFits
    <3>3. Len(uplink[s]) <= 1
      BY <3>2, OneAtMost
    <3>4. NO_ROOM \notin NewRooms
      BY RoomNumbers
    <3>5. room_id_[s] \in NewRooms <=> state_[s] = "IN_ROOM"
      BY <3>1, <3>4 DEF ClientFits
    <3> QED
      BY <3>3, <3>5 DEF NewRooms
  <2> QED
    BY <2>1, <2>2 DEF ClientTypeOK, ClientShape
<1> QED
  BY <1>1, Agreement, PTL

\* A client that waits for nothing and the server agree on where the user is: after any
\* number of moves between rooms of different workers, the session is in the room the
\* client shows and in no other.
THEOREM ViewsAgree == Ample => (ChatSpec => []ViewAgreement)
<1>1. Agreed => ViewAgreement
  <2> SUFFICES ASSUME Agreed PROVE ViewAgreement
    OBVIOUS
  <2> SUFFICES ASSUME NEW s \in Sessions, AtRest(s) PROVE RoomsOf(s) = {ShownRoom(s)}
    BY DEF ViewAgreement
  <2>1. InRooms(s) = {ShownRoom(s)}
    BY AtRestFacts
  <2>2. \A w \in Workers, r \in RoomIds : s \in sessions[w][r] => r \in rooms[w]
    BY DEF Agreed, Sound, CInv, RoomsExact
  <2>3. RoomsOf(s) = InRooms(s)
    BY <2>2 DEF RoomsOf, InRooms
  <2> QED
    BY <2>1, <2>3
<1> QED
  BY <1>1, Agreement, PTL

\* User::current_room_ is the room the client shows, if no client asks for anything
\* before the lobby has taken it in.
THEOREM CurrentRoomsAgree == Ample /\ Hurried = {} => (ChatSpec => []CurrentRoomAgreement)
<1> SUFFICES ASSUME Ample, Hurried = {} PROVE ChatSpec => []CurrentRoomAgreement
  OBVIOUS
<1>1. Agreed => CurrentRoomAgreement
  <2> SUFFICES ASSUME Agreed PROVE CurrentRoomAgreement
    OBVIOUS
  <2> QED
    BY AtRestFacts DEF CurrentRoomAgreement
<1> QED
  BY <1>1, Agreement, PTL

\* send_message passes over a member only while that member is on its way to another
\* room, or its client has not been told yet.
THEOREM NobodyPassedOver == Ample /\ Hurried = {} => (ChatSpec => []SkippedOnlyWhileMoving)
<1> SUFFICES ASSUME Ample, Hurried = {} PROVE ChatSpec => []SkippedOnlyWhileMoving
  OBVIOUS
<1>1. Agreed => SkippedOnlyWhileMoving
  <2> SUFFICES ASSUME Agreed PROVE SkippedOnlyWhileMoving
    OBVIOUS
  <2>1. ASSUME NEW w \in Workers, NEW s \in audience[w].to, NEW room,
               AtRest(s), ShownRoom(s) = room
        PROVE  Receives(s, room)
    <3>1. s \in Sessions
      BY DEF Agreed, Sound, IInv, StateTypeOK
    <3> QED
      BY <2>1, <3>1, AtRestFacts DEF Receives
  <2> QED
    BY <2>1 DEF SkippedOnlyWhileMoving
<1> QED
  BY <1>1, Agreement, PTL

\* A client gets no answer that it did not ask for, and none to another command.
THEOREM AnswersMatched == Ample => (ChatSpec => []AnswersMatch)
<1>1. Agreed => AnswersMatch
  <2> SUFFICES ASSUME Agreed PROVE AnswersMatch
    OBVIOUS
  <2> SUFFICES ASSUME NEW s \in Sessions, running[s], sent[s] # << >>, IsResponse(Head(sent[s]))
               PROVE  pending_[s] # NoPending /\ Head(sent[s]).command = pending_[s].command
    BY DEF AnswersMatch
  <2>1. ClientFits(s) /\ AnswersFit(s) /\ sent[s] \in Seq(Packets)
    BY DEF Agreed, Sound, CInv, SInv, IInv, StateTypeOK
  <2>2. Present(View(s))
    BY <2>1 DEF ClientFits, Present, View
  <2>3. 1 \in DOMAIN sent[s] /\ Head(sent[s]) = sent[s][1]
    BY <2>1
  <2>4. AnswerOK(View(s), s, Head(sent[s]))
    BY <2>1, <2>2, <2>3 DEF AnswersFit
  <2>5. View(s).pending = pending_[s]
    BY DEF View
  <2> QED
    BY <2>4, <2>5, AsksFacts DEF AnswerOK
<1> QED
  BY <1>1, Agreement, PTL
=============================================================================
