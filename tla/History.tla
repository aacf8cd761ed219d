------------------------------ MODULE History ------------------------------
(***************************************************************************)
(* The messages of one room as one of its members sees them: live, as the  *)
(* room's worker broadcasts them, and from the database, a page with the   *)
(* answer to JOIN and older pages with /load.  In between are the queues   *)
(* of the room's worker, the lobby's worker and the database thread, a     *)
(* database connection that may break, and the socket, which keeps order.  *)
(*                                                                         *)
(* RoomServer has the plans in full; this module follows them through for  *)
(* one client, with the room kept open by the members who write.  A        *)
(* request is dispatched as it is sent: nothing else of the client happens *)
(* in between that the server could see.                                   *)
(***************************************************************************)
EXTENDS MessageFormat, FiniteSets, SequencesExt

CONSTANTS
  Room, Elsewhere,      \* the room, and another one that writes to the same table
  PageSize,             \* LIMIT of kSelectRecent
  Faults,               \* the database may refuse a query or lose the connection
  MaxMessages,          \* bound: messages sent in the room
  MaxElsewhere,         \* bound: messages sent in the other one
  MaxRequests           \* bound: requests of the client

ASSUME RoomsAssumption  == Room # Elsewhere
ASSUME PageAssumption   == PageSize \in Nat \ {0}
ASSUME FaultsAssumption == Faults \in BOOLEAN
ASSUME LimitsAssumption == {MaxMessages, MaxElsewhere, MaxRequests} \subseteq Nat

VARIABLES
  room_events,          \* the queue of the room's worker
  lobby_events,         \* the queue of the lobby's worker
  in_room, in_lobby,    \* the client's session is in that room's table
  current_room,         \* User::current_room_: "lobby" or "room"
  jobs,                 \* DBWorker::job_queue_
  rows,                 \* the table messages; only the order of the ids matters
  alive,                \* PQstatus(conn_) = CONNECTION_OK
  socket,               \* packets for the client
  state,                \* Client::state_
  pending,              \* Client::pending_
  oldest_message_id,    \* Client::oldest_message_id_
  pages,                \* the pages on the screen since JOIN, JOIN's own first
  live,                 \* the messages on the screen since JOIN that were broadcast
  offered,              \* messages broadcast to the client during this stay
  sent, written, requests       \* counters, for the bounds

workerVars == <<room_events, lobby_events, in_room, in_lobby, current_room>>
dbVars     == <<jobs, rows, alive>>
screenVars == <<state, oldest_message_id, pages, live>>
countVars  == <<sent, written, requests>>
vars == <<room_events, lobby_events, in_room, in_lobby, current_room, jobs, rows, alive,
          socket, state, pending, oldest_message_id, pages, live, offered, sent, written,
          requests>>

NONE == "none"

\* numeric_limits<int64_t>::max(): above every id.
MaxId  == 2 * (MaxMessages + MaxElsewhere)
NewestCursor == MaxId + 1

Event(cmd, next, arg) ==
  [command |-> cmd, next |-> next, arg |-> arg, status |-> "None", body |-> << >>]

Response(e, status) ==
  [type |-> "PKT_RESPONSE", command |-> e.command, status |-> status, body |-> e.body]

Broadcast(m) == [type |-> "PKT_BROADCAST", msg |-> m]

-----------------------------------------------------------------------------
(***************************************************************************)
(* The database.                                                           *)
(***************************************************************************)
Attempt(done, ok, up) == [done |-> done, ok |-> ok, alive |-> up]

\* PQexecParams: answered; refused by the server; the connection lost before
\* the statement was done, or after it; a connection already lost.
exec_once(up) ==
  IF ~up    THEN {Attempt(FALSE, FALSE, FALSE)} ELSE
  IF Faults THEN {Attempt(TRUE, TRUE, TRUE), Attempt(FALSE, FALSE, TRUE),
                  Attempt(FALSE, FALSE, FALSE), Attempt(TRUE, FALSE, FALSE)}
            ELSE {Attempt(TRUE, TRUE, TRUE)}

\* mutant: a failed statement is repeated although the connection is up, and twice.
exec_Insistent(up) ==
  {<<a, b, c>> : a \in exec_once(up), b \in exec_once(TRUE), c \in exec_once(TRUE)}

\* The attempts of one exec.  After a lost connection there is a second one if
\* PQreset brings the connection back.
exec(up) ==
  UNION {IF a.ok \/ a.alive THEN {<<a>>}
         ELSE {<<a>>} \cup {<<a, b>> : b \in exec_once(TRUE)} : a \in exec_once(up)}

\* How often a statement sent with these attempts was done.
TimesDone(attempts) == Cardinality({i \in DOMAIN attempts : attempts[i].done})

Row(id, room, m) == [id |-> id, room |-> room, msg |-> m]

\* mutant: the cursor's own row is in the page.
Before_Inclusive(id, cursor) == id <= cursor

Before(id, cursor) == id < cursor

\* kSelectRecent goes through the table from the newest row back: the page after
\* each row.  It takes those of the room before the cursor, up to its LIMIT.
scan(cursor) ==
  LET page[i \in 0..Len(rows)] ==
        IF i = 0 THEN << >>
        ELSE LET p == page[i - 1]
                 r == rows[Len(rows) + 1 - i] IN
             IF r.room = Room /\ Before(r.id, cursor) /\ Len(p) < PageSize
               THEN Append(p, r) ELSE p
  IN  page

Recent(cursor) == scan(cursor)[Len(rows)]

\* to_messages.  All members write under one name, and the clock is left out.
ToMessage(r) ==
  [id |-> r.id, sender_id |-> 1, created_epoch |-> 0,
   sender_nick |-> <<"tempnickname">>, content |-> <<r.msg>>]

to_messages(page) == [i \in DOMAIN page |-> ToMessage(page[i])]

\* process_job, and for LoadHistory the callback: the event goes on at the room.
ProcessJob ==
  LET job == Head(jobs) IN
  /\ jobs # << >>
  /\ jobs' = Tail(jobs)
  /\ \E attempts \in exec(alive) :
       LET last == attempts[Len(attempts)]
           n    == TimesDone(attempts) IN
       /\ alive' = last.alive
       /\ \/ /\ job.type = "SaveMessage"
             /\ rows' = rows \o [i \in 1..n |-> Row(Len(rows) + i, job.room, job.msg)]
             /\ UNCHANGED room_events
          \/ /\ job.type = "LoadHistory"
             /\ room_events' = Append(room_events,
                  [job.event EXCEPT
                     !.next   = "SEND_RESPONSE",
                     !.status = IF last.ok THEN "Success" ELSE "DBError",
                     !.body   = IF last.ok THEN serialize(to_messages(Recent(job.cursor)))
                                           ELSE << >>])
             /\ UNCHANGED rows
  /\ UNCHANGED <<lobby_events, in_room, in_lobby, current_room, socket, screenVars, pending,
                 offered, countVars>>

\* mutant: 0 is taken for an id.
cursor_of_Raw(arg) == arg

\* request_db_load_message: no cursor, or 0, means from the newest.
cursor_of(arg) == IF arg <= 0 THEN NewestCursor ELSE arg

SaveJob(room, m) == [type |-> "SaveMessage", room |-> room, msg |-> m]
LoadJob(e)  == [type |-> "LoadHistory", cursor |-> cursor_of(e.arg), event |-> e]

-----------------------------------------------------------------------------
(***************************************************************************)
(* The room's worker.                                                      *)
(***************************************************************************)
AtRoom(cmd, next) ==
  /\ room_events # << >>
  /\ Head(room_events).command = cmd /\ Head(room_events).next = next

\* SEND_MESSAGE: to every other member whose current_room_ is this room.
SendMessage ==
  LET m == Head(room_events).arg IN
  /\ AtRoom("CMD_SEND_MESSAGE", "SEND_MESSAGE")
  /\ room_events' = [room_events EXCEPT ![1].next = "SAVE_MESSAGE"]
  /\ IF in_room /\ current_room = "room"
       THEN socket' = Append(socket, Broadcast(m)) /\ offered' = offered \cup {m}
       ELSE UNCHANGED <<socket, offered>>
  /\ UNCHANGED <<lobby_events, in_room, in_lobby, current_room, dbVars, screenVars, pending,
                 countVars>>

\* SAVE_MESSAGE posts a job without a callback; SEND_RESPONSE goes to the sender.
SaveMessage ==
  /\ AtRoom("CMD_SEND_MESSAGE", "SAVE_MESSAGE")
  /\ jobs' = Append(jobs, SaveJob(Room, Head(room_events).arg))
  /\ room_events' = Tail(room_events)
  /\ UNCHANGED <<lobby_events, in_room, in_lobby, current_room, rows, alive, socket,
                 screenVars, pending, offered, countVars>>

\* JOIN_ROOM, then REQUEST_LEAVE_ROOM.
JoinRoom ==
  /\ AtRoom("CMD_JOIN_ROOM", "JOIN_ROOM")
  /\ in_room' = TRUE /\ current_room' = "room"
  /\ lobby_events' = Append(lobby_events, [Head(room_events) EXCEPT !.next = "LEAVE_ROOM"])
  /\ room_events' = Tail(room_events)
  /\ UNCHANGED <<in_lobby, dbVars, socket, screenVars, pending, offered, countVars>>

LoadMessage ==
  /\ AtRoom("CMD_LOAD_MESSAGE", "REQUEST_DB_LOAD_MESSAGE")
  /\ jobs' = Append(jobs, LoadJob(Head(room_events)))
  /\ room_events' = Tail(room_events)
  /\ UNCHANGED <<lobby_events, in_room, in_lobby, current_room, rows, alive, socket,
                 screenVars, pending, offered, countVars>>

LeaveRoom ==
  /\ AtRoom("CMD_LEAVE_ROOM", "LEAVE_ROOM")
  /\ in_room' = FALSE
  /\ socket' = Append(socket, Response(Head(room_events),
                                       IF in_room THEN "Success" ELSE "UserNotFound"))
  /\ offered' = {}
  /\ room_events' = Tail(room_events)
  /\ UNCHANGED <<lobby_events, in_lobby, current_room, dbVars, screenVars, pending, countVars>>

\* SEND_RESPONSE of a plan that has been to the database, or the answer to its failure.
SendResponse ==
  /\ room_events # << >>
  /\ Head(room_events).next = "SEND_RESPONSE"
  /\ socket' = Append(socket, Response(Head(room_events), Head(room_events).status))
  /\ room_events' = Tail(room_events)
  /\ UNCHANGED <<lobby_events, in_room, in_lobby, current_room, dbVars, screenVars, pending,
                 offered, countVars>>

-----------------------------------------------------------------------------
(***************************************************************************)
(* The lobby's worker.                                                     *)
(***************************************************************************)
\* The second half of JOIN: LEAVE_ROOM of the lobby, then REQUEST_DB_LOAD_MESSAGE.
LobbyLeave ==
  LET e == Head(lobby_events) IN
  /\ lobby_events # << >> /\ e.command = "CMD_JOIN_ROOM"
  /\ lobby_events' = Tail(lobby_events)
  /\ in_lobby' = FALSE
  /\ IF in_lobby
       THEN jobs' = Append(jobs, LoadJob(e)) /\ UNCHANGED socket
       ELSE socket' = Append(socket, Response(e, "UserNotFound")) /\ UNCHANGED jobs
  /\ UNCHANGED <<room_events, in_room, current_room, rows, alive, screenVars, pending,
                 offered, countVars>>

\* The first half of LEAVE: JOIN_ROOM of the lobby, then REQUEST_LEAVE_ROOM.
LobbyJoin ==
  LET e == Head(lobby_events) IN
  /\ lobby_events # << >> /\ e.command = "CMD_LEAVE_ROOM"
  /\ lobby_events' = Tail(lobby_events)
  /\ in_lobby' = TRUE /\ current_room' = "lobby"
  /\ room_events' = Append(room_events, [e EXCEPT !.next = "LEAVE_ROOM"])
  /\ UNCHANGED <<in_room, dbVars, socket, screenVars, pending, offered, countVars>>

-----------------------------------------------------------------------------
(***************************************************************************)
(* The other members, and another room.                                    *)
(***************************************************************************)
OtherSends ==
  /\ sent < MaxMessages
  /\ sent' = sent + 1
  /\ room_events' = Append(room_events, Event("CMD_SEND_MESSAGE", "SEND_MESSAGE", sent + 1))
  /\ UNCHANGED <<lobby_events, in_room, in_lobby, current_room, dbVars, socket, screenVars,
                 pending, offered, written, requests>>

OtherRoomSaves ==
  /\ written < MaxElsewhere
  /\ written' = written + 1
  /\ jobs' = Append(jobs, SaveJob(Elsewhere, written + 1))
  /\ UNCHANGED <<workerVars, rows, alive, socket, screenVars, pending, offered, sent, requests>>

-----------------------------------------------------------------------------
(***************************************************************************)
(* The client.                                                             *)
(***************************************************************************)
send_request(cmd) ==
  /\ pending = NONE
  /\ pending' = cmd
  /\ requests < MaxRequests
  /\ requests' = requests + 1

Join ==
  /\ state = "LOBBY"
  /\ send_request("CMD_JOIN_ROOM")
  /\ room_events' = Append(room_events, Event("CMD_JOIN_ROOM", "JOIN_ROOM", 0))
  /\ UNCHANGED <<lobby_events, in_room, in_lobby, current_room, dbVars, socket, screenVars,
                 offered, sent, written>>

Load ==
  /\ state = "IN_ROOM"
  /\ send_request("CMD_LOAD_MESSAGE")
  /\ room_events' = Append(room_events,
       Event("CMD_LOAD_MESSAGE", "REQUEST_DB_LOAD_MESSAGE", oldest_message_id))
  /\ UNCHANGED <<lobby_events, in_room, in_lobby, current_room, dbVars, socket, screenVars,
                 offered, sent, written>>

Leave ==
  /\ state = "IN_ROOM"
  /\ send_request("CMD_LEAVE_ROOM")
  /\ lobby_events' = Append(lobby_events, Event("CMD_LEAVE_ROOM", "JOIN_ROOM", 0))
  /\ UNCHANGED <<room_events, in_room, in_lobby, current_room, dbVars, socket, screenVars,
                 offered, sent, written>>

\* print_history: nothing is shown of a body that cannot be parsed.
Shown(body) == IF parse(body).ok THEN parse(body).out ELSE << >>

\* mutant: the cursor stays where it was.
OldestOf_Kept(cursor, page) == cursor

OldestOf(cursor, page) == IF page = << >> THEN cursor ELSE page[Len(page)].id

HandleResponse ==
  LET res  == Head(socket)
      page == Shown(res.body) IN
  /\ socket # << >> /\ res.type = "PKT_RESPONSE"
  /\ socket' = Tail(socket)
  /\ pending' = NONE
  /\ \/ res.status # "Success" /\ UNCHANGED screenVars
     \/ /\ res.status = "Success" /\ res.command = "CMD_JOIN_ROOM"
        /\ state' = "IN_ROOM"
        /\ pages' = <<page>> /\ live' = << >>
        /\ oldest_message_id' = OldestOf(0, page)
     \/ /\ res.status = "Success" /\ res.command = "CMD_LOAD_MESSAGE"
        /\ pages' = Append(pages, page)
        /\ oldest_message_id' = OldestOf(oldest_message_id, page)
        /\ UNCHANGED <<state, live>>
     \/ /\ res.status = "Success" /\ res.command = "CMD_LEAVE_ROOM"
        /\ state' = "LOBBY"
        /\ pages' = << >> /\ live' = << >>
        /\ oldest_message_id' = 0
  /\ UNCHANGED <<workerVars, dbVars, offered, countVars>>

\* handle_broadcast: shown only in the room.
HandleBroadcast ==
  /\ socket # << >> /\ Head(socket).type = "PKT_BROADCAST"
  /\ socket' = Tail(socket)
  /\ live' = IF state = "IN_ROOM" THEN Append(live, Head(socket).msg) ELSE live
  /\ UNCHANGED <<workerVars, dbVars, state, oldest_message_id, pages, pending, offered, countVars>>

-----------------------------------------------------------------------------
Init ==
  /\ room_events = << >> /\ lobby_events = << >>
  /\ in_room = FALSE /\ in_lobby = TRUE /\ current_room = "lobby"
  /\ jobs = << >> /\ rows = << >> /\ alive = TRUE
  /\ socket = << >>
  /\ state = "LOBBY" /\ pending = NONE /\ oldest_message_id = 0
  /\ pages = << >> /\ live = << >> /\ offered = {}
  /\ sent = 0 /\ written = 0 /\ requests = 0

Next ==
  \/ SendMessage \/ SaveMessage \/ JoinRoom \/ LoadMessage \/ LeaveRoom \/ SendResponse
  \/ LobbyLeave \/ LobbyJoin \/ ProcessJob
  \/ OtherSends \/ OtherRoomSaves
  \/ Join \/ Load \/ Leave \/ HandleResponse \/ HandleBroadcast

Spec == Init /\ [][Next]_vars

-----------------------------------------------------------------------------
(***************************************************************************)
(* Properties.                                                             *)
(***************************************************************************)
\* The type of every variable; the cursor of a query is positive.
TypeOK ==
  /\ {in_room, in_lobby, alive} \subseteq BOOLEAN
  /\ current_room \in {"lobby", "room"} /\ state \in {"LOBBY", "IN_ROOM"}
  /\ pending \in {NONE, "CMD_JOIN_ROOM", "CMD_LOAD_MESSAGE", "CMD_LEAVE_ROOM"}
  /\ oldest_message_id \in 0..MaxId
  /\ \A i \in DOMAIN rows : rows[i] \in [id : 1..MaxId, room : {Room, Elsewhere}, msg : Nat]
  /\ \A i \in DOMAIN jobs : jobs[i].type = "LoadHistory" => jobs[i].cursor \in 1..NewestCursor
  /\ offered \subseteq 1..MaxMessages /\ ToSet(live) \subseteq 1..MaxMessages
  /\ sent \in 0..MaxMessages /\ written \in 0..MaxElsewhere /\ requests \in 0..MaxRequests

MessageOf(entry) == entry.content[1]

\* An entry on the screen shows a row of the room.
OfTheRoom(entry) == \E n \in DOMAIN rows : rows[n].room = Room /\ entry = ToMessage(rows[n])

\* The place <<i, k>> on the screen is above <<j, l>>.
Above(i, k, j, l) == i < j \/ (i = j /\ k < l)

\* The whole of what the client has paged through is one piece of the table: the
\* room's rows from the newest shown back to the cursor, newest first, none left
\* out, shown twice or taken from another room, however many messages were stored,
\* stored twice or refused between one page and the next.
PagesExact ==
  \A i \in DOMAIN pages : \A k \in DOMAIN pages[i] :
    LET entry == pages[i][k] IN
    /\ OfTheRoom(entry)
    /\ oldest_message_id <= entry.id
    /\ \A j \in DOMAIN pages : \A l \in DOMAIN pages[j] :
         Above(i, k, j, l) => pages[j][l].id < entry.id
    /\ \A n \in DOMAIN rows :
         rows[n].room = Room /\ oldest_message_id <= rows[n].id /\ rows[n].id <= entry.id =>
           \E j \in DOMAIN pages : \E l \in DOMAIN pages[j] : pages[j][l] = ToMessage(rows[n])

\* The table keeps the order in which the room's worker sent the messages.  A
\* statement repeated after a lost connection may store one twice, and then the
\* two rows are neighbours in the room; never three times.
StoredInOrder ==
  \A i, j \in DOMAIN rows :
    i < j /\ rows[i].room = Room /\ rows[j].room = Room =>
      /\ rows[i].msg <= rows[j].msg
      /\ rows[i].msg = rows[j].msg => \A k \in (i + 1)..(j - 1) : rows[k].room # Room

\* A message seen live is not seen again in a page, whatever order the workers and
\* the database thread come to it in, provided JOIN's own page was not empty: an
\* empty one leaves the cursor at 0, and the next /load starts at the newest again.
NoneShownTwice ==
  (pages # << >> /\ Head(pages) # << >>) =>
    \A i \in DOMAIN pages : \A k \in DOMAIN pages[i] :
      MessageOf(pages[i][k]) \notin ToSet(live)

\* A body that was cut short is refused by parse at every place it may be cut.
CutBodiesRefused ==
  \A i \in DOMAIN socket :
    (socket[i].type = "PKT_RESPONSE" /\ socket[i].body # << >>) =>
      LET body == socket[i].body IN
      /\ parse(body).ok
      /\ \A n \in 0..(Len(body) - 1) : ~parse(SubSeq(body, 1, n)).ok

-----------------------------------------------------------------------------
(***************************************************************************)
(* What the documents of the repository say and the code does not keep.    *)
(***************************************************************************)
\* PROTOCOL.md: the messages of the room go to its other members, and a client
\* need only discard those of the room it has left.  So a message that was sent to
\* the client as a member, and has been received, is on the screen, or a later
\* /load can still bring it.
NothingMissed ==
  (state = "IN_ROOM" /\ pending = NONE /\ socket = << >>) =>
    \A m \in offered :
      \/ m \in ToSet(live)
      \/ \E i \in DOMAIN pages : \E k \in DOMAIN pages[i] : MessageOf(pages[i][k]) = m
      \/ oldest_message_id = 0
      \/ \E i \in DOMAIN rows : rows[i].msg = m /\ rows[i].id < oldest_message_id
=============================================================================
