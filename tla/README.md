# A TLA+ model of cpp-epoll-chat

The repository is a chat server (epoll, one main thread, a fixed pool of room
worker threads, one database thread) and a terminal client. This directory holds
TLA+ modules that model its core, TLC configurations that check them on small
instances, and modules of proofs checked by TLAPS. Paths below are relative to
the directory that holds `src/` and `tla/`; RW, RM stand for
`src/server/src/room/RoomWorker.cpp` and `RoomManager.cpp`.

## 1. The system

### Components, their state and their operations

| component | state | operations | correct when |
|---|---|---|---|
| Server main loop (`server/Server.cpp`, `core/Epoll.cpp`) | epoll set, `eventfd_`, `main_events_` | `accept_client`, `handle_request`, `close_session`, `handle_events` (Disconnect, Enable/DisableEpollOut) | every readable, writable and hung-up descriptor is served; a closed session leaves nothing behind |
| RoomManager (`room/RoomManager.cpp`) | `room_to_worker_` under a `shared_mutex` | `dispatch_packet` and the five `plan_*`, `route_event`, `bind_room_worker`, `erase_room_to_worker`, `disconnect_session`, `request_flush` | the table agrees with the maps of the workers; an event reaches the worker that owns its room |
| RoomWorker, Room (`room/`) | `event_queue_` (mutex, condition variable), `rooms_`; per room `sessions_`, `current_sessions_`, `max_sessions_` | `thread_main`, `process_event` with `create_room`, `join_room`, `leave_room`, `diconnect_session`, `send_message`, `send_response`, the database requests, `FLUSH` | capacity is kept, nobody is thrown out, every event is answered once |
| RoomEvent (`event/RoomEvent.h`) | the list of actions, the index of the next one, the result so far, the body of the answer | `add_action`, `resolve_room_id` | no action is run with an unresolved room |
| UserManager, SessionManager, User | fd -> session, fd -> user, `current_room_` (atomic) | add, get, remove; `set_current_room` | `current_room_` is where the session is |
| DBWorker, repositories (`db/`) | `job_queue_`, one connection | `post_job`, `process_job`, the callbacks of RW 282-314 | each job's callback runs once; numbers of rooms are unique |
| DBConnection, schema | connection; tables, `room_room_id_seq` | `exec` with one retry after reconnect | a job takes effect once |
| Session receive path | `recv_buffer_` | `on_readable`, `extract_packet` | packets are cut where the header says |
| Session send path | `send_queue_`, `sending_` | `pack`, `flush`, `send_packet` of RW | everything packed is sent, in order |
| Client (`client/src/Client.cpp`) | `state_`, `room_id_`, `pending_`, buffers, paging cursor | `handle_input`, `send_request`, `handle_response`, `handle_broadcast` | its place is the server's; one request at a time |
| Protocol, Codec, Message | - | serialize, deserialize | round trip |
| Accounts | table | repository only; nothing posts an account job | - |
| Start and shutdown | - | constructors, destructors, `stop` | all threads end |

### How they interact

A packet becomes one `RoomEvent` whose plan is a list of actions. The event is
*moved* from thread to thread: the main thread posts it to the worker of its first
room, `REQUEST_LEAVE_ROOM` hands it on to the worker of the other room, the
`REQUEST_DB_*` actions put it into the callback of a database job, and the
callback routes it back to a worker. The threads share the registry of users (each
with an atomic `current_room_`), the table room -> worker, and the queues. All else
has one owner.

### What is hard

* A move is two actions on two workers, with a database job behind it; the client
  believes the answer, `send_message` believes `current_room_`, `close_session`
  believes it once. All three can be looked at in the middle of a move.
* `route_event` looks the table up under the lock and posts after it.
* `bind_room_worker` publishes a room before it exists.
* Membership is a map *and* a counter; they are changed independently.
* An error in the middle of a plan is answered, not rolled back.
* A connection may be lost at any of these points.
* Several workers pack and flush for one session at the same time. What is left after
  a partial send travels by three queues: a request to the main thread, `EPOLLOUT`
  reported once, a FLUSH to whatever worker `current_room_` names.
* Requests to the main thread name a descriptor, which may be gone or reused.
* Both ends read from edge-triggered or cut streams.
* A statement whose answer was lost with the connection is sent again.
* A new member's history is read by one thread while another broadcasts to it.

The full list, line by line, is under `hazards` in `PROJECT.json`.

## 2. Modules

| module | models | lines of the correspondence |
|---|---|---|
| `RoomEvent` | numbers, result codes, packets, the event and the recipe of each command | `RoomEvent.h`, the `plan_*` of RM 174-209, `Protocol.h`, `Result.h`, `schema.sql` |
| `RoomServer` | the server: main thread, room workers, database thread, and `Spec` in which peers send packets of every command in any order | `Server.cpp`, `RoomManager.cpp`, `RoomWorker.cpp`, `Room.cpp`, the managers, `DBWorker.cpp`, the repositories |
| `ChatClient` | the client: input, pending request, answers | `Client.cpp`, `Client.h` |
| `ChatSystem` | `RoomServer` and `ChatClient` composed over the two streams of each connection, with fairness | both ends of the socket |
| `ByteStream` | abstract: what a session promises its client, bytes in the order of `pack` | - |
| `SendPath` | `pack` and `flush` by several workers, the `MainEvent` queue, `EPOLLOUT`, the socket, reused descriptors | `Session.cpp`, RW 316-346, RM 161-172, `Server.cpp` (`handle_events`, `handle_epollout`), `Epoll.cpp`, `Socket.cpp` of the client |
| `Framing` | the client's `send_request` bytes, `on_readable`, `extract_packet`, the loop of `handle_request` | `Session.cpp`, `Server.cpp`, `Socket.cpp` of the client |
| `MessageFormat` | the list of messages as fields, and every read that `parse` refuses | `Codec.h`, `Message.h` |
| `History` | one member's view of one room: live messages, the table, pages, the connection to the database | RW, `DBConnection.cpp`, `MessageRepository.h`, `DBWorker.cpp`, `Client.cpp` |
| `MCRoomServer`, `MCChatSystem`, `MCSendPath` | model values and symmetry for TLC | - |
| `RoomServerProofs` | types, capacity and eviction in `RoomServer`; the invariant the next two build on | - |
| `RoutesProofs` | the table, the maps and the events of `RoomServer` agree | - |
| `AnswersProofs` | each request of `RoomServer` is answered once at most | - |
| `ChatProofs` | client and server agree, in `ChatSystem` | - |
| `GhostProofs` | no room of `ChatSystem` keeps a session that is gone | - |
| `SendPathProofs` | types, the lock, the refinement of `ByteStream` by `SendPath`; nothing is left behind in its queue | - |
| `FramingProofs` | packets intact and nothing left unread in `Framing` | - |
| `HistoryProofs` | the codec for every input; the table, the pages and the live messages of `History` | - |

`RoomServer` and `ChatClient` are composed in `ChatSystem`. `SendPath` and `Framing`
are the two directions of the connection that `ChatSystem` takes for granted: it may
regard a connection as two streams of whole packets because `SendPath` implements
`ByteStream` and `Framing` keeps `PacketsIntact`. `History` is a slice of `ChatSystem`
with one member and one room, and with the data that `ChatSystem` leaves out.

### State

Each variable of `RoomServer` is named after the member it stands for
(`room_to_worker`, `event_queue`, `rooms`, `sessions`, `current_sessions`,
`current_room`, `job_queue`), each of `ChatClient` likewise (`state_`, `room_id_`,
`pending_`). The others are program counters and ghosts: `main` is where the
main thread is inside `close_session`; `routing[t]` is an event that thread `t` has a
worker for and has not posted yet; `pc`, `event`, `audience` say where a worker is;
`received` counts packets for the bound; `sent[s]` is the stream of packets
packed for `s`; `conn` tells whether the session is registered; `uplink[s]` is what
the client wrote and the server has not read.

In `SendPath` a packet is an interval of byte numbers; `packed` counts the
bytes packed on the present connection and `got` lists those read; `send_queue`, `sending` and
`main_events` are the members of those names; `pc[w]` is the place of a worker inside
`flush`; `armed`, `edge` and `nospace` are the kernel's: the interest, a report not yet
taken, a report owed. In `Framing` a byte is `<<i, k>>`, the k-th of the i-th packet. In
`History` a row is the message's number with its id; `pages`, `live` and
`oldest_message_id` are what the client shows and its cursor, and `offered` is a ghost,
the messages broadcast to the member since it last left.

### Actions and atomicity

An action is what one thread does between two accesses to shared state.

| code | actions |
|---|---|
| `accept_client` | `AcceptClient` |
| `handle_request` -> `dispatch_packet` -> `route_event` | `DispatchPacket`, then `PostRouted` |
| `close_session` | `CloseSession` (reads `current_room_`), `DisconnectRoom`, `DisconnectLobby` (each with its `PostRouted`), `RemoveSession` |
| `thread_main` of a worker | `TakeEvent` |
| `process_event` | `FinishEvent`, `AnswerFailed`, and one action per case of the switch |
| `join_room` | `JoinRoom` up to `get_user`, `SetCurrentRoom` after it |
| `send_message` | `SendMessage`, one `SendTo` per member, `SentToAll` |
| `process_job` and the callbacks | `DbCreateRoom`, `DbCreateRoomFails`, `DbLoadHistory`, `DbSaveMessage`; `ProcessJob` in `History` |
| `RoomWorker::send_packet`, `FLUSH` | `SendPacket` (pack) and `TakeFlush`, the steps of `flush`, `Report` |
| `Session::flush` | `Enter` (the flag), `Front` (the mutex), `Send`, `WouldBlock`, `SendFails` (one call of `send`), `Pop`, `Store`, `More` |
| `handle_events`, `handle_epollout`, EPOLLRDHUP | `HandleEvent`, `HandleEpollOut`, `HangUp` |
| `on_readable`, `extract_packet` | `EpollIn`, `Recv`, `Extract` |

Choices that deserve a word:

* **Sessions and descriptors.** The code keys its tables by descriptor, the model
  names the connection. A descriptor is closed by the destructor of `Session`, so
  it is not reused while an event or a room holds the session. Disconnect events
  hold only the number; but they are in the workers' queues before the session is
  removed, and whatever a successor with the same number posts comes behind them.
  Requests to the *main* thread hold nothing but the number: `SendPath` counts the
  connections of one descriptor and notes in each request the one it was meant for.
* **The kernel.** `send` takes what fits and fails with EAGAIN when nothing does.
  `EPOLLOUT` is reported once when room appears after an EAGAIN, and once more when
  `EPOLL_CTL_MOD` finds room. `EPOLLIN` is reported when bytes or the end of the stream
  arrive. Reports that come along with others are left out: nothing may depend on
  them. A reset discards what the peer had written.
* **Moving sessions.** `senders` in `SendPath` is the home worker, or the home
  worker and others while the session moves. `RoomMayGo` allows `request_flush` to meet a room that
  has just been destroyed, whose FLUSH is dropped. The safety properties of `send_path` allow
  for it. In the code the room of a live session goes only by that session's own
  LEAVE, whose answer is flushed after the room has gone and sends what the FLUSH was to send;
  `SendPath`, which has no rooms, does not know this, so liveness is not claimed for that case.
* **A statement whose answer was lost** has been done or never will be. Ids of rows
  are only ordered. A connection that `PQreset` does not bring back fails the
  statement, and the next one tries again.
* **Requests in `History`** are dispatched as they are sent; between the client and the
  room's worker there is only a queue that keeps order.
* **`bind_room_worker`** reads the sizes of two workers' maps without their
  cooperation. The model lets any room worker win: an over-approximation.
* **Uninitialized command.** `accept_client` and `disconnect_session` build events
  whose `initial_command` is never set. It is the value `UNINITIALIZED`, and the
  client, the only reader, takes it for any command.
* **The clean-up in `process_event`** for a failed creation tests the first action of
  the plan. It is in the model, and no plan reaches it.
* **Unknown commands.** The switch of `dispatch_packet` (RM 53-69) has no default: a
  command byte that is none of the five gets an empty plan, which a worker takes and
  drops without an answer, or the answer RoomNotFound if no worker has the room. The
  model's packets have the five commands.
* **Result codes.** `result_to_resresultcode` keeps each code apart from the others;
  the answer carries the code itself.
* **`SendTo`** looks the member up and packs in one step. The window between the two
  matters only to a member that closes or moves within it, and the member then
  gets, or misses, one message of the room it is leaving.
* **The sequence.** `LastRoomId` bounds it; a further CREATE gets the error the
  database gives for an exhausted sequence.
* **The client's paging cursor and histories** are not in the state of `ChatClient`. An
  answer to LOAD changes nothing else. They are in `History`.

### How users behave

`RoomServer!Next` lets a peer send every packet of `PeerRequests` (any of the five
commands, with any room) at any time: the
server checks nothing against what the session did before. In `ChatSystem` the
peers are the shipped client. `Hurried` are the sessions that may send a request
before the lobby's worker has run the event of `accept_client`; `Abrupt` are
those whose process may vanish while a request waits. The code guards against
neither, and two of the findings are exactly these; the sets let the other
properties be checked with and without them.

## 3. Runs

All runs use `CHECK_DEADLOCK FALSE`: when the bounded number of requests has been
made and everybody rests or has gone, a server with nothing to do is a legitimate
end of the behaviour. Deadlock in the sense of threads waiting for each other
would show as a violation of the liveness properties.

| run | cfg | checks | instance |
|---|---|---|---|
| `two_sessions` | `RoomServerTwo` | `TypeOK`, `ActionsRunAtOwner`, `OneResponseEach`, `RoomCapacity`, `RoutesMatchRooms`, `CreateFindsNoRoom`, `NoEviction` | 2 peers, one packet each of any command and room, 3 workers, 2 rooms of 2, lobby of 2, all queries may fail |
| `client_view` | `ChatMoves` | `ClientTypeOK`, `ViewAgreement`, `AnswersMatch` | 2 clients, 2 requests each, hurried and abrupt |
| `polite_clients` | `ChatPolite` | `CurrentRoomAgreement`, `NoGhost`, `RoomsReclaimed`, `RequestAnswered` | 2 clients, 2 requests each, 2 rooms, neither hurried nor abrupt, creating and saving may fail; with fairness |
| `send_path` | `SendPath` | `TypeOK`, `OneSender`, `NoneLeftBehind`, `ImplementsByteStream`, `Delivered` | 2 workers, 2 packets of 1 or 2 bytes, a socket of 1 byte; with fairness |
| `history` | `History` | `TypeOK`, `PagesExact`, `StoredInOrder`, `NoneShownTwice`, `CutBodiesRefused` | 4 requests of the member, 2 messages of others, 1 in another room, pages of 1, the database fails and disconnects |
| `framing` | `Framing` | `PacketsIntact`, `NothingLeftUnread`, `Dispatched` | 3 packets with bodies of 0 or 2, header 1, request 2, `recv` of 2; with fairness |

**Why the bounds are enough to be interesting.** Two sessions are what it takes for
one to be affected by the other (eviction, a full room, a message missed, a room
destroyed while it is being joined). One lobby worker and one room worker give every
hand-over; the third worker of `two_sessions` adds the choice between room workers.
With capacity 2 a room fills; the lobby of 2 is full when both are in, and a session that
sends JOIN of it, or LEAVE without having been in a room, asks for a third place. Two rooms let
one be created after another has been destroyed, and let a client move from one to
the next. Two requests make a move and the way back; longer sequences of packets are left to the
theorems of section 4, which have no bound. Sessions
are interchangeable, hence the symmetry set (not used where liveness is checked).

A socket of one byte makes every packet of two a partial send and every second packet
an EAGAIN; two workers are all that can meet at the flag, and two packets give each of
them something to send. With pages of one message, a second page needs the cursor,
and a row written twice, or one of another room, falls between two pages. Four requests
are join, load, leave and join again. A `recv` of two bytes is
shorter than the fixed part of a packet (three), so that a packet always comes in pieces and
a piece may hold the end of one packet and the start of the next; a body of 0
after one of 2 shows what is left in a packet that is used again.

**Fairness.** `FairChatSpec`: weak fairness of each worker thread, of the database
thread, of the half-done steps of the main thread, and, per session, of accepting,
of reading a request, of noticing a hang-up and of the client reading its socket.
The operating system runs every thread; workers and database block only on their
queue's condition variable and are notified after each push; epoll reports each
ready descriptor. Nobody has to type, to exit or to vanish. Weak fairness is enough
for the main thread's own steps because none of them can be disabled by
another thread for good: the main thread is busy only while one of its own steps,
itself fair, is enabled. `SendPath!FairSpec`: each worker goes on with what it has
begun and takes its FLUSH events, the main thread takes requests, reports of `EPOLLOUT` and
hang-ups, and a client that is up reads. Nobody has to send another packet, which is
the point of `Delivered`. `Framing!FairSpec`: the main thread runs, and a client
inside `send_all` finishes.

**Refinement.** `ImplementsByteStream` is the specification of `ByteStream`, instantiated with
`packed` and `got` of `SendPath` (`StreamIntact == INSTANCE ByteStream WITH ...`). It is checked
in `send_path` and proved in `SendPathProofs`.

### What the violations show

Six runs check something a comment or `PROTOCOL.md` says, and TLC refutes it. The
quotations are under `findings`.

| run | cfg | refutes | instance |
|---|---|---|---|
| `hurried_join` | `ChatHurried` | `SkippedOnlyWhileMoving` | 2 clients, 2 requests each, in a hurry |
| `abrupt_exit` | `ChatAbrupt` | `NoGhost` | 2 clients, 1 request each, killed at any point |
| `failed_body` | `ChatFailedBody` | `FailedBodyEmpty` | 2 polite clients, 2 requests each, 2 rooms, loading a history may fail |
| `send_stalls` | `SendStalls` | `CompleteMeansSent` | as `send_path`, rooms stay; with fairness |
| `mod_throws` | `ModThrows` | `RequestsMeetTheirSession` | as `send_path`, two connections with one descriptor |
| `join_gap` | `JoinGap` | `NothingMissed` | one JOIN, 2 messages of others, a database without faults |

* `hurried_join`: the first JOIN of a client and the lobby's own JOIN run on two
  workers; in the wrong order `current_room_` stays at the lobby while the session
  is in the room, and the member hears nothing.
* `abrupt_exit`: a JOIN that runs after `close_session` has read `current_room_`
  leaves the session in the room for good. A dead session then also keeps the
  room from being destroyed.
* `failed_body`: when the history of a room cannot be loaded, JOIN is answered `DBError`
  although the move has been made, and the client stays in `LOBBY`. Its next `/create` gets
  a number from the database, enters the new room, and fails at LEAVE_ROOM of the lobby, which it has left
  already: a failed answer with the eight bytes of the number (RW 127 with RW 295).
* `send_stalls`: a FLUSH that finds another worker inside `flush` gets `Complete`, and
  its request to turn `EPOLLOUT` off can be queued behind the other worker's
  request to turn it on. The rest of the queue then waits for a further packet.
* `mod_throws`: a request to turn `EPOLLOUT` on or off is taken after the peer's hang-up has
  removed the descriptor. `epoll_ctl` fails, `Epoll::mod` throws, and `Server::run` ends. The
  property also refuses a request that meets the next connection with the same descriptor, as a
  Disconnect may; TLC reports the shorter case.
* `join_gap`: a message broadcast to a new member between the query for its history and
  the answer to its JOIN is thrown away by the client, and is in no page.

`NoGhost` is both checked to hold (without the behaviour that
breaks it) and shown to fail (with it); `SkippedOnlyWhileMoving`, which follows from
`CurrentRoomAgreement`, is proved where the latter is and fails with it; `Delivered` holds for one worker
where `CompleteMeansSent` fails for two.

Departures without a run of their own; a change of constants shows the first two:

* **A retried `/join`.** After the `DBError` of `failed_body` the user may type `/join` again.
  `Room::join_session` inserts nothing and counts the session once more (`Room.cpp:12`); when everybody
  has gone, the room is empty, its counter is 1, and it is never destroyed (`PROTOCOL.md:203`: it disappears
  when all have left). With `DbFailures = {"LoadHistory"}` TLC refutes `RoomsReclaimed`, and `ViewAgreement` as well.
* **A full lobby.** `accept_client` does not look at the result of the JOIN that it posts. The
  session that finds the lobby full is connected and in no room, gets an answer it did not ask for, and its client shows the lobby
  (`PROTOCOL.md:197`: one is in it on connecting). `MAX_LOBBY_SESSIONS = 1` refutes `ViewAgreement`.
* **A failed answer with a body from any peer.** `RoomServer!Spec` reaches it without a failure of the
  database: CREATE from inside a room.
* **A packet read together with the FIN.** `on_readable` returns false for the FIN, and
  `handle_request` closes the session without looking at `recv_buffer_`; a whole packet in it is dropped
  (`Server.cpp:150`). `Framing` does the same, and `Dispatched` is about a client that stays.
* **A LEAVE of a room nobody has** is not answered, and counts the session twice in the lobby (RW 97
  ignores the result of `route_event`). The shipped client does not send one.

## 4. Proofs

Every theorem below is about the specification that the runs check, for all values of
the constants that the named assumptions allow.

| theorem | module | states |
|---|---|---|
| `TypeCorrect` | `RoomServerProofs` | `Spec => []TypeOK` |
| `CapacityKept` | `RoomServerProofs` | `Spec => []RoomCapacity` |
| `NobodyEvicted` | `RoomServerProofs` | `Spec => NoEviction`, an action property |
| `RoutesAgree` | `RoutesProofs` | `Spec => []RoutesMatchRooms` |
| `RunsAtOwner` | `RoutesProofs` | `Spec => []ActionsRunAtOwner` |
| `CreatesNewRoom` | `RoutesProofs` | `Spec => []CreateFindsNoRoom` |
| `AnsweredOnce` | `AnswersProofs` | `Spec => []OneResponseEach` |
| `ClientTyped` | `ChatProofs` | `Ample => (ChatSpec => []ClientTypeOK)` |
| `ViewsAgree` | `ChatProofs` | `Ample => (ChatSpec => []ViewAgreement)` |
| `AnswersMatched` | `ChatProofs` | `Ample => (ChatSpec => []AnswersMatch)` |
| `CurrentRoomsAgree` | `ChatProofs` | `Ample /\ Hurried = {} => (ChatSpec => []CurrentRoomAgreement)` |
| `NobodyPassedOver` | `ChatProofs` | `Ample /\ Hurried = {} => (ChatSpec => []SkippedOnlyWhileMoving)` |
| `NoGhosts` | `GhostProofs` | `Ample /\ Hurried = {} /\ Abrupt = {} => (ChatSpec => []NoGhost)` |
| `TypeCorrect` | `SendPathProofs` | `Spec => []TypeOK` |
| `FlagIsLock` | `SendPathProofs` | `Spec => []OneSender` |
| `StreamRefined` | `SendPathProofs` | `Spec => ImplementsByteStream`, the refinement |
| `NothingStuck` | `SendPathProofs` | `Spec => []NoneLeftBehind` |
| `FramesIntact` | `FramingProofs` | `Spec => []PacketsIntact` |
| `EdgeDrained` | `FramingProofs` | `Spec => []NothingLeftUnread` |
| `HistoryTyped` | `HistoryProofs` | `Spec => []TypeOK` |
| `TableInOrder` | `HistoryProofs` | `Spec => []StoredInOrder` |
| `PagesComplete` | `HistoryProofs` | `Spec => []PagesExact` |
| `SeenOnce` | `HistoryProofs` | `Spec => []NoneShownTwice` |
| `CutsRefused` | `HistoryProofs` | `Spec => []CutBodiesRefused` |

Every invariant was checked with TLC on the instances of section 3 before it was proved.

### The server: types, capacity, eviction

**Assumptions**, all named and all about constants: `NoSession` is no session; at
least two workers (with fewer `bind_room_worker` draws from an empty range);
`LastRoomId` is at least the first number of the sequence; the capacities and
`MaxRequests` are naturals; the sets of failing jobs and of the peers' packets are
subsets of what they range over. `Sessions` need not be finite.

**The argument.** `TypeOK` is not inductive. An event popped from a queue could,
for all its type says, have its index past the end of its plan, name no session, or
be about to join the room `PENDING_ROOM_ID`. The invariant is

    IInv == StateTypeOK /\ EventInv /\ PcInv /\ CountInv

* `EventInv` strengthens the type of the queues. Every event is *formed*: its index is
  within its plan, only `SEND_RESPONSE` has no room, and all but a disconnect have a
  session. An event a worker can see is *runnable*: it is resolved, or it
  has failed (and is answered before any action), or it is at the very action that
  asks the database for the number. A job to load a history is resolved, and its
  last action is the request itself; a message to be saved names a real room.
* `PcInv` says that a worker half way through `join_room` or `send_message` still
  holds the event of that action, which is what `SetCurrentRoom` and `SentToAll` use.
* `CountInv` is what `RoomCapacity` needs, for every pair of worker and room whether
  the room exists or not (so that CREATE starts from 0): the map is finite and its
  size is at most the counter, the counter at most the capacity. Joining
  adds one to the counter and at most one to the map; leaving takes one from
  both, and only from a session found in the map. That order of the tests in
  `Room::exit_session` is what the proof turns on.

There is one lemma per action, under it one step per part of `IInv` it disturbs, and
lemmas for what events do (`Advanced`, `resolve_room_id`, the plans) and for
appending to and taking from a queue. `NobodyEvicted` follows from `CountInv`: a room
goes when its counter reaches 0, so that its map held at most one session.

### The server: routes

**Assumptions**: those above, and no more.

**The argument.** `RoutesMatchRooms` alone says nothing of an event that has been routed and
not yet run, and between the two other threads take any number of steps. The invariant says of every event on its way to a worker, or
in its hands, what that worker will need:

    RInv == RoutedOK /\ QueuedOK /\ HandOK /\ JobInv /\ TableInv /\ Waiting /\ Unique /\ Announced

* `EventOK(w, e, ...)`, for an event that is routed to `w`, in its queue or in its hands: each room that the
  plan needs *up to its next hand-over* has been issued, and is at `w` or gone; the room it will
  create has an entry for `w` and is in nobody's map.
* `Shape` is what makes this survive a hand-over, and it is a fact about the five plans: a
  hand-over names the room of the actions behind it, and CREATE_ROOM is second, after the request for
  the number. The plan that leaves out `REQUEST_LEAVE_ROOM` (a mutant of the runs) has not this shape.
* `TableInv`: rooms are where the table says, the lobby stays, and a number not yet issued has no entry.
  A room that has gone never comes back under its number, so the route of a waiting event can become
  `NO_WORKER` but never another worker. This is where the sequence of the database matters.
* `Unique` and `Announced`: an entry without a room has one event, and only one, that will create
  it. Without `Unique` a second CREATE could erase, or find, what the first one made.

Most steps only move an event or advance it (`QuietKeeps`); four are not quiet and have a lemma
each: the database issues a number, the event with it is posted, taken, and run.

### The server: answers

**Assumptions**: those above. `Sessions` and the queues need not be bounded.

**The argument.** `OneResponseEach` adds the sizes of two sets, and is inductive once the sets are
known to be finite (`CountsInv`). The work is in counting: a step takes an event out of one place
and puts it into another, and places in a queue are numbered, so that taking the first
renumbers the rest. `SameBut` counts sets that differ in one element, `ShiftCounts` those that are
shifted, by a bijection. On these rest one lemma per change of the state
(`RouteBalance`, `HandBalance`, `PostBalance`, `TakeBalance`, and those for jobs and answers):
the state is *balanced* at `n` before, and at `n` plus or minus the weight of the events moved
after. Each action is then a chain of two or three changes whose weights cancel, or
do not exceed the packet just read. An event without a command (`accept_client`, `close_session`) weighs nothing,
and so do the answers it may lead to.

The proof found that `UNION A \cup B` in `Outstanding` is read differently by TLC and by the prover; it is now
bracketed.

### Client and server

**Assumptions.** Those of the server, and

    Ample == /\ IsFiniteSet(Sessions) /\ Cardinality(Sessions) <= MAX_LOBBY_SESSIONS
             /\ MAX_SESSIONS >= 1
             /\ "LoadHistory" \notin DbFailures

The code guarantees none of the three; they are conditions on what happens, and all three are
needed. A full lobby turns away the session that connects, or that leaves its room. A
history that cannot be loaded fails a JOIN that has been made, after which the client and the server
disagree (`failed_body`). A room that held nobody would refuse its
creator after the body of the answer has been filled. The code has a lobby of 999
(`RoomWorker.h:24`) and rooms of 5 (`Room.h:19`); so the theorems are about a server with no more
clients than that, whose database can be read. Creating a room and saving a message may fail, any client may be
killed at any point, and any may be in a hurry, unless the theorem says otherwise.
`CurrentRoomsAgree` and `NobodyPassedOver` need `Hurried = {}`: `hurried_join` refutes them without.

**The argument.** `ViewAgreement` speaks of a client that waits for nothing; it gets there by an
answer, the answer comes from an event, and the event has been through the hands of three threads. The
invariant follows the event:

    Agreed == IInv /\ RInv /\ CInv /\ ClientShape
    CInv   == RoomsExact /\ Fresh /\ \A s \in Sessions : SInv(s)

* `Where(plan, d, here)` is where a session that was `here` must be after `d` actions of a plan. `StageOK` says
  that the rooms holding the session are these, that the plan is the one of the pending request, and
  that an event which has entered a room has not failed. It holds of the
  session's event wherever that is: routed, queued, in a job, in a worker's hands (`RoutedFit`, `QueuedFit`,
  `JobsFit`, `HandsFit`; half way through `join_room` an action counts that the index does not show).
  For a session that is being closed only one inclusion is kept, since DISCONNECT_SESSION overtakes the event.
* `Sole`: the server holds at most one request or answer of a client. It is the counting of
  `AnswersProofs`, at 0 or 1 in place of the number of packets read. Without it two events
  could each believe to be the one that says where the session is.
* `AnswersFit`: an answer not yet read is to the pending command, and puts the client where the session is.
* `Rests`: a client without a request at the server is where it says; `AtRest` is a case of this.
* `AcceptFirst`, `DueOut`, `Patient`: the JOIN of `accept_client` is still to come for a session that has
  just connected, so that `Whereabouts` counts the lobby among its rooms, and nothing of the session in the
  lobby's queue is before it. A client in a hurry may have moved on by then, to a
  room of another worker; its LEAVE_ROOM of the lobby, though, comes behind that JOIN. This order is
  why `ViewAgreement` survives the race that `CurrentRoomAgreement` loses.
* `RoomsExact`: the counter *is* the size of the map, under `Ample` (after a failed history and a second `/join` it is not). It
  needs `StageOK`, which says that a session is not in the room it is about to join; the server alone, with peers that send anything, only has the inequality `CountInv`.
* `Fresh`: nobody is in a room between its creation and the JOIN of its creator, although `room_to_worker_` has
  shown it to everybody since the database answered. The worker does both actions
  without looking at its queue.

There is one lemma per action again. Most actions touch one session; the others are its *bystanders*, and
keep `SInv` since none of what `SInv` reads of them has changed (`BystanderKept`). The theorems
follow from `Agreed` in a few lines each.

### No ghosts

**Assumptions**: `Ample`, and `Hurried = Abrupt = {}`. A client that goes away with a request
under way may leave a ghost: the run `abrupt_exit` shows one.

**The argument.** `NoGhost` is about the end of a session, when nothing mentions it. The invariant
is about the time from `close_session` until then:

    GInv == ClosingOpen /\ \A s \in Sessions : Farewell(s) /\ EndsLast(s) /\ Polite(s)

* `Farewell`: if worker `w` has the session in room `r`, or is to take it into the lobby, then a
  DISCONNECT_SESSION of `r` is about to be made, or is on its way to `w`, in its queue, or in its hands. It
  is established when `close_session` reads `current_room_`: by `Polite` nothing is pending, by `Rests` the session is in one room
  and `current_room_` names it. It survives `route_event` since by `RInv` the table leads to the worker that has the room.
* `EndsLast`: in the lobby's queue no event about the end of a session is before the JOIN of its beginning. Otherwise the
  lobby would take in, for good, a session that it has been told about already.
* `ClosingOpen`: the session that is being closed is not yet removed, so that of one that has been removed the
  main thread has nothing more to say.

The second event of `close_session`, to the lobby, is not needed here, and the proof does not
use it: a polite session is in one room. It is there for sessions in the middle of a move.

### The send path: types, the lock, the stream

**Assumptions**: the home worker is a worker; packets and the socket hold at least one byte; the
bounds are naturals. Fairness is not used.

**The argument.** For types and the lock the invariant is

    IInv == TypeOK /\ NotStarted /\ OneSender /\ BufferAtHand

`OneSender` is inductive by itself. `BufferAtHand` (a worker at `send` or `pop` has a buffer
at the front of the queue, although it let go of the mutex) needs it: no other worker
can have popped the buffer in between. Types need both, since `Head` and `Tail` are
taken outside the mutex, and `NotStarted` (before the first connection nothing is
under way), so that a request names a connection that exists. The refinement adds

    StreamInv == QueueChained /\ SocketFollows

* `QueueChained`: the buffers of the queue follow each other without a gap, the last one
  ends at `packed`, and a buffer about to be popped has been sent to its end;
* `SocketFollows`: the socket holds the bytes from number `Len(got)` on, up to the first unsent byte of
  the queue.

Then the byte that the client reads next is number `Len(got)`, and it was packed. Pack, send, pop
and recv have a lemma each; the other actions leave the four variables alone
(`StreamFrame`).

### The send path: nothing left behind

**Assumptions**: the same. `RoomMayGo` may be either.

**The argument.** For a session that one worker sends to, `NoneLeftBehind` names what will bring
the worker back: a place inside `flush`, a FLUSH, a request to turn `EPOLLOUT` on, or an armed report.
It is not inductive, because a request to turn `EPOLLOUT` *off* may be behind the one to turn it
on. The invariant looks at the whole queue of the main thread:

    FlushInv == SocketBounded /\ OthersIdle /\ (senders = {Home} => ResultsTrue /\ FlushArmed /\ Woken)

* `WillArm`: when the main thread has done all it is asked, `EPOLLOUT` is on (the last request to turn
  it off is followed by one to turn it on, or there is none and it is on now);
* `Woken`: a worker that has left something in the queue has `WillArm`, and also a request, a report or a FLUSH to come;
* `FlushArmed`: a FLUSH runs with `WillArm`, or there is nothing to send, so that it need not ask again
  when `send` fails with EAGAIN (the code asks only from `send_packet`);
* `ResultsTrue`: with one worker `Complete` means an empty queue. This is what two workers break
  (`send_stalls`), and why the theorem, like the property, is about one.

### The receive path

**Assumptions**: bodies have natural lengths, a header, a request and the buffer of `recv` hold at least one
byte. Fairness is not used.

**The argument.** The bytes in `send_buf_`, on the network and in `recv_buffer_` are one sequence, `Pipe`,
from which `extract_packet` takes a prefix and to which `send_request` adds a packet. The invariant describes it
without recursion:

    IInv == TypeOK /\ PipeInv /\ PacketsIntact /\ PacketClear /\ EdgeKept /\ NoneComplete

* `PipeInv`: the first byte of `Pipe` is the first of the packet to be dispatched next; two bytes of one packet are as far
  apart as their places in it; after a packet's last byte comes the first of the next; and, while the client is there, the last
  byte is the last of the last packet it made. The header that
  `extract_packet` reads is therefore that of the right packet, and the length it finds is where the next one begins;
* `PacketClear`: the packet that `handle_request` fills is empty when it starts (a body of length 0 is not assigned);
* `EdgeKept`: outside the loop of `recv`, unread bytes have an edge to come;
* `NoneComplete`: the loop over `extract_packet` stops only when no complete packet is left.

### The history and the codec

**Assumptions**: the two rooms differ, a page holds at least one message, the bounds are naturals.
`Faults` may be either.

**Loops.** `serialize`, `parse` and the scan of the query are recursive functions on `0..n`. The
induction theorems of the library cannot be instantiated, since they take an operator; but the passes
after which a fact holds are a *set* of numbers, and a smallest number missing from it is refuted by
the step (`Least`, from the well-foundedness of `<`, and `UpTo`). So the codec is proved for every list of
messages with texts of every length: `RoundTrip`, parsing what was serialized gives the list back, and `CutShort`,
every proper prefix is refused. `RecentRows` says what a page is: the newest rows of the room before the
cursor, in order, none skipped, `PageSize` of them at most.

**The argument.** The invariant is

    HistoryInv == Typed /\ Ordered /\ OneRequest /\ Requested /\ Screen /\ Newer

* `Typed`: what the queues hold; a body is empty or something that `serialize` made (from which `CutsRefused`
  follows), and ids count the rows;
* `Ordered`: a message is in one place on its way to the table, at the room's worker, among the jobs or in
  the table, and the ones behind are newer. A job may add its rows twice, so the table is in order with
  doubles next to each other in the room, and no message is stored by two jobs;
* `OneRequest`: the client's request is in one of the four queues at most, and in none when it waits for nothing. This is what lets
  a cursor be used that was read before the request went round the workers and the database: no other answer has moved it;
* `Requested`: at every station the request asks from the cursor that the client still shows, and an answer
  on the way brings a `Piece` of the table before it. A piece stays one as the table grows, because new rows have higher ids;
* `Screen`: `PagesExact`, and a cursor of 0 means that only empty pages are shown. Without that, a
  `/load` from the newest, which is what 0 asks for, could repeat rows already shown;
* `Newer`: a broadcast behind JOIN's answer in the socket, or already on the screen, is newer than everything in JOIN's
  page: at the moment it was sent, nothing newer could be in the table. With `PagesExact` and
  `StoredInOrder`, older pages only hold older messages, hence `SeenOnce`.

`HistoryTyped` adds `Bounded`: rows, twice the jobs to save and twice the messages to send are at most twice the messages
made, because a statement is done at most twice (`Tries`). That the cursor which stands for "newest" is above every id rests on it.

### Only model-checked

* Liveness (`RequestAnswered`, `RoomsReclaimed`, `Delivered`, `Dispatched`): the prover does not
  reason about fairness.

## 5. Not modelled

* The **batch** that `epoll_wait` returns: descriptors are served one at a time in any
  order, which includes every order of a batch. An entry for a descriptor that an
  earlier entry of the same batch closed finds no session and does nothing.
* **Widths and alignment** of the fields of a packet. The limit on `body_len` is commented out in the
  code; memory is not in the model.
* **Exceptions** inside `process_job`; they are logged, and the job's callback is dropped. No
  statement of the code that can throw there, short of an exhausted memory, is reached with the
  rows the server itself writes.
* **Shutdown**: `Server::run` leaves its loop only by an exception, after which the process
  ends. Nothing is persisted on the way, and a client sees a lost connection.
* In the client: texts, and the three attempts to connect.
* **Stored or not.** SAVE_MESSAGE has no callback (RW 260): the sender is told Success whether or not a row is
  ever written. `History` has lost rows, and its properties are about the rows that are there; no
  document of the repository promises more.
* `AccountRepository`, `REQUEST_JOIN_ROOM`, `to_event_command`, `EventState.h`, the
  disconnecting flags: code nothing uses.
* No room worker (one core or none): `bind_room_worker` then draws from an empty
  range. `WorkerAssumption` excludes it.

## 6. Plan

The modules of the core, both directions of the connection and the history are written.
The safety of the server, of its composition with the clients, of both directions of
the connection and of the history is proved: every safety property of the passing runs is a theorem. What could follow:

1. `Membership`: what the rooms promise a session (it is in one place, and moves from one
   to another), with `ChatSystem` under polite users shown to implement it. `StageOK` holds
   the facts that the refinement needs.
