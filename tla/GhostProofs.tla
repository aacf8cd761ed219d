---------------------------- MODULE GhostProofs ----------------------------
(***************************************************************************)
(* No room holds a session that is gone, for every number of sessions,     *)
(* workers, rooms and requests, if clients leave only when they wait for   *)
(* nothing.                                                                *)
(*                                                                         *)
(* close_session looks the user's room up once and sends two events after  *)
(* the session.  The invariant says that whatever room still holds the     *)
(* session, or will once the event of accept_client has run, is one that   *)
(* an event to come will take it out of, at the worker that has the room.  *)
(***************************************************************************)
EXTENDS ChatProofs

-----------------------------------------------------------------------------
(***************************************************************************)
(* The invariant.                                                          *)
(***************************************************************************)
\* close_session has begun, or is done.
Leaving(s) == Link(s) \notin {"none", "open"}

\* The event takes s out of room r when it is run.
Dismisses(e, s, r) ==
  /\ e.fd = s
  /\ e.current_action = 0
  /\ e.actions = << RoomAction("DISCONNECT_SESSION", r) >>
  /\ NotFailed(e)

\* Worker w has s in room r, or will have it in the lobby.
Holds(w, r, s) ==
  \/ s \in sessions[w][r]
  \/ w = LOBBY_WORKER_ID /\ r = LOBBY_ROOM_ID /\ LobbyDue(s)

\* Where the event that takes s out of r at worker w may be: the main thread is about to
\* make it, or has routed it; it is in the queue of w, or in its hands.
Noted(r, s)     == main.fd = s /\ main.pc = "disconnect_room" /\ main.room = r
Sent(w, r, s)   == routing[MAIN_THREAD].to = w /\ Dismisses(routing[MAIN_THREAD].event, s, r)
Queues(w, r, s) == \E i \in DOMAIN event_queue[w] : Dismisses(event_queue[w][i], s, r)
Runs(w, r, s)   == pc[w] = "run" /\ Dismisses(event[w], s, r)

\* It is in one of them.
Told(w, r, s) == Noted(r, s) \/ Sent(w, r, s) \/ Queues(w, r, s) \/ Runs(w, r, s)

\* Every room that holds a session which is leaving will be told.
Farewell(s) ==
  Leaving(s) => \A w \in Workers, r \in RoomIds : Holds(w, r, s) => Told(w, r, s)

\* Nothing is said about the end of a session before its beginning.
InOrder(q, h, s) ==
  \A j \in DOMAIN q : IsAccept(q[j], s) =>
    h.fd # s /\ \A i \in DOMAIN q : i < j => q[i].fd # s

\* The same for the queue and the hand of the lobby's worker.
EndsLast(s) == InOrder(event_queue[LOBBY_WORKER_ID], event[LOBBY_WORKER_ID], s)

\* A client that has gone waits for nothing.
Polite(s) == running[s] \/ pending_[s] = NoPending

\* The session that is being closed is not yet removed.
ClosingOpen == \A s \in Sessions : main.fd = s => conn[s] = "open"

\* The invariant that NoGhost follows from.
GInv ==
  /\ ClosingOpen
  /\ \A s \in Sessions : Farewell(s) /\ EndsLast(s) /\ Polite(s)

-----------------------------------------------------------------------------
(***************************************************************************)
(* The parts of a step.                                                    *)
(***************************************************************************)
\* An event that dismisses a session is at its only action.
LEMMA DismissNext ==
  ASSUME NEW e, NEW s, NEW r, Dismisses(e, s, r)
  PROVE  /\ HasNextAction(e) /\ NotFailed(e)
         /\ NextAction(e).command = "DISCONNECT_SESSION" /\ NextAction(e).target_room_id = r
<1>1. e.actions = << RoomAction("DISCONNECT_SESSION", r) >> /\ e.current_action = 0 /\ NotFailed(e)
  BY DEF Dismisses
<1>2. Len(e.actions) = 1 /\ e.actions[1] = RoomAction("DISCONNECT_SESSION", r)
  BY <1>1
<1> QED
  BY <1>1, <1>2 DEF HasNextAction, NextAction, RoomAction

\* No room gains a session that leaves, but the lobby if it was due there.
Expected(s) ==
  Leaving(s) => \A w \in Workers, r \in RoomIds : s \in sessions'[w][r] => Holds(w, r, s)

\* A step that loses none of the events to come, while there is a room that needs them.
LEMMA FarewellKept ==
  ASSUME NEW s \in Sessions, Farewell(s), Leaving(s)' => Leaving(s), Expected(s),
         Leaving(s)' /\ LobbyDue(s)' => LobbyDue(s),
         \A w \in Workers, r \in RoomIds :
           Leaving(s)' /\ Holds(w, r, s)' /\ Told(w, r, s) => Told(w, r, s)'
  PROVE  Farewell(s)'
<1> SUFFICES ASSUME Leaving(s)', NEW w \in Workers, NEW r \in RoomIds, Holds(w, r, s)'
             PROVE  Told(w, r, s)'
  BY DEF Farewell
<1>1. Holds(w, r, s)
  BY DEF Holds, Expected
<1> QED
  BY <1>1 DEF Farewell

\* Nobody but the database thread or the client does anything.
LEMMA SameFarewell ==
  ASSUME NEW s \in Sessions, Farewell(s), EndsLast(s), Expected(s),
         UNCHANGED <<main, conn, event_queue, event, pc>>,
         \A w \in Workers, r \in RoomIds : Sent(w, r, s) => Sent(w, r, s)'
  PROVE  Farewell(s)' /\ EndsLast(s)'
<1>1. EndsLast(s)'
  BY DEF EndsLast
<1>2. /\ Leaving(s)' => Leaving(s)
      /\ LobbyDue(s)' => LobbyDue(s)
  BY DEF Leaving, LobbyDue, Link
<1>3. \A w \in Workers, r \in RoomIds : Told(w, r, s) => Told(w, r, s)'
  BY DEF Told, Noted, Queues, Runs
<1> QED
  BY <1>1, <1>2, <1>3, FarewellKept

\* Worker w goes on with its event, ends it or drops it, and posts nothing.
HandOn(w) ==
  /\ UNCHANGED <<main, conn, event_queue>>
  /\ routing'[MAIN_THREAD] = routing[MAIN_THREAD]
  /\ \A v \in Workers : v # w => event'[v] = event[v] /\ pc'[v] = pc[v]
  /\ event'[w].fd \in {event[w].fd, NoSession}
  /\ \/ pc'[w] # "run"
     \/ event'[w].current_action # 0
     \/ event'[w] = EmptyEvent

\* Then only an event in its hands that dismisses somebody can be lost.
LEMMA HandOnFacts ==
  ASSUME NEW w \in Workers, HandOn(w), NEW s \in Sessions, EndsLast(s)
  PROVE  /\ EndsLast(s)'
         /\ Leaving(s)' => Leaving(s)
         /\ LobbyDue(s)' => LobbyDue(s)
         /\ \A v \in Workers, r \in RoomIds :
              Told(v, r, s) => Told(v, r, s)' \/ (v = w /\ Runs(w, r, s))
<1> DEFINE W == LOBBY_WORKER_ID
<1>1. event_queue'[W] = event_queue[W] /\ event'[W].fd \in {event[W].fd, NoSession}
  BY ConstantFacts DEF HandOn
<1>2. EndsLast(s)'
  BY <1>1, SessionAssumption DEF EndsLast, InOrder
<1>3. Leaving(s)' => Leaving(s)
  BY DEF HandOn, Leaving, Link
<1>4. LobbyDue(s)' => LobbyDue(s)
  <2>1. ~(IsAccept(EmptyEvent, s))
    BY SessionAssumption DEF IsAccept, EmptyEvent
  <2>2. CASE w = W
    BY <2>1, <2>2 DEF HandOn, LobbyDue, Waits, Link
  <2>3. CASE w # W
    BY <2>3, ConstantFacts DEF HandOn, LobbyDue, Waits, Link
  <2> QED
    BY <2>2, <2>3
<1>5. \A v \in Workers, r \in RoomIds :
        Told(v, r, s) => Told(v, r, s)' \/ (v = w /\ Runs(w, r, s))
  BY DEF HandOn, Told, Noted, Sent, Queues, Runs
<1> QED
  BY <1>2, <1>3, <1>4, <1>5

\* The worker is not about to run DISCONNECT_SESSION.
NotAtEnd(w) ==
  pc[w] = "run" /\ HasNextAction(event[w]) /\ NotFailed(event[w])
    => NextAction(event[w]).command # "DISCONNECT_SESSION"

\* Such a worker loses none.
LEMMA HandOnKeeps ==
  ASSUME NEW w \in Workers, HandOn(w), NEW s \in Sessions, Farewell(s), EndsLast(s), Expected(s),
         NotAtEnd(w)
  PROVE  Farewell(s)' /\ EndsLast(s)'
<1>1. \A r : ~Runs(w, r, s)
  BY DismissNext DEF Runs, NotAtEnd
<1> QED
  BY <1>1, HandOnFacts, FarewellKept

-----------------------------------------------------------------------------
(***************************************************************************)
(* The workers.                                                            *)
(***************************************************************************)
\* An event is dropped, or goes on with its next action.
LEMMA HandChanges ==
  ASSUME IInv, NEW w \in Workers, UNCHANGED <<main, conn, event_queue>>,
         routing'[MAIN_THREAD] = routing[MAIN_THREAD],
         Return(w) \/ \E res : Continue(w, res)
  PROVE  HandOn(w)
<1>1. /\ event \in [Workers -> RunnableEvents] /\ event[w] \in RoomEvents
      /\ pc \in [Workers -> {"wait", "run", "set_current_room", "send_message"}]
  BY DEF IInv, EventInv, StateTypeOK, RunnableEvents, FormedEvents
<1>2. CASE Return(w)
  <2>1. event'[w] = EmptyEvent /\ \A v \in Workers : v # w => event'[v] = event[v] /\ pc'[v] = pc[v]
    BY <1>1, <1>2 DEF Return
  <2>2. EmptyEvent.fd = NoSession
    BY DEF EmptyEvent
  <2> QED
    BY <2>1, <2>2 DEF HandOn
<1>3. CASE \E res : Continue(w, res)
  <2>1. PICK res : Continue(w, res)
    BY <1>3
  <2>2. event'[w] = Advanced(event[w], res)
        /\ \A v \in Workers : v # w => event'[v] = event[v] /\ pc'[v] = pc[v]
    BY <1>1, <2>1 DEF Continue
  <2>3. /\ Advanced(event[w], res).fd = event[w].fd
        /\ Advanced(event[w], res).current_action = event[w].current_action + 1
        /\ event[w].current_action \in Nat
    BY <1>1 DEF Advanced, RoomEvents
  <2> QED
    BY <2>2, <2>3 DEF HandOn
<1> QED
  BY <1>2, <1>3

\* A worker stops half way through its action.
LEMMA HandPauses ==
  ASSUME IInv, NEW w \in Workers, UNCHANGED <<main, conn, event_queue, event>>,
         routing'[MAIN_THREAD] = routing[MAIN_THREAD],
         NEW p, p # "run", pc' = [pc EXCEPT ![w] = p]
  PROVE  HandOn(w)
<1>1. pc'[w] = p /\ \A v \in Workers : v # w => pc'[v] = pc[v]
  BY DEF IInv, StateTypeOK
<1> QED
  BY <1>1 DEF HandOn

\* Every action of a worker but taking an event, joining and disconnecting.
LEMMA WorkerGoesOn ==
  ASSUME IInv, NEW w \in Workers,
         \/ FinishEvent(w) \/ AnswerFailed(w) \/ SendResponse(w) \/ RequestLeaveRoom(w)
         \/ CreateRoom(w) \/ SetCurrentRoom(w) \/ LeaveRoom(w) \/ SendMessage(w)
         \/ SentToAll(w) \/ SaveMessage(w) \/ RequestDbCreateRoom(w)
         \/ RequestDbLoadMessage(w) \/ \E s \in Sessions : SendTo(w, s)
  PROVE  HandOn(w) /\ NotAtEnd(w)
<1>1. NotAtEnd(w)
  BY DEF NotAtEnd, FinishEvent, AnswerFailed, SendResponse, RequestLeaveRoom, CreateRoom, LeaveRoom,
     SetCurrentRoom, SentToAll, SaveMessage, RequestDbCreateRoom, RequestDbLoadMessage, SendMessage,
     SendTo, At
<1> SUFFICES HandOn(w)
  BY <1>1
<1>2. w # MAIN_THREAD
  BY WorkerAssumption DEF Workers, MAIN_THREAD
<1>3. CASE FinishEvent(w) \/ AnswerFailed(w) \/ SendResponse(w)
  BY <1>3, HandChanges DEF FinishEvent, AnswerFailed, SendResponse, At, mainVars
<1>4. CASE RequestLeaveRoom(w)
  <2>1. routing'[MAIN_THREAD] = routing[MAIN_THREAD]
    BY <1>2, <1>4 DEF RequestLeaveRoom, route_event, IInv, EventInv
  <2> QED
    BY <1>4, <2>1, HandChanges DEF RequestLeaveRoom, At, mainVars
<1>5. CASE CreateRoom(w) \/ LeaveRoom(w)
  BY <1>5, HandChanges DEF CreateRoom, LeaveRoom, Fail, At, mainVars
<1>6. CASE SetCurrentRoom(w) \/ SentToAll(w)
  BY <1>6, HandChanges DEF SetCurrentRoom, SentToAll, mainVars
<1>7. CASE SaveMessage(w) \/ RequestDbCreateRoom(w) \/ RequestDbLoadMessage(w)
  BY <1>7, HandChanges DEF SaveMessage, RequestDbCreateRoom, RequestDbLoadMessage, At, mainVars
<1>8. CASE SendMessage(w)
  BY <1>8, HandChanges, HandPauses DEF SendMessage, Fail, At, mainVars
<1>9. CASE \E s \in Sessions : SendTo(w, s)
  <2>1. pc[w] = "send_message" /\ UNCHANGED <<main, conn, event_queue, event, pc, routing>>
    BY <1>9 DEF SendTo, mainVars
  <2> QED
    BY <2>1 DEF HandOn
<1> QED
  BY <1>3, <1>4, <1>5, <1>6, <1>7, <1>8, <1>9

\* None of them puts anybody into a room.
LEMMA WorkerPutsNobody ==
  ASSUME IInv, NEW w \in Workers,
         \/ FinishEvent(w) \/ AnswerFailed(w) \/ SendResponse(w) \/ RequestLeaveRoom(w)
         \/ CreateRoom(w) \/ SetCurrentRoom(w) \/ LeaveRoom(w) \/ SendMessage(w)
         \/ SentToAll(w) \/ SaveMessage(w) \/ RequestDbCreateRoom(w)
         \/ RequestDbLoadMessage(w) \/ \E c \in Sessions : SendTo(w, c),
         NEW s \in Sessions
  PROVE  Expected(s)
<1>1. sessions \in [Workers -> [RoomIds -> SUBSET Sessions]]
  BY DEF IInv, StateTypeOK
<1>2. CASE UNCHANGED sessions
  BY <1>2 DEF Expected, Holds
<1>3. CASE \E r : sessions' = [sessions EXCEPT ![w][r] = {}]
  BY <1>1, <1>3 DEF Expected, Holds
<1>4. CASE \E r, c : sessions' = [sessions EXCEPT ![w][r] = @ \ {c}]
  BY <1>1, <1>4 DEF Expected, Holds
<1>5. \/ UNCHANGED sessions
      \/ \E r : sessions' = [sessions EXCEPT ![w][r] = {}]
      \/ \E r, c : sessions' = [sessions EXCEPT ![w][r] = @ \ {c}]
  <2>1. CASE CreateRoom(w)
    BY <2>1 DEF CreateRoom, roomVars
  <2>2. CASE LeaveRoom(w)
    BY <2>2 DEF LeaveRoom, leave_room, roomVars
  <2>3. CASE ~CreateRoom(w) /\ ~LeaveRoom(w)
    BY <2>3 DEF FinishEvent, AnswerFailed, SendResponse, RequestLeaveRoom, SetCurrentRoom,
       SendMessage, SentToAll, SaveMessage, RequestDbCreateRoom, RequestDbLoadMessage, SendTo, roomVars
  <2> QED
    BY <2>1, <2>2, <2>3
<1> QED
  BY <1>2, <1>3, <1>4, <1>5

\* The next event is taken: one that dismisses goes from the queue into the hands.
LEMMA TakeEventTells ==
  ASSUME IInv, NEW w \in Workers, TakeEvent(w), NEW s \in Sessions, Farewell(s), EndsLast(s)
  PROVE  Farewell(s)' /\ EndsLast(s)'
<1> DEFINE W == LOBBY_WORKER_ID
           q == event_queue[w]
<1>1. /\ pc[w] = "wait" /\ q \in Seq(RunnableEvents) /\ q # << >>
      /\ event'[w] = Head(q) /\ event_queue'[w] = Tail(q) /\ pc'[w] = "run"
      /\ \A v \in Workers : v # w =>
           event'[v] = event[v] /\ event_queue'[v] = event_queue[v] /\ pc'[v] = pc[v]
      /\ UNCHANGED <<main, conn, routing, sessions>>
  BY DEF TakeEvent, IInv, EventInv, StateTypeOK, mainVars, roomVars
<1>2. /\ 1 \in DOMAIN q /\ Head(q) = q[1]
      /\ \A i \in DOMAIN Tail(q) : i \in Nat /\ i + 1 \in DOMAIN q /\ Tail(q)[i] = q[i + 1] /\ 1 < i + 1
      /\ \A i \in DOMAIN q : i = 1 \/ \E k \in DOMAIN Tail(q) : Tail(q)[k] = q[i]
      /\ \A i, j \in DOMAIN Tail(q) : i < j => i + 1 < j + 1
  <2>1. DOMAIN q = 1..Len(q) /\ DOMAIN Tail(q) = 1..Len(q) - 1 /\ Len(q) \in Nat /\ Len(q) >= 1
    BY <1>1
  <2>2. \A i \in DOMAIN Tail(q) : Tail(q)[i] = q[i + 1]
    BY <1>1, <2>1
  <2>3. ASSUME NEW i \in DOMAIN q, i # 1 PROVE \E k \in DOMAIN Tail(q) : Tail(q)[k] = q[i]
    <3>1. i - 1 \in DOMAIN Tail(q) /\ (i - 1) + 1 = i
      BY <2>1, <2>3
    <3> QED
      BY <2>2, <3>1
  <2> QED
    BY <1>1, <2>1, <2>2, <2>3
<1> HIDE DEF q
<1>3. EndsLast(s)'
  <2>1. CASE w = W
    <3>1. \A j \in DOMAIN q : IsAccept(q[j], s) => \A i \in DOMAIN q : i < j => q[i].fd # s
      BY <2>1 DEF EndsLast, InOrder, q
    <3>2. InOrder(Tail(q), Head(q), s)
      BY <1>2, <3>1 DEF InOrder
    <3> QED
      BY <1>1, <2>1, <3>2 DEF EndsLast
  <2>2. CASE w # W
    BY <1>1, <2>2, ConstantFacts DEF EndsLast
  <2> QED
    BY <2>1, <2>2
<1>4. Leaving(s)' => Leaving(s)
  BY <1>1 DEF Leaving, Link
<1>5. LobbyDue(s)' => LobbyDue(s)
  <2>1. CASE w = W
    <3>1. Waits(Tail(q), Head(q), "run", s) => \E i \in DOMAIN q : IsAccept(q[i], s)
      BY <1>2 DEF Waits
    <3>2. LobbyDue(s)' => Link(s) = "none" \/ Waits(Tail(q), Head(q), "run", s)
      BY <1>1, <2>1 DEF LobbyDue, Link
    <3> QED
      BY <2>1, <3>1, <3>2 DEF LobbyDue, Waits, q
  <2>2. CASE w # W
    BY <1>1, <2>2, ConstantFacts DEF LobbyDue, Waits, Link
  <2> QED
    BY <2>1, <2>2
<1>6. ASSUME NEW v \in Workers, NEW r \in RoomIds, Told(v, r, s)
      PROVE  Told(v, r, s)'
  <2>1. CASE v # w
    BY <1>1, <1>6, <2>1 DEF Told, Noted, Sent, Queues, Runs
  <2>2. CASE v = w /\ ~Queues(v, r, s)
    BY <1>1, <1>6, <2>2 DEF Told, Noted, Sent, Runs
  <2>3. CASE v = w /\ Queues(v, r, s)
    <3>1. PICK i \in DOMAIN q : Dismisses(q[i], s, r)
      BY <2>3 DEF Queues, q
    <3>2. CASE i = 1
      BY <1>1, <1>2, <2>3, <3>1, <3>2 DEF Told, Runs
    <3>3. CASE i # 1
      <4>1. PICK k \in DOMAIN Tail(q) : Tail(q)[k] = q[i]
        BY <1>2, <3>3
      <4> QED
        BY <1>1, <2>3, <3>1, <4>1 DEF Told, Queues
    <3> QED
      BY <3>2, <3>3
  <2> QED
    BY <2>1, <2>2, <2>3
<1>7. Expected(s)
  BY <1>1 DEF Expected, Holds
<1> QED
  BY <1>3, <1>4, <1>5, <1>6, <1>7, FarewellKept

\* The server holds no request of a session that leaves.
LEMMA NothingOfLeaving ==
  ASSUME Sound, NEW s \in Sessions, Polite(s), Leaving(s)
  PROVE  /\ \A t \in Threads : ~IsRequestOf(routing[t].event, s)
         /\ \A v \in Workers : ~IsRequestOf(event[v], s)
         /\ \A v \in Workers : \A i \in DOMAIN event_queue[v] : ~IsRequestOf(event_queue[v][i], s)
         /\ \A i \in DOMAIN job_queue : ~IsRequestOf(job_queue[i].event, s)
<1>1. ClientFits(s) /\ Sole(s)
  BY DEF Sound, CInv, SInv
<1>2. pending_[s] = NoPending
  BY <1>1 DEF ClientFits, Leaving, Polite
<1>3. Balanced(routing, event_queue, event, job_queue, sent[s], 0, s)
  BY <1>1, <1>2 DEF Sole, Kept, Allowed
<1> QED
  BY <1>3, NothingHeld

\* join_room: only accept_client's event can still join a session that leaves, and it
\* joins it to the lobby, where it was expected.
LEMMA JoinRoomTells ==
  ASSUME Sound, NEW w \in Workers, JoinRoom(w), NEW s \in Sessions,
         Farewell(s), EndsLast(s), Polite(s)
  PROVE  Farewell(s)' /\ EndsLast(s)'
<1>0. PICK room, c : room = NextAction(event[w]).target_room_id /\ c = event[w].session
  OBVIOUS
<1>1. At(w, "JOIN_ROOM") /\ NotAtEnd(w) /\ IInv /\ RInv /\ HalfWay(w, "JOIN_ROOM")
  BY DEF JoinRoom, At, NotAtEnd, Sound, HalfWay
<1>2. HandOn(w)
  BY <1>1, HandChanges, HandPauses DEF JoinRoom, Fail, mainVars
<1>3. UNCHANGED sessions \/ sessions' = [sessions EXCEPT ![w][room] = @ \cup {c}]
  BY <1>0 DEF JoinRoom, join_session, roomVars
<1>4. /\ c \in Sessions
      /\ IsAccept(event[w], c) \/ IsRequestOf(event[w], c)
      /\ event[w] \in RoomEvents
  BY <1>0, <1>1, JoinFacts
<1>5. ASSUME Leaving(s), s = c PROVE w = LOBBY_WORKER_ID /\ room = LOBBY_ROOM_ID /\ LobbyDue(s)
  <2>1. IsAccept(event[w], s)
    BY <1>4, <1>5, NothingOfLeaving
  <2>2. event[w].actions = AcceptEvent(s).actions
    BY <2>1 DEF Sound, CInv, SInv, HandsFit, Fits
  <2>3. event[w].actions = << RoomAction("JOIN_ROOM", LOBBY_ROOM_ID) >>
    BY <2>2 DEF AcceptEvent, NewEvent, EmptyEvent
  <2>4. event[w].current_action < 1 /\ event[w].current_action \in Nat
    BY <1>1, <1>4, <2>3 DEF At, HasNextAction, RoomEvents
  <2>5. event[w].current_action = 0 /\ pc[w] = "run"
    BY <1>1, <2>4 DEF At
  <2>6. NextAction(event[w]).target_room_id = LOBBY_ROOM_ID
    BY <2>3, <2>5 DEF NextAction, RoomAction
  <2>7. w = LOBBY_WORKER_ID
    BY <1>1, <2>6, LobbyOwner
  <2> QED
    BY <1>0, <2>1, <2>5, <2>6, <2>7 DEF LobbyDue, Waits
<1>6. Expected(s)
  <2>1. sessions \in [Workers -> [RoomIds -> SUBSET Sessions]]
    BY <1>1 DEF IInv, StateTypeOK
  <2>2. \A v \in Workers, r \in RoomIds :
          s \in sessions'[v][r] => s \in sessions[v][r] \/ (v = w /\ r = room /\ s = c)
    BY <1>3, <2>1
  <2> QED
    BY <1>5, <2>2 DEF Expected, Holds
<1> QED
  BY <1>1, <1>2, <1>6, HandOnKeeps

\* diconnect_session takes the session out of the room that the event names, if it is there.
LEMMA DisconnectTells ==
  ASSUME Sound, NEW w \in Workers, DisconnectSession(w), NEW s \in Sessions,
         Farewell(s), EndsLast(s)
  PROVE  Farewell(s)' /\ EndsLast(s)'
<1> DEFINE W == LOBBY_WORKER_ID
<1>0. PICK room, c, held :
        /\ room = NextAction(event[w]).target_room_id /\ c = event[w].fd
        /\ held = {r \in rooms[w] : c \in sessions[w][r]}
  OBVIOUS
<1>1. /\ IInv /\ RoomsExact /\ Return(w)
      /\ UNCHANGED <<main, conn, event_queue, routing>>
      /\ \/ \E r \in Disconnects(held, room) : leave_room(w, c, r)
         \/ held = {} /\ UNCHANGED roomVars
  BY <1>0 DEF Sound, CInv, DisconnectSession, mainVars
<1>2. HandOn(w)
  BY <1>1, HandChanges
<1>3. sessions \in [Workers -> [RoomIds -> SUBSET Sessions]] /\ rooms[w] \subseteq RoomIds
  BY <1>1 DEF IInv, StateTypeOK
<1>4. /\ \A v \in Workers, r \in RoomIds : s \in sessions'[v][r] => s \in sessions[v][r]
      /\ room \in RoomIds => c \notin sessions'[w][room]
  <2>1. ASSUME NEW r \in Disconnects(held, room), leave_room(w, c, r)
        PROVE  /\ \A v \in Workers, x \in RoomIds : s \in sessions'[v][x] => s \in sessions[v][x]
               /\ room \in RoomIds => c \notin sessions'[w][room]
    <3>1. r \in RoomIds
      BY <1>0, <1>3 DEF Disconnects
    <3>2. \/ sessions' = [sessions EXCEPT ![w][r] = {}]
          \/ sessions' = [sessions EXCEPT ![w][r] = @ \ {c}]
      BY <2>1 DEF leave_room
    <3>3. /\ \A v \in Workers, x \in RoomIds : s \in sessions'[v][x] => s \in sessions[v][x]
          /\ c \notin sessions'[w][r]
          /\ \A x \in RoomIds : x # r => sessions'[w][x] = sessions[w][x]
      BY <1>3, <3>1, <3>2
    <3>4. room \in RoomIds /\ c \in sessions[w][room] => r = room
      BY <1>0, <1>1 DEF Disconnects, RoomsExact
    <3> QED
      BY <3>1, <3>3, <3>4
  <2>2. CASE held = {} /\ UNCHANGED roomVars
    BY <1>0, <1>1, <2>2 DEF RoomsExact, roomVars
  <2> QED
    BY <1>1, <2>1, <2>2
<1>5. Expected(s)
  BY <1>4 DEF Expected, Holds
<1>6. /\ EndsLast(s)'
      /\ Leaving(s)' => Leaving(s)
      /\ LobbyDue(s)' => LobbyDue(s)
      /\ \A v \in Workers, r \in RoomIds :
           Told(v, r, s) => Told(v, r, s)' \/ (v = w /\ Runs(w, r, s))
  BY <1>2, HandOnFacts
<1>7. ASSUME NEW r \in RoomIds, Runs(w, r, s) PROVE ~(Leaving(s)' /\ Holds(w, r, s)')
  <2>1. c = s /\ room = r
    BY <1>0, <1>7, DismissNext DEF Runs, Dismisses
  <2>2. s \notin sessions'[w][r]
    BY <1>4, <2>1
  <2>3. w = W => \A j \in DOMAIN event_queue[W] : ~IsAccept(event_queue[W][j], s)
    BY <1>0, <2>1 DEF EndsLast, InOrder
  <2>4. event'[w] = EmptyEvent /\ ~IsAccept(EmptyEvent, s)
    BY <1>1, SessionAssumption DEF Return, IsAccept, EmptyEvent, IInv, EventInv
  <2>5. w = W /\ Leaving(s)' => ~LobbyDue(s)'
    BY <1>1, <2>3, <2>4 DEF Leaving, LobbyDue, Waits
  <2> QED
    BY <2>2, <2>5 DEF Holds
<1>8. \A v \in Workers, r \in RoomIds :
        Leaving(s)' /\ Holds(v, r, s)' /\ Told(v, r, s) => Told(v, r, s)'
  BY <1>6, <1>7
<1> QED
  BY <1>5, <1>6, <1>8, FarewellKept

\* A worker's step keeps the invariant.
LEMMA WorkerTells ==
  ASSUME Sound, NEW w \in Workers, WorkerStep(w), NEW s \in Sessions,
         Farewell(s), EndsLast(s), Polite(s)
  PROVE  Farewell(s)' /\ EndsLast(s)'
<1>1. CASE TakeEvent(w)
  BY <1>1, TakeEventTells DEF Sound
<1>2. CASE JoinRoom(w)
  BY <1>2, JoinRoomTells
<1>3. CASE DisconnectSession(w)
  BY <1>3, DisconnectTells
<1>4. CASE ~TakeEvent(w) /\ ~JoinRoom(w) /\ ~DisconnectSession(w)
  <2>1. IInv /\ (\/ FinishEvent(w) \/ AnswerFailed(w) \/ SendResponse(w) \/ RequestLeaveRoom(w)
                 \/ CreateRoom(w) \/ SetCurrentRoom(w) \/ LeaveRoom(w) \/ SendMessage(w)
                 \/ SentToAll(w) \/ SaveMessage(w) \/ RequestDbCreateRoom(w)
                 \/ RequestDbLoadMessage(w) \/ \E c \in Sessions : SendTo(w, c))
    BY <1>4 DEF WorkerStep, Sound
  <2>2. HandOn(w) /\ NotAtEnd(w)
    BY <2>1, WorkerGoesOn
  <2>3. Expected(s)
    BY <2>1, WorkerPutsNobody
  <2> QED
    BY <2>2, <2>3, HandOnKeeps
<1> QED
  BY <1>1, <1>2, <1>3, <1>4

-----------------------------------------------------------------------------
(***************************************************************************)
(* The queues, the database and the main thread.                           *)
(***************************************************************************)
\* An event is posted that is no accept of s: what was told stays told.
LEMMA PostTells ==
  ASSUME IInv, NEW w \in Workers, NEW e, post_event(w, e), NEW s \in Sessions, ~IsAccept(e, s),
         UNCHANGED <<main, event, pc, sessions>>, conn'[s] = conn[s],
         \A v \in Workers, r \in RoomIds :
           Sent(v, r, s) => Sent(v, r, s)' \/ (v = w /\ Dismisses(e, s, r)),
         Farewell(s), EndsLast(s)
  PROVE  Farewell(s)' /\ EndsLast(s)'
<1> DEFINE W == LOBBY_WORKER_ID
           q == event_queue[w]
<1>1. /\ q \in Seq(RunnableEvents) /\ event_queue'[w] = Append(q, e)
      /\ \A v \in Workers : v # w => event_queue'[v] = event_queue[v]
  BY DEF post_event, IInv, EventInv
<1>2. /\ \A i \in DOMAIN q : i \in DOMAIN Append(q, e) /\ Append(q, e)[i] = q[i]
      /\ Len(q) + 1 \in DOMAIN Append(q, e) /\ Append(q, e)[Len(q) + 1] = e
      /\ \A i \in DOMAIN Append(q, e) :
           \/ i \in DOMAIN q /\ Append(q, e)[i] = q[i]
           \/ i = Len(q) + 1 /\ Append(q, e)[i] = e
      /\ \A j \in DOMAIN q : \A i \in DOMAIN Append(q, e) : i < j => i \in DOMAIN q
  BY <1>1
<1> HIDE DEF q
<1>3. EndsLast(s)'
  <2>1. CASE w = W
    <3>1. InOrder(q, event[W], s)
      BY <2>1 DEF EndsLast, q
    <3>2. InOrder(Append(q, e), event[W], s)
      BY <1>2, <3>1 DEF InOrder
    <3> QED
      BY <1>1, <2>1, <3>2 DEF EndsLast
  <2>2. CASE w # W
    BY <1>1, <2>2, ConstantFacts DEF EndsLast
  <2> QED
    BY <2>1, <2>2
<1>4. Leaving(s)' => Leaving(s)
  BY DEF Leaving, Link
<1>5. LobbyDue(s)' => LobbyDue(s)
  <2>1. CASE w = W
    <3>1. Waits(Append(q, e), event[W], pc[W], s) => Waits(q, event[W], pc[W], s)
      BY <1>2 DEF Waits
    <3>2. LobbyDue(s)' => Link(s) = "none" \/ Waits(Append(q, e), event[W], pc[W], s)
      BY <1>1, <2>1 DEF LobbyDue, Link
    <3> QED
      BY <2>1, <3>1, <3>2 DEF LobbyDue, q
  <2>2. CASE w # W
    BY <1>1, <2>2, ConstantFacts DEF LobbyDue, Link
  <2> QED
    BY <2>1, <2>2
<1>6. ASSUME NEW v \in Workers, NEW r \in RoomIds, Told(v, r, s)
      PROVE  Told(v, r, s)'
  <2>1. CASE Noted(r, s) \/ Runs(v, r, s)
    BY <2>1 DEF Told, Noted, Runs
  <2>2. CASE Queues(v, r, s)
    <3>1. CASE v = w
      BY <1>1, <1>2, <2>2, <3>1 DEF Told, Queues, q
    <3>2. CASE v # w
      BY <1>1, <2>2, <3>2 DEF Told, Queues
    <3> QED
      BY <3>1, <3>2
  <2>3. CASE Sent(v, r, s)
    <3>1. CASE v = w /\ Dismisses(e, s, r)
      BY <1>1, <1>2, <3>1 DEF Told, Queues
    <3>2. CASE Sent(v, r, s)'
      BY <3>2 DEF Told
    <3> QED
      BY <2>3, <3>1, <3>2
  <2> QED
    BY <1>6, <2>1, <2>2, <2>3 DEF Told
<1>7. Expected(s)
  BY DEF Expected, Holds
<1> QED
  BY <1>3, <1>4, <1>5, <1>6, <1>7, FarewellKept

\* A main thread that is free carries nothing.
LEMMA NothingSent ==
  ASSUME Free(MAIN_THREAD), NEW s \in Sessions
  PROVE  \A w, r : ~Sent(w, r, s)
BY SessionAssumption DEF Free, NotRouting, Sent, Dismisses, EmptyEvent

\* The second half of route_event.
LEMMA PostRoutedTells ==
  ASSUME Sound, NEW t \in Threads, PostRouted(t), NEW s \in Sessions, Farewell(s), EndsLast(s)
  PROVE  Farewell(s)' /\ EndsLast(s)'
<1> DEFINE e == routing[t].event
           w == routing[t].to
<1>1. /\ post_event(w, e) /\ routing' = [routing EXCEPT ![t] = NotRouting]
      /\ UNCHANGED <<conn, main, sessions, event, pc>>
  BY DEF PostRouted, mainVars, roomVars, workerVars
<1>2. IInv /\ ~IsAccept(e, s)
  BY DEF Sound, CInv, SInv, RoutedFit, RidesWell
<1>3. \A v \in Workers, r \in RoomIds :
        Sent(v, r, s) => Sent(v, r, s)' \/ (v = w /\ Dismisses(e, s, r))
  BY <1>1, <1>2 DEF Sent, IInv, EventInv
<1>4. CASE w \in Workers
  BY <1>1, <1>2, <1>3, <1>4, PostTells
<1>5. CASE w \notin Workers
  <2>1. event_queue' = event_queue
    BY <1>1, <1>2, <1>5 DEF post_event, IInv, EventInv
  <2>2. Expected(s)
    BY <1>1 DEF Expected, Holds
  <2> QED
    BY <1>1, <1>3, <1>5, <2>1, <2>2, SameFarewell
<1> QED
  BY <1>4, <1>5

\* The database thread posts only what came to it in a job.
LEMMA DbTells ==
  ASSUME Sound, DbStep, NEW s \in Sessions, Farewell(s), EndsLast(s)
  PROVE  Farewell(s)' /\ EndsLast(s)'
<1>1. IInv /\ DB_THREAD # MAIN_THREAD
  BY WorkerAssumption DEF Sound, DB_THREAD, MAIN_THREAD
<1>2. CASE DbCreateRoomFails
  <2> DEFINE e == Head(job_queue).event
             f == [e EXCEPT !.result_code = "DBError"]
  <2>1. /\ TakeJob("CreateRoom") /\ post_event(LOBBY_WORKER_ID, f)
        /\ UNCHANGED <<conn, main, sessions, event, pc, routing>>
    BY <1>2 DEF DbCreateRoomFails, mainVars, roomVars, workerVars
  <2>2. e \in RoomEvents /\ ~IsAccept(e, s)
    BY <2>1, JobEvent DEF RidesWell
  <2>3. ~IsAccept(f, s)
    BY <2>2 DEF IsAccept, RoomEvents
  <2>4. \A v \in Workers, r \in RoomIds : Sent(v, r, s) => Sent(v, r, s)'
    BY <2>1 DEF Sent
  <2> HIDE DEF f
  <2> QED
    BY <1>1, <2>1, <2>3, <2>4, ConstantFacts, PostTells
<1>3. CASE DbCreateRoom \/ DbLoadHistory \/ DbSaveMessage
  <2>1. /\ UNCHANGED <<conn, main, event_queue, sessions, event, pc>>
        /\ routing' = routing \/ \E x : routing' = [routing EXCEPT ![DB_THREAD] = x]
    BY <1>3
    DEF DbCreateRoom, DbLoadHistory, DbSaveMessage, route_event, mainVars, roomVars, workerVars
  <2>2. routing'[MAIN_THREAD] = routing[MAIN_THREAD]
    BY <1>1, <2>1, ConstantFacts DEF IInv, EventInv
  <2>3. Expected(s) /\ \A v \in Workers, r \in RoomIds : Sent(v, r, s) => Sent(v, r, s)'
    BY <2>1, <2>2 DEF Expected, Holds, Sent
  <2> QED
    BY <2>1, <2>3, SameFarewell
<1> QED
  BY <1>2, <1>3 DEF DbStep

\* The room that holds a session is at the worker that the table names.
LEMMA HeldWhereRouted ==
  ASSUME Sound, NEW w \in Workers, NEW r \in RoomIds, NEW s, Holds(w, r, s)
  PROVE  find_worker(r) = w
<1>1. s \in sessions[w][r] => r \in rooms[w]
  BY DEF Sound, CInv, RoomsExact
<1> QED
  BY <1>1 DEF Sound, RInv, TableInv, Holds, find_worker

\* close_session routes the event for the room it has looked up.
LEMMA DisconnectRoomTells ==
  ASSUME Sound, DisconnectRoom, NEW s \in Sessions, Farewell(s), EndsLast(s)
  PROVE  Farewell(s)' /\ EndsLast(s)'
<1> DEFINE d == DisconnectEvent(main.fd, main.room)
<1>1. /\ main.pc = "disconnect_room" /\ Free(MAIN_THREAD) /\ IInv
      /\ route_event(MAIN_THREAD, d, main.room)
      /\ UNCHANGED <<conn, event_queue, sessions, event, pc>>
  BY DEF DisconnectRoom, Sound, roomVars, workerVars
<1>2. main'.fd = main.fd
  BY DEF DisconnectRoom, Sound, IInv, StateTypeOK
<1>3. EndsLast(s)'
  BY <1>1 DEF EndsLast
<1>4. Link(s)' = Link(s)
  BY <1>1, <1>2 DEF Link
<1>5. ASSUME Leaving(s)', NEW w \in Workers, NEW r \in RoomIds, Holds(w, r, s)'
      PROVE  Told(w, r, s)'
  <2>1. Leaving(s) /\ Holds(w, r, s)
    BY <1>1, <1>4, <1>5 DEF Leaving, Holds, LobbyDue
  <2>2. Noted(r, s) \/ Queues(w, r, s) \/ Runs(w, r, s)
    BY <1>1, <2>1, NothingSent DEF Farewell, Told
  <2>3. CASE Queues(w, r, s) \/ Runs(w, r, s)
    BY <1>1, <2>3 DEF Told, Queues, Runs
  <2>4. CASE Noted(r, s)
    <3>1. s = main.fd /\ r = main.room /\ find_worker(main.room) = w
      BY <2>1, <2>4, HeldWhereRouted DEF Noted
    <3>2. w # NO_WORKER /\ MAIN_THREAD \in Threads
      BY ConstantFacts
    <3>3. routing'[MAIN_THREAD] = [to |-> w, event |-> d]
      BY <1>1, <3>1, <3>2 DEF route_event, IInv, EventInv
    <3>4. routing'[MAIN_THREAD].to = w /\ routing'[MAIN_THREAD].event = d
      BY <3>3
    <3>5. Dismisses(d, s, r)
      BY <3>1 DEF Dismisses, DisconnectEvent, NewEvent, EmptyEvent, NotFailed
    <3> QED
      BY <3>4, <3>5 DEF Told, Sent
  <2> QED
    BY <2>2, <2>3, <2>4
<1> QED
  BY <1>3, <1>5 DEF Farewell

\* The second event, and the end of close_session: the first event is on its way by then.
LEMMA ClosingTells ==
  ASSUME Sound, DisconnectLobby \/ RemoveSession, NEW s \in Sessions, Farewell(s), EndsLast(s)
  PROVE  Farewell(s)' /\ EndsLast(s)'
<1>1. /\ main.pc # "disconnect_room" /\ Free(MAIN_THREAD) /\ IInv
      /\ UNCHANGED <<event_queue, sessions, event, pc>>
  BY DEF DisconnectLobby, RemoveSession, Sound, roomVars, workerVars
<1>2. EndsLast(s)'
  BY <1>1 DEF EndsLast
<1>3. /\ Leaving(s)' => Leaving(s)
      /\ LobbyDue(s)' => LobbyDue(s)
  <2>1. CASE DisconnectLobby
    <3>1. main'.fd = main.fd /\ conn' = conn
      BY <2>1 DEF DisconnectLobby, Sound, IInv, StateTypeOK
    <3> QED
      BY <1>1, <3>1 DEF Leaving, LobbyDue, Link
  <2>2. CASE RemoveSession
    <3>1. main'.fd = NoSession /\ conn' = [conn EXCEPT ![main.fd] = "closed"]
      BY <2>2 DEF RemoveSession, MainIdle
    <3>2. main.fd # s => Link(s)' = Link(s)
      BY <3>1, SessionAssumption DEF Link, Sound, IInv, StateTypeOK
    <3>3. main.fd = s => Leaving(s) /\ Link(s)' = "closed"
      BY <3>1, SessionAssumption DEF Leaving, Link, Sound, IInv, StateTypeOK
    <3> QED
      BY <1>1, <3>2, <3>3 DEF Leaving, LobbyDue
  <2> QED
    BY <2>1, <2>2
<1>4. \A w \in Workers, r \in RoomIds : Told(w, r, s) => Told(w, r, s)'
  BY <1>1, NothingSent DEF Told, Noted, Queues, Runs
<1>5. Expected(s)
  BY <1>1 DEF Expected, Holds
<1> QED
  BY <1>2, <1>3, <1>4, <1>5, FarewellKept

\* close_session begins: nothing waits, so the room it looks up is the one that holds
\* the session, or that will once accept_client's event has run.
LEMMA HangUpTells ==
  ASSUME Sound, NEW c \in Sessions, HangUp(c), NEW s \in Sessions, c \notin Hurried,
         Polite(s), Farewell(s), EndsLast(s)
  PROVE  Farewell(s)' /\ EndsLast(s)'
<1>1. /\ main = MainIdle /\ Free(MAIN_THREAD) /\ conn[c] = "open" /\ ~running[c]
      /\ main' = [pc |-> "disconnect_room", fd |-> c, room |-> current_room[c]]
      /\ UNCHANGED <<conn, event_queue, sessions, event, pc, routing, pending_>>
  BY DEF HangUp, CloseSession, MainFree, roomVars, workerVars, clientVars
<1>2. main.fd # s /\ Link(s) = conn[s] /\ main'.fd = c
  BY <1>1, ClosingFacts
<1>3. EndsLast(s)'
  BY <1>1 DEF EndsLast
<1>4. LobbyDue(s)' => LobbyDue(s)
  BY <1>1, <1>2 DEF LobbyDue, Link
<1>5. CASE s # c
  <2>1. Leaving(s)' => Leaving(s)
    BY <1>1, <1>2, <1>5 DEF Leaving, Link
  <2>2. \A w \in Workers, r \in RoomIds : Told(w, r, s) => Told(w, r, s)'
    BY <1>1, <1>2 DEF Told, Noted, Sent, Queues, Runs
  <2>3. Expected(s)
    BY <1>1 DEF Expected, Holds
  <2> QED
    BY <1>3, <1>4, <2>1, <2>2, <2>3, FarewellKept
<1>6. CASE s = c
  <2>1. Present(View(s)) /\ Allowed(pending_[s], uplink[s]) = 0
    BY <1>1, <1>2, <1>6 DEF Present, View, Polite, Allowed
  <2>2. View(s).at = {View(s).shown} /\ View(s).cur = View(s).shown
    BY <1>6, <2>1 DEF Sound, CInv, SInv, Rests, RestsAt
  <2>3. Whereabouts(s) = {current_room[s]}
    BY <1>6, <2>2 DEF View
  <2>4. ASSUME NEW w \in Workers, NEW r \in RoomIds, Holds(w, r, s)'
        PROVE  Told(w, r, s)'
    <3>1. r \in Whereabouts(s)
      BY <1>1, <1>4, <2>4 DEF Holds, Whereabouts, InRooms
    <3>2. r = current_room[s]
      BY <2>3, <3>1
    <3>3. main'.pc = "disconnect_room" /\ main'.fd = s /\ main'.room = r
      BY <1>1, <1>6, <3>2
    <3> QED
      BY <3>3 DEF Told, Noted
  <2> QED
    BY <1>3, <2>4 DEF Farewell
<1> QED
  BY <1>5, <1>6

\* accept_client: nothing that dismisses the session can be there before it.
LEMMA AcceptTells ==
  ASSUME Sound, NEW c \in Sessions, Accept(c), NEW s \in Sessions, Farewell(s), EndsLast(s)
  PROVE  Farewell(s)' /\ EndsLast(s)'
<1> DEFINE W == LOBBY_WORKER_ID
           a == AcceptEvent(c)
           q == event_queue[W]
<1>1. /\ main = MainIdle /\ conn[c] = "none" /\ conn' = [conn EXCEPT ![c] = "open"]
      /\ post_event(W, a) /\ W \in Workers /\ IInv
      /\ UNCHANGED <<main, routing, sessions, event, pc>>
  BY ConstantFacts DEF Accept, AcceptClient, MainFree, Sound, roomVars, workerVars
<1>2. main.fd # s /\ Link(s) = conn[s]
  BY <1>1, ClosingFacts
<1>3. conn \in [Sessions -> {"none", "open", "closed"}]
  BY <1>1 DEF IInv, StateTypeOK
<1>4. CASE s # c
  <2>1. ~IsAccept(a, s) /\ conn'[s] = conn[s]
    BY <1>1, <1>3, <1>4 DEF IsAccept, AcceptEvent, NewEvent, EmptyEvent
  <2>2. \A w \in Workers, r \in RoomIds : Sent(w, r, s) => Sent(w, r, s)'
    BY <1>1 DEF Sent
  <2> HIDE DEF a
  <2> QED
    BY <1>1, <2>1, <2>2, PostTells
<1>5. CASE s = c
  <2>1. ~Leaving(s)'
    BY <1>1, <1>2, <1>3, <1>5 DEF Leaving, Link
  <2>2. Present(View(s))
    BY <1>1, <1>2, <1>5 DEF Present, View
  <2>3. event[W].fd # s /\ \A i \in DOMAIN q : q[i].fd # s
    BY <1>1, <2>2 DEF Sound, CInv, SInv, HandsFit, QueuedFit, WaitsWell, Fits
  <2>4. q \in Seq(RunnableEvents) /\ event_queue'[W] = Append(q, a)
    BY <1>1 DEF post_event, IInv, EventInv
  <2>5. \A j, i \in DOMAIN Append(q, a) : i < j => i \in DOMAIN q /\ Append(q, a)[i] = q[i]
    BY <2>4
  <2>6. InOrder(Append(q, a), event[W], s)
    BY <2>3, <2>5 DEF InOrder
  <2> QED
    BY <1>1, <2>1, <2>4, <2>6 DEF EndsLast, Farewell
<1> QED
  BY <1>4, <1>5

\* The server reads a request, of which the first half of route_event is made.
LEMMA HandleRequestTells ==
  ASSUME Sound, NEW c \in Sessions, HandleRequest(c), NEW s \in Sessions, Farewell(s), EndsLast(s)
  PROVE  Farewell(s)' /\ EndsLast(s)'
<1>1. uplink[c] # << >> /\ uplink[c] = << pending_[c] >> /\ Asks(pending_[c], ShownRoom(c))
  BY DEF HandleRequest, Sound, CInv, SInv, ClientFits
<1>2. PICK cmd : cmd = Head(uplink[c]).command
  OBVIOUS
<1>3. cmd # UNINITIALIZED
  BY <1>1, <1>2, AsksFacts
<1> DEFINE f == RoomNotFoundEvent(cmd, c)
<1>4. /\ Free(MAIN_THREAD) /\ IInv
      /\ post_event(LOBBY_WORKER_ID, f) \/ UNCHANGED event_queue
      /\ UNCHANGED <<conn, main, sessions, event, pc>>
  BY <1>2 DEF HandleRequest, DispatchPacket, MainFree, Sound, roomVars, workerVars
<1>5. ~IsAccept(f, s)
  BY <1>3 DEF IsAccept, RoomNotFoundEvent, NewEvent, EmptyEvent
<1>6. Expected(s) /\ \A w, r : ~Sent(w, r, s)
  BY <1>4, NothingSent DEF Expected, Holds
<1> HIDE DEF f
<1>7. CASE post_event(LOBBY_WORKER_ID, f)
  BY <1>4, <1>5, <1>6, <1>7, ConstantFacts, PostTells
<1>8. CASE UNCHANGED event_queue
  BY <1>4, <1>6, <1>8, SameFarewell
<1> QED
  BY <1>4, <1>7, <1>8

-----------------------------------------------------------------------------
(***************************************************************************)
(* The invariant holds.                                                    *)
(***************************************************************************)
\* The behaviour of the users that close_session is written for.
Patience == Hurried = {} /\ Abrupt = {}

\* A step of the server's threads.
LEMMA ServerTells ==
  ASSUME Sound, ServerStep, NEW s \in Sessions, Farewell(s), EndsLast(s), Polite(s)
  PROVE  Farewell(s)' /\ EndsLast(s)'
<1>1. CASE MainStep
  BY <1>1, DisconnectRoomTells, ClosingTells DEF MainStep
<1>2. CASE \E t \in Threads : PostRouted(t)
  BY <1>2, PostRoutedTells
<1>3. CASE \E w \in Workers : WorkerStep(w)
  BY <1>3, WorkerTells
<1>4. CASE DbStep
  BY <1>4, DbTells
<1> QED
  BY <1>1, <1>2, <1>3, <1>4 DEF ServerStep

\* A step of the clients, which the server does not see.
LEMMA ClientTells ==
  ASSUME NEW c \in Sessions, Request(c) \/ Exit(c) \/ Vanish(c) \/ HandlePacket(c),
         NEW s \in Sessions, Farewell(s), EndsLast(s)
  PROVE  Farewell(s)' /\ EndsLast(s)'
<1>1. UNCHANGED <<conn, main, routing, event_queue, sessions, event, pc>>
  BY DEF Request, Exit, Vanish, HandlePacket, vars, mainVars, roomVars, workerVars
<1>2. Expected(s) /\ \A w \in Workers, r \in RoomIds : Sent(w, r, s) => Sent(w, r, s)'
  BY <1>1 DEF Expected, Holds, Sent
<1> QED
  BY <1>1, <1>2, SameFarewell

\* A client stops only when it waits for nothing, and asks for nothing once it has stopped.
LEMMA StaysPolite ==
  ASSUME Agreed, Patience, [ChatNext]_allVars, NEW s \in Sessions, Polite(s)
  PROVE  Polite(s)'
<1>0. running \in [Sessions -> BOOLEAN] /\ pending_ \in [Sessions -> Requests \cup {NoPending}]
  BY DEF Agreed, ClientShape
<1>1. CASE UNCHANGED <<running, pending_>>
  BY <1>1 DEF Polite
<1>2. ASSUME NEW c \in Sessions, Request(c) PROVE Polite(s)'
  <2>1. running[c] /\ running' = running /\ \A x \in Sessions : x # c => pending_'[x] = pending_[x]
    BY <1>0, <1>2 DEF Request, TypeRequest, AcceptsInput, LobbyRequest, RoomRequest, send_request
  <2> QED
    BY <2>1 DEF Polite
<1>3. ASSUME NEW c \in Sessions, Exit(c) PROVE Polite(s)'
  <2>1. pending_[c] = NoPending /\ pending_' = pending_ /\ running' = [running EXCEPT ![c] = FALSE]
    BY <1>3 DEF Exit, TypeExit, AcceptsInput
  <2> QED
    BY <1>0, <2>1 DEF Polite
<1>4. ASSUME NEW c \in Sessions, HandlePacket(c) PROVE Polite(s)'
  <2>1. running' = running /\ (pending_' = pending_ \/ pending_' = [pending_ EXCEPT ![c] = NoPending])
    BY <1>4 DEF HandlePacket, handle_packet, handle_response, handle_broadcast, clientVars
  <2> QED
    BY <1>0, <2>1 DEF Polite
<1>5. ASSUME NEW c \in Sessions, Vanish(c) PROVE FALSE
  BY <1>5 DEF Vanish, Patience
<1>6. ASSUME NEW c \in Sessions, Accept(c) \/ HandleRequest(c) \/ HangUp(c)
      PROVE  UNCHANGED <<running, pending_>>
  BY <1>6 DEF Accept, HandleRequest, HangUp, clientVars
<1>7. ASSUME UNCHANGED allVars \/ UNCHANGED clientVars PROVE UNCHANGED <<running, pending_>>
  BY <1>7 DEF allVars, clientVars
<1> QED
  BY <1>1, <1>2, <1>3, <1>4, <1>5, <1>6, <1>7 DEF ChatNext

\* close_session runs to its end on one descriptor, and remove_session is its last step.
LEMMA StaysOpen ==
  ASSUME Sound, ClosingOpen, [ChatNext]_allVars
  PROVE  ClosingOpen'
<1>0. /\ conn \in [Sessions -> {"none", "open", "closed"}]
      /\ NoSession \notin Sessions /\ MainIdle.fd = NoSession
  BY SessionAssumption DEF Sound, IInv, StateTypeOK, MainIdle
<1>1. CASE main'.fd = main.fd /\ conn' = conn
  BY <1>1 DEF ClosingOpen
<1>2. CASE main' = MainIdle
  BY <1>0, <1>2 DEF ClosingOpen
<1>3. ASSUME NEW c \in Sessions, main' = [pc |-> "disconnect_room", fd |-> c, room |-> current_room[c]],
             conn[c] = "open", conn' = conn
      PROVE  ClosingOpen'
  BY <1>3 DEF ClosingOpen
<1>4. CASE MainStep
  <2>1. CASE DisconnectRoom \/ DisconnectLobby
    <3>1. main'.fd = main.fd /\ conn' = conn
      BY <2>1 DEF DisconnectRoom, DisconnectLobby, Sound, IInv, StateTypeOK
    <3> QED
      BY <1>1, <3>1
  <2>2. CASE RemoveSession
    BY <1>2, <2>2 DEF RemoveSession
  <2> QED
    BY <1>4, <2>1, <2>2 DEF MainStep
<1>5. CASE \E t \in Threads : PostRouted(t)
  BY <1>1, <1>5 DEF PostRouted, mainVars
<1>6. ASSUME NEW w \in Workers, WorkerStep(w) PROVE ClosingOpen'
  <2>1. UNCHANGED mainVars
    BY <1>6 DEF WorkerStep, TakeEvent, FinishEvent, AnswerFailed, SendResponse, RequestLeaveRoom,
                CreateRoom, JoinRoom, SetCurrentRoom, LeaveRoom, DisconnectSession, SendMessage,
                SentToAll, SaveMessage, RequestDbCreateRoom, RequestDbLoadMessage, SendTo
  <2> QED
    BY <1>1, <2>1 DEF mainVars
<1>7. CASE DbStep
  BY <1>1, <1>7 DEF DbStep, DbCreateRoom, DbCreateRoomFails, DbLoadHistory, DbSaveMessage, mainVars
<1>8. ASSUME NEW c \in Sessions PROVE
      /\ Request(c) \/ Exit(c) \/ Vanish(c) \/ HandlePacket(c) \/ HandleRequest(c) => ClosingOpen'
      /\ HangUp(c) => ClosingOpen'
      /\ Accept(c) => ClosingOpen'
  <2>1. CASE Request(c) \/ Exit(c) \/ Vanish(c) \/ HandlePacket(c) \/ HandleRequest(c)
    BY <1>1, <2>1 DEF Request, Exit, Vanish, HandlePacket, HandleRequest, DispatchPacket, vars, mainVars
  <2>2. CASE HangUp(c)
    BY <1>3, <2>2 DEF HangUp, CloseSession
  <2>3. CASE Accept(c)
    BY <1>2, <2>3 DEF Accept, AcceptClient, MainFree
  <2> QED
    BY <2>1, <2>2, <2>3
<1>9. CASE UNCHANGED allVars
  BY <1>1, <1>9 DEF allVars, vars, mainVars
<1> QED
  BY <1>4, <1>5, <1>6, <1>7, <1>8, <1>9 DEF ChatNext, ServerStep

\* The initial state: nobody is leaving, and nothing is queued.
LEMMA InitGhost ==
  ASSUME ChatInit
  PROVE  GInv
<1>1. /\ conn = [s \in Sessions |-> "none"] /\ main = MainIdle
      /\ event_queue = [w \in Workers |-> << >>]
      /\ pending_ = [s \in Sessions |-> NoPending]
  BY DEF ChatInit, Init, ClientInit
<1>2. ASSUME NEW s \in Sessions PROVE main.fd # s
  BY <1>1, SessionAssumption DEF MainIdle
<1>3. ASSUME NEW s \in Sessions PROVE Farewell(s)
  BY <1>1, <1>2 DEF Farewell, Leaving, Link
<1>4. event_queue[LOBBY_WORKER_ID] = << >>
  BY <1>1, ConstantFacts
<1>5. ASSUME NEW s \in Sessions PROVE EndsLast(s) /\ Polite(s)
  BY <1>1, <1>4 DEF EndsLast, InOrder, Polite
<1> QED
  BY <1>2, <1>3, <1>5 DEF GInv, ClosingOpen

\* Nobody does anything.
LEMMA StutterTells ==
  ASSUME UNCHANGED allVars, NEW s \in Sessions, Farewell(s), EndsLast(s)
  PROVE  Farewell(s)' /\ EndsLast(s)'
<1>1. UNCHANGED <<main, conn, event_queue, event, pc, sessions, routing>>
  BY DEF allVars, vars, mainVars, roomVars, workerVars
<1>2. Expected(s) /\ \A w \in Workers, r \in RoomIds : Sent(w, r, s) => Sent(w, r, s)'
  BY <1>1 DEF Expected, Holds, Sent
<1> QED
  BY <1>1, <1>2, SameFarewell

\* Every step keeps the invariant.
LEMMA NextGhost ==
  ASSUME Agreed, Patience, GInv, [ChatNext]_allVars
  PROVE  GInv'
<1>1. Sound /\ ClosingOpen
  BY DEF Agreed, GInv
<1>2. ClosingOpen'
  BY <1>1, StaysOpen
<1> SUFFICES ASSUME NEW s \in Sessions PROVE Farewell(s)' /\ EndsLast(s)' /\ Polite(s)'
  BY <1>2 DEF GInv
<1>3. Farewell(s) /\ EndsLast(s) /\ Polite(s)
  BY DEF GInv
<1>4. Polite(s)'
  BY <1>3, StaysPolite
<1>5. CASE ServerStep
  BY <1>1, <1>3, <1>4, <1>5, ServerTells
<1>6. ASSUME NEW c \in Sessions, Request(c) \/ Exit(c) \/ Vanish(c) \/ HandlePacket(c)
      PROVE  Farewell(s)' /\ EndsLast(s)'
  BY <1>3, <1>6, ClientTells
<1>7. ASSUME NEW c \in Sessions, Accept(c) PROVE Farewell(s)' /\ EndsLast(s)'
  BY <1>1, <1>3, <1>7, AcceptTells
<1>8. ASSUME NEW c \in Sessions, HandleRequest(c) PROVE Farewell(s)' /\ EndsLast(s)'
  BY <1>1, <1>3, <1>8, HandleRequestTells
<1>9. ASSUME NEW c \in Sessions, HangUp(c) PROVE Farewell(s)' /\ EndsLast(s)'
  BY <1>1, <1>3, <1>9, HangUpTells DEF Patience
<1>10. CASE UNCHANGED allVars
  BY <1>3, <1>4, <1>10, StutterTells
<1> QED
  BY <1>4, <1>5, <1>6, <1>7, <1>8, <1>9, <1>10 DEF ChatNext

\* A session nothing mentions any more has nothing to come, so no room holds it.
LEMMA NothingLeft ==
  ASSUME Agreed, GInv, NEW s \in Sessions, Forgotten(s)
  PROVE  RoomsOf(s) = {}
<1>1. /\ conn[s] = "closed"
      /\ routing[MAIN_THREAD].event.fd # s
      /\ \A w \in Workers : event[w].fd # s /\ \A i \in DOMAIN event_queue[w] : event_queue[w][i].fd # s
  BY ConstantFacts DEF Forgotten, Carries
<1>2. main.fd # s /\ Farewell(s)
  BY <1>1 DEF GInv, ClosingOpen
<1>3. Leaving(s)
  BY <1>1, <1>2 DEF Leaving, Link
<1>4. ASSUME NEW w \in Workers, NEW r \in RoomIds PROVE ~Told(w, r, s)
  BY <1>1, <1>2 DEF Told, Noted, Sent, Queues, Runs, Dismisses
<1>5. \A w \in Workers, r \in RoomIds : s \notin sessions[w][r]
  BY <1>2, <1>3, <1>4 DEF Farewell, Holds
<1> QED
  BY <1>5 DEF RoomsOf

\* No room keeps a session that close_session has removed, whatever the order in which
\* the workers take the two DISCONNECT_SESSION events and the one of accept_client, if
\* clients only leave while they wait for nothing.
THEOREM NoGhosts ==
  Ample /\ Hurried = {} /\ Abrupt = {} => (ChatSpec => []NoGhost)
<1> SUFFICES ASSUME Ample, Hurried = {}, Abrupt = {} PROVE ChatSpec => []NoGhost
  OBVIOUS
<1>1. ChatInit => GInv
  BY InitGhost
<1>2. Agreed /\ GInv /\ [ChatNext]_allVars => GInv'
  BY NextGhost DEF Patience
<1>3. Agreed /\ GInv => NoGhost
  BY NothingLeft DEF NoGhost
<1> QED
  BY <1>1, <1>2, <1>3, Agreement, PTL DEF ChatSpec
=============================================================================
