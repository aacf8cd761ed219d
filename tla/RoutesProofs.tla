---------------------------- MODULE RoutesProofs ----------------------------
(***************************************************************************)
(* Proofs that the table room -> worker, the maps of the workers and the   *)
(* events on their way agree, for every number of sessions, workers, rooms *)
(* and requests.                                                           *)
(*                                                                         *)
(* A route is looked up when an event is posted and used when it is run,   *)
(* with any number of steps of other threads in between.  What makes it    *)
(* hold is in the plans (every hand-over names the room of the actions     *)
(* that follow it) and in the numbers (a room that has gone never comes    *)
(* back under its number, so its route can vanish but not move).           *)
(***************************************************************************)
EXTENDS RoomServerProofs

-----------------------------------------------------------------------------
(***************************************************************************)
(* Plans.                                                                  *)
(***************************************************************************)
HandOvers == {"REQUEST_LEAVE_ROOM", "REQUEST_DB_CREATE_ROOM", "REQUEST_DB_LOAD_MESSAGE"}

\* Actions that are only right on the worker of the room they name.
RoomBound == {"CREATE_ROOM", "JOIN_ROOM", "LEAVE_ROOM", "SEND_MESSAGE", "SAVE_MESSAGE"}

\* Action j is bound to a room and runs where action c + 1 does.
Reached(acts, c, j) ==
  /\ c < j
  /\ acts[j].command \in RoomBound
  /\ \A k \in DOMAIN acts : c < k /\ k < j => acts[k].command \notin HandOvers

\* From action c on, the plan needs the worker of the room.
Serves(acts, c, room) ==
  \E j \in DOMAIN acts : Reached(acts, c, j) /\ acts[j].target_room_id = room

ServesOnly(acts, c, room) ==
  \A j \in DOMAIN acts : Reached(acts, c, j) => acts[j].target_room_id = room

\* Every hand-over names the room of the actions that follow it.  A room is
\* created second, after its number has been asked for.
Shape(e) ==
  \A i \in DOMAIN e.actions :
    /\ e.actions[i].command \in {"REQUEST_LEAVE_ROOM", "REQUEST_DB_LOAD_MESSAGE"} =>
         ServesOnly(e.actions, i, e.actions[i].target_room_id)
    /\ e.actions[i].command = "REQUEST_DB_CREATE_ROOM" =>
         /\ i = 1
         /\ e.current_action < i => /\ 2 \in DOMAIN e.actions
                                    /\ e.actions[2] = RoomAction("CREATE_ROOM", PENDING_ROOM_ID)
                                    /\ ServesOnly(e.actions, i, PENDING_ROOM_ID)
    /\ e.actions[i].command = "CREATE_ROOM" =>
         i = 2 /\ e.actions[1].command = "REQUEST_DB_CREATE_ROOM"

-----------------------------------------------------------------------------
(***************************************************************************)
(* The invariant.                                                          *)
(***************************************************************************)
\* An event that worker w runs or will run: its rooms are at w or gone, and the
\* room it creates is nowhere yet.
EventOK(w, e, table, held, seq) ==
  /\ Shape(e)
  /\ \A r \in RoomIds : Serves(e.actions, e.current_action, r) =>
       r < seq /\ table[r] \in {w, NO_WORKER}
  /\ \A r \in RoomIds : Creates(e, r) =>
       /\ NotFailed(e) /\ table[r] = w
       /\ \A v \in Workers : r \notin held[v]

\* So are the events between find_worker and post_event, ...
RoutedOK ==
  \A t \in Threads : routing[t].to \in Workers =>
    EventOK(routing[t].to, routing[t].event, room_to_worker, rooms, room_seq)

\* ... those in the queues, ...
QueuedOK ==
  \A w \in Workers : \A i \in DOMAIN event_queue[w] :
    EventOK(w, event_queue[w][i], room_to_worker, rooms, room_seq)

\* ... and those in the hands of the workers.
HandOK == \A w \in Workers : EventOK(w, event[w], room_to_worker, rooms, room_seq)

\* The event in a job is one whose last action was the hand-over to the database.
JobOK(j) ==
  /\ Shape(j.event)
  /\ j.type = "CreateRoom" =>
       /\ j.event.current_action = 1 /\ 2 \in DOMAIN j.event.actions
       /\ j.event.actions[2] = RoomAction("CREATE_ROOM", PENDING_ROOM_ID)
       /\ ServesOnly(j.event.actions, 1, PENDING_ROOM_ID)

JobInv == \A i \in DOMAIN job_queue : JobOK(job_queue[i])

\* The table: rooms are where it says, a number not yet issued has no entry, and
\* the lobby stays.
TableInv ==
  /\ \A w \in Workers : \A r \in rooms[w] : room_to_worker[r] = w
  /\ \A r \in RoomIds : r >= room_seq => room_to_worker[r] = NO_WORKER
  /\ room_to_worker[LOBBY_ROOM_ID] = LOBBY_WORKER_ID

\* A worker holds no event between two.
Waiting == \A w \in Workers : pc[w] = "wait" => event[w] = EmptyEvent

\* An event that creates no room.
Silent(e) == \A r \in RoomIds : ~Creates(e, r)

\* Where the event that creates room r may be: at the database thread, in the queue
\* of w, in the hands of w.
AtDb(r)         == Creates(routing[DB_THREAD].event, r)
Queued(r, w, i) == i \in DOMAIN event_queue[w] /\ Creates(event_queue[w][i], r)
InHand(r, w)    == Creates(event[w], r)

\* There is one such event at most.
Unique ==
  /\ \A t \in Threads \ {DB_THREAD} : Silent(routing[t].event)
  /\ \A r \in RoomIds, w \in Workers :
       /\ InHand(r, w) => ~AtDb(r)
       /\ \A i \in DOMAIN event_queue[w] : Queued(r, w, i) =>
            /\ ~AtDb(r)
            /\ \A v \in Workers : ~InHand(r, v)
            /\ \A v \in Workers : \A j \in DOMAIN event_queue[v] :
                 Queued(r, v, j) => v = w /\ j = i

\* And there is one if the table has an entry for a room that is not there.
Announced ==
  \A r \in RoomIds, w \in Workers :
    room_to_worker[r] = w /\ r \notin rooms[w] =>
      \/ routing[DB_THREAD].to = w /\ AtDb(r)
      \/ \E i \in DOMAIN event_queue[w] : Queued(r, w, i)
      \/ InHand(r, w)

RInv ==
  /\ RoutedOK /\ QueuedOK /\ HandOK
  /\ JobInv /\ TableInv /\ Waiting /\ Unique /\ Announced

-----------------------------------------------------------------------------
(***************************************************************************)
(* Events: which room they serve, which they create.                       *)
(***************************************************************************)
\* An event creates a room only between the answer of the database and its
\* CREATE_ROOM, which is then the next action.
LEMMA CreatesFacts ==
  ASSUME NEW e \in RoomEvents, Shape(e), NEW r \in RoomIds, Creates(e, r)
  PROVE  /\ e.current_action = 1
         /\ HasNextAction(e)
         /\ NextAction(e) = RoomAction("CREATE_ROOM", r)
<1>1. e.actions \in Seq(RoomActions) /\ e.current_action \in Nat
  BY DEF RoomEvents
<1>2. PICK i \in DOMAIN e.actions :
        i > e.current_action /\ e.actions[i] = RoomAction("CREATE_ROOM", r)
  BY DEF Creates
<1>3. e.actions[i].command = "CREATE_ROOM" /\ e.actions[i].target_room_id = r
  BY <1>2 DEF RoomAction
<1>4. i = 2 /\ e.actions[1].command = "REQUEST_DB_CREATE_ROOM"
  BY <1>3 DEF Shape
<1>5. 1 \in DOMAIN e.actions /\ 2 <= Len(e.actions)
  BY <1>1, <1>4
<1>6. e.current_action < 1 => e.actions[2] = RoomAction("CREATE_ROOM", PENDING_ROOM_ID)
  BY <1>4, <1>5 DEF Shape
<1>7. r # PENDING_ROOM_ID
  BY ConstantFacts
<1>8. ~(e.current_action < 1)
  BY <1>3, <1>4, <1>6, <1>7 DEF RoomAction
<1> QED
  BY <1>1, <1>2, <1>4, <1>5, <1>8 DEF HasNextAction, NextAction

\* Going on in a plan keeps its shape.
LEMMA ShapeKept ==
  ASSUME NEW e \in RoomEvents, NEW f \in RoomEvents, Shape(e),
         f.actions = e.actions, f.current_action >= e.current_action
  PROVE  Shape(f)
<1>1. e.current_action \in Nat /\ f.current_action \in Nat /\ DOMAIN e.actions \subseteq Nat
  BY DEF RoomEvents
<1> QED
  BY <1>1 DEF Shape

\* What an event creates depends on its plan and its place in it.
LEMMA CreatesSame ==
  ASSUME NEW e, NEW f, f.actions = e.actions, f.current_action = e.current_action, NEW r
  PROVE  Creates(f, r) <=> Creates(e, r)
BY DEF Creates

\* No action leaves a room to be created behind it: the number is written into the
\* plan when the plan is at CREATE_ROOM already.
LEMMA AdvancedSilent ==
  ASSUME NEW e \in RoomEvents, NEW f \in RoomEvents, Shape(e),
         f.actions = e.actions, f.current_action = e.current_action + 1
  PROVE  Shape(f) /\ Silent(f)
<1>1. e.current_action \in Nat /\ e.actions \in Seq(RoomActions)
  BY DEF RoomEvents
<1>2. Shape(f)
  BY <1>1, ShapeKept
<1>3. ASSUME NEW r \in RoomIds, Creates(f, r) PROVE FALSE
  <2>1. f.current_action = 1
    BY <1>2, <1>3, CreatesFacts
  <2>2. Creates(e, r)
    BY <1>1, <1>3 DEF Creates
  <2>3. e.current_action = 1
    BY <2>2, CreatesFacts
  <2> QED
    BY <2>1, <2>3
<1> QED
  BY <1>2, <1>3 DEF Silent

\* An event at any other action than CREATE_ROOM creates nothing.
LEMMA SilentAt ==
  ASSUME NEW e \in RoomEvents, Shape(e),
         HasNextAction(e) => NextAction(e).command # "CREATE_ROOM"
  PROVE  Silent(e)
BY CreatesFacts DEF Silent, RoomAction

\* An action that is no hand-over stays with its worker.
LEMMA ServesBefore ==
  ASSUME NEW acts \in Seq(RoomActions), NEW c \in Nat, c + 1 \in DOMAIN acts,
         acts[c + 1].command \notin HandOvers, NEW r, Serves(acts, c + 1, r)
  PROVE  Serves(acts, c, r)
<1>1. PICK j \in DOMAIN acts : Reached(acts, c + 1, j) /\ acts[j].target_room_id = r
  BY DEF Serves
<1>2. DOMAIN acts \subseteq Nat
  OBVIOUS
<1>3. \A k \in DOMAIN acts : c < k /\ k < j => acts[k].command \notin HandOvers
  BY <1>1, <1>2 DEF Reached
<1>4. Reached(acts, c, j)
  BY <1>1, <1>2, <1>3 DEF Reached
<1> QED
  BY <1>1, <1>4 DEF Serves

\* An event whose plan has run an action that is no hand-over is still with the
\* right worker.
LEMMA AdvancedOK ==
  ASSUME NEW w, NEW table, NEW held, NEW seq,
         NEW e \in RunnableEvents, HasNextAction(e), NotFailed(e), NEW res \in Results,
         EventOK(w, e, table, held, seq), NextAction(e).command \notin HandOvers
  PROVE  /\ EventOK(w, Advanced(e, res), table, held, seq)
         /\ Silent(Advanced(e, res))
<1> DEFINE f == Advanced(e, res)
<1>1. e \in RoomEvents
  BY DEF RunnableEvents, FormedEvents
<1>2. e.actions \in Seq(RoomActions) /\ e.current_action \in Nat
  BY <1>1 DEF RoomEvents
<1>3. f \in RoomEvents /\ f.current_action = e.current_action + 1
  BY AdvancedFacts DEF FormedEvents
<1>4. f.actions = e.actions
  BY <1>1 DEF Advanced, RoomEvents
<1> HIDE DEF f
<1>5. Shape(e)
  BY DEF EventOK
<1>6. Shape(f) /\ Silent(f)
  BY <1>1, <1>3, <1>4, <1>5, AdvancedSilent
<1>7. e.current_action + 1 \in DOMAIN e.actions
  BY NextFacts
<1>8. ASSUME NEW r \in RoomIds, Serves(f.actions, f.current_action, r)
      PROVE  r < seq /\ table[r] \in {w, NO_WORKER}
  <2>1. Serves(e.actions, e.current_action, r)
    BY <1>2, <1>3, <1>4, <1>7, <1>8, ServesBefore DEF NextAction
  <2> QED
    BY <2>1 DEF EventOK
<1> QED
  BY <1>6, <1>8 DEF f, EventOK, Silent

\* An event handed over by the route of room r, which serves no other, is with the
\* right worker.
LEMMA RoutedEventOK ==
  ASSUME IInv, TableInv, NEW room \in RoomIds, find_worker(room) # NO_WORKER,
         NEW e \in RoomEvents, Shape(e), Silent(e),
         \A r \in RoomIds : Serves(e.actions, e.current_action, r) => r = room
  PROVE  EventOK(find_worker(room), e, room_to_worker, rooms, room_seq)
<1>1. room_seq \in Int /\ room \in Int /\ room < room_seq
  BY ConstantFacts, RoomAssumption DEF IInv, StateTypeOK, FIRST_ROOM_ID, TableInv, find_worker
<1> QED
  BY <1>1 DEF EventOK, Silent, find_worker

\* In a plan that a hand-over has been read from, only its room is served next.
LEMMA HandedOver ==
  ASSUME NEW e \in RoomEvents, Shape(e), e.current_action \in DOMAIN e.actions,
         e.actions[e.current_action].command \in {"REQUEST_LEAVE_ROOM", "REQUEST_DB_LOAD_MESSAGE"},
         NEW r, Serves(e.actions, e.current_action, r)
  PROVE  r = e.actions[e.current_action].target_room_id
BY DEF Shape, Serves, ServesOnly

\* The event a worker holds between two serves and creates nothing.
LEMMA EmptyOK ==
  ASSUME NEW w, NEW table, NEW held, NEW seq
  PROVE  /\ EventOK(w, EmptyEvent, table, held, seq)
         /\ Silent(EmptyEvent)
BY DEF EmptyEvent, EventOK, Shape, Serves, Creates, Silent

-----------------------------------------------------------------------------
(***************************************************************************)
(* The plans of dispatch_packet.                                           *)
(***************************************************************************)
\* A new event starts before its first action.
LEMMA NewEventFacts ==
  ASSUME NEW cmd, NEW s, NEW acts
  PROVE  /\ NewEvent(cmd, s, acts).actions = acts
         /\ NewEvent(cmd, s, acts).current_action = 0
BY DEF NewEvent, EmptyEvent

\* Every plan has the shape, and serves the room it is first routed by until it is
\* handed over.
LEMMA PlanShape ==
  ASSUME NEW cmd \in Commands, NEW s \in Sessions, NEW room \in RoomIds
  PROVE  /\ Shape(PacketEvent(cmd, s, room))
         /\ \A r \in RoomIds : Serves(PacketEvent(cmd, s, room).actions, 0, r)
                                 => r = FirstRoom(cmd, room)
<1> DEFINE e == PacketEvent(cmd, s, room)
           Goal == /\ Shape(e)
                   /\ \A r \in RoomIds : Serves(e.actions, 0, r) => r = FirstRoom(cmd, room)
<1>1. e.current_action = 0 /\ e.actions = Plan(cmd, room)
  BY NewEventFacts DEF PacketEvent
<1> SUFFICES Goal
  OBVIOUS
<1> HIDE DEF e
<1>2. CASE cmd = "CMD_CREATE_ROOM"
  <2> DEFINE acts == plan_create_room
  <2>1. /\ DOMAIN acts = 1..6
        /\ acts[1] = RoomAction("REQUEST_DB_CREATE_ROOM", LOBBY_ROOM_ID)
        /\ acts[2] = RoomAction("CREATE_ROOM", PENDING_ROOM_ID)
        /\ acts[3] = RoomAction("JOIN_ROOM", PENDING_ROOM_ID)
        /\ acts[4] = RoomAction("REQUEST_LEAVE_ROOM", LOBBY_ROOM_ID)
        /\ acts[5] = RoomAction("LEAVE_ROOM", LOBBY_ROOM_ID)
        /\ acts[6] = RoomAction("SEND_RESPONSE", NO_ROOM)
    BY DEF plan_create_room
  <2>2. e.actions = acts
    BY <1>1, <1>2 DEF Plan
  <2> HIDE DEF acts
  <2>3. Shape(e)
    BY <1>1, <2>1, <2>2 DEF Shape, ServesOnly, Reached, RoomAction, RoomBound, HandOvers
  <2>4. \A r \in RoomIds : Serves(e.actions, 0, r) => r = FirstRoom(cmd, room)
    BY <1>2, <2>1, <2>2 DEF Serves, Reached, RoomAction, RoomBound, HandOvers, FirstRoom
  <2> QED
    BY <2>3, <2>4
<1>3. CASE cmd = "CMD_JOIN_ROOM"
  <2> DEFINE acts == plan_join_room(room)
  <2>1. /\ DOMAIN acts = 1..5
        /\ acts[1] = RoomAction("JOIN_ROOM", room)
        /\ acts[2] = RoomAction("REQUEST_LEAVE_ROOM", LOBBY_ROOM_ID)
        /\ acts[3] = RoomAction("LEAVE_ROOM", LOBBY_ROOM_ID)
        /\ acts[4] = RoomAction("REQUEST_DB_LOAD_MESSAGE", room)
        /\ acts[5] = RoomAction("SEND_RESPONSE", NO_ROOM)
    BY DEF plan_join_room
  <2>2. e.actions = acts
    BY <1>1, <1>3 DEF Plan
  <2> HIDE DEF acts
  <2>3. Shape(e)
    BY <1>1, <2>1, <2>2 DEF Shape, ServesOnly, Reached, RoomAction, RoomBound, HandOvers
  <2>4. \A r \in RoomIds : Serves(e.actions, 0, r) => r = FirstRoom(cmd, room)
    BY <1>3, <2>1, <2>2 DEF Serves, Reached, RoomAction, RoomBound, HandOvers, FirstRoom
  <2> QED
    BY <2>3, <2>4
<1>4. CASE cmd = "CMD_LEAVE_ROOM"
  <2> DEFINE acts == plan_leave_room(room)
  <2>1. /\ DOMAIN acts = 1..4
        /\ acts[1] = RoomAction("JOIN_ROOM", LOBBY_ROOM_ID)
        /\ acts[2] = RoomAction("REQUEST_LEAVE_ROOM", room)
        /\ acts[3] = RoomAction("LEAVE_ROOM", room)
        /\ acts[4] = RoomAction("SEND_RESPONSE", NO_ROOM)
    BY DEF plan_leave_room
  <2>2. e.actions = acts
    BY <1>1, <1>4 DEF Plan
  <2> HIDE DEF acts
  <2>3. Shape(e)
    BY <1>1, <2>1, <2>2 DEF Shape, ServesOnly, Reached, RoomAction, RoomBound, HandOvers
  <2>4. \A r \in RoomIds : Serves(e.actions, 0, r) => r = FirstRoom(cmd, room)
    BY <1>4, <2>1, <2>2 DEF Serves, Reached, RoomAction, RoomBound, HandOvers, FirstRoom
  <2> QED
    BY <2>3, <2>4
<1>5. CASE cmd = "CMD_SEND_MESSAGE"
  <2> DEFINE acts == plan_send_message(room)
  <2>1. /\ DOMAIN acts = 1..3
        /\ acts[1] = RoomAction("SEND_MESSAGE", room)
        /\ acts[2] = RoomAction("SAVE_MESSAGE", room)
        /\ acts[3] = RoomAction("SEND_RESPONSE", NO_ROOM)
    BY DEF plan_send_message
  <2>2. e.actions = acts
    BY <1>1, <1>5 DEF Plan
  <2> HIDE DEF acts
  <2>3. Shape(e)
    BY <1>1, <2>1, <2>2 DEF Shape, ServesOnly, Reached, RoomAction, RoomBound, HandOvers
  <2>4. \A r \in RoomIds : Serves(e.actions, 0, r) => r = FirstRoom(cmd, room)
    BY <1>5, <2>1, <2>2 DEF Serves, Reached, RoomAction, RoomBound, HandOvers, FirstRoom
  <2> QED
    BY <2>3, <2>4
<1>6. CASE cmd = "CMD_LOAD_MESSAGE"
  <2> DEFINE acts == plan_load_message(room)
  <2>1. /\ DOMAIN acts = 1..2
        /\ acts[1] = RoomAction("REQUEST_DB_LOAD_MESSAGE", room)
        /\ acts[2] = RoomAction("SEND_RESPONSE", NO_ROOM)
    BY DEF plan_load_message
  <2>2. e.actions = acts
    BY <1>1, <1>6 DEF Plan
  <2> HIDE DEF acts
  <2>3. Shape(e)
    BY <1>1, <2>1, <2>2 DEF Shape, ServesOnly, Reached, RoomAction, RoomBound, HandOvers
  <2>4. \A r \in RoomIds : Serves(e.actions, 0, r) => r = FirstRoom(cmd, room)
    BY <1>6, <2>1, <2>2 DEF Serves, Reached, RoomAction, RoomBound, HandOvers, FirstRoom
  <2> QED
    BY <2>3, <2>4
<1> QED
  BY <1>2, <1>3, <1>4, <1>5, <1>6 DEF Commands

\* An event that was just made creates nothing.
LEMMA StartSilent ==
  ASSUME NEW e \in RoomEvents, Shape(e), e.current_action = 0
  PROVE  Silent(e)
BY CreatesFacts DEF Silent

\* The JOIN of a new connection needs the lobby.
LEMMA AcceptShape ==
  ASSUME NEW s \in Sessions
  PROVE  /\ Shape(AcceptEvent(s)) /\ Silent(AcceptEvent(s))
         /\ \A r \in RoomIds : Serves(AcceptEvent(s).actions, AcceptEvent(s).current_action, r)
                                 => r = LOBBY_ROOM_ID
<1> DEFINE acts == << RoomAction("JOIN_ROOM", LOBBY_ROOM_ID) >>
           e == AcceptEvent(s)
<1>1. DOMAIN acts = 1..1 /\ acts[1] = RoomAction("JOIN_ROOM", LOBBY_ROOM_ID)
  OBVIOUS
<1>2. e.actions = acts /\ e.current_action = 0
  BY NewEventFacts DEF AcceptEvent
<1>3. e \in RoomEvents
  BY AcceptRunnable DEF RunnableEvents, FormedEvents
<1> HIDE DEF acts, e
<1>4. Shape(e)
  BY <1>1, <1>2 DEF Shape, RoomAction
<1>5. Silent(e)
  BY <1>2, <1>3, <1>4, StartSilent
<1>6. \A r \in RoomIds : Serves(e.actions, 0, r) => r = LOBBY_ROOM_ID
  BY <1>1, <1>2 DEF Serves, RoomAction
<1> QED
  BY <1>2, <1>4, <1>5, <1>6 DEF e

\* An event of one action that is neither bound to a room nor a hand-over needs no
\* particular worker.
LEMMA SingleOK ==
  ASSUME NEW e \in RoomEvents, NEW a, a.command \notin RoomBound, a.command \notin HandOvers,
         e.actions = <<a>>, NEW w, NEW table, NEW held, NEW seq
  PROVE  EventOK(w, e, table, held, seq) /\ Silent(e)
<1>1. DOMAIN e.actions = 1..1 /\ e.actions[1] = a
  OBVIOUS
<1>2. \A i \in DOMAIN e.actions : e.actions[i] = a
  BY <1>1
<1>3. a.command # "CREATE_ROOM"
  BY DEF RoomBound
<1>4. Shape(e)
  BY <1>2, <1>3 DEF Shape, HandOvers
<1>5. Silent(e)
  BY <1>2, <1>3 DEF Silent, Creates, RoomAction
<1>6. \A r : ~Serves(e.actions, e.current_action, r)
  BY <1>2 DEF Serves, Reached
<1> QED
  BY <1>4, <1>5, <1>6 DEF EventOK, Silent

\* The answer that a look-up without a result sends, and the event of a disconnect,
\* which looks for the session in every room of the worker.
LEMMA LooseOK ==
  ASSUME NEW w, NEW table, NEW held, NEW seq
  PROVE  /\ \A cmd \in Commands, s \in Sessions :
              /\ EventOK(w, RoomNotFoundEvent(cmd, s), table, held, seq)
              /\ Silent(RoomNotFoundEvent(cmd, s))
         /\ \A s \in Sessions \cup {NoSession}, room \in RoomIds :
              /\ Shape(DisconnectEvent(s, room)) /\ Silent(DisconnectEvent(s, room))
              /\ EventOK(w, DisconnectEvent(s, room), table, held, seq)
<1>1. ASSUME NEW cmd \in Commands, NEW s \in Sessions
      PROVE  /\ EventOK(w, RoomNotFoundEvent(cmd, s), table, held, seq)
             /\ Silent(RoomNotFoundEvent(cmd, s))
  <2> DEFINE a == RoomAction("SEND_RESPONSE", NO_ROOM)
             e == RoomNotFoundEvent(cmd, s)
  <2>1. e.actions = <<a>>
    BY DEF RoomNotFoundEvent, NewEvent, EmptyEvent
  <2>2. e \in RoomEvents
    BY RoomNotFoundRunnable DEF RunnableEvents, FormedEvents
  <2>3. a.command \notin RoomBound /\ a.command \notin HandOvers
    BY DEF RoomAction, RoomBound, HandOvers
  <2> HIDE DEF a, e
  <2>4. EventOK(w, e, table, held, seq) /\ Silent(e)
    BY <2>1, <2>2, <2>3, SingleOK
  <2> QED
    BY <2>4 DEF e
<1>2. ASSUME NEW s \in Sessions \cup {NoSession}, NEW room \in RoomIds
      PROVE  /\ EventOK(w, DisconnectEvent(s, room), table, held, seq)
             /\ Silent(DisconnectEvent(s, room))
  <2> DEFINE a == RoomAction("DISCONNECT_SESSION", room)
             e == DisconnectEvent(s, room)
  <2>1. e.actions = <<a>>
    BY DEF DisconnectEvent, NewEvent, EmptyEvent
  <2>2. e \in RoomEvents
    BY DisconnectRunnable DEF RunnableEvents, FormedEvents
  <2>3. a.command \notin RoomBound /\ a.command \notin HandOvers
    BY DEF RoomAction, RoomBound, HandOvers
  <2> HIDE DEF a, e
  <2>4. EventOK(w, e, table, held, seq) /\ Silent(e)
    BY <2>1, <2>2, <2>3, SingleOK
  <2> QED
    BY <2>4 DEF e
<1> QED
  BY <1>1, <1>2 DEF EventOK

\* The number of the new room is written into the plan: it is the one room the
\* event creates, and the one it serves until it is handed over.
LEMMA ResolvedOK ==
  ASSUME NEW j, JobOK(j), j.type = "CreateRoom", j.event \in FormedEvents,
         NEW room \in RoomIds, NEW g, g.current_action = j.event.current_action,
         g.actions = resolve_room_id(j.event, room).actions
  PROVE  /\ Shape(g)
         /\ \A r \in RoomIds : Serves(g.actions, g.current_action, r) => r = room
         /\ \A r \in RoomIds : Creates(g, r) <=> r = room
<1> DEFINE acts == j.event.actions
           new  == g.actions
<1>1. acts \in Seq(RoomActions)
  BY DEF FormedEvents, RoomEvents
<1>2. new = [i \in DOMAIN acts |->
               IF acts[i].target_room_id = PENDING_ROOM_ID
                 THEN [acts[i] EXCEPT !.target_room_id = room]
                 ELSE acts[i]]
  BY DEF resolve_room_id, FormedEvents, RoomEvents
<1>3. /\ Shape(j.event) /\ j.event.current_action = 1 /\ g.current_action = 1
      /\ 2 \in DOMAIN acts /\ acts[2] = RoomAction("CREATE_ROOM", PENDING_ROOM_ID)
      /\ ServesOnly(acts, 1, PENDING_ROOM_ID)
  BY DEF JobOK
<1>4. 1 \in DOMAIN acts /\ DOMAIN acts \subseteq Nat
  BY <1>1, <1>3
<1>5. /\ DOMAIN new = DOMAIN acts
      /\ \A i \in DOMAIN acts :
           /\ new[i].command = acts[i].command
           /\ new[i].target_room_id = IF acts[i].target_room_id = PENDING_ROOM_ID
                                        THEN room ELSE acts[i].target_room_id
           /\ acts[i].target_room_id = PENDING_ROOM_ID => new[i] = RoomAction(acts[i].command, room)
  <2>1. DOMAIN new = DOMAIN acts
    BY <1>2
  <2> SUFFICES ASSUME NEW i \in DOMAIN acts
               PROVE  /\ new[i].command = acts[i].command
                      /\ new[i].target_room_id = IF acts[i].target_room_id = PENDING_ROOM_ID
                                                   THEN room ELSE acts[i].target_room_id
                      /\ acts[i].target_room_id = PENDING_ROOM_ID =>
                           new[i] = RoomAction(acts[i].command, room)
    BY <2>1
  <2>2. new[i] = IF acts[i].target_room_id = PENDING_ROOM_ID
                   THEN [acts[i] EXCEPT !.target_room_id = room]
                   ELSE acts[i]
    BY <1>2
  <2>3. acts[i] \in RoomActions
    BY <1>1
  <2> HIDE DEF acts, new
  <2> QED
    BY <2>2, <2>3 DEF RoomActions, RoomAction
<1> HIDE DEF acts, new
<1>6. \A c, k \in DOMAIN acts : Reached(new, c, k) <=> Reached(acts, c, k)
  BY <1>5 DEF Reached
<1>7. Shape(g)
  <2> SUFFICES ASSUME NEW i \in DOMAIN new
               PROVE  /\ new[i].command \in {"REQUEST_LEAVE_ROOM", "REQUEST_DB_LOAD_MESSAGE"} =>
                           ServesOnly(new, i, new[i].target_room_id)
                      /\ new[i].command = "REQUEST_DB_CREATE_ROOM" => i = 1
                      /\ new[i].command = "CREATE_ROOM" =>
                           i = 2 /\ new[1].command = "REQUEST_DB_CREATE_ROOM"
    BY <1>3 DEF Shape, new
  <2>1. /\ acts[i].command \in {"REQUEST_LEAVE_ROOM", "REQUEST_DB_LOAD_MESSAGE"} =>
             ServesOnly(acts, i, acts[i].target_room_id)
        /\ acts[i].command = "REQUEST_DB_CREATE_ROOM" => i = 1
        /\ acts[i].command = "CREATE_ROOM" =>
             i = 2 /\ acts[1].command = "REQUEST_DB_CREATE_ROOM"
    BY <1>3, <1>5 DEF Shape, acts
  <2>2. ServesOnly(acts, i, acts[i].target_room_id) => ServesOnly(new, i, new[i].target_room_id)
    BY <1>5, <1>6 DEF ServesOnly
  <2> QED
    BY <1>4, <1>5, <2>1, <2>2
<1>8. ASSUME NEW r \in RoomIds, Serves(new, 1, r) PROVE r = room
  <2>1. PICK k \in DOMAIN new : Reached(new, 1, k) /\ new[k].target_room_id = r
    BY <1>8 DEF Serves
  <2>2. acts[k].target_room_id = PENDING_ROOM_ID
    <3>1. Reached(acts, 1, k)
      BY <1>4, <1>5, <1>6, <2>1
    <3> QED
      BY <1>3, <1>5, <2>1, <3>1 DEF ServesOnly
  <2> QED
    BY <1>5, <2>1, <2>2
<1>9. new[2] = RoomAction("CREATE_ROOM", room)
  BY <1>3, <1>5 DEF RoomAction
<1>10. Creates(g, room)
  BY <1>3, <1>5, <1>9 DEF Creates, new
<1>11. ASSUME NEW r \in RoomIds, Creates(g, r) PROVE r = room
  <2>1. PICK i \in DOMAIN new : new[i] = RoomAction("CREATE_ROOM", r)
    BY <1>11 DEF Creates, new
  <2>2. i = 2
    BY <1>7, <2>1 DEF Shape, RoomAction, new
  <2> QED
    BY <1>9, <2>1, <2>2 DEF RoomAction
<1> QED
  BY <1>3, <1>7, <1>8, <1>10, <1>11 DEF new

-----------------------------------------------------------------------------
(***************************************************************************)
(* Most steps are quiet: no event that creates a room moves, and whatever  *)
(* was with the right worker still is.                                     *)
(***************************************************************************)
QuietTables ==
  /\ \A w \in Workers, e \in RunnableEvents :
       EventOK(w, e, room_to_worker, rooms, room_seq)
         => EventOK(w, e, room_to_worker', rooms', room_seq')
  /\ TableInv'
  /\ \A r \in RoomIds, w \in Workers :
       room_to_worker'[r] = w /\ r \notin rooms'[w] => room_to_worker[r] = w /\ r \notin rooms[w]

QuietRouting ==
  \A t \in Threads :
    \/ routing'[t] = routing[t]
    \/ /\ Silent(routing[t].event) /\ Silent(routing'[t].event)
       /\ routing'[t].to \in Workers =>
            EventOK(routing'[t].to, routing'[t].event, room_to_worker', rooms', room_seq')

QuietQueues ==
  \A w \in Workers :
    \/ event_queue'[w] = event_queue[w]
    \/ \E e \in RunnableEvents :
         /\ event_queue'[w] = Append(event_queue[w], e)
         /\ Silent(e)
         /\ EventOK(w, e, room_to_worker', rooms', room_seq')

QuietHands ==
  \A w \in Workers :
    \/ event'[w] = event[w]
    \/ /\ Silent(event[w]) /\ Silent(event'[w])
       /\ EventOK(w, event'[w], room_to_worker', rooms', room_seq')

\* The positions of a queue that an event is appended to.
LEMMA AppendFacts ==
  ASSUME NEW S, NEW q \in Seq(S), NEW e \in S
  PROVE  /\ DOMAIN Append(q, e) = DOMAIN q \cup {Len(q) + 1}
         /\ \A i \in DOMAIN q : Append(q, e)[i] = q[i]
         /\ Append(q, e)[Len(q) + 1] = e
         /\ Len(q) + 1 \notin DOMAIN q
OBVIOUS

\* What the queues look like after a quiet step.
LEMMA QuietQueueFacts ==
  ASSUME IInv, QuietQueues, NEW w \in Workers
  PROVE  /\ DOMAIN event_queue[w] \subseteq DOMAIN event_queue'[w]
         /\ \A i \in DOMAIN event_queue[w] : event_queue'[w][i] = event_queue[w][i]
         /\ \A i \in DOMAIN event_queue'[w] \ DOMAIN event_queue[w] :
              /\ Silent(event_queue'[w][i])
              /\ EventOK(w, event_queue'[w][i], room_to_worker', rooms', room_seq')
<1> DEFINE q == event_queue[w]
           p == event_queue'[w]
<1>1. q \in Seq(RunnableEvents)
  BY DEF IInv, EventInv
<1>2. CASE p = q
  BY <1>2
<1>3. ASSUME NEW e \in RunnableEvents, p = Append(q, e), Silent(e),
             EventOK(w, e, room_to_worker', rooms', room_seq')
      PROVE  /\ DOMAIN q \subseteq DOMAIN p
             /\ \A i \in DOMAIN q : p[i] = q[i]
             /\ \A i \in DOMAIN p \ DOMAIN q :
                  Silent(p[i]) /\ EventOK(w, p[i], room_to_worker', rooms', room_seq')
  <2> HIDE DEF q, p
  <2>1. /\ DOMAIN p = DOMAIN q \cup {Len(q) + 1}
        /\ \A i \in DOMAIN q : p[i] = q[i]
        /\ p[Len(q) + 1] = e
    BY <1>1, <1>3, AppendFacts
  <2> QED
    BY <1>3, <2>1
<1> QED
  BY <1>2, <1>3 DEF QuietQueues

\* A quiet step keeps the events with the right workers.
LEMMA QuietEvents ==
  ASSUME IInv, RInv, QuietTables, QuietRouting, QuietQueues, QuietHands
  PROVE  RoutedOK' /\ QueuedOK' /\ HandOK'
<1>1. /\ \A t \in Threads : routing[t].event \in RunnableEvents
      /\ \A w \in Workers : event[w] \in RunnableEvents
      /\ \A w \in Workers : \A i \in DOMAIN event_queue[w] :
           event_queue[w][i] \in RunnableEvents
  BY DEF IInv, EventInv
<1>2. RoutedOK'
  <2> SUFFICES ASSUME NEW t \in Threads, routing'[t].to \in Workers
               PROVE  EventOK(routing'[t].to, routing'[t].event, room_to_worker', rooms', room_seq')
    BY DEF RoutedOK
  <2>1. CASE routing'[t] = routing[t]
    <3>1. EventOK(routing[t].to, routing[t].event, room_to_worker, rooms, room_seq)
      BY <2>1 DEF RInv, RoutedOK
    <3> QED
      BY <1>1, <2>1, <3>1 DEF QuietTables
  <2> QED
    BY <2>1 DEF QuietRouting
<1>3. QueuedOK'
  <2> SUFFICES ASSUME NEW w \in Workers, NEW i \in DOMAIN event_queue'[w]
               PROVE  EventOK(w, event_queue'[w][i], room_to_worker', rooms', room_seq')
    BY DEF QueuedOK
  <2>1. CASE i \in DOMAIN event_queue[w]
    <3>1. EventOK(w, event_queue[w][i], room_to_worker, rooms, room_seq)
      BY <2>1 DEF RInv, QueuedOK
    <3>2. event_queue'[w][i] = event_queue[w][i]
      BY <2>1, QuietQueueFacts
    <3> QED
      BY <1>1, <2>1, <3>1, <3>2 DEF QuietTables
  <2> QED
    BY <2>1, QuietQueueFacts
<1>4. HandOK'
  <2> SUFFICES ASSUME NEW w \in Workers
               PROVE  EventOK(w, event'[w], room_to_worker', rooms', room_seq')
    BY DEF HandOK
  <2>1. CASE event'[w] = event[w]
    <3>1. EventOK(w, event[w], room_to_worker, rooms, room_seq)
      BY DEF RInv, HandOK
    <3> QED
      BY <1>1, <2>1, <3>1 DEF QuietTables
  <2> QED
    BY <2>1 DEF QuietHands
<1> QED
  BY <1>2, <1>3, <1>4

\* A quiet step keeps the invariant.
LEMMA QuietKeeps ==
  ASSUME IInv, RInv, QuietTables, QuietRouting, QuietQueues, QuietHands, JobInv', Waiting'
  PROVE  RInv'
<1>1. DB_THREAD \in Threads
  BY ConstantFacts
<1>2. \A r \in RoomIds : AtDb(r)' <=> AtDb(r)
  BY <1>1 DEF AtDb, QuietRouting, Silent
<1>3. \A r \in RoomIds, w \in Workers : InHand(r, w)' <=> InHand(r, w)
  BY DEF InHand, QuietHands, Silent
<1>4. ASSUME NEW r \in RoomIds, NEW w \in Workers
      PROVE  /\ DOMAIN event_queue[w] \subseteq DOMAIN event_queue'[w]
             /\ \A i \in DOMAIN event_queue[w] : Queued(r, w, i) => Queued(r, w, i)'
             /\ \A i \in DOMAIN event_queue'[w] :
                  Queued(r, w, i)' => i \in DOMAIN event_queue[w] /\ Queued(r, w, i)
  BY QuietQueueFacts DEF Queued, Silent
<1>5. \A t \in Threads \ {DB_THREAD} : Silent(routing'[t].event)
  BY DEF QuietRouting, RInv, Unique
<1>6. Unique'
  <2>1. Unique
    BY DEF RInv
  <2> QED
    BY <1>2, <1>3, <1>4, <1>5, <2>1 DEF Unique
<1>7. Announced'
  <2> SUFFICES ASSUME NEW r \in RoomIds, NEW w \in Workers,
                      room_to_worker'[r] = w, r \notin rooms'[w]
               PROVE  \/ routing'[DB_THREAD].to = w /\ AtDb(r)'
                      \/ \E i \in DOMAIN event_queue'[w] : Queued(r, w, i)'
                      \/ InHand(r, w)'
    BY DEF Announced
  <2>1. \/ routing[DB_THREAD].to = w /\ AtDb(r)
        \/ \E i \in DOMAIN event_queue[w] : Queued(r, w, i)
        \/ InHand(r, w)
    BY DEF QuietTables, RInv, Announced
  <2>2. AtDb(r) => routing'[DB_THREAD] = routing[DB_THREAD]
    BY <1>1 DEF AtDb, QuietRouting, Silent
  <2> QED
    BY <1>2, <1>3, <1>4, <2>1, <2>2
<1> QED
  BY <1>6, <1>7, QuietEvents DEF RInv, QuietTables

-----------------------------------------------------------------------------
(***************************************************************************)
(* What the helpers of the handlers do, in these terms.                    *)
(***************************************************************************)
Tables == <<room_to_worker, rooms, room_seq>>

\* A step that leaves the tables alone.
LEMMA SameTables ==
  ASSUME RInv, UNCHANGED Tables
  PROVE  QuietTables
<1>1. room_to_worker' = room_to_worker /\ rooms' = rooms /\ room_seq' = room_seq
  BY DEF Tables
<1> QED
  BY <1>1 DEF QuietTables, RInv, TableInv

\* A step that touches none of the places where events are.
LEMMA SamePlaces ==
  /\ UNCHANGED routing => QuietRouting
  /\ UNCHANGED event_queue => QuietQueues
  /\ UNCHANGED event => QuietHands
BY DEF QuietRouting, QuietQueues, QuietHands

\* The second half of route_event, and the posts to the lobby.
LEMMA PostQuiet ==
  ASSUME IInv, NEW w \in Workers, NEW e \in RunnableEvents, post_event(w, e), Silent(e),
         EventOK(w, e, room_to_worker', rooms', room_seq')
  PROVE  QuietQueues
<1> SUFFICES ASSUME NEW v \in Workers, event_queue'[v] # event_queue[v]
             PROVE  event_queue'[v] = Append(event_queue[v], e) /\ v = w
  BY DEF QuietQueues
<1> QED
  BY DEF post_event, IInv, EventInv

\* The first half of route_event.
LEMMA RouteQuiet ==
  ASSUME IInv, RInv, UNCHANGED Tables, NEW t \in Threads, Silent(routing[t].event),
         NEW room \in RoomIds, NEW e \in RoomEvents, Shape(e), Silent(e),
         \A r \in RoomIds : Serves(e.actions, e.current_action, r) => r = room,
         route_event(t, e, room)
  PROVE  QuietRouting
<1> DEFINE w == find_worker(room)
<1>1. CASE w = NO_WORKER
  BY <1>1 DEF route_event, QuietRouting
<1>2. CASE w # NO_WORKER
  <2>1. EventOK(w, e, room_to_worker, rooms, room_seq)
    BY <1>2, RoutedEventOK DEF RInv
  <2>2. EventOK(w, e, room_to_worker', rooms', room_seq')
    BY <2>1 DEF Tables
  <2>3. routing' = [routing EXCEPT ![t] = [to |-> w, event |-> e]]
    BY <1>2 DEF route_event
  <2> HIDE DEF w
  <2>4. \A u \in Threads : u # t => routing'[u] = routing[u]
    BY <2>3 DEF IInv, EventInv
  <2>5. routing'[t].to = w /\ routing'[t].event = e
    BY <2>3 DEF IInv, EventInv
  <2> QED
    BY <2>2, <2>4, <2>5 DEF QuietRouting
<1> QED
  BY <1>1, <1>2

\* The end of an event that creates nothing any more.
LEMMA ReturnQuiet ==
  ASSUME IInv, RInv, NEW w \in Workers, Return(w), Silent(event[w])
  PROVE  QuietHands /\ Waiting'
<1>1. /\ event' = [event EXCEPT ![w] = EmptyEvent] /\ pc' = [pc EXCEPT ![w] = "wait"]
      /\ DOMAIN event = Workers /\ DOMAIN pc = Workers
  BY DEF Return, IInv, EventInv, StateTypeOK
<1>2. QuietHands
  BY <1>1, EmptyOK DEF QuietHands
<1>3. Waiting'
  BY <1>1 DEF RInv, Waiting
<1> QED
  BY <1>2, <1>3

\* Going on with the next action of the same event.
LEMMA ContinueQuiet ==
  ASSUME IInv, RInv, QuietTables, NEW w \in Workers, HasNextAction(event[w]), NotFailed(event[w]),
         NextAction(event[w]).command \notin HandOvers,
         NextAction(event[w]).command # "CREATE_ROOM",
         NEW res \in Results, Continue(w, res)
  PROVE  QuietHands /\ Waiting'
<1> DEFINE f == Advanced(event[w], res)
<1>1. /\ event' = [event EXCEPT ![w] = f] /\ pc' = [pc EXCEPT ![w] = "run"]
      /\ DOMAIN event = Workers /\ DOMAIN pc = Workers
  BY DEF Continue, IInv, EventInv, StateTypeOK
<1>2. event[w] \in RunnableEvents /\ EventOK(w, event[w], room_to_worker, rooms, room_seq)
  BY DEF IInv, EventInv, RInv, HandOK
<1>3. EventOK(w, event[w], room_to_worker', rooms', room_seq')
  BY <1>2 DEF QuietTables
<1>4. EventOK(w, f, room_to_worker', rooms', room_seq') /\ Silent(f)
  BY <1>2, <1>3, AdvancedOK
<1>5. event[w] \in RoomEvents /\ Shape(event[w])
  BY <1>2 DEF EventOK, RunnableEvents, FormedEvents
<1>6. Silent(event[w])
  BY <1>5, SilentAt
<1> HIDE DEF f
<1>7. QuietHands
  BY <1>1, <1>4, <1>6 DEF QuietHands
<1>8. Waiting'
  BY <1>1 DEF RInv, Waiting
<1> QED
  BY <1>7, <1>8

\* The event of a worker that is at an action other than CREATE_ROOM.
LEMMA HandSilent ==
  ASSUME IInv, RInv, NEW w \in Workers,
         HasNextAction(event[w]) => NextAction(event[w]).command # "CREATE_ROOM"
  PROVE  Silent(event[w])
<1>1. event[w] \in RoomEvents /\ Shape(event[w])
  BY DEF IInv, EventInv, RInv, HandOK, EventOK, RunnableEvents, FormedEvents
<1> QED
  BY <1>1, SilentAt

\* A failed action never takes the entry of a room with it: the clean-up tests the
\* first action of the plan, which is not CREATE_ROOM.
LEMMA FailKeepsTable ==
  ASSUME IInv, RInv, NEW w \in Workers, HasNextAction(event[w]), NEW res, Fail(w, res)
  PROVE  room_to_worker' = room_to_worker
<1>1. event[w] \in RoomEvents /\ Shape(event[w])
  BY DEF IInv, EventInv, RInv, HandOK, EventOK, RunnableEvents, FormedEvents
<1>2. event[w].actions \in Seq(RoomActions) /\ event[w].current_action \in Nat
  BY <1>1 DEF RoomEvents
<1>3. 1 \in DOMAIN event[w].actions
  BY <1>2 DEF HasNextAction
<1>4. event[w].actions[1].command # "CREATE_ROOM"
  BY <1>1, <1>3 DEF Shape
<1> QED
  BY <1>4 DEF Fail

-----------------------------------------------------------------------------
(***************************************************************************)
(* The main thread.                                                        *)
(***************************************************************************)
\* A new connection is sent to the lobby, which is where the table says.
LEMMA AcceptClientRoutes ==
  ASSUME IInv, RInv, NEW s \in Sessions, AcceptClient(s)
  PROVE  RInv'
<1>1. /\ post_event(LOBBY_WORKER_ID, AcceptEvent(s))
      /\ UNCHANGED <<Tables, routing, event, pc, job_queue>>
  BY DEF AcceptClient, Tables, roomVars, workerVars, dbVars
<1>2. /\ AcceptEvent(s) \in RunnableEvents /\ AcceptEvent(s) \in RoomEvents
      /\ Shape(AcceptEvent(s)) /\ Silent(AcceptEvent(s))
      /\ \A r \in RoomIds : Serves(AcceptEvent(s).actions, AcceptEvent(s).current_action, r)
                              => r = LOBBY_ROOM_ID
  BY AcceptRunnable, AcceptShape DEF RunnableEvents, FormedEvents
<1>3. find_worker(LOBBY_ROOM_ID) = LOBBY_WORKER_ID /\ LOBBY_WORKER_ID # NO_WORKER
  BY ConstantFacts DEF RInv, TableInv, find_worker
<1>4. EventOK(LOBBY_WORKER_ID, AcceptEvent(s), room_to_worker, rooms, room_seq)
  BY <1>2, <1>3, ConstantFacts, RoutedEventOK DEF RInv
<1>5. EventOK(LOBBY_WORKER_ID, AcceptEvent(s), room_to_worker', rooms', room_seq')
  BY <1>1, <1>4 DEF Tables
<1>6. QuietQueues
  BY <1>1, <1>2, <1>5, ConstantFacts, PostQuiet
<1>7. QuietTables /\ QuietRouting /\ QuietHands
  BY <1>1, SameTables, SamePlaces
<1>8. JobInv' /\ Waiting'
  BY <1>1 DEF RInv, JobInv, Waiting
<1> QED
  BY <1>6, <1>7, <1>8, QuietKeeps

\* The main thread and the workers never route an event that creates a room.
LEMMA RoutingSilent ==
  ASSUME RInv, NEW t \in Threads, t # DB_THREAD \/ Free(t)
  PROVE  Silent(routing[t].event)
<1>1. CASE t # DB_THREAD
  BY <1>1 DEF RInv, Unique
<1>2. CASE Free(t)
  BY <1>2, EmptyOK DEF Free, NotRouting
<1> QED
  BY <1>1, <1>2

\* A packet is routed by the room its plan serves first; without an entry only an
\* answer goes to the lobby.
LEMMA DispatchPacketRoutes ==
  ASSUME IInv, RInv, NEW s \in Sessions, NEW cmd \in Commands, NEW room \in RoomIds,
         DispatchPacket(s, cmd, room)
  PROVE  RInv'
<1> DEFINE e == PacketEvent(cmd, s, room)
           f == RoomNotFoundEvent(cmd, s)
           first == FirstRoom(cmd, room)
<1>1. /\ UNCHANGED <<Tables, event, pc, job_queue>>
      /\ route_event(MAIN_THREAD, e, first)
      /\ post_event(LOBBY_WORKER_ID, f) \/ UNCHANGED event_queue
      /\ Free(MAIN_THREAD)
  BY DEF DispatchPacket, MainFree, Tables, roomVars, workerVars, dbVars
<1>2. first \in RoomIds
  BY ConstantFacts DEF FirstRoom
<1>3. e \in RoomEvents /\ e.current_action = 0
  BY PlanRunnable, NewEventFacts DEF RunnableEvents, FormedEvents, PacketEvent
<1>4. Shape(e) /\ \A r \in RoomIds : Serves(e.actions, 0, r) => r = first
  BY PlanShape
<1> HIDE DEF e
<1>5. Silent(e)
  BY <1>3, <1>4, StartSilent
<1>6. MAIN_THREAD \in Threads /\ Silent(routing[MAIN_THREAD].event)
  BY <1>1, ConstantFacts, RoutingSilent
<1> HIDE DEF first
<1>7. QuietRouting
  BY <1>1, <1>2, <1>3, <1>4, <1>5, <1>6, RouteQuiet
<1>8. QuietQueues
  <2>1. f \in RunnableEvents /\ Silent(f)
        /\ EventOK(LOBBY_WORKER_ID, f, room_to_worker', rooms', room_seq')
    BY RoomNotFoundRunnable, LooseOK
  <2> HIDE DEF f
  <2> QED
    BY <1>1, <2>1, ConstantFacts, PostQuiet, SamePlaces
<1>9. QuietTables /\ QuietHands
  BY <1>1, SameTables, SamePlaces
<1>10. JobInv' /\ Waiting'
  BY <1>1 DEF RInv, JobInv, Waiting
<1> QED
  BY <1>7, <1>8, <1>9, <1>10, QuietKeeps

\* A disconnect may go to any worker.
LEMMA CloseRoutes ==
  ASSUME IInv, RInv, MainStep \/ \E s \in Sessions : CloseSession(s)
  PROVE  RInv'
<1>1. UNCHANGED <<Tables, event, event_queue, pc, job_queue>>
  BY DEF MainStep, CloseSession, DisconnectRoom, DisconnectLobby, RemoveSession,
         Tables, roomVars, workerVars, dbVars
<1>2. \/ UNCHANGED routing
      \/ /\ Free(MAIN_THREAD)
         /\ \E room \in RoomIds : route_event(MAIN_THREAD, DisconnectEvent(main.fd, room), room)
  BY ConstantFacts
  DEF MainStep, CloseSession, DisconnectRoom, DisconnectLobby, RemoveSession, IInv, StateTypeOK
<1>3. ASSUME Free(MAIN_THREAD), NEW room \in RoomIds,
             route_event(MAIN_THREAD, DisconnectEvent(main.fd, room), room)
      PROVE  QuietRouting
  <2> DEFINE e == DisconnectEvent(main.fd, room)
  <2>1. main.fd \in Sessions \cup {NoSession}
    BY DEF IInv, StateTypeOK
  <2>2. e \in RoomEvents /\ Silent(e)
    BY <2>1, DisconnectRunnable, LooseOK DEF RunnableEvents, FormedEvents
  <2>3. \A w : EventOK(w, e, room_to_worker', rooms', room_seq')
    BY <2>1, LooseOK
  <2>4. Silent(routing[MAIN_THREAD].event)
    BY <1>3, ConstantFacts, RoutingSilent
  <2>5. \A u \in Threads : \/ routing'[u] = routing[u]
                           \/ u = MAIN_THREAD /\ routing'[u].event = e
    BY <1>3 DEF route_event, IInv, EventInv
  <2> HIDE DEF e
  <2> QED
    BY <2>2, <2>3, <2>4, <2>5 DEF QuietRouting
<1>4. QuietRouting
  BY <1>2, <1>3, SamePlaces
<1>5. QuietTables /\ QuietQueues /\ QuietHands
  BY <1>1, SameTables, SamePlaces
<1>6. JobInv' /\ Waiting'
  BY <1>1 DEF RInv, JobInv, Waiting
<1> QED
  BY <1>4, <1>5, <1>6, QuietKeeps

-----------------------------------------------------------------------------
(***************************************************************************)
(* The room workers.                                                       *)
(***************************************************************************)
\* What a worker at an action knows of its event.
LEMMA AtFacts ==
  ASSUME IInv, RInv, NEW w \in Workers, NEW cmd, At(w, cmd)
  PROVE  /\ event[w] \in RunnableEvents /\ event[w] \in RoomEvents
         /\ HasNextAction(event[w]) /\ NotFailed(event[w])
         /\ NextAction(event[w]).command = cmd
         /\ EventOK(w, event[w], room_to_worker, rooms, room_seq)
         /\ Shape(event[w])
         /\ event[w].result_code \in Results
BY DEF At, IInv, EventInv, RInv, HandOK, EventOK, RunnableEvents, FormedEvents, RoomEvents

\* A step of a worker that answers, drops its event and touches nothing else.
LEMMA DropRoutes ==
  ASSUME IInv, RInv, NEW w \in Workers, Return(w), Silent(event[w]),
         UNCHANGED <<Tables, routing, event_queue, job_queue>>
  PROVE  RInv'
<1>1. QuietTables /\ QuietRouting /\ QuietQueues
  BY SameTables, SamePlaces
<1>2. JobInv'
  BY DEF RInv, JobInv
<1> QED
  BY <1>1, <1>2, ReturnQuiet, QuietKeeps

\* The end of an event: all of its actions run, or a failure found at the loop head.
LEMMA EndRoutes ==
  ASSUME IInv, RInv, NEW w \in Workers, FinishEvent(w) \/ AnswerFailed(w) \/ SendResponse(w)
  PROVE  RInv'
<1>1. Return(w) /\ UNCHANGED <<Tables, routing, event_queue, job_queue>>
  BY DEF FinishEvent, AnswerFailed, SendResponse, Tables, roomVars, dbVars
<1>2. CASE FinishEvent(w)
  BY <1>1, <1>2, HandSilent, DropRoutes DEF FinishEvent
<1>3. CASE AnswerFailed(w)
  <2>1. Silent(event[w])
    BY <1>3 DEF AnswerFailed, RInv, HandOK, EventOK, Silent
  <2> QED
    BY <1>1, <2>1, DropRoutes
<1>4. CASE SendResponse(w)
  BY <1>1, <1>4, HandSilent, DropRoutes DEF SendResponse, At
<1> QED
  BY <1>2, <1>3, <1>4

\* A failed action other than CREATE_ROOM.
LEMMA FailRoutes ==
  ASSUME IInv, RInv, NEW w \in Workers, NEW cmd, cmd # "CREATE_ROOM", At(w, cmd),
         NEW res, Fail(w, res),
         UNCHANGED <<rooms, room_seq, routing, event_queue, job_queue>>
  PROVE  RInv'
<1>1. HasNextAction(event[w]) /\ NextAction(event[w]).command # "CREATE_ROOM"
  BY DEF At
<1>2. UNCHANGED Tables
  BY <1>1, FailKeepsTable DEF Tables
<1>3. Silent(event[w]) /\ Return(w)
  BY <1>1, HandSilent DEF Fail
<1> QED
  BY <1>2, <1>3, DropRoutes

\* A step of a worker that only goes on.
LEMMA GoOnRoutes ==
  ASSUME IInv, RInv, NEW w \in Workers, HasNextAction(event[w]), NotFailed(event[w]),
         NextAction(event[w]).command \notin HandOvers,
         NextAction(event[w]).command # "CREATE_ROOM",
         NEW res \in Results, Continue(w, res), UNCHANGED <<Tables, routing, event_queue>>,
         JobInv'
  PROVE  RInv'
<1>1. QuietTables /\ QuietRouting /\ QuietQueues
  BY SameTables, SamePlaces
<1> QED
  BY <1>1, ContinueQuiet, QuietKeeps

\* A step of a worker half way through an action.
LEMMA HalfWayRoutes ==
  ASSUME IInv, RInv, NEW w \in Workers, NEW p, p # "wait", pc' = [pc EXCEPT ![w] = p],
         UNCHANGED <<Tables, routing, event_queue, event, job_queue>>
  PROVE  RInv'
<1>1. QuietTables /\ QuietRouting /\ QuietQueues /\ QuietHands
  BY SameTables, SamePlaces
<1>2. JobInv' /\ Waiting'
  BY DEF RInv, JobInv, Waiting, IInv, StateTypeOK
<1> QED
  BY <1>1, <1>2, QuietKeeps

\* join_room finds no room, finds it full, or enters it.
LEMMA JoinRoomRoutes ==
  ASSUME IInv, RInv, NEW w \in Workers, JoinRoom(w)
  PROVE  RInv'
<1>1. /\ At(w, "JOIN_ROOM")
      /\ UNCHANGED <<rooms, room_seq, routing, event_queue, job_queue>>
  BY DEF JoinRoom, join_session, roomVars, dbVars
<1>2. \/ \E res \in Results : Fail(w, res)
      \/ pc' = [pc EXCEPT ![w] = "set_current_room"] /\ UNCHANGED <<event, room_to_worker>>
  BY DEF JoinRoom, Results
<1>3. CASE \E res \in Results : Fail(w, res)
  BY <1>1, <1>3, FailRoutes
<1>4. CASE pc' = [pc EXCEPT ![w] = "set_current_room"] /\ UNCHANGED <<event, room_to_worker>>
  <2> DEFINE p == "set_current_room"
  <2>1. p # "wait" /\ pc' = [pc EXCEPT ![w] = p]
    BY <1>4
  <2> HIDE DEF p
  <2>2. UNCHANGED <<Tables, event>>
    BY <1>1, <1>4 DEF Tables
  <2> QED
    BY <1>1, <2>1, <2>2, HalfWayRoutes
<1> QED
  BY <1>2, <1>3, <1>4

\* send_message finds no room, or starts on its members.
LEMMA SendMessageRoutes ==
  ASSUME IInv, RInv, NEW w \in Workers, SendMessage(w)
  PROVE  RInv'
<1>1. /\ At(w, "SEND_MESSAGE")
      /\ UNCHANGED <<rooms, room_seq, routing, event_queue, job_queue>>
  BY DEF SendMessage, roomVars, dbVars
<1>2. \/ \E res \in Results : Fail(w, res)
      \/ pc' = [pc EXCEPT ![w] = "send_message"] /\ UNCHANGED <<event, room_to_worker>>
  BY DEF SendMessage, Results
<1>3. CASE \E res \in Results : Fail(w, res)
  BY <1>1, <1>3, FailRoutes
<1>4. CASE pc' = [pc EXCEPT ![w] = "send_message"] /\ UNCHANGED <<event, room_to_worker>>
  <2> DEFINE p == "send_message"
  <2>1. p # "wait" /\ pc' = [pc EXCEPT ![w] = p]
    BY <1>4
  <2> HIDE DEF p
  <2>2. UNCHANGED <<Tables, event>>
    BY <1>1, <1>4 DEF Tables
  <2> QED
    BY <1>1, <2>1, <2>2, HalfWayRoutes
<1> QED
  BY <1>2, <1>3, <1>4

\* The rest of join_room, and the end of send_message.
LEMMA RestRoutes ==
  ASSUME IInv, RInv, NEW w \in Workers, SetCurrentRoom(w) \/ SentToAll(w)
  PROVE  RInv'
<1> DEFINE res == "Success"
<1>1. /\ Continue(w, res) /\ UNCHANGED <<Tables, routing, event_queue, job_queue>>
  BY DEF SetCurrentRoom, SentToAll, Tables, roomVars, dbVars
<1>2. res \in Results
  BY DEF Results
<1> HIDE DEF res
<1>3. HalfWay(w, "JOIN_ROOM") \/ HalfWay(w, "SEND_MESSAGE")
  BY DEF SetCurrentRoom, SentToAll, IInv, PcInv
<1>4. /\ HasNextAction(event[w]) /\ NotFailed(event[w])
      /\ NextAction(event[w]).command \notin HandOvers
      /\ NextAction(event[w]).command # "CREATE_ROOM"
  BY <1>3 DEF HalfWay, HandOvers
<1>5. JobInv'
  BY <1>1 DEF RInv, JobInv
<1> QED
  BY <1>1, <1>2, <1>4, <1>5, GoOnRoutes

\* One member of the room after the other.
LEMMA SendToRoutes ==
  ASSUME IInv, RInv, NEW w \in Workers, NEW s \in Sessions, SendTo(w, s)
  PROVE  RInv'
<1>1. UNCHANGED <<Tables, routing, event_queue, event, pc, job_queue>>
  BY DEF SendTo, Tables, roomVars, dbVars
<1>2. QuietTables /\ QuietRouting /\ QuietQueues /\ QuietHands
  BY <1>1, SameTables, SamePlaces
<1>3. JobInv' /\ Waiting'
  BY <1>1 DEF RInv, JobInv, Waiting
<1> QED
  BY <1>2, <1>3, QuietKeeps

\* The event after a hand-over has been fetched from it.
LEMMA FetchedFacts ==
  ASSUME IInv, RInv, NEW w \in Workers, NEW cmd, At(w, cmd), NEW f,
         f = Advanced(event[w], event[w].result_code)
  PROVE  /\ f \in RoomEvents /\ Shape(f) /\ Silent(f)
         /\ f.current_action \in DOMAIN f.actions
         /\ f.actions[f.current_action] = NextAction(event[w])
         /\ f.current_action = event[w].current_action + 1
         /\ f.actions = event[w].actions
<1>1. /\ event[w] \in RunnableEvents /\ event[w] \in RoomEvents /\ Shape(event[w])
      /\ HasNextAction(event[w]) /\ NotFailed(event[w]) /\ event[w].result_code \in Results
  BY AtFacts
<1>2. /\ f \in RoomEvents /\ f.current_action = event[w].current_action + 1
      /\ LastAction(f) = NextAction(event[w])
  BY <1>1, AdvancedFacts DEF FormedEvents
<1>3. f.actions = event[w].actions
  BY <1>1 DEF Advanced, RoomEvents
<1>4. Shape(f) /\ Silent(f)
  BY <1>1, <1>2, <1>3, AdvancedSilent
<1>5. f.current_action \in DOMAIN f.actions
  BY <1>1, <1>2, <1>3, NextFacts
<1> QED
  BY <1>2, <1>3, <1>4, <1>5 DEF LastAction

\* REQUEST_LEAVE_ROOM hands the event to the owner of the room that it is to leave.
LEMMA RequestLeaveRoomRoutes ==
  ASSUME IInv, RInv, NEW w \in Workers, RequestLeaveRoom(w)
  PROVE  RInv'
<1> DEFINE f == Advanced(event[w], event[w].result_code)
           room == NextAction(event[w]).target_room_id
<1>1. /\ At(w, "REQUEST_LEAVE_ROOM") /\ route_event(w, f, room) /\ Return(w)
      /\ UNCHANGED <<Tables, event_queue, job_queue>>
  BY DEF RequestLeaveRoom, Tables, roomVars, dbVars
<1>2. event[w] \in RunnableEvents /\ HasNextAction(event[w]) /\ NotFailed(event[w])
      /\ NextAction(event[w]).command = "REQUEST_LEAVE_ROOM"
  BY <1>1, AtFacts
<1>3. room \in RoomIds
  BY <1>2, NextFacts
<1>4. /\ f \in RoomEvents /\ Shape(f) /\ Silent(f) /\ f.current_action \in DOMAIN f.actions
      /\ f.actions[f.current_action] = NextAction(event[w])
  BY <1>1, FetchedFacts
<1> HIDE DEF f
<1>5. \A r \in RoomIds : Serves(f.actions, f.current_action, r) => r = room
  BY <1>2, <1>4, HandedOver
<1>6. w \in Threads /\ w # DB_THREAD
  BY ConstantFacts, WorkerAssumption DEF Workers, DB_THREAD
<1>7. Silent(routing[w].event)
  BY <1>6, RoutingSilent
<1>8. Silent(event[w])
  BY <1>2, HandSilent
<1> HIDE DEF room
<1>9. QuietRouting
  BY <1>1, <1>3, <1>4, <1>5, <1>6, <1>7, RouteQuiet
<1>10. QuietHands /\ Waiting'
  BY <1>1, <1>8, ReturnQuiet
<1>11. QuietTables /\ QuietQueues /\ JobInv'
  BY <1>1, SameTables, SamePlaces DEF RInv, JobInv
<1> QED
  BY <1>9, <1>10, <1>11, QuietKeeps

\* A job is posted with an event in the state that its callback expects.
LEMMA PostJobFacts ==
  ASSUME IInv, RInv, NEW type, NEW e, NEW room, NEW sender, post_job(type, e, room, sender),
         Shape(e),
         type = "CreateRoom" =>
           /\ e.current_action = 1 /\ 2 \in DOMAIN e.actions
           /\ e.actions[2] = RoomAction("CREATE_ROOM", PENDING_ROOM_ID)
           /\ ServesOnly(e.actions, 1, PENDING_ROOM_ID)
  PROVE  JobInv'
<1> DEFINE j == [type |-> type, event |-> e, room |-> room, sender |-> sender]
<1>1. JobOK(j)
  BY DEF JobOK
<1>2. job_queue' = Append(job_queue, j) /\ job_queue \in Seq(RunnableJobs)
  BY DEF post_job, IInv, EventInv
<1> HIDE DEF j
<1>3. /\ DOMAIN job_queue' = DOMAIN job_queue \cup {Len(job_queue) + 1}
      /\ \A i \in DOMAIN job_queue : job_queue'[i] = job_queue[i]
      /\ job_queue'[Len(job_queue) + 1] = j
  BY <1>2
<1> QED
  BY <1>1, <1>3 DEF RInv, JobInv

\* The plan of CREATE asks for a number before anything else; a history is asked for
\* the room that the rest of the plan serves.
LEMMA RequestDbRoutes ==
  ASSUME IInv, RInv, NEW w \in Workers, RequestDbCreateRoom(w) \/ RequestDbLoadMessage(w)
  PROVE  RInv'
<1> DEFINE e == event[w]
           f == Advanced(e, e.result_code)
           Goal == JobInv' /\ NextAction(event[w]).command # "CREATE_ROOM"
<1>1. Return(w) /\ UNCHANGED <<Tables, routing, event_queue>>
  BY DEF RequestDbCreateRoom, RequestDbLoadMessage, post_job, Tables, roomVars
<1>2. ASSUME RequestDbCreateRoom(w) PROVE Goal
  <2>1. /\ At(w, "REQUEST_DB_CREATE_ROOM") /\ post_job("CreateRoom", f, NO_ROOM, NoSession)
    BY <1>2 DEF RequestDbCreateRoom
  <2>2. /\ e \in RoomEvents /\ Shape(e) /\ NextAction(e).command = "REQUEST_DB_CREATE_ROOM"
    BY <2>1, AtFacts
  <2>3. /\ Shape(f) /\ f.current_action = e.current_action + 1
        /\ f.actions = e.actions /\ f.current_action \in DOMAIN f.actions
    BY <2>1, FetchedFacts
  <2>4. e.current_action \in Nat
    BY <2>2 DEF RoomEvents
  <2> HIDE DEF f, e
  <2>5. /\ e.current_action + 1 = 1 /\ 2 \in DOMAIN e.actions
        /\ e.actions[2] = RoomAction("CREATE_ROOM", PENDING_ROOM_ID)
        /\ ServesOnly(e.actions, 1, PENDING_ROOM_ID)
    BY <2>2, <2>3, <2>4 DEF Shape, NextAction
  <2>6. JobInv'
    BY <2>1, <2>3, <2>5, PostJobFacts
  <2> QED
    BY <2>1, <2>6 DEF At
<1>3. ASSUME RequestDbLoadMessage(w) PROVE Goal
  <2> DEFINE type == "LoadHistory"
  <2>1. /\ At(w, "REQUEST_DB_LOAD_MESSAGE")
        /\ post_job(type, f, NextAction(e).target_room_id, NoSession)
    BY <1>3 DEF RequestDbLoadMessage
  <2>2. Shape(f)
    BY <2>1, FetchedFacts
  <2>3. type # "CreateRoom"
    OBVIOUS
  <2> HIDE DEF type, f
  <2>4. JobInv'
    BY <2>1, <2>2, <2>3, PostJobFacts
  <2> QED
    BY <2>1, <2>4 DEF At
<1>4. Goal
  BY <1>2, <1>3
<1>5. QuietHands /\ Waiting'
  BY <1>1, <1>4, HandSilent, ReturnQuiet
<1>6. QuietTables /\ QuietRouting /\ QuietQueues
  BY <1>1, SameTables, SamePlaces
<1> QED
  BY <1>4, <1>5, <1>6, QuietKeeps

\* A message is saved on the way, by a job without an event.
LEMMA SaveMessageRoutes ==
  ASSUME IInv, RInv, NEW w \in Workers, SaveMessage(w)
  PROVE  RInv'
<1> DEFINE type == "SaveMessage"
           cmd == "SAVE_MESSAGE"
           res == event[w].result_code
           room == NextAction(event[w]).target_room_id
           sender == get_user_id(event[w].session)
<1>1. /\ At(w, cmd) /\ post_job(type, EmptyEvent, room, sender) /\ Continue(w, res)
      /\ UNCHANGED <<Tables, routing, event_queue>>
  BY DEF SaveMessage, post_job, Tables, roomVars
<1>2. type # "CreateRoom" /\ cmd \notin HandOvers /\ cmd # "CREATE_ROOM"
  BY DEF HandOvers
<1>3. Shape(EmptyEvent)
  BY EmptyOK DEF EventOK
<1> HIDE DEF type, cmd, res, room, sender
<1>4. JobInv'
  BY <1>1, <1>2, <1>3, PostJobFacts
<1>5. /\ HasNextAction(event[w]) /\ NotFailed(event[w])
      /\ NextAction(event[w]).command = cmd /\ res \in Results
  BY <1>1, AtFacts DEF res
<1> QED
  BY <1>1, <1>2, <1>4, <1>5, GoOnRoutes

\* A room that goes takes its entry with it.  Events on their way to it stay where
\* they are: they will find no room, and no other worker has it.
LEMMA LeaveQuiet ==
  ASSUME IInv, RInv, NEW w \in Workers, NEW s, NEW room \in rooms[w],
         leave_room(w, s, room), room_seq' = room_seq
  PROVE  QuietTables
<1>1. CASE ~Vacated(w, room)
  <2>1. UNCHANGED Tables
    BY <1>1 DEF leave_room, Tables
  <2> QED
    BY <2>1, SameTables
<1>2. CASE Vacated(w, room)
  <2>1. /\ rooms' = [rooms EXCEPT ![w] = rooms[w] \ {room}]
        /\ room_to_worker' = [room_to_worker EXCEPT ![room] = NO_WORKER]
        /\ w # LOBBY_WORKER_ID
    BY <1>2 DEF leave_room, Vacated, erase_room_to_worker
  <2>2. /\ rooms \in [Workers -> SUBSET RoomIds]
        /\ room_to_worker \in [RoomIds -> Workers \cup {NO_WORKER}]
        /\ TableInv /\ room \in RoomIds
    BY DEF IInv, StateTypeOK, RInv
  <2>3. /\ \A v \in Workers : rooms'[v] \subseteq rooms[v]
        /\ room \notin rooms'[w] /\ \A v \in Workers : v # w => rooms'[v] = rooms[v]
    BY <2>1, <2>2
  <2>4. /\ room_to_worker'[room] = NO_WORKER
        /\ \A r \in RoomIds : r # room => room_to_worker'[r] = room_to_worker[r]
    BY <2>1, <2>2
  <2>5. room_to_worker[room] = w
    BY <2>2 DEF TableInv
  <2>6. ASSUME NEW v \in Workers, NEW e \in RunnableEvents,
               EventOK(v, e, room_to_worker, rooms, room_seq)
        PROVE  EventOK(v, e, room_to_worker', rooms', room_seq')
    <3>1. \A r \in RoomIds : Creates(e, r) => r # room
      BY <2>6 DEF EventOK
    <3> QED
      BY <2>3, <2>4, <2>6, <3>1 DEF EventOK
  <2>7. TableInv'
    <3>1. \A v \in Workers : \A r \in rooms'[v] : r # room /\ r \in RoomIds
      BY <2>2, <2>3, <2>5 DEF TableInv
    <3>2. LOBBY_ROOM_ID # room /\ LOBBY_ROOM_ID \in RoomIds
      BY <2>1, <2>2, <2>5, ConstantFacts DEF TableInv
    <3> QED
      BY <2>2, <2>3, <2>4, <3>1, <3>2 DEF TableInv
  <2>8. \A r \in RoomIds, v \in Workers :
          room_to_worker'[r] = v /\ r \notin rooms'[v]
            => room_to_worker[r] = v /\ r \notin rooms[v]
    <3> SUFFICES ASSUME NEW r \in RoomIds, NEW v \in Workers,
                        room_to_worker'[r] = v, r \notin rooms'[v]
                 PROVE  room_to_worker[r] = v /\ r \notin rooms[v]
      OBVIOUS
    <3>1. r # room
      BY <2>4, ConstantFacts
    <3>2. r \notin rooms[v]
      BY <2>1, <2>2, <3>1
    <3> QED
      BY <2>4, <3>1, <3>2
  <2> QED
    BY <2>6, <2>7, <2>8 DEF QuietTables
<1> QED
  BY <1>1, <1>2

\* LEAVE_ROOM.
LEMMA LeaveRoomRoutes ==
  ASSUME IInv, RInv, NEW w \in Workers, LeaveRoom(w)
  PROVE  RInv'
<1> DEFINE room == NextAction(event[w]).target_room_id
           s == event[w].session
           cmd == "LEAVE_ROOM"
           res == "Success"
<1>1. At(w, cmd) /\ UNCHANGED <<routing, event_queue, room_seq, job_queue>>
  BY DEF LeaveRoom, dbVars
<1>2. cmd \notin HandOvers /\ cmd # "CREATE_ROOM" /\ res \in Results
  BY DEF HandOvers, Results
<1>3. CASE LeaveResult(w, s, room) = "Success"
  <2>1. room \in rooms[w]
    BY <1>3 DEF LeaveResult
  <2>2. leave_room(w, s, room) /\ Continue(w, res)
    BY <1>3 DEF LeaveRoom
  <2> HIDE DEF room, s, cmd, res
  <2>3. QuietTables
    BY <1>1, <2>1, <2>2, LeaveQuiet
  <2>4. /\ HasNextAction(event[w]) /\ NotFailed(event[w])
        /\ NextAction(event[w]).command = cmd
    BY <1>1, AtFacts
  <2>5. QuietHands /\ Waiting'
    BY <1>2, <2>2, <2>3, <2>4, ContinueQuiet
  <2>6. QuietRouting /\ QuietQueues /\ JobInv'
    BY <1>1, SamePlaces DEF RInv, JobInv
  <2> QED
    BY <2>3, <2>5, <2>6, QuietKeeps
<1>4. CASE LeaveResult(w, s, room) # "Success"
  <2> DEFINE fault == LeaveResult(w, s, room)
  <2>1. Fail(w, fault) /\ UNCHANGED rooms
    BY <1>4 DEF LeaveRoom, roomVars
  <2> HIDE DEF fault, cmd
  <2> QED
    BY <1>1, <1>2, <2>1, FailRoutes
<1> QED
  BY <1>3, <1>4

\* diconnect_session.
LEMMA DisconnectSessionRoutes ==
  ASSUME IInv, RInv, NEW w \in Workers, DisconnectSession(w)
  PROVE  RInv'
<1> DEFINE room == NextAction(event[w]).target_room_id
           s == event[w].fd
           held == {r \in rooms[w] : s \in sessions[w][r]}
<1>1. /\ At(w, "DISCONNECT_SESSION") /\ Return(w)
      /\ UNCHANGED <<routing, event_queue, room_seq, job_queue>>
      /\ \/ \E r \in Disconnects(held, room) : leave_room(w, s, r)
         \/ UNCHANGED <<rooms, room_to_worker>>
  BY DEF DisconnectSession, roomVars, dbVars
<1>2. Disconnects(held, room) \subseteq rooms[w]
  BY DEF Disconnects
<1>3. QuietTables
  <2>1. CASE \E r \in Disconnects(held, room) : leave_room(w, s, r)
    BY <1>1, <1>2, <2>1, LeaveQuiet
  <2>2. CASE UNCHANGED <<rooms, room_to_worker>>
    BY <1>1, <2>2, SameTables DEF Tables
  <2> QED
    BY <1>1, <2>1, <2>2
<1>4. Silent(event[w])
  BY <1>1, HandSilent DEF At
<1>5. QuietHands /\ Waiting'
  BY <1>1, <1>4, ReturnQuiet
<1>6. QuietRouting /\ QuietQueues /\ JobInv'
  BY <1>1, SamePlaces DEF RInv, JobInv
<1> QED
  BY <1>3, <1>5, <1>6, QuietKeeps

-----------------------------------------------------------------------------
(***************************************************************************)
(* The database thread.                                                    *)
(***************************************************************************)
\* The job at the head of the queue, and the rest of it.
LEMMA TakeJobRoutes ==
  ASSUME IInv, RInv, NEW type, TakeJob(type)
  PROVE  JobOK(Head(job_queue)) /\ JobInv' /\ Silent(routing[DB_THREAD].event)
<1>1. /\ job_queue \in Seq(RunnableJobs) /\ job_queue # << >> /\ job_queue' = Tail(job_queue)
      /\ Free(DB_THREAD)
  BY DEF IInv, EventInv, TakeJob
<1>2. /\ 1 \in DOMAIN job_queue /\ Head(job_queue) = job_queue[1]
      /\ \A i \in DOMAIN job_queue' : i + 1 \in DOMAIN job_queue /\ job_queue'[i] = job_queue[i + 1]
  BY <1>1
<1>3. JobOK(Head(job_queue))
  BY <1>2 DEF RInv, JobInv
<1>4. JobInv'
  BY <1>2 DEF RInv, JobInv
<1> QED
  BY <1>1, <1>3, <1>4, ConstantFacts, RoutingSilent

\* A failed creation goes to the lobby, which answers it: the placeholder in its
\* plan is no room.
LEMMA DbCreateRoomFailsRoutes ==
  ASSUME IInv, RInv, DbCreateRoomFails
  PROVE  RInv'
<1> DEFINE j == Head(job_queue)
           e == Head(job_queue).event
           g == [e EXCEPT !.result_code = "DBError"]
<1>1. /\ TakeJob("CreateRoom") /\ post_event(LOBBY_WORKER_ID, g)
      /\ UNCHANGED <<Tables, routing, event, pc>>
  BY DEF DbCreateRoomFails, Tables, roomVars, workerVars
<1>2. JobOK(j) /\ JobInv'
  BY <1>1, TakeJobRoutes
<1>3. j \in RunnableJobs /\ j.type = "CreateRoom"
  BY <1>1, TakeJobFacts
<1>4. e \in FormedEvents /\ e \in RoomEvents
  BY <1>3 DEF RunnableJobs, FormedEvents
<1>5. /\ g.actions = e.actions /\ g.current_action = e.current_action /\ g.session = e.session
      /\ g \in RoomEvents /\ ~NotFailed(g)
  BY <1>4 DEF RoomEvents, Results, NotFailed
<1>6. /\ Shape(e) /\ e.current_action = 1 /\ 2 \in DOMAIN e.actions
      /\ e.actions[2] = RoomAction("CREATE_ROOM", PENDING_ROOM_ID)
      /\ ServesOnly(e.actions, 1, PENDING_ROOM_ID)
  BY <1>2, <1>3 DEF JobOK
<1> HIDE DEF g, e, j
<1>7. g \in RunnableEvents
  BY <1>4, <1>5, CallbackFacts
<1>8. Shape(g)
  BY <1>4, <1>5, <1>6, ShapeKept DEF RoomEvents
<1>9. Silent(g)
  <2> SUFFICES ASSUME NEW r \in RoomIds, Creates(g, r) PROVE FALSE
    BY DEF Silent
  <2>1. NextAction(g) = RoomAction("CREATE_ROOM", r)
    BY <1>5, <1>8, CreatesFacts
  <2>2. NextAction(g) = RoomAction("CREATE_ROOM", PENDING_ROOM_ID)
    BY <1>5, <1>6 DEF NextAction
  <2> QED
    BY <2>1, <2>2, ConstantFacts DEF RoomAction
<1>10. \A r \in RoomIds : ~Serves(g.actions, g.current_action, r)
  BY <1>5, <1>6, ConstantFacts DEF Serves, ServesOnly
<1>11. EventOK(LOBBY_WORKER_ID, g, room_to_worker', rooms', room_seq')
  BY <1>8, <1>9, <1>10 DEF EventOK, Silent
<1>12. QuietQueues
  BY <1>1, <1>7, <1>9, <1>11, ConstantFacts, PostQuiet
<1>13. QuietTables /\ QuietRouting /\ QuietHands
  BY <1>1, SameTables, SamePlaces
<1>14. Waiting'
  BY <1>1 DEF RInv, Waiting
<1> QED
  BY <1>2, <1>12, <1>13, <1>14, QuietKeeps

\* A history goes back to the worker that has the room now, which is the only one the
\* rest of the plan may need.
LEMMA DbLoadHistoryRoutes ==
  ASSUME IInv, RInv, DbLoadHistory
  PROVE  RInv'
<1> DEFINE j == Head(job_queue)
           e == Head(job_queue).event
           room == LastAction(e).target_room_id
           g == [e EXCEPT !.result_code = "Success", !.response_data = HistoryBody]
           h == [e EXCEPT !.result_code = "DBError"]
<1>1. /\ TakeJob("LoadHistory")
      /\ route_event(DB_THREAD, g, room) \/ route_event(DB_THREAD, h, room)
      /\ UNCHANGED <<Tables, event_queue, event, pc>>
  BY DEF DbLoadHistory, Tables, roomVars, workerVars
<1>2. JobOK(j) /\ JobInv' /\ Silent(routing[DB_THREAD].event)
  BY <1>1, TakeJobRoutes
<1>3. j \in RunnableJobs /\ j.type = "LoadHistory"
  BY <1>1, TakeJobFacts
<1>4. /\ e \in FormedEvents /\ e \in RoomEvents /\ Formed(e) /\ Resolved(e) /\ Shape(e)
      /\ e.current_action > 0 /\ LastAction(e).command = "REQUEST_DB_LOAD_MESSAGE"
  BY <1>2, <1>3 DEF RunnableJobs, FormedEvents, JobOK
<1>5. /\ g \in RoomEvents /\ g.actions = e.actions /\ g.current_action = e.current_action
      /\ h \in RoomEvents /\ h.actions = e.actions /\ h.current_action = e.current_action
  BY <1>4 DEF RoomEvents, Results, Bodies, HistoryBody
<1> HIDE DEF g, h, e, j
<1>6. e.actions \in Seq(RoomActions) /\ e.current_action \in Nat
  BY <1>4 DEF RoomEvents
<1>7. e.current_action \in DOMAIN e.actions
  BY <1>4, <1>6 DEF Formed
<1>8. room \in RoomIds
  <2>1. /\ LastAction(e) \in RoomActions
        /\ room # PENDING_ROOM_ID /\ room # NO_ROOM
    BY <1>4, <1>6, <1>7 DEF LastAction, Formed, Resolved
  <2> QED
    BY <2>1 DEF RoomActions
<1>9. \A r \in RoomIds : Serves(e.actions, e.current_action, r) => r = room
  BY <1>4, <1>7, HandedOver DEF LastAction
<1>10. Silent(e)
  <2> SUFFICES ASSUME NEW r \in RoomIds, Creates(e, r) PROVE FALSE
    BY DEF Silent
  <2>1. e.current_action = 1 /\ NextAction(e) = RoomAction("CREATE_ROOM", r) /\ HasNextAction(e)
    BY <1>4, CreatesFacts
  <2>2. 2 \in DOMAIN e.actions /\ e.actions[2].command = "CREATE_ROOM"
    BY <1>6, <2>1 DEF NextAction, HasNextAction, RoomAction
  <2>3. e.actions[1].command = "REQUEST_DB_CREATE_ROOM"
    BY <1>4, <2>2 DEF Shape
  <2> QED
    BY <1>4, <2>1, <2>3 DEF LastAction
<1> HIDE DEF room
<1>11. ASSUME NEW f \in RoomEvents, f.actions = e.actions, f.current_action = e.current_action,
              route_event(DB_THREAD, f, room)
       PROVE  QuietRouting
  <2>1. Shape(f)
    BY <1>4, <1>11 DEF Shape
  <2>2. Silent(f)
    BY <1>10, <1>11, CreatesSame DEF Silent
  <2> QED
    BY <1>1, <1>2, <1>8, <1>9, <1>11, <2>1, <2>2, ConstantFacts, RouteQuiet
<1>12. QuietRouting
  BY <1>1, <1>5, <1>11
<1>13. QuietTables /\ QuietQueues /\ QuietHands /\ Waiting'
  BY <1>1, SameTables, SamePlaces DEF RInv, Waiting
<1> QED
  BY <1>2, <1>12, <1>13, QuietKeeps

\* A row of messages is no concern of the routes.
LEMMA DbSaveMessageRoutes ==
  ASSUME IInv, RInv, DbSaveMessage
  PROVE  RInv'
<1> DEFINE type == "SaveMessage"
<1>1. TakeJob(type) /\ UNCHANGED <<Tables, routing, event_queue, event, pc>>
  BY DEF DbSaveMessage, Tables, roomVars, workerVars
<1> HIDE DEF type
<1>2. JobInv'
  BY <1>1, TakeJobRoutes
<1>3. QuietTables /\ QuietRouting /\ QuietQueues /\ QuietHands /\ Waiting'
  BY <1>1, SameTables, SamePlaces DEF RInv, Waiting
<1> QED
  BY <1>2, <1>3, QuietKeeps

-----------------------------------------------------------------------------
(***************************************************************************)
(* The steps of an event that creates a room: announced by the database    *)
(* thread, posted, taken, run.                                             *)
(***************************************************************************)
\* The main thread and the workers post only events that create nothing.
LEMMA PostOthersRoutes ==
  ASSUME IInv, RInv, NEW t \in Threads, t # DB_THREAD, PostRouted(t)
  PROVE  RInv'
<1> DEFINE e == routing[t].event
           w == routing[t].to
<1>1. /\ post_event(w, e) /\ routing' = [routing EXCEPT ![t] = NotRouting]
      /\ UNCHANGED <<Tables, event, pc, job_queue>>
  BY DEF PostRouted, Tables, roomVars, workerVars, dbVars
<1>2. e \in RunnableEvents /\ Silent(e) /\ w \in Workers \cup {NO_WORKER}
  BY RoutingSilent DEF IInv, EventInv
<1>3. QuietRouting
  <2>1. \A u \in Threads : u # t => routing'[u] = routing[u]
    BY <1>1 DEF IInv, EventInv
  <2>2. routing'[t].to = NO_WORKER /\ routing'[t].event = EmptyEvent
    BY <1>1 DEF IInv, EventInv, NotRouting
  <2> QED
    BY <1>2, <2>1, <2>2, ConstantFacts, EmptyOK DEF QuietRouting
<1>4. QuietQueues
  <2>1. CASE w = NO_WORKER
    <3>1. w \notin DOMAIN event_queue
      BY <2>1, ConstantFacts DEF IInv, EventInv
    <3>2. event_queue' = event_queue
      BY <1>1, <3>1 DEF post_event, IInv, EventInv
    <3> QED
      BY <3>2, SamePlaces
  <2>2. CASE w \in Workers
    <3>1. EventOK(w, e, room_to_worker, rooms, room_seq)
      BY <2>2 DEF RInv, RoutedOK
    <3>2. EventOK(w, e, room_to_worker', rooms', room_seq')
      BY <1>1, <3>1 DEF Tables
    <3> HIDE DEF e, w
    <3> QED
      BY <1>1, <1>2, <2>2, <3>2, PostQuiet
  <2> QED
    BY <1>2, <2>1, <2>2
<1>5. QuietTables /\ QuietHands /\ JobInv' /\ Waiting'
  BY <1>1, SameTables, SamePlaces DEF RInv, JobInv, Waiting
<1> QED
  BY <1>3, <1>4, <1>5, QuietKeeps

\* The database thread posts the event to the worker it bound the room to.
LEMMA PostCreatedRoutes ==
  ASSUME IInv, RInv, PostRouted(DB_THREAD)
  PROVE  RInv'
<1> DEFINE e == routing[DB_THREAD].event
           w == routing[DB_THREAD].to
           last == Len(event_queue[w]) + 1
<1>1. /\ post_event(w, e) /\ routing' = [routing EXCEPT ![DB_THREAD] = NotRouting]
      /\ room_to_worker' = room_to_worker /\ rooms' = rooms /\ room_seq' = room_seq
      /\ event' = event /\ pc' = pc /\ job_queue' = job_queue
  BY DEF PostRouted, roomVars, workerVars, dbVars
<1>2. e \in RunnableEvents /\ w \in Workers \cup {NO_WORKER} /\ NO_WORKER \notin Workers
      /\ DB_THREAD \in Threads
  BY ConstantFacts DEF IInv, EventInv
<1>3. /\ \A u \in Threads : u # DB_THREAD => routing'[u] = routing[u]
      /\ routing'[DB_THREAD].to = NO_WORKER /\ routing'[DB_THREAD].event = EmptyEvent
  BY <1>1, <1>2 DEF IInv, EventInv, NotRouting
<1>4. /\ \A v \in Workers : v # w => event_queue'[v] = event_queue[v]
      /\ w \in Workers => event_queue'[w] = Append(event_queue[w], e)
  BY <1>1 DEF post_event, IInv, EventInv
<1>5. ASSUME w \in Workers
      PROVE  /\ DOMAIN event_queue'[w] = DOMAIN event_queue[w] \cup {last}
             /\ \A i \in DOMAIN event_queue[w] : event_queue'[w][i] = event_queue[w][i]
             /\ event_queue'[w][last] = e
             /\ last \notin DOMAIN event_queue[w]
  <2>1. event_queue[w] \in Seq(RunnableEvents) /\ event_queue'[w] = Append(event_queue[w], e)
    BY <1>4, <1>5 DEF IInv, EventInv
  <2> HIDE DEF w, e
  <2> QED
    BY <1>2, <2>1, AppendFacts
<1> HIDE DEF last
<1>6. \A r \in RoomIds : ~AtDb(r)'
  BY <1>3, EmptyOK DEF AtDb, Silent
<1>7. \A r \in RoomIds, v \in Workers : InHand(r, v)' <=> InHand(r, v)
  BY <1>1 DEF InHand
<1>8. \A r \in RoomIds, v \in Workers :
        /\ DOMAIN event_queue[v] \subseteq DOMAIN event_queue'[v]
        /\ \A i \in DOMAIN event_queue[v] : Queued(r, v, i) => Queued(r, v, i)'
        /\ \A i \in DOMAIN event_queue'[v] : Queued(r, v, i)' =>
             \/ i \in DOMAIN event_queue[v] /\ Queued(r, v, i)
             \/ v = w /\ i = last /\ AtDb(r)
        /\ v = w /\ AtDb(r) => \E i \in DOMAIN event_queue'[v] : Queued(r, v, i)'
  <2> SUFFICES ASSUME NEW r \in RoomIds, NEW v \in Workers
               PROVE  /\ DOMAIN event_queue[v] \subseteq DOMAIN event_queue'[v]
                      /\ \A i \in DOMAIN event_queue[v] : Queued(r, v, i) => Queued(r, v, i)'
                      /\ \A i \in DOMAIN event_queue'[v] : Queued(r, v, i)' =>
                           \/ i \in DOMAIN event_queue[v] /\ Queued(r, v, i)
                           \/ v = w /\ i = last /\ AtDb(r)
                      /\ v = w /\ AtDb(r) =>
                           \E i \in DOMAIN event_queue'[v] : Queued(r, v, i)'
    OBVIOUS
  <2>1. CASE v # w
    BY <1>4, <2>1 DEF Queued
  <2>2. CASE v = w
    <3>1. /\ DOMAIN event_queue'[v] = DOMAIN event_queue[v] \cup {last}
          /\ \A i \in DOMAIN event_queue[v] : event_queue'[v][i] = event_queue[v][i]
          /\ event_queue'[v][last] = e
      BY <1>5, <2>2
    <3>2. AtDb(r) <=> Creates(e, r)
      BY DEF AtDb
    <3> HIDE DEF e, w
    <3> QED
      BY <2>2, <3>1, <3>2 DEF Queued
  <2> QED
    BY <2>1, <2>2
<1>9. RoutedOK' /\ HandOK'
  BY <1>1, <1>2, <1>3 DEF RInv, RoutedOK, HandOK
<1>10. QueuedOK'
  <2> SUFFICES ASSUME NEW v \in Workers, NEW i \in DOMAIN event_queue'[v]
               PROVE  EventOK(v, event_queue'[v][i], room_to_worker, rooms, room_seq)
    BY <1>1 DEF QueuedOK
  <2>1. QueuedOK
    BY DEF RInv
  <2>2. CASE v # w
    BY <1>4, <2>1, <2>2 DEF QueuedOK
  <2>3. CASE v = w
    <3>1. EventOK(w, e, room_to_worker, rooms, room_seq)
      BY <1>2, <2>3 DEF RInv, RoutedOK
    <3> QED
      BY <1>5, <2>1, <2>3, <3>1 DEF QueuedOK
  <2> QED
    BY <2>2, <2>3
<1>11. Unique'
  <2>1. Unique
    BY DEF RInv
  <2>2. \A t \in Threads \ {DB_THREAD} : Silent(routing'[t].event)
    BY <1>3, <2>1 DEF Unique
  <2>3. ASSUME NEW r \in RoomIds, NEW v \in Workers, NEW i \in DOMAIN event_queue'[v],
               Queued(r, v, i)'
        PROVE  /\ \A u \in Workers : ~InHand(r, u)'
               /\ \A u \in Workers : \A k \in DOMAIN event_queue'[u] :
                    Queued(r, u, k)' => u = v /\ k = i
    BY <1>7, <1>8, <2>1, <2>3 DEF Unique
  <2> QED
    BY <1>6, <2>2, <2>3 DEF Unique
<1>12. Announced'
  <2> SUFFICES ASSUME NEW r \in RoomIds, NEW v \in Workers,
                      room_to_worker[r] = v, r \notin rooms[v]
               PROVE  \/ \E i \in DOMAIN event_queue'[v] : Queued(r, v, i)'
                      \/ InHand(r, v)'
    BY <1>1 DEF Announced
  <2>1. \/ w = v /\ AtDb(r)
        \/ \E i \in DOMAIN event_queue[v] : Queued(r, v, i)
        \/ InHand(r, v)
    BY DEF RInv, Announced
  <2> HIDE DEF w
  <2>2. CASE w = v /\ AtDb(r)
    BY <1>8, <2>2
  <2>3. CASE \E i \in DOMAIN event_queue[v] : Queued(r, v, i)
    BY <1>8, <2>3
  <2> QED
    BY <1>7, <2>1, <2>2, <2>3
<1>13. JobInv' /\ Waiting' /\ TableInv'
  BY <1>1 DEF RInv, JobInv, Waiting, TableInv
<1> QED
  BY <1>9, <1>10, <1>11, <1>12, <1>13 DEF RInv

\* A worker takes the event at the head of its queue.
LEMMA TakeEventRoutes ==
  ASSUME IInv, RInv, NEW w \in Workers, TakeEvent(w)
  PROVE  RInv'
<1> DEFINE q == event_queue[w]
<1>1. /\ q \in Seq(RunnableEvents) /\ q # << >> /\ event[w] = EmptyEvent
      /\ event' = [event EXCEPT ![w] = Head(q)]
      /\ event_queue' = [event_queue EXCEPT ![w] = Tail(q)]
      /\ pc' = [pc EXCEPT ![w] = "run"]
      /\ room_to_worker' = room_to_worker /\ rooms' = rooms /\ room_seq' = room_seq
      /\ routing' = routing /\ job_queue' = job_queue
  BY DEF TakeEvent, RInv, Waiting, IInv, EventInv, roomVars, dbVars
<1>2. /\ DOMAIN Tail(q) \subseteq Nat
      /\ \A i \in DOMAIN Tail(q) : /\ i + 1 \in DOMAIN q /\ i + 1 # 1
                                   /\ Tail(q)[i] = q[i + 1]
      /\ \A i \in DOMAIN q : i # 1 => i - 1 \in DOMAIN Tail(q) /\ Tail(q)[i - 1] = q[i]
      /\ \A i \in DOMAIN q : i \in Nat
      /\ 1 \in DOMAIN q /\ Head(q) = q[1]
  BY <1>1
<1>3. /\ \A v \in Workers : v # w => event'[v] = event[v] /\ event_queue'[v] = event_queue[v]
      /\ event'[w] = q[1] /\ event_queue'[w] = Tail(q)
  BY <1>1, <1>2 DEF IInv, EventInv
<1>4. \A r \in RoomIds : ~InHand(r, w)
  BY <1>1, EmptyOK DEF InHand, Silent
<1>5. \A r \in RoomIds : InHand(r, w)' <=> Queued(r, w, 1)
  BY <1>2, <1>3 DEF InHand, Queued
<1>6. \A r \in RoomIds, v \in Workers : v # w =>
        /\ InHand(r, v)' <=> InHand(r, v)
        /\ DOMAIN event_queue'[v] = DOMAIN event_queue[v]
        /\ \A i \in DOMAIN event_queue[v] : Queued(r, v, i)' <=> Queued(r, v, i)
  BY <1>3 DEF InHand, Queued
<1>7. \A r \in RoomIds :
        /\ \A i \in DOMAIN event_queue'[w] :
             Queued(r, w, i)' => i + 1 \in DOMAIN q /\ i + 1 # 1 /\ Queued(r, w, i + 1)
        /\ \A i \in DOMAIN q : i # 1 /\ Queued(r, w, i) =>
             \E k \in DOMAIN event_queue'[w] : Queued(r, w, k)'
  <2> DEFINE p == Tail(q)
  <2>1. ASSUME NEW r \in RoomIds, NEW i \in DOMAIN p, Creates(p[i], r)
        PROVE  i + 1 \in DOMAIN q /\ i + 1 # 1 /\ Creates(q[i + 1], r)
    BY <1>2, <2>1
  <2>2. ASSUME NEW r \in RoomIds, NEW i \in DOMAIN q, i # 1, Creates(q[i], r)
        PROVE  \E k \in DOMAIN p : Creates(p[k], r)
    <3>1. i - 1 \in DOMAIN p /\ p[i - 1] = q[i]
      BY <1>2, <2>2
    <3> HIDE DEF p, q
    <3> QED
      BY <2>2, <3>1
  <2>3. event_queue'[w] = p
    BY <1>3
  <2> HIDE DEF p
  <2> QED
    BY <2>1, <2>2, <2>3 DEF Queued
<1>8. \A r \in RoomIds : AtDb(r)' <=> AtDb(r)
  BY <1>1 DEF AtDb
<1>9. RoutedOK' /\ JobInv' /\ TableInv'
  BY <1>1 DEF RInv, RoutedOK, JobInv, TableInv
<1>10. Waiting'
  BY <1>1 DEF RInv, Waiting, IInv, StateTypeOK
<1>11. QueuedOK' /\ HandOK'
  <2>1. QueuedOK /\ HandOK
    BY DEF RInv
  <2>2. \A v \in Workers : EventOK(v, event'[v], room_to_worker, rooms, room_seq)
    BY <1>2, <1>3, <2>1 DEF QueuedOK, HandOK
  <2>3. \A v \in Workers : \A i \in DOMAIN event_queue'[v] :
          EventOK(v, event_queue'[v][i], room_to_worker, rooms, room_seq)
    <3> SUFFICES ASSUME NEW v \in Workers, NEW i \in DOMAIN event_queue'[v]
                 PROVE  EventOK(v, event_queue'[v][i], room_to_worker, rooms, room_seq)
      OBVIOUS
    <3>1. CASE v # w
      BY <1>3, <2>1, <3>1 DEF QueuedOK
    <3>2. CASE v = w
      <4>1. i \in DOMAIN Tail(q)
        BY <1>3, <3>2
      <4>2. i + 1 \in DOMAIN event_queue[w] /\ event_queue'[w][i] = event_queue[w][i + 1]
        BY <1>2, <1>3, <4>1
      <4>3. EventOK(w, event_queue[w][i + 1], room_to_worker, rooms, room_seq)
        BY <2>1, <4>2 DEF QueuedOK
      <4> QED
        BY <3>2, <4>2, <4>3
    <3> QED
      BY <3>1, <3>2
  <2> QED
    BY <1>1, <2>2, <2>3 DEF QueuedOK, HandOK
<1> HIDE DEF q
<1>12. Unique'
  <2>1. Unique
    BY DEF RInv
  <2>2. \A t \in Threads \ {DB_THREAD} : Silent(routing'[t].event)
    BY <1>1, <2>1 DEF Unique
  <2>3. 1 \in DOMAIN event_queue[w] /\ DOMAIN event_queue[w] = DOMAIN q
        /\ \A i \in DOMAIN event_queue'[w] : i \in Nat
    BY <1>2, <1>3 DEF q
  <2>4. \A r \in RoomIds, v \in Workers : InHand(r, v)' => ~AtDb(r)'
    BY <1>5, <1>6, <1>8, <2>1, <2>3 DEF Unique
  <2>5. ASSUME NEW r \in RoomIds, NEW v \in Workers, NEW i \in DOMAIN event_queue'[v],
               Queued(r, v, i)'
        PROVE  \E k \in DOMAIN event_queue[v] :
                 /\ Queued(r, v, k)
                 /\ v = w => k = i + 1 /\ k # 1
                 /\ v # w => k = i
    BY <1>6, <1>7, <2>3, <2>5
  <2>6. ASSUME NEW r \in RoomIds, NEW v \in Workers, NEW i \in DOMAIN event_queue'[v],
               Queued(r, v, i)'
        PROVE  /\ ~AtDb(r)'
               /\ \A u \in Workers : ~InHand(r, u)'
               /\ \A u \in Workers : \A k \in DOMAIN event_queue'[u] :
                    Queued(r, u, k)' => u = v /\ k = i
    <3>1. PICK k \in DOMAIN event_queue[v] :
                 /\ Queued(r, v, k)
                 /\ v = w => k = i + 1 /\ k # 1
                 /\ v # w => k = i
      BY <2>5, <2>6
    <3>2. /\ ~AtDb(r) /\ \A u \in Workers : ~InHand(r, u)
          /\ \A u \in Workers : \A n \in DOMAIN event_queue[u] :
               Queued(r, u, n) => u = v /\ n = k
      BY <2>1, <3>1 DEF Unique
    <3>3. \A u \in Workers : ~InHand(r, u)'
      BY <1>5, <1>6, <2>3, <3>1, <3>2
    <3>4. ASSUME NEW u \in Workers, NEW m \in DOMAIN event_queue'[u], Queued(r, u, m)'
          PROVE  u = v /\ m = i
      <4>1. PICK n \in DOMAIN event_queue[u] :
                   /\ Queued(r, u, n)
                   /\ u = w => n = m + 1 /\ n # 1
                   /\ u # w => n = m
        BY <2>5, <3>4
      <4>2. u = v /\ n = k
        BY <3>2, <4>1
      <4> QED
        BY <2>3, <3>1, <4>1, <4>2
    <3> QED
      BY <1>8, <3>2, <3>3, <3>4
  <2> QED
    BY <2>2, <2>4, <2>6 DEF Unique
<1>13. Announced'
  <2> SUFFICES ASSUME NEW r \in RoomIds, NEW v \in Workers,
                      room_to_worker[r] = v, r \notin rooms[v]
               PROVE  \/ routing[DB_THREAD].to = v /\ AtDb(r)'
                      \/ \E i \in DOMAIN event_queue'[v] : Queued(r, v, i)'
                      \/ InHand(r, v)'
    BY <1>1 DEF Announced
  <2>1. \/ routing[DB_THREAD].to = v /\ AtDb(r)
        \/ \E i \in DOMAIN event_queue[v] : Queued(r, v, i)
        \/ InHand(r, v)
    BY DEF RInv, Announced
  <2>2. DOMAIN event_queue[w] = DOMAIN q
    BY DEF q
  <2> QED
    BY <1>4, <1>5, <1>6, <1>7, <1>8, <2>1, <2>2
<1> QED
  BY <1>9, <1>10, <1>11, <1>12, <1>13 DEF RInv

\* The database thread issues a number, binds it to a worker and writes it into the
\* plan: nobody had the number before.
LEMMA DbCreateRoomRoutes ==
  ASSUME IInv, RInv, DbCreateRoom
  PROVE  RInv'
<1> DEFINE j == Head(job_queue)
           e == Head(job_queue).event
           new == room_seq
           g == [resolve_room_id(e, new) EXCEPT !.result_code = "Success",
                                                !.response_data = RoomIdBody(new)]
<1>1. /\ TakeJob("CreateRoom") /\ new <= LastRoomId /\ room_seq' = new + 1
      /\ event_queue' = event_queue /\ rooms' = rooms /\ event' = event /\ pc' = pc
  BY DEF DbCreateRoom, nextval, roomVars, workerVars
<1>2. PICK w \in RoomWorkers :
        /\ bind_room_worker(new, w)
        /\ routing' = [routing EXCEPT ![DB_THREAD] = [to |-> w, event |-> g]]
  BY DEF DbCreateRoom
<1>3. /\ JobOK(j) /\ JobInv' /\ Silent(routing[DB_THREAD].event)
      /\ j \in RunnableJobs /\ j.type = "CreateRoom"
  BY <1>1, TakeJobRoutes, TakeJobFacts
<1>4. e \in FormedEvents /\ new \in RoomIds /\ new \in Int
  BY <1>1, <1>3, IssuedFacts, ConstantFacts DEF RunnableJobs, IInv, StateTypeOK
<1>5. resolve_room_id(e, new) \in RoomEvents
  BY <1>4, ResolveFacts DEF FormedEvents
<1>6. /\ g.actions = resolve_room_id(e, new).actions
      /\ g.current_action = resolve_room_id(e, new).current_action
      /\ NotFailed(g)
  BY <1>5 DEF RoomEvents, NotFailed
<1>7. resolve_room_id(e, new).current_action = e.current_action
  BY <1>4 DEF resolve_room_id, FormedEvents, RoomEvents
<1> HIDE DEF g, new
<1>8. /\ Shape(g)
      /\ \A r \in RoomIds : Serves(g.actions, g.current_action, r) => r = new
      /\ \A r \in RoomIds : Creates(g, r) <=> r = new
  BY <1>3, <1>4, <1>6, <1>7, ResolvedOK
<1> HIDE DEF e, j
<1>9. w \in Workers /\ DB_THREAD \in Threads /\ NO_WORKER \notin Workers
  BY ConstantFacts
<1>10. /\ routing'[DB_THREAD].to = w /\ routing'[DB_THREAD].event = g
       /\ \A t \in Threads : t # DB_THREAD => routing'[t] = routing[t]
  BY <1>2, <1>9 DEF IInv, EventInv
<1>11. /\ TableInv /\ room_to_worker[new] = NO_WORKER
       /\ \A v \in Workers : new \notin rooms[v]
  <2>1. TableInv /\ room_to_worker[new] = NO_WORKER
    BY <1>4 DEF RInv, TableInv, new
  <2> QED
    BY <1>9, <2>1 DEF TableInv
<1>12. /\ room_to_worker'[new] = w
       /\ \A r \in RoomIds : r # new => room_to_worker'[r] = room_to_worker[r]
  BY <1>2, <1>4, <1>11 DEF bind_room_worker, find_worker, IInv, StateTypeOK
<1>13. ASSUME NEW v \in Workers, NEW f, EventOK(v, f, room_to_worker, rooms, room_seq)
       PROVE  /\ EventOK(v, f, room_to_worker', rooms', room_seq')
              /\ ~Creates(f, new)
  <2>1. \A r \in RoomIds : r \in Int
    BY ConstantFacts
  <2>2. \A r \in RoomIds : Serves(f.actions, f.current_action, r) =>
          r < new /\ room_to_worker[r] \in {v, NO_WORKER}
    BY <1>13 DEF EventOK, new
  <2>3. \A r \in RoomIds : Serves(f.actions, f.current_action, r) =>
          r < new + 1 /\ room_to_worker'[r] \in {v, NO_WORKER}
    <3>1. ASSUME NEW r \in RoomIds, r < new PROVE r < new + 1 /\ r # new
      BY <1>4, <2>1, <3>1
    <3> QED
      BY <1>12, <2>2, <3>1
  <2>4. ~Creates(f, new)
    BY <1>4, <1>9, <1>11, <1>13 DEF EventOK
  <2> QED
    BY <1>1, <1>12, <1>13, <2>3, <2>4 DEF EventOK
<1>14. EventOK(w, g, room_to_worker', rooms', room_seq')
  <2>1. new < room_seq'
    BY <1>1, <1>4
  <2>2. \A v \in Workers : new \notin rooms'[v]
    BY <1>1, <1>11
  <2> QED
    BY <1>6, <1>8, <1>12, <2>1, <2>2 DEF EventOK
<1>15. RoutedOK' /\ QueuedOK' /\ HandOK'
  <2>1. RoutedOK'
    <3> SUFFICES ASSUME NEW t \in Threads, routing'[t].to \in Workers
                 PROVE  EventOK(routing'[t].to, routing'[t].event,
                                room_to_worker', rooms', room_seq')
      BY DEF RoutedOK
    <3>1. CASE t = DB_THREAD
      BY <1>10, <1>14, <3>1
    <3>2. CASE t # DB_THREAD
      BY <1>10, <1>13, <3>2 DEF RInv, RoutedOK
    <3> QED
      BY <3>1, <3>2
  <2>2. QueuedOK'
    BY <1>1, <1>13 DEF RInv, QueuedOK
  <2>3. HandOK'
    BY <1>1, <1>13 DEF RInv, HandOK
  <2> QED
    BY <2>1, <2>2, <2>3
<1>16. TableInv'
  <2>1. \A v \in Workers : \A r \in rooms'[v] : room_to_worker'[r] = v
    <3>1. \A v \in Workers : \A r \in rooms[v] : r # new /\ r \in RoomIds
      BY <1>11 DEF IInv, StateTypeOK
    <3> QED
      BY <1>1, <1>11, <1>12, <3>1 DEF TableInv
  <2>2. \A r \in RoomIds : r >= room_seq' => room_to_worker'[r] = NO_WORKER
    <3>1. \A r \in RoomIds : r >= new + 1 => r # new /\ r >= new
      BY <1>4, ConstantFacts
    <3> QED
      BY <1>1, <1>11, <1>12, <3>1 DEF TableInv, new
  <2>3. LOBBY_ROOM_ID # new /\ LOBBY_ROOM_ID \in RoomIds
    BY <1>9, <1>11, ConstantFacts DEF TableInv
  <2> QED
    BY <1>11, <1>12, <2>1, <2>2, <2>3 DEF TableInv
<1>17. Waiting'
  BY <1>1 DEF RInv, Waiting
<1>18. \A r \in RoomIds : AtDb(r)' <=> r = new
  BY <1>8, <1>10 DEF AtDb
<1>19. \A r \in RoomIds, v \in Workers : InHand(r, v)' <=> InHand(r, v)
  BY <1>1 DEF InHand
<1>20. \A r \in RoomIds, v \in Workers : \A i \in DOMAIN event_queue[v] :
         Queued(r, v, i)' <=> Queued(r, v, i)
  BY <1>1 DEF Queued
<1>21. \A r \in RoomIds, v \in Workers :
         /\ InHand(r, v) => r # new
         /\ \A i \in DOMAIN event_queue[v] : Queued(r, v, i) => r # new
  BY <1>13 DEF RInv, HandOK, QueuedOK, InHand, Queued
<1>22. Unique'
  <2>1. Unique
    BY DEF RInv
  <2>2. \A t \in Threads \ {DB_THREAD} : Silent(routing'[t].event)
    BY <1>10, <2>1 DEF Unique
  <2> QED
    BY <1>1, <1>18, <1>19, <1>20, <1>21, <2>1, <2>2 DEF Unique
<1>23. Announced'
  <2> SUFFICES ASSUME NEW r \in RoomIds, NEW v \in Workers,
                      room_to_worker'[r] = v, r \notin rooms'[v]
               PROVE  \/ routing'[DB_THREAD].to = v /\ AtDb(r)'
                      \/ \E i \in DOMAIN event_queue'[v] : Queued(r, v, i)'
                      \/ InHand(r, v)'
    BY DEF Announced
  <2>1. CASE r = new
    BY <1>10, <1>12, <1>18, <2>1
  <2>2. CASE r # new
    <3>1. \/ AtDb(r)
          \/ \E i \in DOMAIN event_queue[v] : Queued(r, v, i)
          \/ InHand(r, v)
      BY <1>1, <1>12, <2>2 DEF RInv, Announced
    <3>2. ~AtDb(r)
      BY <1>3 DEF AtDb, Silent
    <3> QED
      BY <1>1, <1>19, <1>20, <3>1, <3>2
  <2> QED
    BY <2>1, <2>2
<1> QED
  BY <1>3, <1>15, <1>16, <1>17, <1>22, <1>23 DEF RInv

\* The worker creates the room it was told to: it has no such room, and the event
\* was the only one to create it.
LEMMA CreateRoomRoutes ==
  ASSUME IInv, RInv, NEW w \in Workers, CreateRoom(w)
  PROVE  RInv'
<1> DEFINE new == NextAction(event[w]).target_room_id
           res == "Success"
           f == Advanced(event[w], res)
<1>1. At(w, "CREATE_ROOM")
  BY DEF CreateRoom
<1>2. /\ event[w] \in RunnableEvents /\ event[w] \in RoomEvents /\ Shape(event[w])
      /\ HasNextAction(event[w]) /\ NotFailed(event[w])
      /\ NextAction(event[w]).command = "CREATE_ROOM"
      /\ EventOK(w, event[w], room_to_worker, rooms, room_seq)
  BY <1>1, AtFacts
<1>3. new \in RoomIds /\ NextAction(event[w]) = RoomAction("CREATE_ROOM", new)
  BY <1>2, NextFacts DEF RoomActions, RoomAction
<1>4. Creates(event[w], new)
  <2>1. /\ event[w].current_action + 1 \in DOMAIN event[w].actions
        /\ event[w].current_action \in Nat
    BY <1>2, NextFacts DEF RoomEvents
  <2> HIDE DEF new
  <2> QED
    BY <1>3, <2>1 DEF Creates, NextAction
<1>5. room_to_worker[new] = w /\ \A v \in Workers : new \notin rooms[v]
  BY <1>2, <1>3, <1>4 DEF EventOK
<1>6. /\ rooms' = [rooms EXCEPT ![w] = rooms[w] \cup {new}]
      /\ Continue(w, res)
      /\ room_to_worker' = room_to_worker /\ room_seq' = room_seq /\ routing' = routing
      /\ event_queue' = event_queue /\ job_queue' = job_queue
  BY <1>5 DEF CreateRoom, dbVars
<1>7. res \in Results /\ "CREATE_ROOM" \notin HandOvers
  BY DEF Results, HandOvers
<1> HIDE DEF new, res
<1>8. EventOK(w, f, room_to_worker, rooms, room_seq) /\ Silent(f)
  BY <1>2, <1>7, AdvancedOK
<1>9. /\ event'[w] = f /\ \A v \in Workers : v # w => event'[v] = event[v]
      /\ pc' = [pc EXCEPT ![w] = "run"]
  BY <1>6 DEF Continue, IInv, EventInv
<1> HIDE DEF f
<1>10. \A v \in Workers : rooms'[v] = IF v = w THEN rooms[v] \cup {new} ELSE rooms[v]
  BY <1>6 DEF IInv, StateTypeOK
<1>11. ASSUME NEW v \in Workers, NEW e, EventOK(v, e, room_to_worker, rooms, room_seq),
              ~Creates(e, new)
       PROVE  EventOK(v, e, room_to_worker', rooms', room_seq')
  BY <1>6, <1>10, <1>11 DEF EventOK
<1>12. Unique /\ InHand(new, w)
  BY <1>4 DEF RInv, InHand
<1>13. /\ ~AtDb(new)
       /\ \A v \in Workers : \A i \in DOMAIN event_queue[v] : ~Queued(new, v, i)
       /\ \A v \in Workers : v # w => ~InHand(new, v)
       /\ ~Creates(f, new)
  <2>1. \A v \in Workers : v # w => ~InHand(new, v)
    BY <1>3, <1>5 DEF RInv, HandOK, EventOK, InHand
  <2> QED
    BY <1>3, <1>8, <1>12, <2>1 DEF Unique, Silent
<1>14. RoutedOK' /\ QueuedOK' /\ HandOK'
  <2>1. RoutedOK'
    <3> SUFFICES ASSUME NEW t \in Threads, routing[t].to \in Workers
                 PROVE  EventOK(routing[t].to, routing[t].event, room_to_worker', rooms', room_seq')
      BY <1>6 DEF RoutedOK
    <3>1. ~Creates(routing[t].event, new)
      BY <1>3, <1>12, <1>13 DEF Unique, Silent, AtDb
    <3>2. EventOK(routing[t].to, routing[t].event, room_to_worker, rooms, room_seq)
      BY DEF RInv, RoutedOK
    <3> QED
      BY <1>11, <3>1, <3>2
  <2>2. QueuedOK'
    <3> SUFFICES ASSUME NEW v \in Workers, NEW i \in DOMAIN event_queue[v]
                 PROVE  EventOK(v, event_queue[v][i], room_to_worker', rooms', room_seq')
      BY <1>6 DEF QueuedOK
    <3>1. ~Creates(event_queue[v][i], new)
      BY <1>13 DEF Queued
    <3>2. EventOK(v, event_queue[v][i], room_to_worker, rooms, room_seq)
      BY DEF RInv, QueuedOK
    <3> QED
      BY <1>11, <3>1, <3>2
  <2>3. HandOK'
    <3> SUFFICES ASSUME NEW v \in Workers
                 PROVE  EventOK(v, event'[v], room_to_worker', rooms', room_seq')
      BY DEF HandOK
    <3>1. CASE v = w
      BY <1>8, <1>9, <1>11, <1>13, <3>1
    <3>2. CASE v # w
      BY <1>9, <1>11, <1>13, <3>2 DEF InHand, RInv, HandOK
    <3> QED
      BY <3>1, <3>2
  <2> QED
    BY <2>1, <2>2, <2>3
<1>15. TableInv'
  BY <1>5, <1>6, <1>10 DEF RInv, TableInv
<1>16. JobInv' /\ Waiting'
  BY <1>6, <1>9 DEF RInv, JobInv, Waiting, IInv, StateTypeOK
<1>17. \A r \in RoomIds : AtDb(r)' <=> AtDb(r)
  BY <1>6 DEF AtDb
<1>18. \A r \in RoomIds, v \in Workers : InHand(r, v)' <=> InHand(r, v) /\ r # new
  <2> SUFFICES ASSUME NEW r \in RoomIds, NEW v \in Workers
               PROVE  InHand(r, v)' <=> InHand(r, v) /\ r # new
    OBVIOUS
  <2>1. CASE v # w
    BY <1>9, <1>13, <2>1 DEF InHand
  <2>2. CASE v = w
    <3>1. ~InHand(r, w)'
      BY <1>8, <1>9 DEF InHand, Silent
    <3>2. InHand(r, w) => r = new
      BY <1>2, <1>3, CreatesFacts DEF InHand, RoomAction
    <3> QED
      BY <2>2, <3>1, <3>2
  <2> QED
    BY <2>1, <2>2
<1>19. \A r \in RoomIds, v \in Workers : \A i \in DOMAIN event_queue[v] :
         Queued(r, v, i)' <=> Queued(r, v, i)
  BY <1>6 DEF Queued
<1>20. Unique'
  <2>1. \A t \in Threads \ {DB_THREAD} : Silent(routing'[t].event)
    BY <1>6, <1>12 DEF Unique
  <2> QED
    BY <1>6, <1>12, <1>17, <1>18, <1>19, <2>1 DEF Unique
<1>21. Announced'
  <2> SUFFICES ASSUME NEW r \in RoomIds, NEW v \in Workers,
                      room_to_worker'[r] = v, r \notin rooms'[v]
               PROVE  \/ routing'[DB_THREAD].to = v /\ AtDb(r)'
                      \/ \E i \in DOMAIN event_queue'[v] : Queued(r, v, i)'
                      \/ InHand(r, v)'
    BY DEF Announced
  <2>1. r # new /\ room_to_worker[r] = v /\ r \notin rooms[v]
    BY <1>5, <1>6, <1>10
  <2>2. \/ routing[DB_THREAD].to = v /\ AtDb(r)
        \/ \E i \in DOMAIN event_queue[v] : Queued(r, v, i)
        \/ InHand(r, v)
    BY <2>1 DEF RInv, Announced
  <2> QED
    BY <1>6, <1>17, <1>18, <1>19, <2>1, <2>2
<1> QED
  BY <1>14, <1>15, <1>16, <1>20, <1>21 DEF RInv

-----------------------------------------------------------------------------
(***************************************************************************)
(* The theorems.                                                           *)
(***************************************************************************)
\* The constructors leave one room, the lobby, and no event.
LEMMA InitRoutes == Init => RInv
<1> SUFFICES ASSUME Init PROVE RInv
  OBVIOUS
<1>1. /\ \A t \in Threads : routing[t].to = NO_WORKER /\ routing[t].event = EmptyEvent
      /\ \A w \in Workers : event_queue[w] = << >> /\ event[w] = EmptyEvent
      /\ job_queue = << >>
  BY DEF Init, NotRouting
<1>2. /\ \A w \in Workers : DOMAIN event_queue[w] = {}
      /\ DOMAIN job_queue = {}
  BY <1>1
<1>3. RoutedOK /\ QueuedOK /\ HandOK /\ JobInv /\ Waiting
  BY <1>1, <1>2, ConstantFacts, EmptyOK DEF RoutedOK, QueuedOK, HandOK, JobInv, Waiting
<1>4. TableInv
  <2>1. LOBBY_ROOM_ID < FIRST_ROOM_ID
    BY DEF LOBBY_ROOM_ID, FIRST_ROOM_ID
  <2>2. LOBBY_ROOM_ID \in RoomIds
    BY ConstantFacts
  <2>3. \A r \in RoomIds : r >= room_seq => r # LOBBY_ROOM_ID
    BY <2>1, ConstantFacts DEF Init, LOBBY_ROOM_ID, FIRST_ROOM_ID
  <2> QED
    BY <2>2, <2>3 DEF Init, TableInv
<1>5. Unique
  BY <1>1, <1>2, EmptyOK DEF Unique, InHand, Silent
<1>6. Announced
  BY ConstantFacts DEF Init, Announced
<1> QED
  BY <1>3, <1>4, <1>5, <1>6 DEF RInv

\* Every step of a worker keeps the routes.
LEMMA WorkerStepRoutes ==
  ASSUME IInv, RInv, NEW w \in Workers, WorkerStep(w)
  PROVE  RInv'
BY TakeEventRoutes, EndRoutes, RequestLeaveRoomRoutes, CreateRoomRoutes, JoinRoomRoutes,
   RestRoutes, LeaveRoomRoutes, DisconnectSessionRoutes, SendMessageRoutes, SaveMessageRoutes,
   RequestDbRoutes, SendToRoutes
DEF WorkerStep

\* Every step but the reading of a packet keeps the routes.
LEMMA StepRoutes ==
  ASSUME IInv, RInv, ServerStep \/ \E s \in Sessions : AcceptClient(s) \/ CloseSession(s)
  PROVE  RInv'
<1>1. CASE MainStep \/ \E s \in Sessions : CloseSession(s)
  BY <1>1, CloseRoutes
<1>2. CASE \E t \in Threads : PostRouted(t)
  BY <1>2, PostOthersRoutes, PostCreatedRoutes
<1>3. CASE \E w \in Workers : WorkerStep(w)
  BY <1>3, WorkerStepRoutes
<1>4. CASE DbStep
  BY <1>4, DbCreateRoomRoutes, DbCreateRoomFailsRoutes, DbLoadHistoryRoutes,
     DbSaveMessageRoutes DEF DbStep
<1>5. CASE \E s \in Sessions : AcceptClient(s)
  BY <1>5, AcceptClientRoutes
<1> QED
  BY <1>1, <1>2, <1>3, <1>4, <1>5 DEF ServerStep

\* What the routes are about being left alone, so are they.
LEMMA SameRoutes ==
  ASSUME IInv, RInv, UNCHANGED <<Tables, routing, event_queue, event, pc, job_queue>>
  PROVE  RInv'
<1>1. QuietTables /\ QuietRouting /\ QuietQueues /\ QuietHands
  BY SameTables, SamePlaces
<1>2. JobInv' /\ Waiting'
  BY DEF RInv, JobInv, Waiting
<1> QED
  BY <1>1, <1>2, QuietKeeps

\* Every step of the server, with whatever its peers send, keeps the routes.
LEMMA NextRoutes == IInv /\ RInv /\ [Next]_vars => RInv'
<1> SUFFICES ASSUME IInv, RInv, [Next]_vars PROVE RInv'
  OBVIOUS
<1>1. CASE ServerStep \/ \E s \in Sessions : AcceptClient(s) \/ CloseSession(s)
  BY <1>1, StepRoutes
<1>2. CASE \E s \in Sessions, req \in PeerRequests : DispatchPacket(s, req[1], req[2])
  <2>1. PICK s \in Sessions, req \in PeerRequests : DispatchPacket(s, req[1], req[2])
    BY <1>2
  <2>2. req[1] \in Commands /\ req[2] \in RoomIds
    BY PeerAssumption
  <2> QED
    BY <2>1, <2>2, DispatchPacketRoutes
<1>3. CASE UNCHANGED vars
  BY <1>3, SameRoutes DEF vars, Tables
<1> QED
  BY <1>1, <1>2, <1>3 DEF Next

\* Both invariants hold in every reachable state.
LEMMA RoutesInvariance == Spec => [](IInv /\ RInv)
<1>1. Init => IInv /\ RInv
  BY InitInv, InitRoutes
<1>2. IInv /\ RInv /\ [Next]_vars => IInv' /\ RInv'
  BY NextInv, NextRoutes
<1> QED
  BY <1>1, <1>2, PTL DEF Spec

\* Every room is routed to the worker that holds it, and an entry without a room is
\* that of a room which an event on its way to the same worker will create.
THEOREM RoutesAgree == Spec => []RoutesMatchRooms
<1>1. ASSUME IInv, RInv PROVE RoutesMatchRooms
  <2>1. room_to_worker \in [RoomIds -> Workers \cup {NO_WORKER}] /\ TableInv /\ Announced
    BY <1>1 DEF IInv, StateTypeOK, RInv
  <2>2. ASSUME NEW r \in RoomIds, room_to_worker[r] # NO_WORKER, r \notin rooms[room_to_worker[r]]
        PROVE  LET w == room_to_worker[r] IN
                 \/ routing[DB_THREAD].to = w /\ Creates(routing[DB_THREAD].event, r)
                 \/ \E i \in DOMAIN event_queue[w] : Creates(event_queue[w][i], r)
                 \/ Creates(event[w], r)
    BY <2>1, <2>2 DEF Announced, AtDb, Queued, InHand
  <2> QED
    BY <2>1, <2>2 DEF RoutesMatchRooms, TableInv
<1> QED
  BY <1>1, RoutesInvariance, PTL

\* What an event needs next is where it runs, or nowhere.
LEMMA AtOwner ==
  ASSUME IInv, RInv
  PROVE  ActionsRunAtOwner
<1> SUFFICES ASSUME NEW w \in Workers, NEW v \in Workers, NEW r \in rooms[v],
                    NEW cmd \in {"JOIN_ROOM", "LEAVE_ROOM", "SEND_MESSAGE", "SAVE_MESSAGE"},
                    At(w, cmd), NextAction(event[w]).target_room_id = r
             PROVE  w = v
  BY DEF ActionsRunAtOwner
<1>1. /\ event[w] \in RunnableEvents /\ event[w] \in RoomEvents
      /\ HasNextAction(event[w]) /\ NotFailed(event[w]) /\ NextAction(event[w]).command = cmd
      /\ EventOK(w, event[w], room_to_worker, rooms, room_seq)
  BY AtFacts
<1>2. r \in RoomIds /\ room_to_worker[r] = v
  BY DEF IInv, StateTypeOK, RInv, TableInv
<1> DEFINE acts == event[w].actions
           c == event[w].current_action
           i == c + 1
<1>3. /\ i \in DOMAIN acts /\ acts[i] = NextAction(event[w])
      /\ c \in Nat /\ DOMAIN acts \subseteq Nat
  BY <1>1, NextFacts DEF NextAction, RoomEvents
<1>4. cmd \in RoomBound
  BY DEF RoomBound
<1>5. c < i /\ \A k \in DOMAIN acts : ~(c < k /\ k < i)
  BY <1>3
<1> HIDE DEF i
<1>6. Reached(acts, c, i) /\ acts[i].target_room_id = r
  BY <1>1, <1>3, <1>4, <1>5 DEF Reached
<1>7. Serves(acts, c, r)
  BY <1>3, <1>6 DEF Serves
<1>8. room_to_worker[r] \in {w, NO_WORKER}
  BY <1>1, <1>2, <1>7 DEF EventOK
<1> QED
  BY <1>2, <1>8, ConstantFacts

\* An event that joins, leaves or sends to a room runs where the room is, or where it
\* was and is no more: never on another worker than the one that has it, however
\* long the event waited after its route was looked up.
THEOREM RunsAtOwner == Spec => []ActionsRunAtOwner
BY AtOwner, RoutesInvariance, PTL

\* What an event creates is nowhere yet.
LEMMA FindsNoRoom ==
  ASSUME IInv, RInv
  PROVE  CreateFindsNoRoom
<1> SUFFICES ASSUME NEW w \in Workers, NEW v \in Workers, At(w, "CREATE_ROOM")
             PROVE  NextAction(event[w]).target_room_id \notin rooms[v]
  BY DEF CreateFindsNoRoom
<1> DEFINE new == NextAction(event[w]).target_room_id
           i == event[w].current_action + 1
<1>1. /\ event[w] \in RunnableEvents /\ event[w] \in RoomEvents
      /\ HasNextAction(event[w]) /\ NotFailed(event[w])
      /\ NextAction(event[w]).command = "CREATE_ROOM"
      /\ EventOK(w, event[w], room_to_worker, rooms, room_seq)
  BY AtFacts
<1>2. new \in RoomIds /\ NextAction(event[w]) = RoomAction("CREATE_ROOM", new)
  BY <1>1, NextFacts DEF RoomActions, RoomAction
<1>3. /\ i \in DOMAIN event[w].actions /\ i > event[w].current_action
      /\ event[w].actions[i] = NextAction(event[w])
  BY <1>1, NextFacts DEF NextAction, RoomEvents
<1> HIDE DEF new, i
<1>4. Creates(event[w], new)
  BY <1>2, <1>3 DEF Creates
<1>5. new \notin rooms[v]
  BY <1>1, <1>2, <1>4 DEF EventOK
<1> QED
  BY <1>5 DEF new

\* create_room never finds that the room exists, at its own worker or at another.
THEOREM CreatesNewRoom == Spec => []CreateFindsNoRoom
BY FindsNoRoom, RoutesInvariance, PTL
=============================================================================
