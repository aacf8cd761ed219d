-------------------------- MODULE RoomServerProofs --------------------------
(***************************************************************************)
(* Theorems about RoomServer for every number of sessions, workers, rooms  *)
(* and requests, every capacity and every choice of failing queries.       *)
(*                                                                         *)
(* The type invariant is not inductive: that CREATE_ROOM is given a real   *)
(* room number, and that JOIN_ROOM finds a session in its event, depends   *)
(* on the plans and on where an event is.  IInv adds that.                 *)
(***************************************************************************)
EXTENDS RoomServer, FiniteSetTheorems, TLAPS

-----------------------------------------------------------------------------
(***************************************************************************)
(* The inductive invariant.                                                *)
(***************************************************************************)
\* Only SEND_RESPONSE has no room, only a disconnect has no session.
Formed(e) ==
  /\ e.current_action <= Len(e.actions)
  /\ \A i \in DOMAIN e.actions :
       /\ e.actions[i].target_room_id = NO_ROOM => e.actions[i].command = "SEND_RESPONSE"
       /\ e.actions[i].command # "DISCONNECT_SESSION" => e.session \in Sessions

Resolved(e) == \A i \in DOMAIN e.actions : e.actions[i].target_room_id # PENDING_ROOM_ID

FormedEvents == {e \in RoomEvents : Formed(e)}

\* What a worker may find in its queue: a plan with an unknown room number is about
\* to ask the database for it, or is about to be answered as failed.
RunnableEvents ==
  {e \in FormedEvents :
     \/ Resolved(e)
     \/ ~NotFailed(e)
     \/ /\ e.current_action = 0
        /\ HasNextAction(e)
        /\ NextAction(e).command = "REQUEST_DB_CREATE_ROOM"}

\* What the database thread may find in its queue.
RunnableJobs ==
  {j \in Jobs :
     /\ j.event \in FormedEvents
     /\ j.type = "LoadHistory" => /\ Resolved(j.event)
                                  /\ j.event.current_action > 0
                                  /\ LastAction(j.event).command = "REQUEST_DB_LOAD_MESSAGE"
     /\ j.type = "SaveMessage" => j.room \in RoomIds}

EventInv ==
  /\ routing \in [Threads -> [to : Workers \cup {NO_WORKER}, event : RunnableEvents]]
  /\ event_queue \in [Workers -> Seq(RunnableEvents)]
  /\ event \in [Workers -> RunnableEvents]
  /\ job_queue \in Seq(RunnableJobs)

\* Half way through an action, the event is still the one that the action runs.
HalfWay(w, cmd) ==
  HasNextAction(event[w]) /\ NotFailed(event[w]) /\ NextAction(event[w]).command = cmd

PcInv ==
  \A w \in Workers :
    /\ pc[w] = "set_current_room" => HalfWay(w, "JOIN_ROOM")
    /\ pc[w] = "send_message" => HalfWay(w, "SEND_MESSAGE")

\* The counter of every room, in use or not, bounds its map from above.
CountInv ==
  \A w \in Workers, r \in RoomIds :
    /\ IsFiniteSet(sessions[w][r])
    /\ Cardinality(sessions[w][r]) <= current_sessions[w][r]
    /\ current_sessions[w][r] <= Capacity(w)

IInv == StateTypeOK /\ EventInv /\ PcInv /\ CountInv

-----------------------------------------------------------------------------
(***************************************************************************)
(* The constants.                                                          *)
(***************************************************************************)
\* The numbers of rooms, workers and threads are what the code takes them to be:
\* the placeholder and the default of add_action are no room, 0 is no worker.
LEMMA ConstantFacts ==
  /\ LOBBY_ROOM_ID \in RoomIds
  /\ RoomIds \subseteq Nat
  /\ PENDING_ROOM_ID \notin RoomIds
  /\ NO_ROOM \notin RoomIds
  /\ LOBBY_WORKER_ID \in Workers
  /\ NO_WORKER \notin Workers
  /\ RoomWorkers \subseteq Workers
  /\ Workers \subseteq Threads
  /\ MAIN_THREAD \in Threads
  /\ DB_THREAD \in Threads
  /\ \A w \in Workers : Capacity(w) \in Nat
BY WorkerAssumption, RoomAssumption, CapacityAssumption
DEF LOBBY_ROOM_ID, RoomIds, FIRST_ROOM_ID, PENDING_ROOM_ID, NO_ROOM, LOBBY_WORKER_ID,
    Workers, NO_WORKER, RoomWorkers, Threads, MAIN_THREAD, DB_THREAD, Capacity

\* A number the sequence can still issue is the number of an ordinary room.
LEMMA IssuedFacts ==
  ASSUME NEW n \in FIRST_ROOM_ID..LastRoomId + 1, n <= LastRoomId
  PROVE  /\ n \in RoomIds
         /\ n + 1 \in FIRST_ROOM_ID..LastRoomId + 1
BY RoomAssumption DEF RoomIds, FIRST_ROOM_ID

-----------------------------------------------------------------------------
(***************************************************************************)
(* Events: what each constructor builds, and what processing keeps.        *)
(***************************************************************************)
\* RoomEvent{} can be in a queue: it has no actions.
LEMMA EmptyRunnable == EmptyEvent \in RunnableEvents
BY SMT DEF EmptyEvent, RunnableEvents, FormedEvents, RoomEvents, RoomActions, Formed, Resolved,
       Bodies, EmptyBody, Results

\* A new event for a session is well formed if its actions are.
LEMMA NewRunnable ==
  ASSUME NEW cmd \in Commands \cup {UNINITIALIZED}, NEW s \in Sessions,
         NEW acts \in Seq(RoomActions),
         \A i \in DOMAIN acts :
           acts[i].target_room_id = NO_ROOM => acts[i].command = "SEND_RESPONSE",
         \/ \A i \in DOMAIN acts : acts[i].target_room_id # PENDING_ROOM_ID
         \/ Len(acts) > 0 /\ acts[1].command = "REQUEST_DB_CREATE_ROOM"
  PROVE  NewEvent(cmd, s, acts) \in RunnableEvents
<1> DEFINE e == NewEvent(cmd, s, acts)
<1>1. e \in RoomEvents
  BY DEF NewEvent, EmptyEvent, RoomEvents, Bodies, EmptyBody, Results
<1>2. e.actions = acts /\ e.current_action = 0 /\ e.session = s
  BY DEF NewEvent, EmptyEvent
<1>3. Formed(e)
  BY <1>2 DEF Formed
<1>4. Resolved(e) \/ (HasNextAction(e) /\ NextAction(e).command = "REQUEST_DB_CREATE_ROOM")
  BY <1>2 DEF Resolved, HasNextAction, NextAction
<1> QED
  BY <1>1, <1>2, <1>3, <1>4 DEF RunnableEvents, FormedEvents

\* Every plan of dispatch_packet starts out runnable: only the plan of CREATE holds
\* the placeholder, and it begins by asking the database.
LEMMA PlanRunnable ==
  ASSUME NEW cmd \in Commands, NEW s \in Sessions, NEW room \in RoomIds
  PROVE  PacketEvent(cmd, s, room) \in RunnableEvents
<1> USE DEF RoomAction
<1> DEFINE Rooms == RoomIds \cup {PENDING_ROOM_ID, NO_ROOM}
<1>0. /\ room \in Rooms /\ LOBBY_ROOM_ID \in Rooms
      /\ room # PENDING_ROOM_ID /\ room # NO_ROOM
      /\ LOBBY_ROOM_ID # PENDING_ROOM_ID /\ LOBBY_ROOM_ID # NO_ROOM
      /\ PENDING_ROOM_ID # NO_ROOM
  BY ConstantFacts, RoomAssumption DEF PENDING_ROOM_ID, NO_ROOM
<1>1. \A c \in ActionCommands, r \in Rooms : RoomAction(c, r) \in RoomActions
  BY DEF RoomActions
<1>2. CASE cmd = "CMD_CREATE_ROOM"
  <2> DEFINE acts == plan_create_room
  <2>1. acts \in Seq(RoomActions) /\ DOMAIN acts = 1..6 /\ Len(acts) = 6
    BY <1>0, <1>1 DEF plan_create_room, ActionCommands
  <2>2. \A i \in DOMAIN acts :
          acts[i].target_room_id = NO_ROOM => acts[i].command = "SEND_RESPONSE"
    BY <1>0, <2>1 DEF plan_create_room
  <2>3. acts[1].command = "REQUEST_DB_CREATE_ROOM"
    BY DEF plan_create_room
  <2> QED
    BY <1>2, <2>1, <2>2, <2>3, NewRunnable DEF PacketEvent, Plan
<1>3. CASE cmd = "CMD_JOIN_ROOM"
  <2> DEFINE acts == plan_join_room(room)
  <2>1. acts \in Seq(RoomActions) /\ DOMAIN acts = 1..5
    BY <1>0, <1>1 DEF plan_join_room, ActionCommands
  <2>2. \A i \in DOMAIN acts :
          /\ acts[i].target_room_id = NO_ROOM => acts[i].command = "SEND_RESPONSE"
          /\ acts[i].target_room_id # PENDING_ROOM_ID
    BY <1>0, <2>1 DEF plan_join_room
  <2> QED
    BY <1>3, <2>1, <2>2, NewRunnable DEF PacketEvent, Plan
<1>4. CASE cmd = "CMD_LEAVE_ROOM"
  <2> DEFINE acts == plan_leave_room(room)
  <2>1. acts \in Seq(RoomActions) /\ DOMAIN acts = 1..4
    BY <1>0, <1>1 DEF plan_leave_room, ActionCommands
  <2>2. \A i \in DOMAIN acts :
          /\ acts[i].target_room_id = NO_ROOM => acts[i].command = "SEND_RESPONSE"
          /\ acts[i].target_room_id # PENDING_ROOM_ID
    BY <1>0, <2>1 DEF plan_leave_room
  <2> QED
    BY <1>4, <2>1, <2>2, NewRunnable DEF PacketEvent, Plan
<1>5. CASE cmd = "CMD_SEND_MESSAGE"
  <2> DEFINE acts == plan_send_message(room)
  <2>1. acts \in Seq(RoomActions) /\ DOMAIN acts = 1..3
    BY <1>0, <1>1 DEF plan_send_message, ActionCommands
  <2>2. \A i \in DOMAIN acts :
          /\ acts[i].target_room_id = NO_ROOM => acts[i].command = "SEND_RESPONSE"
          /\ acts[i].target_room_id # PENDING_ROOM_ID
    BY <1>0, <2>1 DEF plan_send_message
  <2> QED
    BY <1>5, <2>1, <2>2, NewRunnable DEF PacketEvent, Plan
<1>6. CASE cmd = "CMD_LOAD_MESSAGE"
  <2> DEFINE acts == plan_load_message(room)
  <2>1. acts \in Seq(RoomActions) /\ DOMAIN acts = 1..2
    BY <1>0, <1>1 DEF plan_load_message, ActionCommands
  <2>2. \A i \in DOMAIN acts :
          /\ acts[i].target_room_id = NO_ROOM => acts[i].command = "SEND_RESPONSE"
          /\ acts[i].target_room_id # PENDING_ROOM_ID
    BY <1>0, <2>1 DEF plan_load_message
  <2> QED
    BY <1>6, <2>1, <2>2, NewRunnable DEF PacketEvent, Plan
<1> QED
  BY <1>2, <1>3, <1>4, <1>5, <1>6 DEF Commands

\* So does the event of accept_client.
LEMMA AcceptRunnable ==
  ASSUME NEW s \in Sessions
  PROVE  AcceptEvent(s) \in RunnableEvents
<1> DEFINE acts == << RoomAction("JOIN_ROOM", LOBBY_ROOM_ID) >>
<1>1. acts \in Seq(RoomActions) /\ DOMAIN acts = 1..1
  BY ConstantFacts DEF RoomAction, RoomActions, ActionCommands
<1>2. \A i \in DOMAIN acts :
        acts[i].target_room_id # NO_ROOM /\ acts[i].target_room_id # PENDING_ROOM_ID
  BY <1>1, ConstantFacts DEF RoomAction
<1>3. AcceptEvent(s) = NewEvent(UNINITIALIZED, s, acts)
  BY DEF AcceptEvent
<1> HIDE DEF acts
<1> QED
  BY <1>1, <1>2, <1>3, NewRunnable

\* The answer that a look-up without a result sends through the lobby has failed already.
LEMMA RoomNotFoundRunnable ==
  ASSUME NEW cmd \in Commands, NEW s \in Sessions
  PROVE  RoomNotFoundEvent(cmd, s) \in RunnableEvents
<1> DEFINE acts == << RoomAction("SEND_RESPONSE", NO_ROOM) >>
           e == NewEvent(cmd, s, acts)
           f == RoomNotFoundEvent(cmd, s)
<1>1. acts \in Seq(RoomActions) /\ DOMAIN acts = 1..1
  BY DEF RoomAction, RoomActions, ActionCommands
<1>2. \A i \in DOMAIN acts :
        acts[i].command = "SEND_RESPONSE" /\ acts[i].target_room_id # PENDING_ROOM_ID
  BY <1>1, RoomAssumption DEF RoomAction, NO_ROOM, PENDING_ROOM_ID
<1>4. f = [e EXCEPT !.result_code = "RoomNotFound"]
  BY DEF RoomNotFoundEvent
<1> HIDE DEF acts, f
<1>3. e \in RunnableEvents
  BY <1>1, <1>2, NewRunnable
<1> HIDE DEF e
<1>5. f \in RoomEvents /\ ~NotFailed(f)
  BY <1>3, <1>4 DEF RunnableEvents, FormedEvents, RoomEvents, Results, NotFailed
<1>6. Formed(f)
  BY <1>3, <1>4 DEF RunnableEvents, FormedEvents, RoomEvents, Formed
<1> QED
  BY <1>5, <1>6 DEF f, RunnableEvents, FormedEvents

\* And the one of disconnect_session, which carries a descriptor only.
LEMMA DisconnectRunnable ==
  ASSUME NEW s \in Sessions \cup {NoSession}, NEW room \in RoomIds
  PROVE  DisconnectEvent(s, room) \in RunnableEvents
<1> DEFINE acts == << RoomAction("DISCONNECT_SESSION", room) >>
           f == DisconnectEvent(s, room)
<1>1. acts \in Seq(RoomActions) /\ DOMAIN acts = 1..1 /\ Len(acts) = 1
  BY DEF RoomAction, RoomActions, ActionCommands
<1>2. acts[1].command = "DISCONNECT_SESSION" /\ acts[1].target_room_id = room
  BY DEF RoomAction
<1>3. f.actions = acts /\ f.current_action = 0
  BY DEF DisconnectEvent, NewEvent, EmptyEvent
<1>4. f \in RoomEvents
  BY <1>1 DEF DisconnectEvent, NewEvent, EmptyEvent, RoomEvents, Bodies, EmptyBody, Results
<1> HIDE DEF f, acts
<1>5. Formed(f) /\ Resolved(f)
  BY <1>1, <1>2, <1>3, ConstantFacts DEF Formed, Resolved
<1> QED
  BY <1>4, <1>5 DEF f, RunnableEvents, FormedEvents

\* What process_event finds at the switch: an action, its room and its session.
LEMMA NextFacts ==
  ASSUME NEW e \in RunnableEvents, HasNextAction(e), NotFailed(e)
  PROVE  /\ NextAction(e) \in RoomActions
         /\ e.current_action + 1 \in DOMAIN e.actions
         /\ NextAction(e).command \notin {"SEND_RESPONSE", "REQUEST_DB_CREATE_ROOM"}
              => NextAction(e).target_room_id \in RoomIds
         /\ NextAction(e).command # "DISCONNECT_SESSION" => e.session \in Sessions
         /\ NextAction(e).command # "REQUEST_DB_CREATE_ROOM" => Resolved(e)
<1>1. e \in RoomEvents /\ Formed(e)
  BY DEF RunnableEvents, FormedEvents
<1>2. e.actions \in Seq(RoomActions) /\ e.current_action \in Nat
  BY <1>1 DEF RoomEvents
<1>3. e.current_action + 1 \in DOMAIN e.actions
  BY <1>2 DEF HasNextAction
<1>4. NextAction(e) \in RoomActions
  BY <1>2, <1>3 DEF NextAction
<1>5. NextAction(e).command # "REQUEST_DB_CREATE_ROOM" => Resolved(e)
  BY DEF RunnableEvents
<1>6. NextAction(e).command # "DISCONNECT_SESSION" => e.session \in Sessions
  BY <1>1, <1>3 DEF Formed, NextAction
<1>7. ASSUME NextAction(e).command \notin {"SEND_RESPONSE", "REQUEST_DB_CREATE_ROOM"}
      PROVE  NextAction(e).target_room_id \in RoomIds
  <2>1. NextAction(e).target_room_id # PENDING_ROOM_ID
    BY <1>3, <1>5, <1>7 DEF Resolved, NextAction
  <2>2. NextAction(e).target_room_id # NO_ROOM
    BY <1>1, <1>3, <1>7 DEF Formed, NextAction
  <2> QED
    BY <1>4, <2>1, <2>2 DEF RoomActions
<1> QED
  BY <1>3, <1>4, <1>5, <1>6, <1>7

\* Running an action leaves the plan alone.
LEMMA AdvancedFacts ==
  ASSUME NEW e \in RunnableEvents, HasNextAction(e), NotFailed(e), NEW res \in Results
  PROVE  /\ Advanced(e, res) \in FormedEvents
         /\ Advanced(e, res).current_action = e.current_action + 1
         /\ LastAction(Advanced(e, res)) = NextAction(e)
         /\ Resolved(e) => Resolved(Advanced(e, res))
         /\ Resolved(e) => Advanced(e, res) \in RunnableEvents
<1> DEFINE f == Advanced(e, res)
<1>1. e \in RoomEvents /\ Formed(e)
  BY DEF RunnableEvents, FormedEvents
<1>2. f \in RoomEvents
  <2>1. e.current_action + 1 \in Nat
    BY <1>1 DEF RoomEvents
  <2>2. f = [e EXCEPT !.current_action = e.current_action + 1, !.result_code = res]
    BY DEF Advanced
  <2> QED
    BY <1>1, <2>1, <2>2 DEF RoomEvents
<1>3. /\ f.actions = e.actions /\ f.session = e.session
      /\ f.current_action = e.current_action + 1
  BY <1>1 DEF Advanced, RoomEvents
<1> HIDE DEF f
<1>4. Formed(f)
  BY <1>1, <1>3 DEF Formed, HasNextAction, RoomEvents
<1>5. Resolved(e) => Resolved(f)
  BY <1>3 DEF Resolved
<1>6. LastAction(f) = NextAction(e)
  BY <1>3 DEF LastAction, NextAction
<1> QED
  BY <1>2, <1>3, <1>4, <1>5, <1>6 DEF f, RunnableEvents, FormedEvents

\* A callback that only records a result and a body keeps the event well formed,
\* and runnable if its rooms are known or the query failed.
LEMMA CallbackFacts ==
  ASSUME NEW e \in FormedEvents, NEW f \in RoomEvents,
         f.actions = e.actions, f.current_action = e.current_action, f.session = e.session,
         Resolved(e) \/ ~NotFailed(f)
  PROVE  f \in RunnableEvents
<1>1. Formed(f)
  BY DEF FormedEvents, Formed
<1>2. Resolved(e) => Resolved(f)
  BY DEF Resolved
<1> QED
  BY <1>1, <1>2 DEF RunnableEvents, FormedEvents

\* resolve_room_id replaces the placeholder wherever it occurs.
LEMMA ResolveFacts ==
  ASSUME NEW e \in FormedEvents, NEW room \in RoomIds
  PROVE  /\ resolve_room_id(e, room) \in FormedEvents
         /\ Resolved(resolve_room_id(e, room))
<1> DEFINE f == resolve_room_id(e, room)
           new == [i \in DOMAIN e.actions |->
                     IF e.actions[i].target_room_id = PENDING_ROOM_ID
                       THEN [e.actions[i] EXCEPT !.target_room_id = room]
                       ELSE e.actions[i]]
<1>1. e \in RoomEvents /\ Formed(e)
  BY DEF FormedEvents
<1>2. e.actions \in Seq(RoomActions)
  BY <1>1 DEF RoomEvents
<1>3. \A i \in DOMAIN e.actions :
        /\ new[i] \in RoomActions
        /\ new[i].command = e.actions[i].command
        /\ new[i].target_room_id # PENDING_ROOM_ID
        /\ new[i].target_room_id = NO_ROOM => e.actions[i].target_room_id = NO_ROOM
  <2> SUFFICES ASSUME NEW i \in DOMAIN e.actions
               PROVE  /\ new[i] \in RoomActions
                      /\ new[i].command = e.actions[i].command
                      /\ new[i].target_room_id # PENDING_ROOM_ID
                      /\ new[i].target_room_id = NO_ROOM =>
                           e.actions[i].target_room_id = NO_ROOM
    OBVIOUS
  <2>1. e.actions[i] \in RoomActions
    BY <1>2
  <2> QED
    BY <2>1, ConstantFacts DEF RoomActions
<1>5. f = [e EXCEPT !.actions = new]
  BY DEF resolve_room_id
<1>9. DOMAIN new = DOMAIN e.actions
  OBVIOUS
<1>10. new = [i \in DOMAIN e.actions |-> new[i]]
  OBVIOUS
<1> HIDE DEF f, new
<1>4. new \in Seq(RoomActions) /\ DOMAIN new = DOMAIN e.actions /\ Len(new) = Len(e.actions)
  <2>1. DOMAIN e.actions = 1..Len(e.actions) /\ Len(e.actions) \in Nat
    BY <1>2
  <2>2. new \in [1..Len(e.actions) -> RoomActions]
    BY <1>3, <1>9, <1>10, <2>1
  <2> QED
    BY <1>9, <2>1, <2>2
<1>6. /\ f \in RoomEvents /\ f.actions = new
      /\ f.current_action = e.current_action /\ f.session = e.session
  BY <1>1, <1>4, <1>5 DEF RoomEvents
<1>7. Formed(f)
  BY <1>1, <1>3, <1>4, <1>6 DEF Formed
<1>8. Resolved(f)
  BY <1>3, <1>4, <1>6 DEF Resolved
<1> QED
  BY <1>6, <1>7, <1>8 DEF f, FormedEvents

\* A response made from an event is a packet.
LEMMA ResponseFacts ==
  ASSUME NEW e \in RunnableEvents, NEW res \in Results
  PROVE  Response(e.initial_command, res, e.response_data) \in Packets
BY DEF RunnableEvents, FormedEvents, RoomEvents, Response, Packets, Responses

-----------------------------------------------------------------------------
(***************************************************************************)
(* The helpers that several actions share.                                 *)
(***************************************************************************)
\* A look-up leaves a worker's number or nothing, with a runnable event.
LEMMA RouteFacts ==
  ASSUME IInv, NEW t \in Threads, NEW e \in RunnableEvents, NEW room \in RoomIds,
         route_event(t, e, room)
  PROVE  routing' \in [Threads -> [to : Workers \cup {NO_WORKER}, event : RunnableEvents]]
<1>1. find_worker(room) \in Workers \cup {NO_WORKER}
  BY DEF IInv, StateTypeOK, find_worker
<1> QED
  BY <1>1 DEF route_event, IInv, EventInv

\* Appending to one sequence of a family, if it is one of the family.
LEMMA AppendAt ==
  ASSUME NEW D, NEW S, NEW q \in [D -> Seq(S)], NEW d, NEW e \in S
  PROVE  [q EXCEPT ![d] = Append(q[d], e)] \in [D -> Seq(S)]
<1> DEFINE f == [q EXCEPT ![d] = Append(q[d], e)]
<1>1. CASE d \in D
  <2>1. Append(q[d], e) \in Seq(S)
    BY <1>1
  <2> QED
    BY <2>1
<1>2. CASE d \notin D
  BY <1>2
<1> QED
  BY <1>1, <1>2

\* A queue takes runnable events only.
LEMMA PostFacts ==
  ASSUME IInv, NEW w, NEW e \in RunnableEvents, post_event(w, e)
  PROVE  event_queue' \in [Workers -> Seq(RunnableEvents)]
BY AppendAt DEF post_event, IInv, EventInv

\* A worker that drops its event is back at its queue.
LEMMA ReturnFacts ==
  ASSUME IInv, NEW w \in Workers, Return(w)
  PROVE  /\ event' \in [Workers -> RunnableEvents]
         /\ pc' \in [Workers -> {"wait", "run", "set_current_room", "send_message"}]
         /\ PcInv'
<1>1. event' \in [Workers -> RunnableEvents]
  BY EmptyRunnable DEF Return, IInv, EventInv
<1>2. pc' \in [Workers -> {"wait", "run", "set_current_room", "send_message"}]
  BY DEF Return, IInv, StateTypeOK
<1>3. \A v \in Workers : v # w => event'[v] = event[v] /\ pc'[v] = pc[v]
  BY DEF Return, IInv, EventInv, StateTypeOK
<1>4. pc'[w] = "wait"
  BY DEF Return, IInv, StateTypeOK
<1> QED
  BY <1>1, <1>2, <1>3, <1>4 DEF IInv, PcInv, HalfWay

\* A worker that goes on has a runnable event.
LEMMA ContinueFacts ==
  ASSUME IInv, NEW w \in Workers, HasNextAction(event[w]), NotFailed(event[w]),
         NextAction(event[w]).command # "REQUEST_DB_CREATE_ROOM",
         NEW res \in Results, Continue(w, res)
  PROVE  /\ event' \in [Workers -> RunnableEvents]
         /\ pc' \in [Workers -> {"wait", "run", "set_current_room", "send_message"}]
         /\ PcInv'
<1>1. event[w] \in RunnableEvents
  BY DEF IInv, EventInv
<1>2. Advanced(event[w], res) \in RunnableEvents
  BY <1>1, NextFacts, AdvancedFacts
<1>3. event' = [event EXCEPT ![w] = Advanced(event[w], res)]
  BY DEF Continue
<1>4. event' \in [Workers -> RunnableEvents]
  BY <1>2, <1>3 DEF IInv, EventInv
<1>5. pc' \in [Workers -> {"wait", "run", "set_current_room", "send_message"}]
  BY DEF Continue, IInv, StateTypeOK
<1>6. \A v \in Workers : v # w => event'[v] = event[v] /\ pc'[v] = pc[v]
  BY <1>3 DEF Continue, IInv, EventInv, StateTypeOK
<1>7. pc'[w] = "run"
  BY DEF Continue, IInv, StateTypeOK
<1> QED
  BY <1>4, <1>5, <1>6, <1>7 DEF IInv, PcInv, HalfWay

\* A response is appended to the stream of packets of its session.
LEMMA SendFacts ==
  ASSUME IInv, NEW w \in Workers, NEW res \in Results, send_response(event[w], res)
  PROVE  sent' \in [Sessions -> Seq(Packets)]
<1>1. event[w] \in RunnableEvents
  BY DEF IInv, EventInv
<1>2. Response(event[w].initial_command, res, event[w].response_data) \in Packets
  BY <1>1, ResponseFacts
<1>3. sent \in [Sessions -> Seq(Packets)]
  BY DEF IInv, StateTypeOK
<1> DEFINE s == event[w].session
           p == Response(event[w].initial_command, res, event[w].response_data)
<1>4. sent' = [sent EXCEPT ![s] = Append(sent[s], p)]
  BY DEF send_response
<1>5. p \in Packets
  BY <1>2
<1> HIDE DEF s, p
<1> QED
  BY <1>3, <1>4, <1>5, AppendAt

\* A failed action answers and drops its event.
LEMMA FailFacts ==
  ASSUME IInv, NEW w \in Workers, NEW res \in Results, Fail(w, res)
  PROVE  /\ event' \in [Workers -> RunnableEvents]
         /\ pc' \in [Workers -> {"wait", "run", "set_current_room", "send_message"}]
         /\ PcInv'
         /\ sent' \in [Sessions -> Seq(Packets)]
         /\ room_to_worker' \in [RoomIds -> Workers \cup {NO_WORKER}]
<1>1. send_response(event[w], res) /\ Return(w)
  BY DEF Fail
<1>2. room_to_worker' \in [RoomIds -> Workers \cup {NO_WORKER}]
  BY DEF Fail, erase_room_to_worker, IInv, StateTypeOK
<1> QED
  BY <1>1, <1>2, SendFacts, ReturnFacts

-----------------------------------------------------------------------------
(***************************************************************************)
(* The invariant holds initially and every action keeps it.                *)
(***************************************************************************)
\* The constructors establish the invariant: every room is empty.
LEMMA InitInv == Init => IInv
<1> SUFFICES ASSUME Init PROVE IInv
  OBVIOUS
<1> USE ConstantFacts, EmptyRunnable DEF Init
<1>1. StateTypeOK
  <2>1. room_seq \in FIRST_ROOM_ID..LastRoomId + 1
    BY RoomAssumption DEF FIRST_ROOM_ID
  <2>2. received \in [Sessions -> 0..MaxRequests]
    BY RequestAssumption
  <2> QED
    BY <2>1, <2>2 DEF StateTypeOK, MainIdle, NoAudience
<1>2. EventInv
  BY DEF EventInv, NotRouting
<1>3. PcInv
  BY DEF PcInv
<1>4. CountInv
  BY FS_EmptySet DEF CountInv
<1> QED
  BY <1>1, <1>2, <1>3, <1>4 DEF IInv

\* The second half of route_event moves an event into a queue.
LEMMA PostRoutedInv ==
  ASSUME IInv, NEW t \in Threads, PostRouted(t)
  PROVE  IInv'
<1> USE DEF PostRouted, IInv
<1>1. StateTypeOK'
  BY DEF StateTypeOK, mainVars, roomVars, workerVars, dbVars
<1>2. EventInv'
  <2>1. routing[t].event \in RunnableEvents
    BY DEF EventInv
  <2>2. event_queue' \in [Workers -> Seq(RunnableEvents)]
    BY <2>1, PostFacts
  <2>3. routing' \in [Threads -> [to : Workers \cup {NO_WORKER}, event : RunnableEvents]]
    BY EmptyRunnable DEF EventInv, NotRouting
  <2> QED
    BY <2>2, <2>3 DEF EventInv, workerVars, dbVars
<1>3. PcInv'
  BY DEF PcInv, HalfWay, workerVars
<1>4. CountInv'
  BY DEF CountInv, roomVars
<1> QED
  BY <1>1, <1>2, <1>3, <1>4

\* accept_client opens a session in the lobby and posts its JOIN.
LEMMA AcceptClientInv ==
  ASSUME IInv, NEW s \in Sessions, AcceptClient(s)
  PROVE  IInv'
<1> USE DEF AcceptClient, IInv
<1>1. StateTypeOK'
  BY ConstantFacts DEF StateTypeOK, roomVars, workerVars, dbVars
<1>2. EventInv'
  <2>1. event_queue' \in [Workers -> Seq(RunnableEvents)]
    BY AcceptRunnable, PostFacts
  <2> QED
    BY <2>1 DEF EventInv, workerVars, dbVars
<1>3. PcInv'
  BY DEF PcInv, HalfWay, workerVars
<1>4. CountInv'
  BY DEF CountInv, roomVars
<1> QED
  BY <1>1, <1>2, <1>3, <1>4

\* dispatch_packet routes the plan of one packet, or has the lobby answer it.
LEMMA DispatchPacketInv ==
  ASSUME IInv, NEW s \in Sessions, NEW cmd \in Commands, NEW room \in RoomIds,
         DispatchPacket(s, cmd, room)
  PROVE  IInv'
<1> USE DEF DispatchPacket, IInv
<1>1. StateTypeOK'
  <2>1. received' \in [Sessions -> 0..MaxRequests]
    BY RequestAssumption DEF StateTypeOK
  <2> QED
    BY <2>1 DEF StateTypeOK, roomVars, workerVars, dbVars
<1>2. EventInv'
  <2>1. FirstRoom(cmd, room) \in RoomIds
    BY ConstantFacts DEF FirstRoom
  <2>2. routing' \in [Threads -> [to : Workers \cup {NO_WORKER}, event : RunnableEvents]]
    BY <2>1, ConstantFacts, PlanRunnable, RouteFacts
  <2>3. event_queue' \in [Workers -> Seq(RunnableEvents)]
    BY RoomNotFoundRunnable, PostFacts DEF EventInv
  <2> QED
    BY <2>2, <2>3 DEF EventInv, workerVars, dbVars
<1>3. PcInv'
  BY DEF PcInv, HalfWay, workerVars
<1>4. CountInv'
  BY DEF CountInv, roomVars
<1> QED
  BY <1>1, <1>2, <1>3, <1>4

\* The steps of close_session: only the main thread and the two disconnect events.
LEMMA CloseInv ==
  ASSUME IInv, MainStep \/ \E s \in Sessions : CloseSession(s)
  PROVE  IInv'
<1> USE DEF IInv
<1>1. CASE \E s \in Sessions : CloseSession(s)
  <2>1. StateTypeOK'
    BY <1>1 DEF CloseSession, StateTypeOK, roomVars, workerVars, dbVars
  <2> QED
    BY <1>1, <2>1 DEF CloseSession, EventInv, PcInv, HalfWay, CountInv, roomVars, workerVars, dbVars
<1>2. CASE DisconnectRoom
  <2>1. StateTypeOK'
    BY <1>2 DEF DisconnectRoom, AfterDisconnectRoom, StateTypeOK, roomVars, workerVars, dbVars
  <2>2. main.room \in RoomIds /\ main.fd \in Sessions \cup {NoSession}
    BY DEF StateTypeOK
  <2>3. routing' \in [Threads -> [to : Workers \cup {NO_WORKER}, event : RunnableEvents]]
    BY <1>2, <2>2, ConstantFacts, DisconnectRunnable, RouteFacts DEF DisconnectRoom
  <2> QED
    BY <1>2, <2>1, <2>3
    DEF DisconnectRoom, EventInv, PcInv, HalfWay, CountInv, roomVars, workerVars, dbVars
<1>3. CASE DisconnectLobby
  <2>1. StateTypeOK'
    BY <1>3 DEF DisconnectLobby, StateTypeOK, roomVars, workerVars, dbVars
  <2>2. main.fd \in Sessions \cup {NoSession}
    BY DEF StateTypeOK
  <2>3. routing' \in [Threads -> [to : Workers \cup {NO_WORKER}, event : RunnableEvents]]
    BY <1>3, <2>2, ConstantFacts, DisconnectRunnable, RouteFacts DEF DisconnectLobby
  <2> QED
    BY <1>3, <2>1, <2>3
    DEF DisconnectLobby, EventInv, PcInv, HalfWay, CountInv, roomVars, workerVars, dbVars
<1>4. CASE RemoveSession
  <2>1. StateTypeOK'
    BY <1>4, ConstantFacts DEF RemoveSession, MainIdle, StateTypeOK, roomVars, workerVars, dbVars
  <2> QED
    BY <1>4, <2>1 DEF RemoveSession, EventInv, PcInv, HalfWay, CountInv, roomVars, workerVars, dbVars
<1> QED
  BY <1>1, <1>2, <1>3, <1>4 DEF MainStep

\* thread_main takes the head of its queue.
LEMMA TakeEventInv ==
  ASSUME IInv, NEW w \in Workers, TakeEvent(w)
  PROVE  IInv'
<1> USE DEF TakeEvent, IInv
<1>1. StateTypeOK'
  BY DEF StateTypeOK, mainVars, roomVars, dbVars
<1>2. EventInv'
  <2>1. /\ Head(event_queue[w]) \in RunnableEvents
        /\ Tail(event_queue[w]) \in Seq(RunnableEvents)
    BY DEF EventInv
  <2> QED
    BY <2>1 DEF EventInv, dbVars
<1>3. PcInv'
  BY DEF PcInv, HalfWay, StateTypeOK, EventInv
<1>4. CountInv'
  BY DEF CountInv, roomVars
<1> QED
  BY <1>1, <1>2, <1>3, <1>4

\* The ways an event ends: its plan is done, or it is answered.
LEMMA EndInv ==
  ASSUME IInv, NEW w \in Workers, FinishEvent(w) \/ AnswerFailed(w) \/ SendResponse(w)
  PROVE  IInv'
<1>1. /\ Return(w)
      /\ UNCHANGED <<mainVars, current_room, room_to_worker, routing, event_queue, roomVars,
                     audience, dbVars>>
  BY DEF FinishEvent, AnswerFailed, SendResponse
<1>2. sent' \in [Sessions -> Seq(Packets)]
  <2>1. event[w].result_code \in Results
    BY DEF IInv, EventInv, RunnableEvents, FormedEvents, RoomEvents
  <2> QED
    BY <2>1, SendFacts DEF FinishEvent, AnswerFailed, SendResponse, IInv, StateTypeOK
<1>3. /\ event' \in [Workers -> RunnableEvents]
      /\ pc' \in [Workers -> {"wait", "run", "set_current_room", "send_message"}]
      /\ PcInv'
  BY <1>1, ReturnFacts
<1>4. StateTypeOK'
  BY <1>1, <1>2, <1>3 DEF IInv, StateTypeOK, mainVars, roomVars, dbVars
<1>5. EventInv'
  BY <1>1, <1>3 DEF IInv, EventInv, dbVars
<1>6. CountInv'
  BY <1>1 DEF IInv, CountInv, roomVars
<1> QED
  BY <1>3, <1>4, <1>5, <1>6 DEF IInv

\* REQUEST_LEAVE_ROOM routes the rest of the plan to the room's owner.
LEMMA RequestLeaveRoomInv ==
  ASSUME IInv, NEW w \in Workers, RequestLeaveRoom(w)
  PROVE  IInv'
<1>1. /\ event[w] \in RunnableEvents /\ HasNextAction(event[w]) /\ NotFailed(event[w])
      /\ NextAction(event[w]).command = "REQUEST_LEAVE_ROOM"
  BY DEF RequestLeaveRoom, At, IInv, EventInv
<1>2. event[w].result_code \in Results
  BY <1>1 DEF RunnableEvents, FormedEvents, RoomEvents
<1>3. /\ NextAction(event[w]).target_room_id \in RoomIds
      /\ Advanced(event[w], event[w].result_code) \in RunnableEvents
  BY <1>1, <1>2, NextFacts, AdvancedFacts
<1>4. routing' \in [Threads -> [to : Workers \cup {NO_WORKER}, event : RunnableEvents]]
  BY <1>3, ConstantFacts, RouteFacts DEF RequestLeaveRoom
<1>5. /\ event' \in [Workers -> RunnableEvents]
      /\ pc' \in [Workers -> {"wait", "run", "set_current_room", "send_message"}]
      /\ PcInv'
  BY ReturnFacts DEF RequestLeaveRoom
<1>6. StateTypeOK'
  BY <1>5 DEF RequestLeaveRoom, IInv, StateTypeOK, mainVars, roomVars, dbVars
<1>7. EventInv'
  BY <1>4, <1>5 DEF RequestLeaveRoom, IInv, EventInv, dbVars
<1>8. CountInv'
  BY DEF RequestLeaveRoom, IInv, CountInv, roomVars
<1> QED
  BY <1>5, <1>6, <1>7, <1>8 DEF IInv

\* A failed action that leaves the rooms alone.
LEMMA FailInv ==
  ASSUME IInv, NEW w \in Workers, NEW res \in Results, Fail(w, res), UNCHANGED roomVars,
         UNCHANGED <<mainVars, current_room, routing, event_queue, audience, dbVars>>
  PROVE  IInv'
<1>1. /\ event' \in [Workers -> RunnableEvents]
      /\ pc' \in [Workers -> {"wait", "run", "set_current_room", "send_message"}]
      /\ PcInv'
      /\ sent' \in [Sessions -> Seq(Packets)]
      /\ room_to_worker' \in [RoomIds -> Workers \cup {NO_WORKER}]
  BY FailFacts
<1>2. StateTypeOK'
  BY <1>1 DEF IInv, StateTypeOK, mainVars, roomVars, dbVars
<1>3. EventInv'
  BY <1>1 DEF IInv, EventInv, dbVars
<1>4. CountInv'
  BY DEF IInv, CountInv, roomVars
<1> QED
  BY <1>1, <1>2, <1>3, <1>4 DEF IInv

\* A step that gives one room a new map and a counter that bounds it.
LEMMA RoomUpdate ==
  ASSUME IInv, NEW w \in Workers, NEW room \in RoomIds, NEW S \in SUBSET Sessions, NEW n \in Int,
         IsFiniteSet(S), Cardinality(S) <= n, n <= Capacity(w),
         sessions' = [sessions EXCEPT ![w][room] = S],
         current_sessions' = [current_sessions EXCEPT ![w][room] = n]
  PROVE  /\ sessions' \in [Workers -> [RoomIds -> SUBSET Sessions]]
         /\ current_sessions' \in [Workers -> [RoomIds -> Int]]
         /\ CountInv'
<1>1. /\ sessions \in [Workers -> [RoomIds -> SUBSET Sessions]]
      /\ current_sessions \in [Workers -> [RoomIds -> Int]]
  BY DEF IInv, StateTypeOK
<1>2. /\ [sessions[w] EXCEPT ![room] = S] \in [RoomIds -> SUBSET Sessions]
      /\ [current_sessions[w] EXCEPT ![room] = n] \in [RoomIds -> Int]
  BY <1>1
<1>3. /\ sessions' = [sessions EXCEPT ![w] = [sessions[w] EXCEPT ![room] = S]]
      /\ current_sessions' =
           [current_sessions EXCEPT ![w] = [current_sessions[w] EXCEPT ![room] = n]]
  BY <1>1
<1>4. /\ sessions' \in [Workers -> [RoomIds -> SUBSET Sessions]]
      /\ current_sessions' \in [Workers -> [RoomIds -> Int]]
  BY <1>1, <1>2, <1>3
<1>5. ASSUME NEW v \in Workers, NEW r \in RoomIds
      PROVE  /\ IsFiniteSet(sessions'[v][r])
             /\ Cardinality(sessions'[v][r]) <= current_sessions'[v][r]
             /\ current_sessions'[v][r] <= Capacity(v)
  <2>1. CASE v = w /\ r = room
    <3>1. sessions'[v][r] = S /\ current_sessions'[v][r] = n
      BY <1>1, <2>1
    <3> QED
      BY <2>1, <3>1
  <2>2. CASE ~(v = w /\ r = room)
    <3>1. sessions'[v][r] = sessions[v][r] /\ current_sessions'[v][r] = current_sessions[v][r]
      BY <1>1, <2>2
    <3> QED
      BY <3>1 DEF IInv, CountInv
  <2> QED
    BY <2>1, <2>2
<1>6. CountInv'
  BY <1>5 DEF CountInv
<1> QED
  BY <1>4, <1>6

\* A new room starts with an empty map and a counter of zero.
LEMMA CreateRoomInv ==
  ASSUME IInv, NEW w \in Workers, CreateRoom(w)
  PROVE  IInv'
<1> DEFINE room == NextAction(event[w]).target_room_id
<1>1. /\ event[w] \in RunnableEvents /\ HasNextAction(event[w]) /\ NotFailed(event[w])
      /\ NextAction(event[w]).command = "CREATE_ROOM"
  BY DEF CreateRoom, At, IInv, EventInv
<1>2. room \in RoomIds
  BY <1>1, NextFacts
<1>3. CASE room \in rooms[w]
  BY <1>3, FailInv DEF CreateRoom, Results
<1>4. CASE room \notin rooms[w]
  <2> HIDE DEF room
  <2>1. /\ rooms' = [rooms EXCEPT ![w] = @ \cup {room}]
        /\ sessions' = [sessions EXCEPT ![w][room] = {}]
        /\ current_sessions' = [current_sessions EXCEPT ![w][room] = 0]
        /\ Continue(w, "Success")
        /\ UNCHANGED <<mainVars, current_room, room_to_worker, routing, event_queue, audience,
                       dbVars, sent>>
    BY <1>4 DEF CreateRoom, room
  <2>2. /\ event' \in [Workers -> RunnableEvents]
        /\ pc' \in [Workers -> {"wait", "run", "set_current_room", "send_message"}]
        /\ PcInv'
    BY <1>1, <2>1, ContinueFacts DEF Results
  <2>3. /\ sessions' \in [Workers -> [RoomIds -> SUBSET Sessions]]
        /\ current_sessions' \in [Workers -> [RoomIds -> Int]]
        /\ CountInv'
    <3>1. /\ {} \in SUBSET Sessions /\ 0 \in Int /\ IsFiniteSet({})
          /\ Cardinality({}) <= 0 /\ 0 <= Capacity(w)
      BY FS_EmptySet, ConstantFacts
    <3> QED
      BY <1>2, <2>1, <3>1, RoomUpdate
  <2>4. rooms' \in [Workers -> SUBSET RoomIds]
    BY <1>2, <2>1 DEF IInv, StateTypeOK
  <2>5. StateTypeOK'
    BY <2>1, <2>2, <2>3, <2>4 DEF IInv, StateTypeOK, mainVars, dbVars
  <2>6. EventInv'
    BY <2>1, <2>2 DEF IInv, EventInv, dbVars
  <2> QED
    BY <2>2, <2>3, <2>5, <2>6 DEF IInv
<1> QED
  BY <1>3, <1>4

\* join_session increments the counter of a room that is not full, whether or not
\* emplace inserts the session.
LEMMA JoinRoomInv ==
  ASSUME IInv, NEW w \in Workers, JoinRoom(w)
  PROVE  IInv'
<1> DEFINE room == NextAction(event[w]).target_room_id
           s    == event[w].session
<1>1. /\ event[w] \in RunnableEvents /\ HasNextAction(event[w]) /\ NotFailed(event[w])
      /\ NextAction(event[w]).command = "JOIN_ROOM"
  BY DEF JoinRoom, At, IInv, EventInv
<1>2. room \in RoomIds /\ s \in Sessions
  BY <1>1, NextFacts
<1>3. CASE room \notin rooms[w] \/ Full(w, room)
  BY <1>3, FailInv DEF JoinRoom, Results
<1>4. CASE room \in rooms[w] /\ ~Full(w, room)
  <2>1. /\ join_session(w, s, room)
        /\ IF s \in Users
             THEN /\ pc' = [pc EXCEPT ![w] = "set_current_room"]
                  /\ UNCHANGED <<event, room_to_worker, sent>>
             ELSE Fail(w, "UserNotFound")
        /\ UNCHANGED <<mainVars, current_room, routing, event_queue, audience, dbVars>>
    BY <1>4 DEF JoinRoom
  <2>2. At(w, "JOIN_ROOM")
    BY DEF JoinRoom
  <2> HIDE DEF room, s
  <2>3. /\ sessions' \in [Workers -> [RoomIds -> SUBSET Sessions]]
        /\ current_sessions' \in [Workers -> [RoomIds -> Int]]
        /\ CountInv'
    <3> DEFINE S == sessions[w][room] \cup {s}
               n == current_sessions[w][room] + 1
    <3>1. /\ sessions[w][room] \in SUBSET Sessions /\ current_sessions[w][room] \in Int
          /\ IsFiniteSet(sessions[w][room])
          /\ Cardinality(sessions[w][room]) <= current_sessions[w][room]
      BY <1>2 DEF IInv, StateTypeOK, CountInv
    <3>2. Cardinality(sessions[w][room]) \in Nat
      BY <3>1, FS_CardinalityType
    <3>3. IsFiniteSet(S) /\ Cardinality(S) <= n
      <4>1. /\ IsFiniteSet(S)
            /\ \/ Cardinality(S) = Cardinality(sessions[w][room])
               \/ Cardinality(S) = Cardinality(sessions[w][room]) + 1
        <5> HIDE DEF n
        <5> QED
          BY <3>1, FS_AddElement
      <4> HIDE DEF S
      <4> QED
        BY <3>1, <3>2, <4>1
    <3>4. n \in Int /\ n <= Capacity(w) /\ S \in SUBSET Sessions
      BY <1>2, <1>4, <3>1, ConstantFacts DEF Full
    <3>5. /\ sessions' = [sessions EXCEPT ![w][room] = S]
          /\ current_sessions' = [current_sessions EXCEPT ![w][room] = n]
      BY <2>1 DEF join_session
    <3> HIDE DEF S, n
    <3> QED
      BY <1>2, <3>3, <3>4, <3>5, RoomUpdate
  <2>4. /\ event' \in [Workers -> RunnableEvents]
        /\ pc' \in [Workers -> {"wait", "run", "set_current_room", "send_message"}]
        /\ PcInv'
        /\ sent' \in [Sessions -> Seq(Packets)]
        /\ room_to_worker' \in [RoomIds -> Workers \cup {NO_WORKER}]
    <3>1. CASE s \in Users
      <4>1. /\ pc' = [pc EXCEPT ![w] = "set_current_room"]
            /\ UNCHANGED <<event, room_to_worker, sent>>
        BY <2>1, <3>1
      <4>2. \A v \in Workers : v # w => pc'[v] = pc[v]
        BY <4>1 DEF IInv, StateTypeOK
      <4>3. pc'[w] = "set_current_room"
        BY <4>1 DEF IInv, StateTypeOK
      <4>4. PcInv'
        BY <2>2, <4>1, <4>2, <4>3 DEF IInv, PcInv, HalfWay, At
      <4> QED
        BY <4>1, <4>4 DEF IInv, EventInv, StateTypeOK
    <3>2. CASE s \notin Users
      BY <2>1, <3>2, FailFacts DEF Results
    <3> QED
      BY <3>1, <3>2
  <2>5. StateTypeOK'
    BY <2>1, <2>3, <2>4 DEF join_session, IInv, StateTypeOK, mainVars, dbVars
  <2>6. EventInv'
    BY <2>1, <2>4 DEF IInv, EventInv, dbVars
  <2> QED
    BY <2>3, <2>4, <2>5, <2>6 DEF IInv
<1> QED
  BY <1>3, <1>4

\* The second half of join_room writes a room number.
LEMMA SetCurrentRoomInv ==
  ASSUME IInv, NEW w \in Workers, SetCurrentRoom(w)
  PROVE  IInv'
<1>1. /\ event[w] \in RunnableEvents /\ HasNextAction(event[w]) /\ NotFailed(event[w])
      /\ NextAction(event[w]).command = "JOIN_ROOM"
  BY DEF SetCurrentRoom, IInv, EventInv, PcInv, HalfWay
<1>2. NextAction(event[w]).target_room_id \in RoomIds
  BY <1>1, NextFacts
<1>3. current_room' \in [Sessions -> RoomIds]
  BY <1>2 DEF SetCurrentRoom, IInv, StateTypeOK
<1>4. /\ event' \in [Workers -> RunnableEvents]
      /\ pc' \in [Workers -> {"wait", "run", "set_current_room", "send_message"}]
      /\ PcInv'
  BY <1>1, ContinueFacts DEF SetCurrentRoom, Results
<1>5. StateTypeOK'
  BY <1>3, <1>4 DEF SetCurrentRoom, IInv, StateTypeOK, mainVars, roomVars, dbVars
<1>6. EventInv'
  BY <1>4 DEF SetCurrentRoom, IInv, EventInv, dbVars
<1>7. CountInv'
  BY DEF SetCurrentRoom, IInv, CountInv, roomVars
<1> QED
  BY <1>4, <1>5, <1>6, <1>7 DEF IInv

\* exit_session takes a session that is there out of the map and decrements the
\* counter; a vacated room loses both.
LEMMA LeaveFacts ==
  ASSUME IInv, NEW w \in Workers, NEW room \in RoomIds, NEW s \in sessions[w][room],
         leave_room(w, s, room)
  PROVE  /\ sessions' \in [Workers -> [RoomIds -> SUBSET Sessions]]
         /\ current_sessions' \in [Workers -> [RoomIds -> Int]]
         /\ rooms' \in [Workers -> SUBSET RoomIds]
         /\ room_to_worker' \in [RoomIds -> Workers \cup {NO_WORKER}]
         /\ CountInv'
<1>1. /\ rooms' \in [Workers -> SUBSET RoomIds]
      /\ room_to_worker' \in [RoomIds -> Workers \cup {NO_WORKER}]
  <2>1. /\ rooms' = [rooms EXCEPT ![w] = rooms[w] \ {room}] \/ rooms' = rooms
        /\ \/ room_to_worker' = [room_to_worker EXCEPT ![room] = NO_WORKER]
           \/ room_to_worker' = room_to_worker
    BY DEF leave_room, erase_room_to_worker
  <2>2. rooms' \in [Workers -> SUBSET RoomIds]
    <3>1. rooms \in [Workers -> SUBSET RoomIds]
      BY DEF IInv, StateTypeOK
    <3>2. rooms[w] \ {room} \in SUBSET RoomIds
      BY <3>1
    <3> QED
      BY <2>1, <3>1, <3>2
  <2>3. room_to_worker' \in [RoomIds -> Workers \cup {NO_WORKER}]
    BY <2>1 DEF IInv, StateTypeOK
  <2> QED
    BY <2>2, <2>3
<1>2. CASE Vacated(w, room)
  <2>1. /\ sessions' = [sessions EXCEPT ![w][room] = {}]
        /\ current_sessions' = [current_sessions EXCEPT ![w][room] = 0]
    BY <1>2 DEF leave_room
  <2>2. /\ {} \in SUBSET Sessions /\ 0 \in Int /\ IsFiniteSet({})
        /\ Cardinality({}) <= 0 /\ 0 <= Capacity(w)
    BY FS_EmptySet, ConstantFacts
  <2> QED
    BY <1>1, <2>1, <2>2, RoomUpdate
<1>3. CASE ~Vacated(w, room)
  <2> DEFINE S == sessions[w][room] \ {s}
             n == current_sessions[w][room] - 1
  <2>1. /\ sessions[w][room] \in SUBSET Sessions /\ current_sessions[w][room] \in Int
        /\ IsFiniteSet(sessions[w][room])
        /\ Cardinality(sessions[w][room]) <= current_sessions[w][room]
        /\ current_sessions[w][room] <= Capacity(w)
    BY DEF IInv, StateTypeOK, CountInv
  <2>2. Cardinality(sessions[w][room]) \in Nat
    BY <2>1, FS_CardinalityType
  <2>3. IsFiniteSet(S) /\ Cardinality(S) = Cardinality(sessions[w][room]) - 1
    BY <2>1, FS_RemoveElement
  <2>4. S \in SUBSET Sessions /\ n \in Int /\ Cardinality(S) <= n /\ n <= Capacity(w)
    BY <2>1, <2>2, <2>3, ConstantFacts
  <2>5. /\ sessions' = [sessions EXCEPT ![w][room] = S]
        /\ current_sessions' = [current_sessions EXCEPT ![w][room] = n]
    BY <1>3 DEF leave_room
  <2> HIDE DEF S, n
  <2> QED
    BY <1>1, <2>3, <2>4, <2>5, RoomUpdate
<1> QED
  BY <1>2, <1>3

\* LEAVE_ROOM leaves, or answers that there is nothing to leave.
LEMMA LeaveRoomInv ==
  ASSUME IInv, NEW w \in Workers, LeaveRoom(w)
  PROVE  IInv'
<1> DEFINE room == NextAction(event[w]).target_room_id
           s    == event[w].session
<1>1. /\ event[w] \in RunnableEvents /\ HasNextAction(event[w]) /\ NotFailed(event[w])
      /\ NextAction(event[w]).command = "LEAVE_ROOM"
  BY DEF LeaveRoom, At, IInv, EventInv
<1>2. room \in RoomIds
  BY <1>1, NextFacts
<1>3. CASE LeaveResult(w, s, room) # "Success"
  <2>1. LeaveResult(w, s, room) \in Results
    BY DEF LeaveResult, Results
  <2> QED
    BY <1>3, <2>1, FailInv DEF LeaveRoom
<1>4. CASE LeaveResult(w, s, room) = "Success"
  <2>1. /\ leave_room(w, s, room) /\ Continue(w, "Success")
        /\ UNCHANGED <<mainVars, current_room, routing, event_queue, audience, dbVars, sent>>
    BY <1>4 DEF LeaveRoom
  <2>2. s \in sessions[w][room]
    BY <1>4 DEF LeaveResult
  <2> HIDE DEF room, s
  <2>3. /\ event' \in [Workers -> RunnableEvents]
        /\ pc' \in [Workers -> {"wait", "run", "set_current_room", "send_message"}]
        /\ PcInv'
    BY <1>1, <2>1, ContinueFacts DEF Results
  <2>4. /\ sessions' \in [Workers -> [RoomIds -> SUBSET Sessions]]
        /\ current_sessions' \in [Workers -> [RoomIds -> Int]]
        /\ rooms' \in [Workers -> SUBSET RoomIds]
        /\ room_to_worker' \in [RoomIds -> Workers \cup {NO_WORKER}]
        /\ CountInv'
    BY <1>2, <2>1, <2>2, LeaveFacts
  <2>5. StateTypeOK'
    BY <2>1, <2>3, <2>4 DEF IInv, StateTypeOK, mainVars, dbVars
  <2>6. EventInv'
    BY <2>1, <2>3 DEF IInv, EventInv, dbVars
  <2> QED
    BY <2>3, <2>4, <2>5, <2>6 DEF IInv
<1> QED
  BY <1>3, <1>4

\* A disconnect takes the session out of a room that holds it, if there is one.
LEMMA DisconnectSessionInv ==
  ASSUME IInv, NEW w \in Workers, DisconnectSession(w)
  PROVE  IInv'
<1> DEFINE room == NextAction(event[w]).target_room_id
           s    == event[w].fd
           held == {r \in rooms[w] : s \in sessions[w][r]}
<1>1. /\ Return(w)
      /\ UNCHANGED <<mainVars, current_room, routing, event_queue, audience, dbVars, sent>>
      /\ \/ \E r \in Disconnects(held, room) : leave_room(w, s, r)
         \/ held = {} /\ UNCHANGED <<roomVars, room_to_worker>>
  BY DEF DisconnectSession
<1>2. \A r \in Disconnects(held, room) : r \in RoomIds /\ s \in sessions[w][r]
  BY DEF Disconnects, IInv, StateTypeOK
<1> HIDE DEF room, s, held
<1>3. /\ event' \in [Workers -> RunnableEvents]
      /\ pc' \in [Workers -> {"wait", "run", "set_current_room", "send_message"}]
      /\ PcInv'
  BY <1>1, ReturnFacts
<1>4. /\ sessions' \in [Workers -> [RoomIds -> SUBSET Sessions]]
      /\ current_sessions' \in [Workers -> [RoomIds -> Int]]
      /\ rooms' \in [Workers -> SUBSET RoomIds]
      /\ room_to_worker' \in [RoomIds -> Workers \cup {NO_WORKER}]
      /\ CountInv'
  <2>1. CASE \E r \in Disconnects(held, room) : leave_room(w, s, r)
    BY <1>2, <2>1, LeaveFacts
  <2>2. CASE UNCHANGED <<roomVars, room_to_worker>>
    BY <2>2 DEF IInv, StateTypeOK, CountInv, roomVars
  <2> QED
    BY <1>1, <2>1, <2>2
<1>5. StateTypeOK'
  BY <1>1, <1>3, <1>4 DEF IInv, StateTypeOK, mainVars, dbVars
<1>6. EventInv'
  BY <1>1, <1>3 DEF IInv, EventInv, dbVars
<1> QED
  BY <1>3, <1>4, <1>5, <1>6 DEF IInv

\* send_message fixes its audience, or answers that the room is gone.
LEMMA SendMessageInv ==
  ASSUME IInv, NEW w \in Workers, SendMessage(w)
  PROVE  IInv'
<1> DEFINE room == NextAction(event[w]).target_room_id
           s    == event[w].session
<1>1. /\ event[w] \in RunnableEvents /\ HasNextAction(event[w]) /\ NotFailed(event[w])
      /\ NextAction(event[w]).command = "SEND_MESSAGE"
  BY DEF SendMessage, At, IInv, EventInv
<1>2. room \in RoomIds /\ s \in Sessions
  BY <1>1, NextFacts
<1>3. CASE room \notin rooms[w]
  BY <1>3, FailInv DEF SendMessage, Results
<1>4. CASE room \in rooms[w]
  <2>1. /\ audience' = [audience EXCEPT ![w] =
                          [to |-> sessions[w][room] \ {s}, sender |-> get_user_id(s)]]
        /\ pc' = [pc EXCEPT ![w] = "send_message"]
        /\ UNCHANGED <<event, room_to_worker, sent, mainVars, current_room, routing,
                       event_queue, roomVars, dbVars>>
    BY <1>4 DEF SendMessage
  <2> HIDE DEF room, s
  <2>2. /\ sessions[w][room] \ {s} \in SUBSET Sessions
        /\ get_user_id(s) \in Sessions \cup {NoSession}
    BY <1>2 DEF IInv, StateTypeOK, get_user_id
  <2>3. StateTypeOK'
    BY <2>1, <2>2 DEF IInv, StateTypeOK, mainVars, roomVars, dbVars
  <2>4. EventInv'
    BY <2>1 DEF IInv, EventInv, dbVars
  <2>5. PcInv'
    <3>1. \A v \in Workers : v # w => pc'[v] = pc[v]
      BY <2>1 DEF IInv, StateTypeOK
    <3>2. pc'[w] = "send_message"
      BY <2>1 DEF IInv, StateTypeOK
    <3> QED
      BY <1>1, <2>1, <3>1, <3>2 DEF IInv, PcInv, HalfWay
  <2>6. CountInv'
    BY <2>1 DEF IInv, CountInv, roomVars
  <2> QED
    BY <2>3, <2>4, <2>5, <2>6 DEF IInv
<1> QED
  BY <1>3, <1>4

\* One visit of send_message: a broadcast from a user, to a member of the audience.
LEMMA SendToInv ==
  ASSUME IInv, NEW w \in Workers, NEW s \in Sessions, SendTo(w, s)
  PROVE  IInv'
<1> DEFINE room == NextAction(event[w]).target_room_id
           p    == Broadcast(audience[w].sender, room)
<1>1. /\ event[w] \in RunnableEvents /\ HasNextAction(event[w]) /\ NotFailed(event[w])
      /\ NextAction(event[w]).command = "SEND_MESSAGE"
  BY DEF SendTo, IInv, EventInv, PcInv, HalfWay
<1>2. room \in RoomIds
  BY <1>1, NextFacts
<1>3. audience[w].sender \in Sessions \cup {NoSession}
  BY DEF IInv, StateTypeOK
<1>4. p \in Packets
  BY <1>2, <1>3 DEF Broadcast, Packets, Broadcasts
<1>5. sent \in [Sessions -> Seq(Packets)]
  BY DEF IInv, StateTypeOK
<1>6. sent' = [sent EXCEPT ![s] = Append(sent[s], p)] \/ sent' = sent
  BY DEF SendTo
<1> HIDE DEF room, p
<1>7. sent' \in [Sessions -> Seq(Packets)]
  <2>1. [sent EXCEPT ![s] = Append(sent[s], p)] \in [Sessions -> Seq(Packets)]
    BY <1>4, <1>5, AppendAt
  <2> QED
    BY <1>5, <1>6, <2>1
<1>8. audience' \in [Workers -> [to : SUBSET Sessions, sender : Sessions \cup {NoSession}]]
  BY DEF SendTo, IInv, StateTypeOK
<1>9. StateTypeOK'
  BY <1>7, <1>8 DEF SendTo, IInv, StateTypeOK, mainVars, roomVars, dbVars
<1> QED
  BY <1>9 DEF SendTo, IInv, EventInv, PcInv, HalfWay, CountInv, roomVars, dbVars

\* The end of send_message.
LEMMA SentToAllInv ==
  ASSUME IInv, NEW w \in Workers, SentToAll(w)
  PROVE  IInv'
<1>1. /\ HasNextAction(event[w]) /\ NotFailed(event[w])
      /\ NextAction(event[w]).command = "SEND_MESSAGE"
  BY DEF SentToAll, IInv, PcInv, HalfWay
<1>2. /\ event' \in [Workers -> RunnableEvents]
      /\ pc' \in [Workers -> {"wait", "run", "set_current_room", "send_message"}]
      /\ PcInv'
  BY <1>1, ContinueFacts DEF SentToAll, Results
<1>3. StateTypeOK'
  BY <1>2 DEF SentToAll, NoAudience, IInv, StateTypeOK, mainVars, roomVars, dbVars
<1>4. EventInv'
  BY <1>2 DEF SentToAll, IInv, EventInv, dbVars
<1>5. CountInv'
  BY DEF SentToAll, IInv, CountInv, roomVars
<1> QED
  BY <1>2, <1>3, <1>4, <1>5 DEF IInv

\* A job that carries a well formed event, and knows its room where the database
\* thread will look for it, may be queued.
LEMMA JobFacts ==
  ASSUME IInv, NEW type \in JobTypes, NEW e \in FormedEvents,
         NEW room \in RoomIds \cup {PENDING_ROOM_ID, NO_ROOM},
         NEW sender \in Sessions \cup {NoSession},
         type = "LoadHistory" => /\ Resolved(e)
                                 /\ e.current_action > 0
                                 /\ LastAction(e).command = "REQUEST_DB_LOAD_MESSAGE",
         type = "SaveMessage" => room \in RoomIds,
         post_job(type, e, room, sender)
  PROVE  job_queue' \in Seq(RunnableJobs)
<1> DEFINE j == [type |-> type, event |-> e, room |-> room, sender |-> sender]
<1>1. j \in RunnableJobs
  BY DEF RunnableJobs, Jobs, FormedEvents
<1>2. job_queue' = Append(job_queue, j)
  BY DEF post_job
<1> HIDE DEF j
<1> QED
  BY <1>1, <1>2 DEF IInv, EventInv

\* The two requests that hand their event to the database thread.
LEMMA RequestDbInv ==
  ASSUME IInv, NEW w \in Workers, RequestDbCreateRoom(w) \/ RequestDbLoadMessage(w)
  PROVE  IInv'
<1> DEFINE f == Advanced(event[w], event[w].result_code)
           room == NextAction(event[w]).target_room_id
<1>1. event[w] \in RunnableEvents /\ HasNextAction(event[w]) /\ NotFailed(event[w])
  BY DEF RequestDbCreateRoom, RequestDbLoadMessage, At, IInv, EventInv
<1>2. event[w].result_code \in Results
  BY <1>1 DEF RunnableEvents, FormedEvents, RoomEvents
<1>3. /\ f \in FormedEvents /\ f.current_action = event[w].current_action + 1
      /\ LastAction(f) = NextAction(event[w])
      /\ Resolved(event[w]) => Resolved(f)
  BY <1>1, <1>2, AdvancedFacts
<1>4. /\ Return(w)
      /\ UNCHANGED <<mainVars, current_room, room_to_worker, routing, event_queue, roomVars,
                     audience, room_seq, messages, sent>>
  BY DEF RequestDbCreateRoom, RequestDbLoadMessage, post_job
<1>5. job_queue' \in Seq(RunnableJobs)
  <2>1. CASE RequestDbCreateRoom(w)
    <3>1. post_job("CreateRoom", f, NO_ROOM, NoSession)
      BY <2>1 DEF RequestDbCreateRoom
    <3> HIDE DEF f
    <3> QED
      BY <1>3, <3>1, JobFacts DEF JobTypes
  <2>2. CASE RequestDbLoadMessage(w)
    <3>1. post_job("LoadHistory", f, room, NoSession)
      BY <2>2 DEF RequestDbLoadMessage
    <3>2. NextAction(event[w]).command = "REQUEST_DB_LOAD_MESSAGE"
      BY <2>2 DEF RequestDbLoadMessage, At
    <3>3. room \in RoomIds /\ Resolved(event[w])
      BY <1>1, <3>2, NextFacts
    <3>4. event[w].current_action \in Nat
      BY <1>1 DEF RunnableEvents, FormedEvents, RoomEvents
    <3> HIDE DEF f, room
    <3>5. /\ f.current_action > 0 /\ Resolved(f)
          /\ LastAction(f).command = "REQUEST_DB_LOAD_MESSAGE"
      BY <1>3, <3>2, <3>3, <3>4
    <3> QED
      BY <1>3, <3>1, <3>3, <3>5, JobFacts DEF JobTypes
  <2> QED
    BY <2>1, <2>2
<1>6. /\ event' \in [Workers -> RunnableEvents]
      /\ pc' \in [Workers -> {"wait", "run", "set_current_room", "send_message"}]
      /\ PcInv'
  BY <1>4, ReturnFacts
<1>7. StateTypeOK'
  BY <1>4, <1>6 DEF IInv, StateTypeOK, mainVars, roomVars
<1>8. EventInv'
  BY <1>4, <1>5, <1>6 DEF IInv, EventInv
<1>9. CountInv'
  BY <1>4 DEF IInv, CountInv, roomVars
<1> QED
  BY <1>6, <1>7, <1>8, <1>9 DEF IInv

\* SAVE_MESSAGE queues a job for a real room and goes on.
LEMMA SaveMessageInv ==
  ASSUME IInv, NEW w \in Workers, SaveMessage(w)
  PROVE  IInv'
<1> DEFINE room   == NextAction(event[w]).target_room_id
           sender == get_user_id(event[w].session)
<1>1. /\ event[w] \in RunnableEvents /\ HasNextAction(event[w]) /\ NotFailed(event[w])
      /\ NextAction(event[w]).command = "SAVE_MESSAGE"
  BY DEF SaveMessage, At, IInv, EventInv
<1>2. room \in RoomIds
  BY <1>1, NextFacts
<1>3. sender \in Sessions \cup {NoSession}
  BY <1>1, NextFacts DEF get_user_id
<1>4. EmptyEvent \in FormedEvents
  BY EmptyRunnable DEF RunnableEvents
<1>5. post_job("SaveMessage", EmptyEvent, room, sender)
  BY DEF SaveMessage
<1>6. /\ Continue(w, event[w].result_code)
      /\ UNCHANGED <<mainVars, current_room, room_to_worker, routing, event_queue, roomVars,
                     audience, room_seq, messages, sent>>
  BY DEF SaveMessage, post_job
<1> HIDE DEF room, sender
<1>7. job_queue' \in Seq(RunnableJobs)
  BY <1>2, <1>3, <1>4, <1>5, JobFacts DEF JobTypes
<1>8. event[w].result_code \in Results
  BY <1>1 DEF RunnableEvents, FormedEvents, RoomEvents
<1>9. /\ event' \in [Workers -> RunnableEvents]
      /\ pc' \in [Workers -> {"wait", "run", "set_current_room", "send_message"}]
      /\ PcInv'
  BY <1>1, <1>6, <1>8, ContinueFacts
<1>10. StateTypeOK'
  BY <1>6, <1>9 DEF IInv, StateTypeOK, mainVars, roomVars
<1>11. EventInv'
  BY <1>6, <1>7, <1>9 DEF IInv, EventInv
<1>12. CountInv'
  BY <1>6 DEF IInv, CountInv, roomVars
<1> QED
  BY <1>9, <1>10, <1>11, <1>12 DEF IInv

-----------------------------------------------------------------------------
\* What the database thread finds at the head of its queue.
LEMMA TakeJobFacts ==
  ASSUME IInv, NEW type, TakeJob(type)
  PROVE  /\ Head(job_queue) \in RunnableJobs
         /\ Head(job_queue).type = type
         /\ job_queue' \in Seq(RunnableJobs)
<1>1. job_queue \in Seq(RunnableJobs) /\ job_queue # << >>
  BY DEF IInv, EventInv, TakeJob
<1> QED
  BY <1>1 DEF TakeJob

\* The callback of a creation fills in the number and routes the event to the new owner.
LEMMA DbCreateRoomInv ==
  ASSUME IInv, DbCreateRoom
  PROVE  IInv'
<1> DEFINE e == Head(job_queue).event
           f == resolve_room_id(e, room_seq)
           g == [f EXCEPT !.result_code = "Success", !.response_data = RoomIdBody(room_seq)]
<1>1. e \in FormedEvents /\ job_queue' \in Seq(RunnableJobs)
  BY TakeJobFacts DEF DbCreateRoom, RunnableJobs
<1>2. /\ room_seq \in RoomIds
      /\ room_seq' \in FIRST_ROOM_ID..LastRoomId + 1
  BY IssuedFacts DEF DbCreateRoom, nextval, IInv, StateTypeOK
<1>3. PICK w \in RoomWorkers :
        /\ bind_room_worker(room_seq, w)
        /\ routing' = [routing EXCEPT ![DB_THREAD] = [to |-> w, event |-> g]]
  BY DEF DbCreateRoom
<1>4. UNCHANGED <<mainVars, current_room, event_queue, roomVars, workerVars, messages, sent>>
  BY DEF DbCreateRoom
<1> HIDE DEF e
<1>5. f \in FormedEvents /\ Resolved(f)
  BY <1>1, <1>2, ResolveFacts
<1> HIDE DEF f
<1>6. g \in RunnableEvents
  <2>1. g \in RoomEvents
    BY <1>2, <1>5 DEF FormedEvents, RoomEvents, Results, Bodies, RoomIdBody
  <2>2. /\ g.actions = f.actions /\ g.current_action = f.current_action
        /\ g.session = f.session
    BY <1>5 DEF FormedEvents, RoomEvents
  <2> HIDE DEF g
  <2> QED
    BY <1>5, <2>1, <2>2, CallbackFacts
<1> HIDE DEF g
<1>7. w \in Workers
  BY <1>3, ConstantFacts
<1>8. routing' \in [Threads -> [to : Workers \cup {NO_WORKER}, event : RunnableEvents]]
  BY <1>3, <1>6, <1>7 DEF IInv, EventInv
<1>9. room_to_worker' \in [RoomIds -> Workers \cup {NO_WORKER}]
  BY <1>3, <1>7 DEF bind_room_worker, IInv, StateTypeOK
<1>10. StateTypeOK'
  BY <1>2, <1>4, <1>9 DEF IInv, StateTypeOK, mainVars, roomVars, workerVars
<1>11. EventInv'
  BY <1>1, <1>4, <1>8 DEF IInv, EventInv, workerVars
<1>12. PcInv' /\ CountInv'
  BY <1>4 DEF IInv, PcInv, HalfWay, CountInv, roomVars, workerVars
<1> QED
  BY <1>10, <1>11, <1>12 DEF IInv

\* The callback of a failed creation marks the event failed and posts it to the lobby.
LEMMA DbCreateRoomFailsInv ==
  ASSUME IInv, DbCreateRoomFails
  PROVE  IInv'
<1> DEFINE e == Head(job_queue).event
           g == [e EXCEPT !.result_code = "DBError"]
<1>1. e \in FormedEvents /\ job_queue' \in Seq(RunnableJobs)
  BY TakeJobFacts DEF DbCreateRoomFails, RunnableJobs
<1>2. post_event(LOBBY_WORKER_ID, g)
  BY DEF DbCreateRoomFails
<1> HIDE DEF e
<1>3. g \in RunnableEvents
  <2>1. g \in RoomEvents /\ ~NotFailed(g)
    BY <1>1 DEF FormedEvents, RoomEvents, Results, NotFailed
  <2>2. /\ g.actions = e.actions /\ g.current_action = e.current_action
        /\ g.session = e.session
    BY <1>1 DEF FormedEvents, RoomEvents
  <2> HIDE DEF g
  <2> QED
    BY <1>1, <2>1, <2>2, CallbackFacts
<1> HIDE DEF g
<1>4. event_queue' \in [Workers -> Seq(RunnableEvents)]
  BY <1>2, <1>3, PostFacts
<1>5. StateTypeOK'
  BY DEF DbCreateRoomFails, IInv, StateTypeOK, mainVars, roomVars, workerVars
<1>6. EventInv'
  BY <1>1, <1>4 DEF DbCreateRoomFails, IInv, EventInv, workerVars
<1>7. PcInv' /\ CountInv'
  BY DEF DbCreateRoomFails, IInv, PcInv, HalfWay, CountInv, roomVars, workerVars
<1> QED
  BY <1>5, <1>6, <1>7 DEF IInv

\* The callback of a history query routes the event back by the room it was loaded for.
LEMMA DbLoadHistoryInv ==
  ASSUME IInv, DbLoadHistory
  PROVE  IInv'
<1> DEFINE e == Head(job_queue).event
           g == [e EXCEPT !.result_code = "Success", !.response_data = HistoryBody]
           h == [e EXCEPT !.result_code = "DBError"]
           room == LastAction(e).target_room_id
<1>1. /\ job_queue' \in Seq(RunnableJobs)
      /\ e \in FormedEvents /\ Resolved(e) /\ e.current_action > 0
      /\ LastAction(e).command = "REQUEST_DB_LOAD_MESSAGE"
  BY TakeJobFacts DEF DbLoadHistory, RunnableJobs
<1>2. route_event(DB_THREAD, g, room) \/ route_event(DB_THREAD, h, room)
  BY DEF DbLoadHistory
<1> HIDE DEF e
<1>3. room \in RoomIds
  <2>1. e \in RoomEvents /\ Formed(e)
    BY <1>1 DEF FormedEvents
  <2>2. e.actions \in Seq(RoomActions) /\ e.current_action \in Nat
    BY <2>1 DEF RoomEvents
  <2>3. e.current_action \in DOMAIN e.actions
    BY <1>1, <2>1, <2>2 DEF Formed
  <2>4. /\ LastAction(e) \in RoomActions
        /\ room # PENDING_ROOM_ID /\ room # NO_ROOM
    BY <1>1, <2>1, <2>2, <2>3 DEF LastAction, Formed, Resolved
  <2> QED
    BY <2>4 DEF RoomActions
<1>4. g \in RunnableEvents /\ h \in RunnableEvents
  <2>1. g \in RoomEvents /\ h \in RoomEvents
    BY <1>1 DEF FormedEvents, RoomEvents, Results, Bodies, HistoryBody
  <2>2. /\ g.actions = e.actions /\ g.current_action = e.current_action /\ g.session = e.session
        /\ h.actions = e.actions /\ h.current_action = e.current_action /\ h.session = e.session
    BY <1>1 DEF FormedEvents, RoomEvents
  <2> HIDE DEF g, h
  <2> QED
    BY <1>1, <2>1, <2>2, CallbackFacts
<1> HIDE DEF g, h, room
<1>5. routing' \in [Threads -> [to : Workers \cup {NO_WORKER}, event : RunnableEvents]]
  BY <1>2, <1>3, <1>4, ConstantFacts, RouteFacts
<1>6. StateTypeOK'
  BY DEF DbLoadHistory, IInv, StateTypeOK, mainVars, roomVars, workerVars
<1>7. EventInv'
  BY <1>1, <1>5 DEF DbLoadHistory, IInv, EventInv, workerVars
<1>8. PcInv' /\ CountInv'
  BY DEF DbLoadHistory, IInv, PcInv, HalfWay, CountInv, roomVars, workerVars
<1> QED
  BY <1>6, <1>7, <1>8 DEF IInv

\* A saved message is a row for a real room.
LEMMA DbSaveMessageInv ==
  ASSUME IInv, DbSaveMessage
  PROVE  IInv'
<1> DEFINE row == [room_id |-> Head(job_queue).room, sender_id |-> Head(job_queue).sender]
           Rows == [room_id : RoomIds, sender_id : Sessions \cup {NoSession}]
<1>1. job_queue' \in Seq(RunnableJobs) /\ row \in Rows
  BY TakeJobFacts DEF DbSaveMessage, RunnableJobs, Jobs
<1>2. messages' = Append(messages, row) \/ messages' = messages
  BY DEF DbSaveMessage
<1>3. messages \in Seq(Rows)
  BY DEF IInv, StateTypeOK
<1> HIDE DEF row, Rows
<1>4. messages' \in Seq(Rows)
  BY <1>1, <1>2, <1>3
<1>5. StateTypeOK'
  BY <1>4 DEF Rows, DbSaveMessage, IInv, StateTypeOK, mainVars, roomVars, workerVars
<1>6. EventInv'
  BY <1>1 DEF DbSaveMessage, IInv, EventInv, workerVars
<1>7. PcInv' /\ CountInv'
  BY DEF DbSaveMessage, IInv, PcInv, HalfWay, CountInv, roomVars, workerVars
<1> QED
  BY <1>5, <1>6, <1>7 DEF IInv

-----------------------------------------------------------------------------
(***************************************************************************)
(* The theorems.                                                           *)
(***************************************************************************)
\* Every step of a worker keeps the invariant.
LEMMA WorkerStepInv ==
  ASSUME IInv, NEW w \in Workers, WorkerStep(w)
  PROVE  IInv'
BY TakeEventInv, EndInv, RequestLeaveRoomInv, CreateRoomInv, JoinRoomInv, SetCurrentRoomInv,
   LeaveRoomInv, DisconnectSessionInv, SendMessageInv, SentToAllInv, SaveMessageInv,
   RequestDbInv, SendToInv
DEF WorkerStep

\* Every step but the reading of a packet keeps the invariant.
LEMMA StepInv ==
  ASSUME IInv, ServerStep \/ \E s \in Sessions : AcceptClient(s) \/ CloseSession(s)
  PROVE  IInv'
<1>1. CASE MainStep \/ \E s \in Sessions : CloseSession(s)
  BY <1>1, CloseInv
<1>2. CASE \E t \in Threads : PostRouted(t)
  BY <1>2, PostRoutedInv
<1>3. CASE \E w \in Workers : WorkerStep(w)
  BY <1>3, WorkerStepInv
<1>4. CASE DbStep
  BY <1>4, DbCreateRoomInv, DbCreateRoomFailsInv, DbLoadHistoryInv, DbSaveMessageInv DEF DbStep
<1>5. CASE \E s \in Sessions : AcceptClient(s)
  BY <1>5, AcceptClientInv
<1> QED
  BY <1>1, <1>2, <1>3, <1>4, <1>5 DEF ServerStep

\* Every step of the server, with whatever its peers send, keeps the invariant.
LEMMA NextInv == IInv /\ [Next]_vars => IInv'
<1> SUFFICES ASSUME IInv, [Next]_vars PROVE IInv'
  OBVIOUS
<1>1. CASE ServerStep \/ \E s \in Sessions : AcceptClient(s) \/ CloseSession(s)
  BY <1>1, StepInv
<1>2. CASE \E s \in Sessions, req \in PeerRequests : DispatchPacket(s, req[1], req[2])
  <2>1. PICK s \in Sessions, req \in PeerRequests : DispatchPacket(s, req[1], req[2])
    BY <1>2
  <2>2. req[1] \in Commands /\ req[2] \in RoomIds
    BY PeerAssumption
  <2> QED
    BY <2>1, <2>2, DispatchPacketInv
<1>3. CASE UNCHANGED vars
  BY <1>3 DEF vars, IInv, StateTypeOK, EventInv, PcInv, HalfWay, CountInv
<1> QED
  BY <1>1, <1>2, <1>3 DEF Next

\* The inductive invariant holds in every reachable state.
LEMMA Invariance == Spec => []IInv
BY InitInv, NextInv, PTL DEF Spec

\* A runnable event is an event, in a queue as elsewhere.
LEMMA RunnableTyped == IInv => TypeOK
<1> SUFFICES ASSUME IInv PROVE EventTypeOK
  BY DEF TypeOK, IInv
<1>1. RunnableEvents \subseteq RoomEvents /\ RunnableJobs \subseteq Jobs
  BY DEF RunnableEvents, FormedEvents, RunnableJobs
<1>2. /\ Seq(RunnableEvents) \subseteq Seq(RoomEvents)
      /\ Seq(RunnableJobs) \subseteq Seq(Jobs)
  <2>1. ASSUME NEW S, NEW T, S \subseteq T, NEW q \in Seq(S)
        PROVE  q \in Seq(T)
    <3>1. q \in [1..Len(q) -> S] /\ Len(q) \in Nat
      OBVIOUS
    <3>2. q \in [1..Len(q) -> T]
      BY <2>1, <3>1
    <3> QED
      BY <3>1, <3>2
  <2> QED
    BY <1>1, <2>1
<1>3. /\ routing \in [Threads -> [to : Workers \cup {NO_WORKER}, event : RunnableEvents]]
      /\ event_queue \in [Workers -> Seq(RunnableEvents)]
      /\ event \in [Workers -> RunnableEvents]
      /\ job_queue \in Seq(RunnableJobs)
  BY DEF IInv, EventInv
<1> QED
  BY <1>1, <1>2, <1>3 DEF EventTypeOK

\* Every variable of the server keeps its type: in particular no room is ever created,
\* entered, routed or stored under the placeholder that dispatch_packet writes into
\* the plan of CREATE, because resolve_room_id runs before the plan goes on.
THEOREM TypeCorrect == Spec => []TypeOK
BY Invariance, RunnableTyped, PTL

\* A room never holds more sessions than max_sessions_, for every capacity and every
\* sequence of requests and disconnects: Room::current_sessions_ may exceed the size
\* of its map but never falls below it.
THEOREM CapacityKept == Spec => []RoomCapacity
<1>1. IInv => RoomCapacity
  BY DEF IInv, StateTypeOK, CountInv, RoomCapacity
<1> QED
  BY <1>1, Invariance, PTL

\* A worker destroys a room only when nobody but the session that leaves is in it.
THEOREM NobodyEvicted == Spec => NoEviction
<1> DEFINE Kept == \A w \in Workers : \A r \in rooms[w] :
                     r \notin rooms'[w] => Cardinality(sessions[w][r]) <= 1
<1>1. ASSUME IInv, Next PROVE Kept
  <2> SUFFICES ASSUME NEW w \in Workers, NEW r \in rooms[w], r \notin rooms'[w]
               PROVE  Cardinality(sessions[w][r]) <= 1
    OBVIOUS
  <2>1. /\ rooms \in [Workers -> SUBSET RoomIds] /\ r \in RoomIds
        /\ current_sessions[w][r] \in Int
        /\ Cardinality(sessions[w][r]) \in Nat
        /\ Cardinality(sessions[w][r]) <= current_sessions[w][r]
    BY <1>1, FS_CardinalityType DEF IInv, StateTypeOK, CountInv
  <2>2. ASSUME NEW v \in Workers, NEW s, NEW room, leave_room(v, s, room)
        PROVE  Cardinality(sessions[w][r]) <= 1
    <3>1. Vacated(v, room) /\ rooms' = [rooms EXCEPT ![v] = rooms[v] \ {room}]
      BY <2>2 DEF leave_room
    <3>2. v = w /\ room = r
      BY <2>1, <3>1
    <3>3. current_sessions[w][r] <= 1
      BY <2>1, <3>1, <3>2 DEF Vacated
    <3> QED
      BY <2>1, <3>3
  <2>3. ~UNCHANGED rooms
    OBVIOUS
  <2>4. \E v \in Workers : CreateRoom(v) \/ LeaveRoom(v) \/ DisconnectSession(v)
    <3>1. CASE MainStep \/ DbStep
      BY <2>3, <3>1
      DEF MainStep, DisconnectRoom, DisconnectLobby, RemoveSession, DbStep, DbCreateRoom,
          DbCreateRoomFails, DbLoadHistory, DbSaveMessage, roomVars
    <3>2. CASE \E t \in Threads : PostRouted(t)
      BY <2>3, <3>2 DEF PostRouted, roomVars
    <3>3. CASE \E v \in Workers : WorkerStep(v)
      <4>1. PICK v \in Workers : WorkerStep(v)
        BY <3>3
      <4>2. /\ ~JoinRoom(v) /\ ~SetCurrentRoom(v) /\ ~TakeEvent(v) /\ ~FinishEvent(v)
            /\ ~AnswerFailed(v) /\ ~SendResponse(v) /\ ~RequestLeaveRoom(v)
        BY <2>3
        DEF JoinRoom, join_session, SetCurrentRoom, TakeEvent, FinishEvent, AnswerFailed,
            SendResponse, RequestLeaveRoom, roomVars
      <4>3. /\ ~SendMessage(v) /\ ~SentToAll(v) /\ ~SaveMessage(v)
            /\ ~RequestDbCreateRoom(v) /\ ~RequestDbLoadMessage(v)
            /\ \A s \in Sessions : ~SendTo(v, s)
        BY <2>3
        DEF SendMessage, SentToAll, SaveMessage, RequestDbCreateRoom, RequestDbLoadMessage,
            SendTo, roomVars
      <4> QED
        BY <4>1, <4>2, <4>3 DEF WorkerStep
    <3>4. CASE \E s \in Sessions : AcceptClient(s) \/ CloseSession(s)
      BY <2>3, <3>4 DEF AcceptClient, CloseSession, roomVars
    <3>5. CASE \E s \in Sessions, req \in PeerRequests : DispatchPacket(s, req[1], req[2])
      BY <2>3, <3>5 DEF DispatchPacket, roomVars
    <3> QED
      BY <1>1, <3>1, <3>2, <3>3, <3>4, <3>5 DEF Next, ServerStep
  <2>5. PICK v \in Workers : CreateRoom(v) \/ LeaveRoom(v) \/ DisconnectSession(v)
    BY <2>4
  <2>6. CASE CreateRoom(v)
    <3>1. rooms' = [rooms EXCEPT ![v] = rooms[v] \cup {NextAction(event[v]).target_room_id}]
      BY <2>3, <2>6 DEF CreateRoom, roomVars
    <3> QED
      BY <2>1, <3>1
  <2>7. CASE LeaveRoom(v)
    BY <2>2, <2>3, <2>7 DEF LeaveRoom, roomVars
  <2>8. CASE DisconnectSession(v)
    BY <2>2, <2>3, <2>8 DEF DisconnectSession, roomVars
  <2> QED
    BY <2>5, <2>6, <2>7, <2>8
<1>2. IInv /\ [Next]_vars => [Kept]_vars
  BY <1>1
<1> QED
  BY <1>2, Invariance, PTL DEF Spec, NoEviction
=============================================================================
