----------------------------- MODULE ChatSystem -----------------------------
(***************************************************************************)
(* Clients and server together.  A client has connected before the run     *)
(* starts: its connection waits in the listen queue until the server       *)
(* accepts it, and what it writes meanwhile waits in the socket.           *)
(*                                                                         *)
(* Two sets say how the users behave.  A client in Hurried may send its    *)
(* first request before the lobby's worker has put the session into the    *)
(* lobby; the others give the server that time.  A client in Abrupt may    *)
(* vanish while a request waits; the others only leave by /exit, which the *)
(* client accepts when nothing waits.                                      *)
(***************************************************************************)
EXTENDS RoomServer, ChatClient

CONSTANTS Hurried, Abrupt

ASSUME BehaviourAssumption == Hurried \subseteq Sessions /\ Abrupt \subseteq Sessions

allVars == <<vars, clientVars>>

-----------------------------------------------------------------------------
\* The event accept_client posted for s has been run by the lobby's worker.
IsAccept(e, s) == e.session = s /\ e.initial_command = UNINITIALIZED

Settled(s) ==
  /\ conn[s] = "open"
  /\ ~IsAccept(event[LOBBY_WORKER_ID], s)
  /\ \A i \in DOMAIN event_queue[LOBBY_WORKER_ID] :
       ~IsAccept(event_queue[LOBBY_WORKER_ID][i], s)

\* The user types a command.  The bound counts what was read and what was written.
Request(s) ==
  /\ received[s] + Len(uplink[s]) < MaxRequests
  /\ Settled(s) \/ s \in Hurried
  /\ TypeRequest(s)
  /\ UNCHANGED vars

Exit(s) == TypeExit(s) /\ UNCHANGED vars

Vanish(s) == s \in Abrupt /\ Killed(s) /\ UNCHANGED vars

\* The client takes the next packet the server packed for it.
HandlePacket(s) ==
  /\ sent[s] # << >>
  /\ handle_packet(s, Head(sent[s]))
  /\ sent' = [sent EXCEPT ![s] = Tail(@)]
  /\ UNCHANGED <<mainVars, current_room, room_to_worker, routing, event_queue,
                 roomVars, workerVars, dbVars>>

Accept(s) == AcceptClient(s) /\ UNCHANGED clientVars

\* handle_request: on_readable returns false once the peer has closed, and the
\* packets that arrived with the FIN are dropped unread.
HandleRequest(s) ==
  /\ uplink[s] # << >>
  /\ running[s]
  /\ DispatchPacket(s, Head(uplink[s]).command, Head(uplink[s]).room_id)
  /\ uplink' = [uplink EXCEPT ![s] = Tail(@)]
  /\ UNCHANGED <<running, state_, room_id_, pending_>>

\* EPOLLRDHUP, a recv that returns 0, or a send to a closed socket.
HangUp(s) == ~running[s] /\ CloseSession(s) /\ UNCHANGED clientVars

ChatInit == Init /\ ClientInit

ChatNext ==
  \/ ServerStep /\ UNCHANGED clientVars
  \/ \E s \in Sessions :
       \/ Request(s) \/ Exit(s) \/ Vanish(s) \/ HandlePacket(s)
       \/ Accept(s) \/ HandleRequest(s) \/ HangUp(s)

ChatSpec == ChatInit /\ [][ChatNext]_allVars

\* Every thread keeps running, epoll reports every ready descriptor, and a client
\* that runs reads its socket.  Nobody has to type anything, to exit or to vanish.
Fairness ==
  /\ WF_allVars(MainStep /\ UNCHANGED clientVars)
  /\ WF_allVars(DbStep /\ UNCHANGED clientVars)
  /\ \A t \in Threads : WF_allVars(PostRouted(t) /\ UNCHANGED clientVars)
  /\ \A w \in Workers : WF_allVars(WorkerStep(w) /\ UNCHANGED clientVars)
  /\ \A s \in Sessions : /\ WF_allVars(Accept(s))
                         /\ WF_allVars(HandleRequest(s))
                         /\ WF_allVars(HangUp(s))
                         /\ WF_allVars(HandlePacket(s))

FairChatSpec == ChatSpec /\ Fairness

-----------------------------------------------------------------------------
(***************************************************************************)
(* Properties.                                                             *)
(***************************************************************************)
RoomsOf(s) ==
  {r \in RoomIds : \E w \in Workers : r \in rooms[w] /\ s \in sessions[w][r]}

\* The user knows where she is: the client shows a room and nothing is pending.
AtRest(s) == running[s] /\ pending_[s] = NoPending /\ Settled(s)

ShownRoom(s) == IF state_[s] = "LOBBY" THEN LOBBY_ROOM_ID ELSE room_id_[s]

\* A client that waits for nothing and the server agree on where the user is: the
\* session is in exactly the room the client shows, although a move is two
\* workers' actions on two rooms, with a database callback between them and the answer.
\* It is for a lobby with room for everybody and histories that can be loaded.
ViewAgreement ==
  \A s \in Sessions : AtRest(s) => RoomsOf(s) = {ShownRoom(s)}

\* User::current_room_, which send_message and close_session rely on, is then that
\* room too.
CurrentRoomAgreement ==
  \A s \in Sessions : AtRest(s) => current_room[s] = ShownRoom(s)

\* The check send_message makes on each member is a safeguard for the moment of a
\* move, as its comment says: a member it passes over is not one whose client has
\* been told that it is in the room and waits for nothing.
SkippedOnlyWhileMoving ==
  \A w \in Workers : \A s \in audience[w].to :
    LET room == NextAction(event[w]).target_room_id IN
    pc[w] = "send_message" /\ AtRest(s) /\ ShownRoom(s) = room => Receives(s, room)

\* The client never gets an answer it did not ask for, or the answer to another command.
AnswersMatch ==
  \A s \in Sessions :
    running[s] /\ sent[s] # << >> /\ IsResponse(Head(sent[s])) =>
      pending_[s] # NoPending /\ Head(sent[s]).command = pending_[s].command

\* Nothing in the server still mentions the session.
Carries(e, s) == e.session = s \/ e.fd = s

Forgotten(s) ==
  /\ conn[s] = "closed"
  /\ \A t \in Threads : ~Carries(routing[t].event, s)
  /\ \A w \in Workers :
       /\ ~Carries(event[w], s)
       /\ \A i \in DOMAIN event_queue[w] : ~Carries(event_queue[w][i], s)
  /\ \A i \in DOMAIN job_queue : ~Carries(job_queue[i].event, s)

\* Once close_session is done and every event of the session has been run, no room
\* holds it: the two DISCONNECT_SESSION events reach every room it was in.
NoGhost == \A s \in Sessions : Forgotten(s) => RoomsOf(s) = {}

\* Every request is answered, unless its client goes away first.
RequestAnswered ==
  \A s \in Sessions : pending_[s] # NoPending ~> pending_[s] = NoPending \/ ~running[s]

\* When everybody has gone, every room but the lobby is destroyed and the lobby is
\* empty, as long as no JOIN is answered DBError: a client that is told so is in the
\* room all the same, and a second JOIN counts it twice.
RoomsReclaimed ==
  (\A s \in Sessions : ~running[s]) ~>
    \A w \in Workers : \A r \in rooms[w] : r = LOBBY_ROOM_ID /\ sessions[w][r] = {}
=============================================================================
