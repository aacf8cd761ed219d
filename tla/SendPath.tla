------------------------------ MODULE SendPath ------------------------------
(***************************************************************************)
(* From Session::pack to the client's recv: the send queue of one session, *)
(* the workers that flush it, the EPOLLOUT interest they turn on and off   *)
(* through the main thread's event queue, the socket's buffer in between,  *)
(* and the file descriptor, which the next connection uses again.          *)
(*                                                                         *)
(* Packets are intervals of byte numbers.  One action is what a thread     *)
(* does between two accesses to what it shares: the mutex around the       *)
(* queue, the flag sending_, the socket.                                   *)
(*                                                                         *)
(* The kernel, modelled from how the code uses it: send takes what fits    *)
(* and fails with EAGAIN when nothing does; EPOLLOUT is edge-triggered,    *)
(* reported once when room appears after an EAGAIN, and once more whenever *)
(* EPOLL_CTL_MOD finds room.  An edge may also come with incoming data;    *)
(* nothing may depend on that, and it is left out.                         *)
(***************************************************************************)
EXTENDS Integers, Sequences

CONSTANTS
  Workers,          \* the room workers
  Home,             \* the worker of the room the user is in
  Sizes,            \* the sizes of packets
  RoomMayGo,        \* the room the user moves from may be destroyed meanwhile
  SocketSize,       \* bytes the kernel buffers for one connection
  MaxPackets,       \* bound: packets packed on one connection
  MaxConnections    \* bound: connections that use the descriptor in turn

ASSUME WorkersAssumption == Home \in Workers
ASSUME RoomAssumption    == RoomMayGo \in BOOLEAN
ASSUME SizesAssumption   == Sizes \subseteq Nat \ {0}
ASSUME SocketAssumption  == SocketSize \in Nat \ {0}
ASSUME BoundsAssumption  == MaxPackets \in Nat /\ MaxConnections \in Nat

VARIABLES
  senders,      \* the workers that send to the session; more than Home while it moves
  connection,   \* how many connections the descriptor has served
  registered,   \* the descriptor is in the epoll set, the session in its table
  refs,         \* workers whose rooms or events still hold the session
  send_queue,   \* Session::send_queue_: [at |-> first unsent byte, end |-> one past the last]
  sending,      \* Session::sending_
  pc,           \* where each worker is inside flush
  task,         \* whether it is there for send_packet or for FLUSH
  flush_events, \* FLUSH events in each worker's queue
  main_events,  \* Server::main_events_, each with the connection it was posted for
  stopped,      \* Server::run has been left by an exception
  armed,        \* EPOLLOUT is in the descriptor's interest set
  edge,         \* epoll_wait will report EPOLLOUT
  nospace,      \* the kernel owes an edge
  sock,         \* bytes in the socket's buffer
  peer,         \* the client's end: "up" or "closed"
  packets,      \* packets packed on this connection, for the bound
  packed,       \* how many bytes were packed on this connection
  got           \* the bytes of this connection the client has read, in order

sessionVars == <<send_queue, sending>>
threadVars  == <<pc, task, flush_events>>
epollVars   == <<armed, edge, nospace>>
mainVars    == <<registered, main_events, stopped>>
countVars   == <<packets, packed>>
vars == <<senders, connection, registered, refs, send_queue, sending, pc, task,
          flush_events, main_events, stopped, armed, edge, nospace, sock, peer,
          packets, packed, got>>

Buffers    == [at : Nat, end : Nat]
Tasks      == {"send_packet", "FLUSH"}
FlushResults == {"Complete", "Pending", "Error"}
MainEventTypes == {"Disconnect", "EnableEpollOut", "DisableEpollOut"}

Room == SocketSize - Len(sock)

-----------------------------------------------------------------------------
(***************************************************************************)
(* Workers.                                                                *)
(***************************************************************************)
Goto(w, label) == pc' = [pc EXCEPT ![w] = label]

\* send_packet: pack, then flush.
SendPacket(w) ==
  /\ pc[w] = "idle"
  /\ w \in refs
  /\ packets < MaxPackets
  /\ \E n \in Sizes :
       /\ send_queue' = Append(send_queue, [at |-> packed, end |-> packed + n])
       /\ packed' = packed + n
  /\ packets' = packets + 1
  /\ task' = [task EXCEPT ![w] = "send_packet"]
  /\ Goto(w, "test")
  /\ UNCHANGED <<senders, connection, mainVars, refs, sending, flush_events, epollVars,
                 sock, peer, got>>

\* mutant: cv_.wait without its predicate.
HasFlush_Spurious(w) == TRUE

HasFlush(w) == flush_events[w] > 0

\* process_event meets FLUSH.
TakeFlush(w) ==
  /\ pc[w] = "idle"
  /\ HasFlush(w)
  /\ flush_events' = [flush_events EXCEPT ![w] = @ - 1]
  /\ task' = [task EXCEPT ![w] = "FLUSH"]
  /\ Goto(w, "test")
  /\ UNCHANGED <<senders, connection, mainVars, refs, sessionVars, epollVars, sock, peer,
                 countVars, got>>

\* mutant: the flag is not looked at.
MayEnter_Always == TRUE

\* compare_exchange_strong and exchange find the flag down.
MayEnter == ~sending

\* The flag is taken at the start of flush and again at the foot of its loop.
Enter(w, label) ==
  /\ pc[w] = label
  /\ IF MayEnter
       THEN sending' = TRUE /\ Goto(w, "front")
       ELSE UNCHANGED sending /\ Goto(w, "Complete")
  /\ UNCHANGED <<senders, connection, mainVars, refs, send_queue, task, flush_events,
                 epollVars, sock, peer, countVars, got>>

\* Under the mutex: an empty queue ends flush and lowers the flag.
Front(w) ==
  /\ pc[w] = "front"
  /\ IF send_queue = << >>
       THEN sending' = FALSE /\ Goto(w, "Complete")
       ELSE UNCHANGED sending /\ Goto(w, "send")
  /\ UNCHANGED <<senders, connection, mainVars, refs, send_queue, task, flush_events,
                 epollVars, sock, peer, countVars, got>>

\* What the kernel takes of the first buffer.
Fitting(buffer) ==
  LET rest == buffer.end - buffer.at IN IF rest <= Room THEN rest ELSE Room

\* mutant: offset is not advanced after a partial send.
Sent_FromStart(buffer, n) == IF n = buffer.end - buffer.at THEN [buffer EXCEPT !.at = @ + n]
                                                           ELSE buffer

Sent(buffer, n) == [buffer EXCEPT !.at = @ + n]

\* One call of send that takes something; buffers lost with the peer go nowhere.
Send(w) ==
  LET buffer == Head(send_queue)
      n      == Fitting(buffer) IN
  /\ pc[w] = "send"
  /\ n > 0
  /\ sock' = sock \o [i \in 1..n |-> buffer.at + i - 1]
  /\ send_queue' = <<Sent(buffer, n)>> \o Tail(send_queue)
  /\ Goto(w, IF Sent(buffer, n).at = buffer.end THEN "pop" ELSE "send")
  /\ UNCHANGED <<senders, connection, mainVars, refs, sending, task, flush_events,
                 epollVars, peer, countVars, got>>

WouldBlock(w) ==
  /\ pc[w] = "send"
  /\ Room = 0
  /\ nospace' = TRUE
  /\ Goto(w, "store_Pending")
  /\ UNCHANGED <<senders, connection, mainVars, refs, sessionVars, task, flush_events,
                 armed, edge, sock, peer, countVars, got>>

SendFails(w) ==
  /\ pc[w] = "send"
  /\ peer = "closed"
  /\ Goto(w, "store_Error")
  /\ UNCHANGED <<senders, connection, mainVars, refs, sessionVars, task, flush_events,
                 epollVars, sock, peer, countVars, got>>

Pop(w) ==
  /\ pc[w] = "pop"
  /\ send_queue' = Tail(send_queue)
  /\ Goto(w, "store")
  /\ UNCHANGED <<senders, connection, mainVars, refs, sending, task, flush_events,
                 epollVars, sock, peer, countVars, got>>

\* mutant: flush ends after one buffer.
AfterStore_NoLoop(label) ==
  IF label = "store" THEN "Complete" ELSE IF label = "store_Pending" THEN "Pending" ELSE "Error"

AfterStore(label) ==
  IF label = "store" THEN "more" ELSE IF label = "store_Pending" THEN "Pending" ELSE "Error"

\* sending_.store(false), on each of the ways out of the loop's body.
Store(w) ==
  /\ pc[w] \in {"store", "store_Pending", "store_Error"}
  /\ sending' = FALSE
  /\ Goto(w, AfterStore(pc[w]))
  /\ UNCHANGED <<senders, connection, mainVars, refs, send_queue, task, flush_events,
                 epollVars, sock, peer, countVars, got>>

\* is_send_queue_empty, before the flag is tried again.
More(w) ==
  /\ pc[w] = "more"
  /\ Goto(w, IF send_queue = << >> THEN "Complete" ELSE "retest")
  /\ UNCHANGED <<senders, connection, mainVars, refs, sessionVars, task, flush_events,
                 epollVars, sock, peer, countVars, got>>

\* mutant: a FLUSH that is done leaves EPOLLOUT alone, and so does a send that is not.
Requests_NoEnable(t, res) == IF res = "Error" THEN <<"Disconnect">> ELSE << >>

\* What RoomWorker::send_packet and RoomWorker::flush ask of the main thread.
Requests(t, res) ==
  CASE res = "Error"                           -> <<"Disconnect">>
    [] res = "Pending"  /\ t = "send_packet"   -> <<"EnableEpollOut">>
    [] res = "Complete" /\ t = "FLUSH"         -> <<"DisableEpollOut">>
    [] OTHER                                   -> << >>

Report(w) ==
  LET types == Requests(task[w], pc[w]) IN
  /\ pc[w] \in FlushResults
  /\ main_events' = main_events \o
       [i \in DOMAIN types |-> [type |-> types[i], connection |-> connection]]
  /\ Goto(w, "idle")
  /\ UNCHANGED <<senders, connection, registered, stopped, refs, sessionVars, task,
                 flush_events, epollVars, sock, peer, countVars, got>>

\* DISCONNECT_SESSION has taken a closed session out of the worker's rooms, and
\* the last event that names it is done.
Release(w) ==
  /\ ~registered
  /\ pc[w] = "idle"
  /\ w \in refs
  /\ refs' = refs \ {w}
  /\ UNCHANGED <<senders, connection, mainVars, sessionVars, threadVars, epollVars, sock,
                 peer, countVars, got>>

-----------------------------------------------------------------------------
(***************************************************************************)
(* Main thread.                                                            *)
(***************************************************************************)
\* The destructor of Session has closed the descriptor.
Destroyed ==
  /\ ~registered
  /\ refs = {}
  /\ \A w \in Workers : pc[w] = "idle" /\ flush_events[w] = 0

\* accept_client, when the kernel hands out the same number again.
AcceptClient ==
  /\ ~stopped
  /\ Destroyed
  /\ connection < MaxConnections
  /\ connection' = connection + 1
  /\ registered' = TRUE
  /\ refs' = senders
  /\ send_queue' = << >> /\ sending' = FALSE
  /\ armed' = FALSE /\ edge' = FALSE /\ nospace' = FALSE
  /\ sock' = << >> /\ peer' = "up"
  /\ packets' = 0 /\ packed' = 0 /\ got' = << >>
  /\ UNCHANGED <<senders, threadVars, main_events, stopped>>

close_session ==
  /\ registered' = FALSE
  /\ armed' = FALSE /\ edge' = FALSE
  /\ UNCHANGED nospace

\* EPOLL_CTL_MOD with EPOLLOUT: reported at once if there is room.
enable_epoll_out ==
  /\ armed' = TRUE
  /\ edge' = (Room > 0)
  /\ nospace' = (Room = 0)

disable_epoll_out ==
  /\ armed' = FALSE /\ edge' = FALSE
  /\ UNCHANGED nospace

\* One round of handle_events.  epoll_ctl fails for a descriptor that is not in
\* the set; the exception ends run.
HandleEvent ==
  LET type == Head(main_events).type IN
  /\ ~stopped
  /\ main_events # << >>
  /\ main_events' = Tail(main_events)
  /\ \/ type = "Disconnect" /\ registered /\ close_session /\ UNCHANGED stopped
     \/ type = "Disconnect" /\ ~registered /\ UNCHANGED <<registered, stopped, epollVars>>
     \/ /\ type = "EnableEpollOut" /\ registered
        /\ enable_epoll_out
        /\ UNCHANGED <<registered, stopped>>
     \/ /\ type = "DisableEpollOut" /\ registered
        /\ disable_epoll_out
        /\ UNCHANGED <<registered, stopped>>
     \/ /\ type # "Disconnect" /\ ~registered
        /\ stopped' = TRUE
        /\ UNCHANGED <<registered, epollVars>>
  /\ UNCHANGED <<senders, connection, refs, sessionVars, threadVars, sock, peer, countVars, got>>

\* FLUSH goes to the worker of current_room_.  While the user moves that may be
\* either worker, or a room that has just been destroyed, and route_event drops it.
request_flush ==
  \/ \E w \in senders : flush_events' = [flush_events EXCEPT ![w] = @ + 1]
  \/ RoomMayGo /\ senders # {Home} /\ UNCHANGED flush_events

HandleEpollOut ==
  /\ ~stopped
  /\ edge
  /\ edge' = FALSE
  /\ request_flush
  /\ UNCHANGED <<senders, connection, mainVars, refs, sessionVars, pc, task, armed, nospace,
                 sock, peer, countVars, got>>

\* EPOLLRDHUP, EPOLLERR or EPOLLHUP.
HangUp ==
  /\ ~stopped
  /\ peer = "closed" /\ registered
  /\ close_session
  /\ UNCHANGED <<senders, connection, main_events, stopped, refs, sessionVars, threadVars,
                 sock, peer, countVars, got>>

-----------------------------------------------------------------------------
(***************************************************************************)
(* The client's end.  recv_all takes what is there and asks for the rest;  *)
(* reading makes room, and the kernel reports it if it owes an edge.       *)
(***************************************************************************)
recv_all ==
  /\ peer = "up"
  /\ sock # << >>
  /\ sock' = Tail(sock)
  /\ got' = Append(got, Head(sock))
  /\ edge' = (edge \/ (armed /\ nospace))
  /\ nospace' = FALSE
  /\ UNCHANGED <<senders, connection, mainVars, refs, sessionVars, threadVars, armed, peer,
                 countVars>>

ClientCloses ==
  /\ peer = "up" /\ registered
  /\ peer' = "closed"
  /\ UNCHANGED <<senders, connection, mainVars, refs, sessionVars, threadVars, epollVars,
                 sock, countVars, got>>

-----------------------------------------------------------------------------
Init ==
  /\ senders \in {S \in SUBSET Workers : Home \in S}
  /\ connection = 0 /\ registered = FALSE /\ refs = {}
  /\ send_queue = << >> /\ sending = FALSE
  /\ pc = [w \in Workers |-> "idle"]
  /\ task = [w \in Workers |-> "send_packet"]
  /\ flush_events = [w \in Workers |-> 0]
  /\ main_events = << >> /\ stopped = FALSE
  /\ armed = FALSE /\ edge = FALSE /\ nospace = FALSE
  /\ sock = << >> /\ peer = "closed"
  /\ packets = 0 /\ packed = 0 /\ got = << >>

\* A worker that has begun goes on by itself.
WorkerStep(w) ==
  \/ TakeFlush(w) \/ Enter(w, "test") \/ Front(w) \/ Send(w) \/ WouldBlock(w)
  \/ SendFails(w) \/ Pop(w) \/ Store(w) \/ More(w) \/ Enter(w, "retest") \/ Report(w)

Next ==
  \/ \E w \in Workers : SendPacket(w) \/ WorkerStep(w) \/ Release(w)
  \/ AcceptClient \/ HandleEvent \/ HandleEpollOut \/ HangUp
  \/ recv_all \/ ClientCloses

Spec == Init /\ [][Next]_vars

\* The threads run, epoll reports what is ready, and a client that is up reads.
Fairness ==
  /\ \A w \in Workers : WF_vars(WorkerStep(w))
  /\ WF_vars(HandleEvent) /\ WF_vars(HandleEpollOut) /\ WF_vars(HangUp)
  /\ WF_vars(recv_all)

FairSpec == Spec /\ Fairness

-----------------------------------------------------------------------------
(***************************************************************************)
(* Properties.                                                             *)
(***************************************************************************)
Labels == {"idle", "test", "front", "send", "pop", "store", "store_Pending",
           "store_Error", "more", "retest"} \cup FlushResults

\* The type of every variable.
TypeOK ==
  /\ senders \subseteq Workers /\ refs \subseteq Workers
  /\ connection \in 0..MaxConnections
  /\ registered \in BOOLEAN /\ sending \in BOOLEAN /\ stopped \in BOOLEAN
  /\ armed \in BOOLEAN /\ edge \in BOOLEAN /\ nospace \in BOOLEAN
  /\ send_queue \in Seq(Buffers)
  /\ pc \in [Workers -> Labels]
  /\ task \in [Workers -> Tasks]
  /\ flush_events \in [Workers -> Nat]
  /\ main_events \in Seq([type : MainEventTypes, connection : 1..MaxConnections])
  /\ sock \in Seq(Nat)
  /\ peer \in {"up", "closed"}
  /\ packets \in 0..MaxPackets /\ packed \in Nat /\ got \in Seq(Nat)

\* Between the flag going up and down.
InFlush(w) == pc[w] \in {"front", "send", "pop", "store", "store_Pending", "store_Error"}

\* The flag is a lock although it is taken in two places and put down in four: it
\* is up exactly while a worker is at the front buffer, and then one worker only.
\* The pointer into the queue that flush uses without the mutex rests on this.
OneSender ==
  /\ sending <=> \E w \in Workers : InFlush(w)
  /\ \A v, w \in Workers : InFlush(v) /\ InFlush(w) => v = w

\* Whatever workers pack and flush at the same time, and however the kernel cuts
\* the sends, the client reads the packets whole and in the order of pack.
StreamIntact == INSTANCE ByteStream WITH Sizes <- Sizes, packed <- packed, got <- got
ImplementsByteStream == StreamIntact!Spec

\* No packet is left behind: while the queue of a live session is not empty and
\* nobody is at it, a worker is on its way to it, or EPOLLOUT is on and the kernel
\* will report it, or a request to turn it on is in the main thread's queue.  It
\* is for one worker; with two, a Disable of the one can cancel the other's Enable.
NoneLeftBehind ==
  (send_queue # << >> /\ ~sending /\ registered /\ peer = "up" /\ senders = {Home}) =>
    \/ \E w \in Workers : \/ pc[w] \in {"test", "more", "retest", "Pending"}
                           \/ flush_events[w] > 0
    \/ armed /\ (edge \/ nospace)
    \/ \E i \in DOMAIN main_events : main_events[i].type = "EnableEpollOut"

\* A session that stays in its room gets everything that was packed for it, with
\* no further packet to push it: EPOLLOUT is turned on, reported, turned into a
\* FLUSH and turned off again through three threads' queues.
Delivered ==
  (senders = {Home} /\ connection = 1 /\ Len(got) < packed) ~>
    (Len(got) = packed \/ peer = "closed")

-----------------------------------------------------------------------------
(***************************************************************************)
(* What comments of the repository say and the code does not keep.         *)
(***************************************************************************)
\* FlushResult::Complete means "sent" (Session.h) and RoomWorker::flush turns
\* EPOLLOUT off on it: everything packed is read, whoever sends.
CompleteMeansSent ==
  (connection = 1 /\ Len(got) < packed) ~> (Len(got) = packed \/ peer = "closed")

\* A request to the main thread names the session it was posted for: by the time
\* it is taken, that session is registered, or it is the Disconnect of a session
\* that is gone, which close_session ignores.
RequestsMeetTheirSession ==
  [][main_events # << >> /\ main_events' = Tail(main_events) =>
       \/ registered /\ Head(main_events).connection = connection
       \/ ~registered /\ Head(main_events).type = "Disconnect"]_vars
=============================================================================
