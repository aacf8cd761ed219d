--------------------------- MODULE SendPathProofs ---------------------------
(***************************************************************************)
(* Proofs about SendPath: the flag sending_ is a lock, and whatever the    *)
(* workers and the kernel do, the client reads a stream.                   *)
(***************************************************************************)
EXTENDS SendPath, SequenceTheorems, TLAPS

-----------------------------------------------------------------------------
(***************************************************************************)
(* The invariant.                                                          *)
(***************************************************************************)
\* Before the first connection nobody holds a session and nothing is under way,
\* so that a request to the main thread names a connection that exists.
NotStarted ==
  connection = 0 =>
    /\ registered = FALSE /\ edge = FALSE /\ peer = "closed"
    /\ refs = {}
    /\ \A w \in Workers : pc[w] = "idle" /\ flush_events[w] = 0

\* The buffer flush works on is there, although the mutex is not held.
BufferAtHand ==
  \A w \in Workers : pc[w] \in {"send", "pop"} => send_queue # << >>

IInv == TypeOK /\ NotStarted /\ OneSender /\ BufferAtHand

\* The server starts without a connection, and with nobody inside flush.
LEMMA InitIInv == Init => IInv
<1> SUFFICES ASSUME Init PROVE IInv
  OBVIOUS
<1>1. TypeOK
  <2>1. /\ send_queue \in Seq(Buffers) /\ sock \in Seq(Nat)
        /\ main_events \in Seq([type : MainEventTypes, connection : 1..MaxConnections])
    BY DEF Init
  <2>2. /\ pc \in [Workers -> Labels] /\ task \in [Workers -> Tasks]
        /\ flush_events \in [Workers -> Nat]
    BY DEF Init, Labels, Tasks
  <2>3. /\ senders \subseteq Workers /\ refs \subseteq Workers
        /\ connection \in 0..MaxConnections
        /\ packets \in 0..MaxPackets /\ packed \in Nat /\ got \in Seq(Nat)
        /\ peer \in {"up", "closed"}
    BY BoundsAssumption DEF Init
  <2>4. /\ registered \in BOOLEAN /\ sending \in BOOLEAN /\ stopped \in BOOLEAN
        /\ armed \in BOOLEAN /\ edge \in BOOLEAN /\ nospace \in BOOLEAN
    BY DEF Init
  <2> QED
    BY <2>1, <2>2, <2>3, <2>4 DEF TypeOK
<1>2. NotStarted
  BY DEF Init, NotStarted
<1>3. OneSender
  BY DEF Init, OneSender, InFlush
<1>4. BufferAtHand
  BY DEF Init, BufferAtHand
<1> QED
  BY <1>1, <1>2, <1>3, <1>4 DEF IInv

\* What send_packet and flush ask of the main thread is a sequence of requests,
\* and each one carries the connection of its session.
LEMMA RequestsType ==
  ASSUME NEW t \in Tasks, NEW res \in FlushResults, NEW c \in 1..MaxConnections
  PROVE  [i \in DOMAIN Requests(t, res) |-> [type |-> Requests(t, res)[i], connection |-> c]]
           \in Seq([type : MainEventTypes, connection : 1..MaxConnections])
<1> DEFINE E == [type : MainEventTypes, connection : 1..MaxConnections]
           R == Requests(t, res)
<1>1. R = << >> \/ \E x \in MainEventTypes : R = <<x>>
  BY DEF Requests, MainEventTypes, FlushResults, Tasks
<1> HIDE DEF R
<1>2. CASE R = << >>
  <2>1. [i \in DOMAIN R |-> [type |-> R[i], connection |-> c]] = << >>
    BY <1>2
  <2> QED
    BY <2>1 DEF R
<1>3. CASE \E x \in MainEventTypes : R = <<x>>
  <2>1. PICK x \in MainEventTypes : R = <<x>>
    BY <1>3
  <2>2. [type |-> x, connection |-> c] \in E
    OBVIOUS
  <2>3. [i \in DOMAIN R |-> [type |-> R[i], connection |-> c]]
          = <<[type |-> x, connection |-> c]>>
    BY <2>1
  <2> HIDE DEF E
  <2>4. <<[type |-> x, connection |-> c]>> \in Seq(E)
    BY <2>2
  <2> QED
    BY <2>3, <2>4 DEF R, E
<1> QED
  BY <1>1, <1>2, <1>3

\* The kernel takes a whole number of bytes, no more than there are.
LEMMA FittingType ==
  ASSUME TypeOK, NEW b \in Buffers, Fitting(b) > 0
  PROVE  /\ Fitting(b) \in Nat \ {0}
         /\ Fitting(b) <= b.end - b.at
  BY SocketAssumption DEF TypeOK, Fitting, Room, Buffers

\* Whoever takes sending_ lowers it before another worker is at the front buffer.
LEMMA LockNext == TypeOK /\ OneSender /\ [Next]_vars => OneSender'
<1> SUFFICES ASSUME TypeOK, OneSender, [Next]_vars PROVE OneSender'
  OBVIOUS
<1>1. ASSUME NEW w \in Workers, SendPacket(w) PROVE OneSender'
  BY <1>1 DEF SendPacket, Goto, mainVars, epollVars, TypeOK, OneSender, InFlush
<1>2. ASSUME NEW w \in Workers, TakeFlush(w) PROVE OneSender'
  BY <1>2 DEF TakeFlush, Goto, HasFlush, mainVars, sessionVars, epollVars, countVars,
     TypeOK, OneSender, InFlush
<1>3. ASSUME NEW w \in Workers, NEW l \in {"test", "retest"}, Enter(w,
     l) PROVE OneSender'
  BY <1>3 DEF Enter, Goto, MayEnter, mainVars, epollVars, countVars, TypeOK, OneSender,
     InFlush
<1>4. ASSUME NEW w \in Workers, Front(w) PROVE OneSender'
  BY <1>4 DEF Front, Goto, mainVars, epollVars, countVars, TypeOK, OneSender, InFlush
<1>5. ASSUME NEW w \in Workers, Send(w) PROVE OneSender'
  BY <1>5 DEF Send, Goto, mainVars, epollVars, countVars, TypeOK, OneSender, InFlush
<1>6. ASSUME NEW w \in Workers, WouldBlock(w) PROVE OneSender'
  BY <1>6 DEF WouldBlock, Goto, mainVars, sessionVars, countVars, TypeOK, OneSender,
     InFlush
<1>7. ASSUME NEW w \in Workers, SendFails(w) PROVE OneSender'
  BY <1>7 DEF SendFails, Goto, mainVars, sessionVars, epollVars, countVars, TypeOK,
     OneSender, InFlush
<1>8. ASSUME NEW w \in Workers, Pop(w) PROVE OneSender'
  BY <1>8 DEF Pop, Goto, mainVars, epollVars, countVars, TypeOK, OneSender, InFlush
<1>9. ASSUME NEW w \in Workers, Store(w) PROVE OneSender'
  BY <1>9 DEF Store, Goto, AfterStore, mainVars, epollVars, countVars, TypeOK,
     OneSender, InFlush
<1>10. ASSUME NEW w \in Workers, More(w) PROVE OneSender'
  BY <1>10 DEF More, Goto, mainVars, sessionVars, epollVars, countVars, TypeOK,
     OneSender, InFlush
<1>11. ASSUME NEW w \in Workers, Report(w) PROVE OneSender'
  BY <1>11 DEF Report, Goto, FlushResults, sessionVars, TypeOK, OneSender, InFlush
<1>12. ASSUME NEW w \in Workers, Release(w) PROVE OneSender'
  BY <1>12 DEF Release, mainVars, sessionVars, threadVars, epollVars, countVars,
     TypeOK, OneSender, InFlush
<1>13. CASE AcceptClient
  BY <1>13 DEF AcceptClient, Destroyed, threadVars, TypeOK, OneSender, InFlush
<1>14. CASE HandleEvent
  BY <1>14 DEF HandleEvent, sessionVars, threadVars, countVars, TypeOK, OneSender,
     InFlush
<1>15. CASE HandleEpollOut
  BY <1>15 DEF HandleEpollOut, mainVars, sessionVars, countVars, TypeOK, OneSender,
     InFlush
<1>16. CASE HangUp
  BY <1>16 DEF HangUp, sessionVars, threadVars, countVars, TypeOK, OneSender, InFlush
<1>17. CASE recv_all
  BY <1>17 DEF recv_all, mainVars, sessionVars, threadVars, countVars, TypeOK,
     OneSender, InFlush
<1>18. CASE ClientCloses
  BY <1>18 DEF ClientCloses, mainVars, sessionVars, threadVars, epollVars, countVars,
     TypeOK, OneSender, InFlush
<1>19. CASE UNCHANGED vars
  BY <1>19 DEF vars, TypeOK, OneSender, InFlush
<1> QED
  BY <1>1, <1>2, <1>3, <1>4, <1>5, <1>6, <1>7, <1>8, <1>9, <1>10, <1>11, <1>12, <1>13,
     <1>14, <1>15, <1>16, <1>17, <1>18, <1>19 DEF Next, WorkerStep

\* Before the first accept nothing is under way.
LEMMA StartedNext == TypeOK /\ NotStarted /\ [Next]_vars => NotStarted'
<1> SUFFICES ASSUME TypeOK, NotStarted, [Next]_vars PROVE NotStarted'
  OBVIOUS
<1>1. ASSUME NEW w \in Workers, SendPacket(w) PROVE NotStarted'
  BY <1>1 DEF SendPacket, Goto, mainVars, epollVars, TypeOK, NotStarted
<1>2. ASSUME NEW w \in Workers, TakeFlush(w) PROVE NotStarted'
  BY <1>2 DEF TakeFlush, Goto, HasFlush, mainVars, sessionVars, epollVars, countVars,
     TypeOK, NotStarted
<1>3. ASSUME NEW w \in Workers, NEW l \in {"test", "retest"}, Enter(w,
     l) PROVE NotStarted'
  BY <1>3 DEF Enter, Goto, MayEnter, mainVars, epollVars, countVars, TypeOK, NotStarted
<1>4. ASSUME NEW w \in Workers, Front(w) PROVE NotStarted'
  BY <1>4 DEF Front, Goto, mainVars, epollVars, countVars, TypeOK, NotStarted
<1>5. ASSUME NEW w \in Workers, Send(w) PROVE NotStarted'
  BY <1>5 DEF Send, Goto, mainVars, epollVars, countVars, TypeOK, NotStarted
<1>6. ASSUME NEW w \in Workers, WouldBlock(w) PROVE NotStarted'
  BY <1>6 DEF WouldBlock, Goto, mainVars, sessionVars, countVars, TypeOK, NotStarted
<1>7. ASSUME NEW w \in Workers, SendFails(w) PROVE NotStarted'
  BY <1>7 DEF SendFails, Goto, mainVars, sessionVars, epollVars, countVars, TypeOK,
     NotStarted
<1>8. ASSUME NEW w \in Workers, Pop(w) PROVE NotStarted'
  BY <1>8 DEF Pop, Goto, mainVars, epollVars, countVars, TypeOK, NotStarted
<1>9. ASSUME NEW w \in Workers, Store(w) PROVE NotStarted'
  BY <1>9 DEF Store, Goto, AfterStore, mainVars, epollVars, countVars, TypeOK,
     NotStarted
<1>10. ASSUME NEW w \in Workers, More(w) PROVE NotStarted'
  BY <1>10 DEF More, Goto, mainVars, sessionVars, epollVars, countVars, TypeOK,
     NotStarted
<1>11. ASSUME NEW w \in Workers, Report(w) PROVE NotStarted'
  BY <1>11 DEF Report, Goto, sessionVars, epollVars, countVars, TypeOK, NotStarted
<1>12. ASSUME NEW w \in Workers, Release(w) PROVE NotStarted'
  BY <1>12 DEF Release, mainVars, sessionVars, threadVars, epollVars, countVars,
     TypeOK, NotStarted
<1>13. CASE AcceptClient
  BY <1>13 DEF AcceptClient, threadVars, TypeOK, NotStarted
<1>14. CASE HandleEvent
  BY <1>14 DEF HandleEvent, close_session, enable_epoll_out, disable_epoll_out,
     epollVars, threadVars, NotStarted
<1>15. CASE HandleEpollOut
  BY <1>15 DEF HandleEpollOut, mainVars, sessionVars, countVars, TypeOK, NotStarted
<1>16. CASE HangUp
  BY <1>16 DEF HangUp, close_session, threadVars, NotStarted
<1>17. CASE recv_all
  BY <1>17 DEF recv_all, mainVars, sessionVars, threadVars, countVars, TypeOK,
     NotStarted
<1>18. CASE ClientCloses
  BY <1>18 DEF ClientCloses, mainVars, sessionVars, threadVars, epollVars, countVars,
     TypeOK, NotStarted
<1>19. CASE UNCHANGED vars
  BY <1>19 DEF vars, TypeOK, NotStarted
<1> QED
  BY <1>1, <1>2, <1>3, <1>4, <1>5, <1>6, <1>7, <1>8, <1>9, <1>10, <1>11, <1>12, <1>13,
     <1>14, <1>15, <1>16, <1>17, <1>18, <1>19 DEF Next, WorkerStep

\* The buffer that a worker has looked at stays at the front until it pops it.
LEMMA BufferNext == TypeOK /\ OneSender /\ BufferAtHand /\ [Next]_vars => BufferAtHand'
<1> SUFFICES ASSUME TypeOK, OneSender, BufferAtHand, [Next]_vars PROVE BufferAtHand'
  OBVIOUS
<1>1. ASSUME NEW w \in Workers, SendPacket(w) PROVE BufferAtHand'
  <2>1. PICK n \in Sizes : send_queue' = Append(send_queue, [at |-> packed,
     end |-> packed + n])
    BY <1>1 DEF SendPacket
  <2>2. [at |-> packed, end |-> packed + n] \in Buffers
    BY SizesAssumption DEF TypeOK, Buffers
  <2>3. send_queue \in Seq(Buffers)
    BY DEF TypeOK
  <2>4. send_queue' # << >>
    BY <2>1, <2>2, <2>3
  <2> QED
    BY <2>4 DEF BufferAtHand
<1>2. ASSUME NEW w \in Workers, TakeFlush(w) PROVE BufferAtHand'
  BY <1>2 DEF TakeFlush, Goto, HasFlush, mainVars, sessionVars, epollVars, countVars,
     TypeOK, OneSender, InFlush, BufferAtHand
<1>3. ASSUME NEW w \in Workers, NEW l \in {"test", "retest"}, Enter(w,
     l) PROVE BufferAtHand'
  BY <1>3 DEF Enter, Goto, MayEnter, mainVars, epollVars, countVars, TypeOK, OneSender,
     InFlush, BufferAtHand
<1>4. ASSUME NEW w \in Workers, Front(w) PROVE BufferAtHand'
  BY <1>4 DEF Front, Goto, mainVars, epollVars, countVars, TypeOK, OneSender, InFlush,
     BufferAtHand
<1>5. ASSUME NEW w \in Workers, Send(w) PROVE BufferAtHand'
  BY <1>5 DEF Send, Goto, mainVars, epollVars, countVars, TypeOK, OneSender, InFlush,
     BufferAtHand
<1>6. ASSUME NEW w \in Workers, WouldBlock(w) PROVE BufferAtHand'
  BY <1>6 DEF WouldBlock, Goto, mainVars, sessionVars, countVars, TypeOK, OneSender,
     InFlush, BufferAtHand
<1>7. ASSUME NEW w \in Workers, SendFails(w) PROVE BufferAtHand'
  BY <1>7 DEF SendFails, Goto, mainVars, sessionVars, epollVars, countVars, TypeOK,
     OneSender, InFlush, BufferAtHand
<1>8. ASSUME NEW w \in Workers, Pop(w) PROVE BufferAtHand'
  BY <1>8 DEF Pop, Goto, mainVars, epollVars, countVars, TypeOK, OneSender, InFlush,
     BufferAtHand
<1>9. ASSUME NEW w \in Workers, Store(w) PROVE BufferAtHand'
  BY <1>9 DEF Store, Goto, AfterStore, mainVars, epollVars, countVars, TypeOK,
     OneSender, InFlush, BufferAtHand
<1>10. ASSUME NEW w \in Workers, More(w) PROVE BufferAtHand'
  BY <1>10 DEF More, Goto, mainVars, sessionVars, epollVars, countVars, TypeOK,
     OneSender, InFlush, BufferAtHand
<1>11. ASSUME NEW w \in Workers, Report(w) PROVE BufferAtHand'
  BY <1>11 DEF Report, Goto, sessionVars, epollVars, countVars, TypeOK, OneSender,
     InFlush, BufferAtHand
<1>12. ASSUME NEW w \in Workers, Release(w) PROVE BufferAtHand'
  BY <1>12 DEF Release, mainVars, sessionVars, threadVars, epollVars, countVars,
     TypeOK, OneSender, InFlush, BufferAtHand
<1>13. CASE AcceptClient
  BY <1>13 DEF AcceptClient, Destroyed, threadVars, BufferAtHand
<1>14. CASE HandleEvent
  BY <1>14 DEF HandleEvent, sessionVars, threadVars, countVars, TypeOK, OneSender,
     InFlush, BufferAtHand
<1>15. CASE HandleEpollOut
  BY <1>15 DEF HandleEpollOut, mainVars, sessionVars, countVars, TypeOK, OneSender,
     InFlush, BufferAtHand
<1>16. CASE HangUp
  BY <1>16 DEF HangUp, sessionVars, threadVars, countVars, TypeOK, OneSender, InFlush,
     BufferAtHand
<1>17. CASE recv_all
  BY <1>17 DEF recv_all, mainVars, sessionVars, threadVars, countVars, TypeOK,
     OneSender, InFlush, BufferAtHand
<1>18. CASE ClientCloses
  BY <1>18 DEF ClientCloses, mainVars, sessionVars, threadVars, epollVars, countVars,
     TypeOK, OneSender, InFlush, BufferAtHand
<1>19. CASE UNCHANGED vars
  BY <1>19 DEF vars, TypeOK, OneSender, InFlush, BufferAtHand
<1> QED
  BY <1>1, <1>2, <1>3, <1>4, <1>5, <1>6, <1>7, <1>8, <1>9, <1>10, <1>11, <1>12, <1>13,
     <1>14, <1>15, <1>16, <1>17, <1>18, <1>19 DEF Next, WorkerStep

\* Every step keeps the types: Head and Tail are taken of a queue that has a front.
LEMMA TypeNext == TypeOK /\ NotStarted /\ BufferAtHand /\ [Next]_vars => TypeOK'
<1> SUFFICES ASSUME TypeOK, NotStarted, BufferAtHand, [Next]_vars PROVE TypeOK'
  OBVIOUS
<1> USE BoundsAssumption, SizesAssumption, WorkersAssumption
<1>1. ASSUME NEW w \in Workers, SendPacket(w) PROVE TypeOK'
  BY <1>1 DEF SendPacket, Goto, mainVars, epollVars, TypeOK, Labels, FlushResults,
     Tasks, Buffers
<1>2. ASSUME NEW w \in Workers, TakeFlush(w) PROVE TypeOK'
  BY <1>2 DEF TakeFlush, Goto, HasFlush, mainVars, sessionVars, epollVars, countVars,
     TypeOK, Labels, FlushResults, Tasks, Buffers
<1>3. ASSUME NEW w \in Workers, NEW l \in {"test", "retest"}, Enter(w, l) PROVE TypeOK'
  BY <1>3 DEF Enter, Goto, MayEnter, mainVars, epollVars, countVars, TypeOK, Labels,
     FlushResults, Tasks, Buffers
<1>4. ASSUME NEW w \in Workers, Front(w) PROVE TypeOK'
  BY <1>4 DEF Front, Goto, mainVars, epollVars, countVars, TypeOK, Labels,
     FlushResults, Tasks, Buffers
<1>5. ASSUME NEW w \in Workers, Send(w) PROVE TypeOK'
  <2> DEFINE b == Head(send_queue)
             n == Fitting(b)
  <2>1. /\ send_queue # << >> /\ n > 0
        /\ sock' = sock \o [i \in 1..n |-> b.at + i - 1]
        /\ send_queue' = <<Sent(b, n)>> \o Tail(send_queue)
        /\ \E l \in {"pop", "send"} : pc' = [pc EXCEPT ![w] = l]
    BY <1>5 DEF Send, Goto, BufferAtHand
  <2>2. b \in Buffers
    BY <2>1 DEF TypeOK
  <2> HIDE DEF b
  <2>3. n \in Nat \ {0} /\ n <= b.end - b.at
    BY <2>1, <2>2, FittingType
  <2> HIDE DEF n
  <2>4. sock' \in Seq(Nat)
    <3>1. [i \in 1..n |-> b.at + i - 1] \in Seq(Nat)
      BY <2>2, <2>3 DEF Buffers
    <3> QED
      BY <2>1, <3>1 DEF TypeOK
  <2>5. send_queue' \in Seq(Buffers)
    <3>1. Sent(b, n) \in Buffers
      BY <2>2, <2>3 DEF Sent, Buffers
    <3>2. <<Sent(b, n)>> \in Seq(Buffers) /\ Tail(send_queue) \in Seq(Buffers)
      BY <2>1, <3>1 DEF TypeOK
    <3> QED
      BY <2>1, <3>2
  <2>6. pc' \in [Workers -> Labels]
    BY <2>1 DEF TypeOK, Labels
  <2> QED
    BY <1>5, <2>4, <2>5, <2>6 DEF Send, mainVars, epollVars, countVars, TypeOK
<1>6. ASSUME NEW w \in Workers, WouldBlock(w) PROVE TypeOK'
  BY <1>6 DEF WouldBlock, Goto, mainVars, sessionVars, countVars, TypeOK, Labels,
     FlushResults, Tasks, Buffers
<1>7. ASSUME NEW w \in Workers, SendFails(w) PROVE TypeOK'
  BY <1>7 DEF SendFails, Goto, mainVars, sessionVars, epollVars, countVars, TypeOK,
     Labels, FlushResults, Tasks, Buffers
<1>8. ASSUME NEW w \in Workers, Pop(w) PROVE TypeOK'
  <2>1. send_queue' \in Seq(Buffers)
    BY <1>8 DEF Pop, BufferAtHand, TypeOK
  <2> QED
    BY <1>8, <2>1 DEF Pop, Goto, mainVars, epollVars, countVars, TypeOK, Labels
<1>9. ASSUME NEW w \in Workers, Store(w) PROVE TypeOK'
  BY <1>9 DEF Store, Goto, AfterStore, mainVars, epollVars, countVars, TypeOK, Labels,
     FlushResults, Tasks, Buffers
<1>10. ASSUME NEW w \in Workers, More(w) PROVE TypeOK'
  BY <1>10 DEF More, Goto, mainVars, sessionVars, epollVars, countVars, TypeOK, Labels,
     FlushResults, Tasks, Buffers
<1>11. ASSUME NEW w \in Workers, Report(w) PROVE TypeOK'
  <2>1. pc[w] \in FlushResults /\ pc[w] # "idle" /\ task[w] \in Tasks
    BY <1>11 DEF Report, FlushResults, TypeOK
  <2>2. connection \in 1..MaxConnections
    BY <2>1 DEF TypeOK, NotStarted
  <2> DEFINE new == [i \in DOMAIN Requests(task[w], pc[w]) |->
                       [type |-> Requests(task[w], pc[w])[i],
     connection |-> connection]]
             E == [type : MainEventTypes, connection : 1..MaxConnections]
  <2>3. new \in Seq(E)
    BY <2>1, <2>2, RequestsType
  <2>4. main_events' = main_events \o new
    BY <1>11 DEF Report
  <2> HIDE DEF new
  <2>5. main_events' \in Seq(E)
    <3> HIDE DEF E
    <3>1. main_events \in Seq(E)
      BY DEF TypeOK, E
    <3> QED
      BY <2>3, <2>4, <3>1
  <2> QED
    BY <1>11, <2>5 DEF Report, Goto, sessionVars, epollVars, countVars, TypeOK, Labels
<1>12. ASSUME NEW w \in Workers, Release(w) PROVE TypeOK'
  BY <1>12 DEF Release, mainVars, sessionVars, threadVars, epollVars, countVars,
     TypeOK, Labels, FlushResults, Tasks, Buffers
<1>13. CASE AcceptClient
  <2>1. send_queue' \in Seq(Buffers) /\ sock' \in Seq(Nat)
    BY <1>13 DEF AcceptClient
  <2>2. connection' \in 0..MaxConnections
    BY <1>13 DEF AcceptClient, TypeOK
  <2>3. /\ registered' \in BOOLEAN /\ sending' \in BOOLEAN /\ stopped' \in BOOLEAN
        /\ armed' \in BOOLEAN /\ edge' \in BOOLEAN /\ nospace' \in BOOLEAN
    BY <1>13 DEF AcceptClient, TypeOK
  <2> QED
    BY <1>13, <2>1, <2>2, <2>3 DEF AcceptClient, threadVars, TypeOK
<1>14. CASE HandleEvent
  <2>1. main_events' \in Seq([type : MainEventTypes, connection : 1..MaxConnections])
    <3> DEFINE E == [type : MainEventTypes, connection : 1..MaxConnections]
    <3>1. main_events \in Seq(E)
      BY DEF TypeOK
    <3> HIDE DEF E
    <3>2. main_events' \in Seq(E)
      BY <1>14, <3>1 DEF HandleEvent
    <3> QED
      BY <3>2 DEF E
  <2>2. (Room > 0) \in BOOLEAN /\ (Room = 0) \in BOOLEAN
    OBVIOUS
  <2>3. /\ registered' \in BOOLEAN /\ stopped' \in BOOLEAN
        /\ armed' \in BOOLEAN /\ edge' \in BOOLEAN /\ nospace' \in BOOLEAN
    BY <1>14, <2>2, Zenon DEF HandleEvent, close_session, enable_epoll_out,
     disable_epoll_out,
       epollVars, TypeOK
  <2> QED
    BY <1>14, <2>1, <2>3 DEF HandleEvent, sessionVars, threadVars, countVars, TypeOK
<1>15. CASE HandleEpollOut
  <2>1. flush_events' \in [Workers -> Nat]
    <3>1. CASE UNCHANGED flush_events
      BY <3>1 DEF TypeOK
    <3>2. CASE \E w \in senders : flush_events' = [flush_events EXCEPT ![w] = @ + 1]
      <4>1. PICK w \in Workers : flush_events' = [flush_events EXCEPT ![w] = @ + 1]
        BY <3>2 DEF TypeOK
      <4> QED
        BY <4>1 DEF TypeOK
    <3> QED
      BY <1>15, <3>1, <3>2 DEF HandleEpollOut, request_flush
  <2>2. edge' \in BOOLEAN
    BY <1>15 DEF HandleEpollOut
  <2> QED
    BY <1>15, <2>1, <2>2 DEF HandleEpollOut, mainVars, sessionVars, countVars, TypeOK
<1>16. CASE HangUp
  <2>1. registered' \in BOOLEAN /\ armed' \in BOOLEAN /\ edge' \in BOOLEAN
        /\ nospace' \in BOOLEAN
    BY <1>16 DEF HangUp, close_session, TypeOK
  <2> QED
    BY <1>16, <2>1 DEF HangUp, sessionVars, threadVars, countVars, TypeOK
<1>17. CASE recv_all
  <2>1. sock' \in Seq(Nat) /\ got' \in Seq(Nat)
    BY <1>17 DEF recv_all, TypeOK
  <2>2. edge' \in BOOLEAN /\ nospace' \in BOOLEAN
    BY <1>17, Zenon DEF recv_all, TypeOK
  <2> QED
    BY <1>17, <2>1, <2>2 DEF recv_all, mainVars, sessionVars, threadVars, countVars,
     TypeOK
<1>18. CASE ClientCloses
  BY <1>18 DEF ClientCloses, mainVars, sessionVars, threadVars, epollVars, countVars,
     TypeOK, Labels, FlushResults, Tasks, Buffers
<1>19. CASE UNCHANGED vars
  BY <1>19 DEF vars, TypeOK, Labels, FlushResults, Tasks, Buffers
<1> QED
  BY <1>1, <1>2, <1>3, <1>4, <1>5, <1>6, <1>7, <1>8, <1>9, <1>10, <1>11, <1>12, <1>13,
     <1>14, <1>15, <1>16, <1>17, <1>18, <1>19 DEF Next, WorkerStep

\* Together they are inductive.
LEMMA IInvNext == IInv /\ [Next]_vars => IInv'
  BY LockNext, StartedNext, BufferNext, TypeNext DEF IInv

\* So they hold in every reachable state.
LEMMA IInvAlways == Spec => []IInv
<1> QED
  BY InitIInv, IInvNext, PTL DEF Spec

\* Every variable of the send path keeps its type.
THEOREM TypeCorrect == Spec => []TypeOK
<1>1. IInv => TypeOK
  BY DEF IInv
<1> QED
  BY IInvAlways, <1>1, PTL

\* sending_ is a lock for any number of workers: Session::flush takes it in two places
\* and puts it down in four, and the buffer it works on outside the mutex is its own.
THEOREM FlagIsLock == Spec => []OneSender
<1>1. IInv => OneSender
  BY DEF IInv
<1> QED
  BY IInvAlways, <1>1, PTL

-----------------------------------------------------------------------------
(***************************************************************************)
(* The stream.                                                             *)
(***************************************************************************)
\* The buffers of the queue follow each other without a gap up to the last byte
\* packed; what flush is about to pop has been sent.
QueueChained ==
  /\ \A i \in 1..Len(send_queue) :
       /\ send_queue[i].at <= send_queue[i].end
       /\ send_queue[i].end <= packed
       /\ i < Len(send_queue) => send_queue[i].end = send_queue[i + 1].at
       /\ i = Len(send_queue) => send_queue[i].end = packed
  /\ \A w \in Workers : pc[w] = "pop" => send_queue[1].at = send_queue[1].end

\* The socket holds the bytes from the next one the client reads up to the
\* first that flush has not sent.
SocketFollows ==
  /\ \A i \in 1..Len(sock) : sock[i] = Len(got) + i - 1
  /\ Len(got) + Len(sock) = IF send_queue = << >> THEN packed ELSE send_queue[1].at

StreamInv == QueueChained /\ SocketFollows

\* Nothing is packed at the start.
LEMMA InitStream == Init => StreamInv
  BY DEF Init, StreamInv, QueueChained, SocketFollows

\* A step that moves no byte keeps the stream.
LEMMA StreamFrame ==
  ASSUME StreamInv, UNCHANGED <<send_queue, packed, sock, got>>,
         \A w \in Workers : pc'[w] = "pop" => pc[w] = "pop"
  PROVE  StreamInv'
  BY DEF StreamInv, QueueChained, SocketFollows

\* pack puts the new bytes behind the last buffer of the queue.
LEMMA PackStream ==
  ASSUME IInv, StreamInv, NEW w \in Workers, SendPacket(w)
  PROVE  StreamInv'
<1>1. PICK n \in Sizes :
        /\ send_queue' = Append(send_queue, [at |-> packed, end |-> packed + n])
        /\ packed' = packed + n
  BY DEF SendPacket
<1> DEFINE b == [at |-> packed, end |-> packed + n]
<1>2. n \in Nat \ {0} /\ packed \in Nat /\ send_queue \in Seq(Buffers)
  BY SizesAssumption DEF IInv, TypeOK
<1>3. b \in Buffers /\ b.at = packed /\ b.end = packed'
  BY <1>1, <1>2 DEF Buffers
<1> HIDE DEF b
<1>4. /\ Len(send_queue') = Len(send_queue) + 1 /\ Len(send_queue) \in Nat
      /\ send_queue'[Len(send_queue) + 1] = b
      /\ \A i \in 1..Len(send_queue) : send_queue'[i] = send_queue[i]
      /\ send_queue' # << >>
  BY <1>1, <1>2, <1>3 DEF b
<1>5. \A i \in 1..Len(send_queue) : send_queue[i] \in Buffers
  BY <1>2
<1>6. send_queue = << >> <=> Len(send_queue) = 0
  BY <1>2
<1>7. \A v \in Workers : pc'[v] = "pop" => pc[v] = "pop" /\ send_queue # << >>
  BY DEF SendPacket, Goto, IInv, TypeOK, BufferAtHand
<1>8. \A i \in 1..Len(send_queue') :
        /\ send_queue'[i].at <= send_queue'[i].end
        /\ send_queue'[i].end <= packed'
        /\ i < Len(send_queue') => send_queue'[i].end = send_queue'[i + 1].at
        /\ i = Len(send_queue') => send_queue'[i].end = packed'
  <2> SUFFICES ASSUME NEW i \in 1..Len(send_queue')
               PROVE  /\ send_queue'[i].at <= send_queue'[i].end
                      /\ send_queue'[i].end <= packed'
                      /\ i < Len(send_queue') => send_queue'[i].end = send_queue'[i + 1].at
                      /\ i = Len(send_queue') => send_queue'[i].end = packed'
    OBVIOUS
  <2>1. CASE i = Len(send_queue) + 1
    BY <1>1, <1>2, <1>3, <1>4, <2>1
  <2>2. CASE i \in 1..Len(send_queue)
    BY <1>1, <1>2, <1>3, <1>4, <1>5, <2>2 DEF StreamInv, QueueChained, Buffers
  <2> QED
    BY <1>4, <2>1, <2>2
<1>9. \A v \in Workers : pc'[v] = "pop" => send_queue'[1].at = send_queue'[1].end
  BY <1>4, <1>6, <1>7 DEF StreamInv, QueueChained
<1>10. SocketFollows'
  BY <1>3, <1>4, <1>6 DEF SendPacket, StreamInv, SocketFollows
<1> QED
  BY <1>8, <1>9, <1>10 DEF StreamInv, QueueChained

\* send moves the first unsent bytes of the queue to the socket.
LEMMA SendStream ==
  ASSUME IInv, StreamInv, NEW w \in Workers, Send(w)
  PROVE  StreamInv'
<1> DEFINE b == Head(send_queue)
           n == Fitting(b)
           r == Sent(b, n)
           f == [i \in 1..n |-> b.at + i - 1]
<1>1. /\ pc[w] = "send" /\ send_queue # << >> /\ n > 0
      /\ sock' = sock \o f
      /\ send_queue' = <<r>> \o Tail(send_queue)
      /\ pc' = [pc EXCEPT ![w] = IF r.at = b.end THEN "pop" ELSE "send"]
      /\ UNCHANGED <<packed, got>>
  BY DEF Send, Goto, IInv, BufferAtHand, countVars
<1>2. /\ send_queue \in Seq(Buffers) /\ sock \in Seq(Nat) /\ packed \in Nat /\ got \in Seq(Nat)
      /\ pc \in [Workers -> Labels]
  BY DEF IInv, TypeOK
<1>3. /\ b = send_queue[1] /\ b \in Buffers /\ Len(send_queue) \in Nat \ {0}
      /\ \A i \in 1..Len(send_queue) : send_queue[i] \in Buffers
  BY <1>1, <1>2
<1> HIDE DEF b
<1>4. n \in Nat \ {0} /\ n <= b.end - b.at
  BY <1>1, <1>3, FittingType DEF IInv
<1> HIDE DEF n
<1>5. r \in Buffers /\ r.at = b.at + n /\ r.end = b.end /\ r.at <= r.end
  BY <1>3, <1>4 DEF Sent, Buffers
<1> HIDE DEF r
<1>6. /\ Len(send_queue') = Len(send_queue) /\ send_queue' # << >>
      /\ send_queue'[1] = r
      /\ \A i \in 2..Len(send_queue) : send_queue'[i] = send_queue[i]
  BY <1>1, <1>2, <1>3, <1>5
<1>7. \A i \in 1..Len(send_queue') :
        /\ send_queue'[i].at <= send_queue'[i].end
        /\ send_queue'[i].end <= packed'
        /\ i < Len(send_queue') => send_queue'[i].end = send_queue'[i + 1].at
        /\ i = Len(send_queue') => send_queue'[i].end = packed'
  <2> SUFFICES ASSUME NEW i \in 1..Len(send_queue)
               PROVE  /\ send_queue'[i].at <= send_queue'[i].end
                      /\ send_queue'[i].end <= packed
                      /\ i < Len(send_queue) => send_queue'[i].end = send_queue'[i + 1].at
                      /\ i = Len(send_queue) => send_queue'[i].end = packed
    BY <1>1, <1>6
  <2>1. /\ send_queue'[i].end = send_queue[i].end
        /\ send_queue'[i].at <= send_queue'[i].end
    <3>1. CASE i = 1
      BY <1>3, <1>5, <1>6, <3>1
    <3>2. CASE i \in 2..Len(send_queue)
      BY <1>6, <3>2 DEF StreamInv, QueueChained
    <3> QED
      BY <1>3, <3>1, <3>2
  <2>2. i < Len(send_queue) => send_queue'[i + 1] = send_queue[i + 1]
    BY <1>3, <1>6
  <2> QED
    BY <2>1, <2>2 DEF StreamInv, QueueChained
<1>8. ASSUME NEW v \in Workers, pc'[v] = "pop" PROVE send_queue'[1].at = send_queue'[1].end
  <2>1. v = w
    BY <1>1, <1>2, <1>8 DEF IInv, OneSender, InFlush
  <2> QED
    BY <1>1, <1>2, <1>5, <1>6, <1>8, <2>1
<1>9. f \in Seq(Nat) /\ Len(f) = n /\ \A i \in 1..n : f[i] = b.at + i - 1
  BY <1>3, <1>4 DEF Buffers
<1> HIDE DEF f
<1>10. /\ Len(sock) \in Nat /\ Len(sock') = Len(sock) + n
       /\ \A i \in 1..Len(sock) : sock'[i] = sock[i]
       /\ \A i \in (Len(sock) + 1)..(Len(sock) + n) : sock'[i] = f[i - Len(sock)]
  <2>1. Len(sock) \in Nat /\ Len(sock') = Len(sock) + n
    <3>1. sock' = sock \o f /\ sock \in Seq(Nat) /\ f \in Seq(Nat) /\ Len(f) = n
      BY <1>1, <1>2, <1>9
    <3>2. Len(sock \o f) = Len(sock) + Len(f)
      BY <3>1, ConcatProperties
    <3> QED
      BY <3>1, <3>2
  <2>2. \A i \in 1..Len(sock) : sock'[i] = sock[i]
    BY <1>1, <1>2, <1>9
  <2>3. \A i \in (Len(sock) + 1)..(Len(sock) + n) : sock'[i] = f[i - Len(sock)]
    BY <1>1, <1>2, <1>4, <1>9
  <2> QED
    BY <2>1, <2>2, <2>3
<1>11. Len(got) + Len(sock) = b.at
  BY <1>1, <1>3 DEF StreamInv, SocketFollows
<1>12. \A i \in 1..Len(sock') : sock'[i] = Len(got') + i - 1
  <2> SUFFICES ASSUME NEW i \in 1..Len(sock') PROVE sock'[i] = Len(got') + i - 1
    OBVIOUS
  <2>1. CASE i \in 1..Len(sock)
    BY <1>1, <1>10, <2>1 DEF StreamInv, SocketFollows
  <2>2. CASE i \in (Len(sock) + 1)..(Len(sock) + n)
    <3>1. i - Len(sock) \in 1..n
      BY <1>4, <1>10, <2>2
    <3>2. sock'[i] = b.at + (i - Len(sock)) - 1
      BY <1>9, <1>10, <2>2, <3>1
    <3> QED
      BY <1>1, <1>2, <1>10, <1>11, <3>2
  <2> QED
    BY <1>4, <1>10, <2>1, <2>2
<1>13. Len(got') + Len(sock') = send_queue'[1].at
  BY <1>1, <1>2, <1>3, <1>4, <1>5, <1>6, <1>10, <1>11 DEF Buffers
<1> QED
  BY <1>6, <1>7, <1>8, <1>12, <1>13 DEF StreamInv, QueueChained, SocketFollows

\* A buffer that is popped has nothing left to send.
LEMMA PopStream ==
  ASSUME IInv, StreamInv, NEW w \in Workers, Pop(w)
  PROVE  StreamInv'
<1>1. /\ pc[w] = "pop" /\ send_queue # << >>
      /\ send_queue' = Tail(send_queue)
      /\ pc' = [pc EXCEPT ![w] = "store"]
      /\ UNCHANGED <<packed, sock, got>>
  BY DEF Pop, Goto, IInv, BufferAtHand, countVars
<1>2. send_queue \in Seq(Buffers) /\ packed \in Nat /\ pc \in [Workers -> Labels]
  BY DEF IInv, TypeOK
<1>3. /\ Len(send_queue) \in Nat \ {0} /\ Len(send_queue') = Len(send_queue) - 1
      /\ \A i \in 1..Len(send_queue') : send_queue'[i] = send_queue[i + 1]
      /\ send_queue' = << >> <=> Len(send_queue) = 1
  <2>1. /\ Len(send_queue) \in Nat \ {0} /\ Len(send_queue') = Len(send_queue) - 1
        /\ \A i \in 1..Len(send_queue') : send_queue'[i] = send_queue[i + 1]
        /\ send_queue' \in Seq(Buffers)
    BY <1>1, <1>2
  <2>2. send_queue' = << >> <=> Len(send_queue') = 0
    BY <2>1
  <2> QED
    BY <2>1, <2>2
<1>4. \A v \in Workers : pc'[v] # "pop"
  BY <1>1, <1>2 DEF IInv, OneSender, InFlush
<1>5. QueueChained'
  <2>1. ASSUME NEW i \in 1..Len(send_queue')
        PROVE  /\ send_queue'[i].at <= send_queue'[i].end
               /\ send_queue'[i].end <= packed'
               /\ i < Len(send_queue') => send_queue'[i].end = send_queue'[i + 1].at
               /\ i = Len(send_queue') => send_queue'[i].end = packed'
    <3>1. i + 1 \in 1..Len(send_queue) /\ send_queue'[i] = send_queue[i + 1]
      BY <1>3
    <3>2. i < Len(send_queue') =>
            i + 1 < Len(send_queue) /\ send_queue'[i + 1] = send_queue[i + 2]
      BY <1>3
    <3>3. i = Len(send_queue') => i + 1 = Len(send_queue)
      BY <1>3
    <3>4. i + 1 < Len(send_queue) => send_queue[i + 1].end = send_queue[i + 2].at
      <4>1. (i + 1) + 1 = i + 2
        BY <1>3
      <4> QED
        BY <3>1, <4>1 DEF StreamInv, QueueChained
    <3> QED
      BY <1>1, <3>1, <3>2, <3>3, <3>4 DEF StreamInv, QueueChained
  <2> QED
    BY <1>4, <2>1 DEF QueueChained
<1>6. Len(got) + Len(sock) = IF Len(send_queue) = 1 THEN packed ELSE send_queue[2].at
  <2>1. 1 \in 1..Len(send_queue) /\ 1 + 1 = 2
    BY <1>3
  <2>2. send_queue[1].end = IF Len(send_queue) = 1 THEN packed ELSE send_queue[2].at
    <3>1. CASE Len(send_queue) = 1
      BY <2>1, <3>1 DEF StreamInv, QueueChained
    <3>2. CASE 1 < Len(send_queue)
      <4>1. send_queue[1].end = send_queue[1 + 1].at
        BY <2>1, <3>2 DEF StreamInv, QueueChained
      <4> QED
        BY <3>2, <4>1
    <3> QED
      BY <1>3, <3>1, <3>2
  <2>3. Len(got) + Len(sock) = send_queue[1].end
    BY <1>1 DEF StreamInv, QueueChained, SocketFollows
  <2> QED
    BY <2>2, <2>3
<1>7. SocketFollows'
  BY <1>1, <1>3, <1>6 DEF StreamInv, SocketFollows
<1> QED
  BY <1>5, <1>7 DEF StreamInv

\* The client reads the first byte of the socket.
LEMMA RecvStream ==
  ASSUME IInv, StreamInv, recv_all
  PROVE  /\ StreamInv' /\ UNCHANGED packed
         /\ got' = Append(got, Len(got)) /\ Len(got) < packed
<1>1. /\ sock # << >> /\ sock' = Tail(sock) /\ got' = Append(got, Head(sock))
      /\ UNCHANGED <<send_queue, pc, packed>>
  BY DEF recv_all, sessionVars, threadVars, countVars
<1>2. sock \in Seq(Nat) /\ got \in Seq(Nat) /\ packed \in Nat /\ send_queue \in Seq(Buffers)
  BY DEF IInv, TypeOK
<1>3. /\ Len(sock) \in Nat \ {0} /\ Len(sock') = Len(sock) - 1 /\ Head(sock) = sock[1]
      /\ \A i \in 1..Len(sock') : sock'[i] = sock[i + 1]
  BY <1>1, <1>2
<1>4. /\ Head(sock) = Len(got) /\ Len(got) \in Nat
      /\ got' = Append(got, Len(got)) /\ Len(got') = Len(got) + 1
  <2>1. Head(sock) = Len(got) /\ Len(got) \in Nat
    BY <1>2, <1>3 DEF StreamInv, SocketFollows
  <2> QED
    BY <1>1, <1>2, <2>1
<1>5. Len(got) + Len(sock) <= packed
  <2>1. CASE send_queue = << >>
    BY <1>2, <2>1 DEF StreamInv, SocketFollows
  <2>2. CASE send_queue # << >>
    <3>1. 1 \in 1..Len(send_queue) /\ send_queue[1] \in Buffers
      BY <1>2, <2>2
    <3> QED
      BY <1>2, <2>2, <3>1 DEF StreamInv, SocketFollows, QueueChained, Buffers
  <2> QED
    BY <2>1, <2>2
<1>6. QueueChained'
  BY <1>1 DEF StreamInv, QueueChained
<1>7. \A i \in 1..Len(sock') : sock'[i] = Len(got') + i - 1
  <2> SUFFICES ASSUME NEW i \in 1..Len(sock') PROVE sock'[i] = Len(got') + i - 1
    OBVIOUS
  <2>1. i + 1 \in 1..Len(sock) /\ sock'[i] = sock[i + 1]
    BY <1>3
  <2>2. sock[i + 1] = Len(got) + (i + 1) - 1
    BY <2>1 DEF StreamInv, SocketFollows
  <2> QED
    BY <1>3, <1>4, <2>1, <2>2
<1>8. Len(got') + Len(sock') = Len(got) + Len(sock)
  BY <1>2, <1>3, <1>4
<1>9. SocketFollows'
  BY <1>1, <1>7, <1>8 DEF StreamInv, SocketFollows
<1> QED
  BY <1>1, <1>2, <1>3, <1>4, <1>5, <1>6, <1>9 DEF StreamInv

\* Every step keeps the invariant and is a step of the stream or none.
LEMMA StreamStep ==
  IInv /\ StreamInv /\ [Next]_vars => StreamInv' /\ [StreamIntact!Next]_<<packed, got>>
<1> SUFFICES ASSUME IInv, StreamInv, [Next]_vars
             PROVE  StreamInv' /\ [StreamIntact!Next]_<<packed, got>>
  OBVIOUS
<1> DEFINE Goal == StreamInv' /\ [StreamIntact!Next]_<<packed, got>>
<1>1. ASSUME NEW w \in Workers, SendPacket(w) PROVE Goal
  <2>1. StreamIntact!Next
    BY <1>1 DEF SendPacket, StreamIntact!Next, StreamIntact!Pack
  <2> QED
    BY <1>1, <2>1, PackStream
<1>2. ASSUME NEW w \in Workers, Send(w) PROVE Goal
  BY <1>2, SendStream DEF Send, countVars
<1>3. ASSUME NEW w \in Workers, Pop(w) PROVE Goal
  BY <1>3, PopStream DEF Pop, countVars
<1>4. ASSUME recv_all PROVE Goal
  BY <1>4, RecvStream DEF StreamIntact!Next, StreamIntact!Read
<1>5. ASSUME AcceptClient PROVE Goal
  <2>1. StreamInv'
    BY <1>5 DEF AcceptClient, Destroyed, threadVars, StreamInv, QueueChained, SocketFollows
  <2> QED
    BY <1>5, <2>1 DEF AcceptClient, StreamIntact!Next, StreamIntact!Connect
<1> DEFINE Frame == /\ UNCHANGED <<send_queue, packed, sock, got>>
                    /\ \A w \in Workers : pc'[w] = "pop" => pc[w] = "pop"
<1>6. pc \in [Workers -> Labels]
  BY DEF IInv, TypeOK
<1>7. Frame => Goal
  BY StreamFrame
<1>8. ASSUME NEW w \in Workers, TakeFlush(w) PROVE Frame
  BY <1>6, <1>8 DEF TakeFlush, Goto, sessionVars, countVars
<1>9. ASSUME NEW w \in Workers, NEW l \in {"test", "retest"}, Enter(w, l) PROVE Frame
  BY <1>6, <1>9 DEF Enter, Goto, countVars
<1>10. ASSUME NEW w \in Workers, Front(w) PROVE Frame
  BY <1>6, <1>10 DEF Front, Goto, countVars
<1>11. ASSUME NEW w \in Workers, WouldBlock(w) PROVE Frame
  BY <1>6, <1>11 DEF WouldBlock, Goto, sessionVars, countVars
<1>12. ASSUME NEW w \in Workers, SendFails(w) PROVE Frame
  BY <1>6, <1>12 DEF SendFails, Goto, sessionVars, countVars
<1>13. ASSUME NEW w \in Workers, Store(w) PROVE Frame
  BY <1>6, <1>13 DEF Store, Goto, AfterStore, countVars
<1>14. ASSUME NEW w \in Workers, More(w) PROVE Frame
  BY <1>6, <1>14 DEF More, Goto, sessionVars, countVars
<1>15. ASSUME NEW w \in Workers, Report(w) PROVE Frame
  BY <1>6, <1>15 DEF Report, Goto, sessionVars, countVars
<1>16. ASSUME NEW w \in Workers, Release(w) PROVE Frame
  BY <1>6, <1>16 DEF Release, sessionVars, threadVars, countVars
<1>17. ASSUME HandleEvent PROVE Frame
  BY <1>6, <1>17 DEF HandleEvent, sessionVars, threadVars, countVars
<1>18. ASSUME HandleEpollOut PROVE Frame
  BY <1>6, <1>18 DEF HandleEpollOut, sessionVars, countVars
<1>19. ASSUME HangUp PROVE Frame
  BY <1>6, <1>19 DEF HangUp, sessionVars, threadVars, countVars
<1>20. ASSUME ClientCloses PROVE Frame
  BY <1>6, <1>20 DEF ClientCloses, sessionVars, threadVars, countVars
<1>21. ASSUME UNCHANGED vars PROVE Frame
  BY <1>21 DEF vars
<1> HIDE DEF Frame, Goal
<1>22. ASSUME NEW w \in Workers, SendPacket(w) \/ WorkerStep(w) \/ Release(w) PROVE Goal
  <2>1. CASE TakeFlush(w) \/ Enter(w, "test") \/ Enter(w, "retest") \/ Front(w)
             \/ WouldBlock(w) \/ SendFails(w) \/ Store(w) \/ More(w) \/ Report(w) \/ Release(w)
    BY <1>7, <1>8, <1>9, <1>10, <1>11, <1>12, <1>13, <1>14, <1>15, <1>16, <2>1
  <2>2. CASE SendPacket(w) \/ Send(w) \/ Pop(w)
    BY <1>1, <1>2, <1>3, <2>2
  <2> QED
    BY <1>22, <2>1, <2>2 DEF WorkerStep
<1>23. Goal
  BY <1>4, <1>5, <1>7, <1>17, <1>18, <1>19, <1>20, <1>21, <1>22 DEF Next
<1> QED
  BY <1>23 DEF Goal

\* The send path implements ByteStream: for any number of workers that pack and flush
\* at the same time, any sizes of packets and of the socket's buffer, any order of
\* partial sends, EAGAIN, EPOLLOUT and hang-ups, and any number of connections that use
\* the descriptor in turn, the client reads the bytes in the order of pack, none left
\* out, repeated or reordered.
THEOREM StreamRefined == Spec => ImplementsByteStream
<1>1. Init => StreamIntact!Init
  BY DEF Init, StreamIntact!Init
<1>2. Spec => [](IInv /\ StreamInv)
  <2>1. IInv /\ StreamInv /\ [Next]_vars => (IInv /\ StreamInv)'
    BY IInvNext, StreamStep
  <2>2. Init => IInv /\ StreamInv
    BY InitIInv, InitStream
  <2> QED
    BY <2>1, <2>2, PTL DEF Spec
<1>3. IInv /\ StreamInv /\ [Next]_vars => [StreamIntact!Next]_<<packed, got>>
  BY StreamStep
<1> QED
  BY <1>1, <1>2, <1>3, PTL DEF Spec, ImplementsByteStream, StreamIntact!Spec

-----------------------------------------------------------------------------
(***************************************************************************)
(* Proof that no packet is left behind in the send queue of a session that *)
(* one worker sends to, however EAGAIN, the requests to turn EPOLLOUT on   *)
(* and off, the kernel's edges and the FLUSH events overtake one another.  *)
(***************************************************************************)


Requested == [type : MainEventTypes, connection : 1..MaxConnections]

-----------------------------------------------------------------------------
(***************************************************************************)
(* The invariant.                                                          *)
(***************************************************************************)
\* A queue of the main thread that asks for EPOLLOUT.
Asks(q) == \E i \in 1..Len(q) : q[i].type = "EnableEpollOut"

\* One that never turns it off.
NeverOff(q) == \A i \in 1..Len(q) : q[i].type # "DisableEpollOut"

\* One that turns it on after any turning off.
EndsOn(q) ==
  \E i \in 1..Len(q) : /\ q[i].type = "EnableEpollOut"
                       /\ \A j \in 1..Len(q) : j > i => q[j].type # "DisableEpollOut"

\* EPOLLOUT is on when the main thread has done what it is asked.
WillArm == EndsOn(main_events) \/ (armed /\ NeverOff(main_events))

\* The kernel never takes more than fits.
SocketBounded == Len(sock) <= SocketSize

\* Only the workers that send to the session touch it.
OthersIdle ==
  \A w \in Workers \ senders : pc[w] = "idle" /\ w \notin refs /\ flush_events[w] = 0

\* With one worker, flush reports Complete only of an empty queue, and an error
\* only of a client that is gone.
ResultsTrue ==
  /\ pc[Home] = "Complete" => send_queue = << >>
  /\ pc[Home] \in {"store_Error", "Error"} => peer = "closed"

Live == registered /\ peer = "up"

\* A FLUSH that finds something to send runs with EPOLLOUT on or about to be.
FlushArmed ==
  Live /\ task[Home] = "FLUSH" /\ pc[Home] # "idle" => WillArm \/ send_queue = << >>

\* The worker that flush leaves, or is about to leave, with something in the queue.
Left ==
  \/ pc[Home] = "idle" /\ send_queue # << >>
  \/ pc[Home] \in {"store_Pending", "Pending"} /\ task[Home] = "FLUSH"

\* Then EPOLLOUT will be on, and there is something that brings the worker back.
Woken ==
  Live /\ Left =>
    /\ WillArm
    /\ Asks(main_events) \/ edge \/ nospace \/ flush_events[Home] > 0

FlushInv ==
  /\ SocketBounded
  /\ OthersIdle
  /\ senders = {Home} => ResultsTrue /\ FlushArmed /\ Woken

-----------------------------------------------------------------------------
(***************************************************************************)
(* The queue of the main thread.                                           *)
(***************************************************************************)
\* push_main_event.
LEMMA RequestPushed ==
  ASSUME NEW q \in Seq(Requested), NEW e \in Requested
  PROVE  /\ e.type = "EnableEpollOut" => EndsOn(Append(q, e)) /\ Asks(Append(q, e))
         /\ e.type # "DisableEpollOut" =>
              /\ EndsOn(q) => EndsOn(Append(q, e))
              /\ NeverOff(q) => NeverOff(Append(q, e))
         /\ Asks(q) => Asks(Append(q, e))
<1> DEFINE p == Append(q, e)
           n == Len(q) + 1
<1>1. /\ Len(q) \in Nat /\ Len(p) = n /\ p[n] = e /\ n \in 1..n
      /\ \A i \in 1..Len(q) : p[i] = q[i]
  BY AppendProperties
<1>2. \A i \in 1..n : i \in 1..Len(q) \/ i = n
  BY <1>1
<1>3. \A i \in 1..Len(q) : i \in 1..n /\ i < n
  BY <1>1
<1>4. \A j \in 1..n : ~(j > n)
  BY <1>1
<1> HIDE DEF p, n
<1>5. e.type = "EnableEpollOut" => EndsOn(p) /\ Asks(p)
  BY <1>1, <1>4 DEF EndsOn, Asks
<1>6. ASSUME e.type # "DisableEpollOut", EndsOn(q) PROVE EndsOn(p)
  BY <1>1, <1>2, <1>3, <1>6 DEF EndsOn
<1>7. ASSUME e.type # "DisableEpollOut", NeverOff(q) PROVE NeverOff(p)
  BY <1>1, <1>2, <1>7 DEF NeverOff
<1>8. ASSUME Asks(q) PROVE Asks(p)
  BY <1>1, <1>3, <1>8 DEF Asks
<1> QED BY <1>5, <1>6, <1>7, <1>8 DEF p

\* handle_events takes the first.
LEMMA RequestTaken ==
  ASSUME NEW q \in Seq(Requested), q # << >>
  PROVE  /\ EndsOn(q) => EndsOn(Tail(q)) \/ (Head(q).type = "EnableEpollOut" /\ NeverOff(Tail(q)))
         /\ NeverOff(q) => NeverOff(Tail(q)) /\ Head(q).type # "DisableEpollOut"
         /\ Head(q).type # "EnableEpollOut" /\ Asks(q) => Asks(Tail(q))
<1> DEFINE p == Tail(q)
<1>1. /\ Len(q) \in Nat /\ Len(q) >= 1 /\ Len(p) = Len(q) - 1 /\ Head(q) = q[1]
      /\ \A i \in 1..Len(p) : p[i] = q[i + 1]
  BY HeadTailProperties
<1>2. \A i \in 1..Len(q) : i = 1 \/ (i - 1 \in 1..Len(p) /\ p[i - 1] = q[i])
  <2> SUFFICES ASSUME NEW i \in 1..Len(q), i # 1
               PROVE  i - 1 \in 1..Len(p) /\ p[i - 1] = q[i]
    OBVIOUS
  <2>1. i - 1 \in 1..Len(p) /\ (i - 1) + 1 = i
    BY <1>1
  <2> QED BY <1>1, <2>1
<1>3. \A i \in 1..Len(p) : i + 1 \in 1..Len(q) /\ i + 1 > 1
  BY <1>1
<1>4. 1 \in 1..Len(q)
  BY <1>1
<1> HIDE DEF p
<1>5. ASSUME EndsOn(q) PROVE EndsOn(p) \/ (Head(q).type = "EnableEpollOut" /\ NeverOff(p))
  <2>1. PICK i \in 1..Len(q) : /\ q[i].type = "EnableEpollOut"
                               /\ \A j \in 1..Len(q) : j > i => q[j].type # "DisableEpollOut"
    BY <1>5 DEF EndsOn
  <2>2. CASE i = 1
    BY <1>1, <1>3, <2>1, <2>2 DEF NeverOff
  <2>3. CASE i # 1
    <3>1. i - 1 \in 1..Len(p) /\ p[i - 1].type = "EnableEpollOut"
      BY <1>2, <2>1, <2>3
    <3>2. ASSUME NEW j \in 1..Len(p), j > i - 1 PROVE p[j].type # "DisableEpollOut"
      <4>1. j + 1 \in 1..Len(q) /\ j + 1 > i
        BY <1>3, <3>2
      <4> QED BY <1>1, <2>1, <4>1
    <3> QED BY <3>1, <3>2 DEF EndsOn
  <2> QED BY <2>2, <2>3
<1>6. ASSUME NeverOff(q) PROVE NeverOff(p) /\ Head(q).type # "DisableEpollOut"
  BY <1>1, <1>3, <1>4, <1>6 DEF NeverOff
<1>7. ASSUME Head(q).type # "EnableEpollOut", Asks(q) PROVE Asks(p)
  <2>1. PICK i \in 1..Len(q) : q[i].type = "EnableEpollOut"
    BY <1>7 DEF Asks
  <2>2. i - 1 \in 1..Len(p) /\ p[i - 1] = q[i]
    BY <1>1, <1>2, <1>7, <2>1
  <2> QED BY <2>1, <2>2 DEF Asks
<1> QED BY <1>5, <1>6, <1>7 DEF p

\* A queue that ends with EPOLLOUT on asks for it.
LEMMA EndsOnAsks == ASSUME NEW q, EndsOn(q) PROVE Asks(q)
BY DEF EndsOn, Asks

\* What Report posts: nothing, or one request.
LEMMA ReportPosts ==
  ASSUME IInv, NEW w \in Workers, Report(w)
  PROVE  /\ \/ main_events' = main_events
            \/ \E e \in Requested : main_events' = Append(main_events, e)
         /\ pc[w] = "Complete" /\ task[w] # "FLUSH" => main_events' = main_events
         /\ pc[w] = "Pending" /\ task[w] = "FLUSH" => main_events' = main_events
         /\ pc[w] = "Pending" /\ task[w] # "FLUSH" =>
              \E e \in Requested : e.type = "EnableEpollOut" /\ main_events' = Append(main_events, e)
<1> DEFINE R == Requests(task[w], pc[w])
           m == [i \in DOMAIN R |-> [type |-> R[i], connection |-> connection]]
           E(x) == [type |-> x, connection |-> connection]
<1>1. /\ pc[w] \in FlushResults /\ task[w] \in Tasks /\ main_events' = main_events \o m
      /\ connection \in 1..MaxConnections /\ main_events \in Seq(Requested)
  <2>1. connection # 0
    BY DEF Report, IInv, NotStarted, FlushResults
  <2> QED BY <2>1, BoundsAssumption DEF Report, IInv, TypeOK, Requested
<1>2. ASSUME R = << >> PROVE main_events' = main_events
  <2>1. m = << >>
    BY <1>2
  <2>2. main_events \o << >> = main_events
    BY <1>1, ConcatEmptySeq
  <2> HIDE DEF m
  <2> QED BY <1>1, <2>1, <2>2, Zenon
<1>3. ASSUME NEW x \in MainEventTypes, R = <<x>>
      PROVE  main_events' = Append(main_events, E(x)) /\ E(x) \in Requested
  <2>1. m = <<E(x)>>
    BY <1>3
  <2>2. E(x) \in Requested
    BY <1>1 DEF Requested
  <2>3. E(x).type = x
    OBVIOUS
  <2> HIDE DEF m, E
  <2>4. main_events \o <<E(x)>> = Append(main_events, E(x))
    BY <1>1, <2>2
  <2> QED BY <1>1, <2>1, <2>2, <2>4, Zenon
<1>4. /\ pc[w] = "Error" => R = <<"Disconnect">>
      /\ pc[w] = "Complete" => R = IF task[w] = "FLUSH" THEN <<"DisableEpollOut">> ELSE << >>
      /\ pc[w] = "Pending" => R = IF task[w] = "FLUSH" THEN << >> ELSE <<"EnableEpollOut">>
  BY <1>1 DEF Requests, Tasks
<1>5. E("EnableEpollOut").type = "EnableEpollOut"
  OBVIOUS
<1>6. {"Disconnect", "EnableEpollOut", "DisableEpollOut"} = MainEventTypes
  BY DEF MainEventTypes
<1> HIDE DEF R, m, E
<1> QED BY <1>1, <1>2, <1>3, <1>4, <1>5, <1>6 DEF FlushResults

-----------------------------------------------------------------------------
(***************************************************************************)
(* The socket's buffer, and the workers that have nothing to do with the   *)
(* session.                                                                *)
(***************************************************************************)
\* No step overfills the socket.
LEMMA BoundedNext == IInv /\ SocketBounded /\ [Next]_vars => SocketBounded'
<1> SUFFICES ASSUME IInv, SocketBounded, [Next]_vars PROVE SocketBounded'
  OBVIOUS
<1>1. sock \in Seq(Nat) /\ Len(sock) \in Nat /\ SocketSize \in Nat
  BY SocketAssumption DEF IInv, TypeOK
<1>2. ASSUME NEW w \in Workers, Send(w) PROVE SocketBounded'
  <2> DEFINE b == Head(send_queue)
             n == Fitting(b)
             f == [i \in 1..n |-> b.at + i - 1]
  <2>1. send_queue # << >> /\ n > 0 /\ sock' = sock \o f
    BY <1>2 DEF Send, IInv, BufferAtHand
  <2>2. b \in Buffers
    BY <2>1 DEF IInv, TypeOK
  <2> HIDE DEF b
  <2>3. n \in Nat /\ n <= SocketSize - Len(sock)
    <3>1. n \in Nat
      BY <2>1, <2>2, FittingType DEF IInv
    <3> QED BY <1>1, <2>2, <3>1 DEF Fitting, Room, Buffers
  <2> HIDE DEF n
  <2>4. f \in Seq(Nat) /\ Len(f) = n
    BY <2>2, <2>3 DEF Buffers
  <2> HIDE DEF f
  <2>5. Len(sock') = Len(sock) + n
    <3>1. Len(sock \o f) = Len(sock) + Len(f)
      BY <1>1, <2>4, ConcatProperties
    <3> QED BY <2>1, <2>4, <3>1
  <2> QED BY <1>1, <2>3, <2>5 DEF SocketBounded
<1>3. CASE AcceptClient
  BY <1>1, <1>3 DEF AcceptClient, SocketBounded
<1>4. CASE recv_all
  <2>1. sock # << >> /\ sock' = Tail(sock)
    BY <1>4 DEF recv_all
  <2>2. Len(sock') = Len(sock) - 1
    BY <1>1, <2>1
  <2> QED BY <1>1, <2>2 DEF SocketBounded
<1>5. ASSUME sock' = sock PROVE SocketBounded'
  BY <1>5 DEF SocketBounded
<1>6. ASSUME NEW w \in Workers, SendPacket(w) \/ TakeFlush(w) \/ Enter(w, "test") \/ Front(w)
                                \/ WouldBlock(w) \/ SendFails(w) \/ Pop(w) \/ Store(w) \/ More(w)
                                \/ Enter(w, "retest") \/ Report(w) \/ Release(w)
      PROVE  sock' = sock
  BY <1>6 DEF SendPacket, TakeFlush, Enter, Front, WouldBlock, SendFails, Pop, Store, More,
              Report, Release
<1>7. ASSUME HandleEvent \/ HandleEpollOut \/ HangUp \/ ClientCloses \/ UNCHANGED vars
      PROVE  sock' = sock
  BY <1>7 DEF HandleEvent, HandleEpollOut, HangUp, ClientCloses, vars
<1> QED BY <1>2, <1>3, <1>4, <1>5, <1>6, <1>7 DEF Next, WorkerStep

\* Whoever takes a step for the session sends to it.
LEMMA OnlySendersAct ==
  ASSUME IInv, OthersIdle, NEW w \in Workers, SendPacket(w) \/ WorkerStep(w)
  PROVE  w \in senders
<1> SUFFICES ASSUME w \notin senders PROVE FALSE
  OBVIOUS
<1>1. pc[w] = "idle" /\ w \notin refs /\ flush_events[w] = 0
  BY DEF OthersIdle
<1>2. ~(SendPacket(w) \/ TakeFlush(w))
  BY <1>1 DEF SendPacket, TakeFlush, HasFlush
<1>3. ~(Enter(w, "test") \/ Front(w) \/ Send(w) \/ WouldBlock(w) \/ SendFails(w) \/ Pop(w))
  BY <1>1 DEF Enter, Front, Send, WouldBlock, SendFails, Pop
<1>4. ~(Store(w) \/ More(w) \/ Enter(w, "retest") \/ Report(w))
  BY <1>1 DEF Store, More, Enter, Report, FlushResults
<1> QED BY <1>2, <1>3, <1>4 DEF WorkerStep

\* A worker's step is its own: another worker stays where it is.
LEMMA OthersUntouched ==
  ASSUME IInv, NEW w \in Workers, SendPacket(w) \/ WorkerStep(w)
  PROVE  /\ \A v \in Workers \ {w} : /\ pc'[v] = pc[v] /\ task'[v] = task[v]
                                     /\ flush_events'[v] = flush_events[v]
         /\ senders' = senders /\ refs' = refs
<1> USE DEF IInv, TypeOK, Goto
<1>1. CASE SendPacket(w)
  BY <1>1 DEF SendPacket
<1>2. CASE TakeFlush(w)
  BY <1>2 DEF TakeFlush
<1>3. CASE Enter(w, "test") \/ Enter(w, "retest")
  BY <1>3 DEF Enter
<1>4. CASE Front(w) \/ Send(w) \/ WouldBlock(w)
  BY <1>4 DEF Front, Send, WouldBlock
<1>5. CASE SendFails(w) \/ Pop(w) \/ Store(w)
  BY <1>5 DEF SendFails, Pop, Store
<1>6. CASE More(w) \/ Report(w)
  BY <1>6 DEF More, Report
<1> QED BY <1>1, <1>2, <1>3, <1>4, <1>5, <1>6 DEF WorkerStep

\* No step brings a worker outside senders to the session.
LEMMA OthersNext == IInv /\ OthersIdle /\ [Next]_vars => OthersIdle'
<1> SUFFICES ASSUME IInv, OthersIdle, [Next]_vars PROVE OthersIdle'
  OBVIOUS
<1>1. ASSUME NEW w \in Workers, SendPacket(w) \/ WorkerStep(w) PROVE OthersIdle'
  BY <1>1, OnlySendersAct, OthersUntouched DEF OthersIdle
<1>2. ASSUME NEW w \in Workers, Release(w) PROVE OthersIdle'
  BY <1>2 DEF Release, threadVars, OthersIdle
<1>3. CASE AcceptClient
  BY <1>3 DEF AcceptClient, threadVars, OthersIdle
<1>4. CASE HandleEvent
  BY <1>4 DEF HandleEvent, threadVars, OthersIdle
<1>5. CASE HandleEpollOut
  <2>1. UNCHANGED <<senders, refs, pc>> /\ request_flush
    BY <1>5 DEF HandleEpollOut
  <2> QED BY <2>1 DEF request_flush, IInv, TypeOK, OthersIdle
<1>6. CASE HangUp \/ recv_all \/ ClientCloses \/ UNCHANGED vars
  BY <1>6 DEF HangUp, recv_all, ClientCloses, threadVars, vars, OthersIdle
<1> QED BY <1>1, <1>2, <1>3, <1>4, <1>5, <1>6 DEF Next

-----------------------------------------------------------------------------
(***************************************************************************)
(* The steps, for one worker.                                              *)
(***************************************************************************)
Core == ResultsTrue /\ FlushArmed /\ Woken

\* With one worker nobody else is inside flush.
LEMMA HomeAlone ==
  ASSUME IInv, OthersIdle, senders = {Home}
  PROVE  sending <=> InFlush(Home)
BY WorkersAssumption DEF IInv, OneSender, OthersIdle, InFlush

\* send_packet packs and enters flush.
LEMMA PackCore == ASSUME IInv, Core, SendPacket(Home) PROVE Core'
<1>1. pc'[Home] = "test" /\ task'[Home] = "send_packet"
  BY WorkersAssumption DEF SendPacket, Goto, IInv, TypeOK
<1> QED BY <1>1 DEF Core, ResultsTrue, FlushArmed, Woken, Left

\* A FLUSH event is taken by an idle worker: what Woken says becomes FlushArmed.
LEMMA TakeCore == ASSUME IInv, Core, TakeFlush(Home) PROVE Core'
<1>1. /\ pc[Home] = "idle" /\ pc'[Home] = "test"
      /\ UNCHANGED <<registered, peer, send_queue, main_events, armed>>
  BY WorkersAssumption
     DEF TakeFlush, Goto, IInv, TypeOK, mainVars, sessionVars, epollVars
<1>2. WillArm' = WillArm /\ Live' = Live
  BY <1>1 DEF WillArm, Live
<1>3. ResultsTrue' /\ Woken'
  BY <1>1 DEF ResultsTrue, Woken, Left
<1>4. FlushArmed'
  BY <1>1, <1>2 DEF Core, Woken, Left, FlushArmed
<1> QED BY <1>3, <1>4 DEF Core

\* The steps of flush that leave the queue, the socket's end and epoll alone.
LEMMA InnerCore ==
  ASSUME IInv, OthersIdle, senders = {Home}, Core,
         Enter(Home, "test") \/ Enter(Home, "retest") \/ Front(Home) \/ SendFails(Home)
           \/ Store(Home) \/ More(Home)
  PROVE  Core'
<1>1. /\ pc[Home] # "idle"
      /\ UNCHANGED <<registered, peer, send_queue, main_events, armed, edge, nospace, task,
                     flush_events>>
  BY DEF Enter, Front, SendFails, Store, More, mainVars, sessionVars, epollVars
<1>2. WillArm' = WillArm /\ Live' = Live
  BY <1>1 DEF WillArm, Live
<1>3. /\ pc'[Home] # "idle"
      /\ pc'[Home] = "Complete" => send_queue = << >>
      /\ pc'[Home] \in {"store_Error", "Error"} =>
           peer = "closed" \/ pc[Home] \in {"store_Error", "Error"}
      /\ pc'[Home] \in {"store_Pending", "Pending"} => pc[Home] = "store_Pending"
  <2> USE WorkersAssumption DEF Goto, IInv, TypeOK
  <2>1. CASE Enter(Home, "test") \/ Enter(Home, "retest")
    <3>1. ~sending
      BY <2>1, HomeAlone DEF Enter, InFlush
    <3> QED BY <2>1, <3>1 DEF Enter, MayEnter
  <2>2. CASE Front(Home)
    BY <2>2 DEF Front
  <2>3. CASE SendFails(Home)
    BY <2>3 DEF SendFails
  <2>4. CASE Store(Home)
    BY <2>4 DEF Store, AfterStore
  <2>5. CASE More(Home)
    BY <2>5 DEF More
  <2> QED BY <2>1, <2>2, <2>3, <2>4, <2>5
<1>4. ResultsTrue'
  BY <1>1, <1>3 DEF Core, ResultsTrue
<1>5. FlushArmed'
  BY <1>1, <1>2 DEF Core, FlushArmed
<1>6. Woken'
  BY <1>1, <1>2, <1>3 DEF Core, Woken, Left
<1> QED BY <1>4, <1>5, <1>6 DEF Core

\* send takes something, or a buffer that is sent goes.
LEMMA SendCore ==
  ASSUME IInv, Core, Send(Home) \/ Pop(Home) PROVE Core'
<1>1. /\ pc[Home] \in {"send", "pop"} /\ pc'[Home] \in {"pop", "send", "store"}
      /\ UNCHANGED <<registered, peer, main_events, armed, task>>
  BY WorkersAssumption DEF Send, Pop, Goto, IInv, TypeOK, mainVars, epollVars
<1>2. WillArm' = WillArm /\ Live' = Live /\ send_queue # << >>
  BY <1>1, WorkersAssumption DEF WillArm, Live, IInv, BufferAtHand
<1>3. ResultsTrue' /\ Woken'
  BY <1>1 DEF ResultsTrue, Woken, Left
<1>4. FlushArmed'
  BY <1>1, <1>2 DEF Core, FlushArmed
<1> QED BY <1>3, <1>4 DEF Core

\* EAGAIN: the kernel owes an edge.
LEMMA BlockCore == ASSUME IInv, Core, WouldBlock(Home) PROVE Core'
<1>1. /\ pc[Home] = "send" /\ pc'[Home] = "store_Pending" /\ nospace' = TRUE
      /\ UNCHANGED <<registered, peer, send_queue, main_events, armed, task>>
  BY WorkersAssumption DEF WouldBlock, Goto, IInv, TypeOK, mainVars, sessionVars
<1>2. WillArm' = WillArm /\ Live' = Live /\ send_queue # << >>
  BY <1>1, WorkersAssumption DEF WillArm, Live, IInv, BufferAtHand
<1>3. ResultsTrue'
  BY <1>1 DEF ResultsTrue
<1>4. FlushArmed'
  BY <1>1, <1>2 DEF Core, FlushArmed
<1>5. Woken'
  BY <1>1, <1>2 DEF Core, FlushArmed, Woken, Left
<1> QED BY <1>3, <1>4, <1>5 DEF Core

\* send_packet and FLUSH report: Pending asks for EPOLLOUT unless it is on, and
\* Complete, which turns it off, leaves nothing in the queue.
LEMMA ReportCore == ASSUME IInv, Core, Report(Home) PROVE Core'
<1>1. /\ pc[Home] \in FlushResults /\ pc'[Home] = "idle"
      /\ UNCHANGED <<registered, peer, send_queue, armed, edge, nospace, task, flush_events>>
  BY WorkersAssumption DEF Report, Goto, IInv, TypeOK, sessionVars, epollVars
<1>2. ResultsTrue' /\ FlushArmed'
  BY <1>1 DEF ResultsTrue, FlushArmed
<1>3. Woken'
  <2> SUFFICES ASSUME Live', send_queue # << >>
               PROVE  WillArm' /\ (Asks(main_events') \/ edge \/ nospace \/ flush_events[Home] > 0)
    BY <1>1 DEF Woken, Left
  <2>1. Live
    BY <1>1 DEF Live
  <2>2. pc[Home] = "Pending"
    BY <1>1, <2>1 DEF Core, ResultsTrue, FlushResults, Live
  <2>3. CASE task[Home] = "FLUSH"
    <3>1. main_events' = main_events
      BY <2>2, <2>3, ReportPosts, WorkersAssumption
    <3>2. WillArm' = WillArm
      BY <1>1, <3>1 DEF WillArm
    <3> QED BY <2>1, <2>2, <2>3, <3>1, <3>2 DEF Core, Woken, Left
  <2>4. CASE task[Home] # "FLUSH"
    <3>1. PICK e \in Requested : e.type = "EnableEpollOut" /\ main_events' = Append(main_events, e)
      BY <2>2, <2>4, ReportPosts, WorkersAssumption
    <3>2. EndsOn(main_events') /\ Asks(main_events')
      BY <3>1, RequestPushed DEF IInv, TypeOK, Requested
    <3> QED BY <3>2 DEF WillArm
  <2> QED BY <2>3, <2>4
<1> QED BY <1>2, <1>3 DEF Core

\* handle_events: Enable finds room or is owed an edge, and Disable is not the
\* last word if it must not be.
LEMMA EventCore == ASSUME IInv, SocketBounded, Core, HandleEvent PROVE Core'
<1>1. /\ main_events # << >> /\ main_events' = Tail(main_events)
      /\ UNCHANGED <<send_queue, pc, task, flush_events, sock, peer>>
  BY DEF HandleEvent, sessionVars, threadVars
<1>2. main_events \in Seq(Requested)
  BY DEF IInv, TypeOK, Requested
<1> DEFINE t == Head(main_events).type
<1>3. CASE registered' = FALSE
  BY <1>1, <1>3 DEF Core, ResultsTrue, FlushArmed, Woken, Live
<1>4. CASE registered'
  <2>1. registered /\ t # "Disconnect"
    BY <1>4 DEF HandleEvent, close_session, IInv, TypeOK
  <2>2. t \in {"EnableEpollOut", "DisableEpollOut"}
    <3>1. Head(main_events) \in Requested
      BY <1>1, <1>2, HeadTailProperties
    <3> QED BY <2>1, <3>1 DEF Requested, MainEventTypes
  <2>3. /\ EndsOn(main_events) => \/ EndsOn(main_events')
                                  \/ t = "EnableEpollOut" /\ NeverOff(main_events')
        /\ NeverOff(main_events) => NeverOff(main_events') /\ t # "DisableEpollOut"
        /\ t # "EnableEpollOut" /\ Asks(main_events) => Asks(main_events')
    BY <1>1, <1>2, RequestTaken
  <2>4. t = "EnableEpollOut" => armed' = TRUE /\ (edge' \/ nospace')
    <3> SUFFICES ASSUME t = "EnableEpollOut" PROVE armed' = TRUE /\ (edge' \/ nospace')
      OBVIOUS
    <3>1. enable_epoll_out
      BY <2>1 DEF HandleEvent
    <3>2. Room > 0 \/ Room = 0
      BY SocketAssumption DEF Room, SocketBounded, IInv, TypeOK
    <3>3. armed' = TRUE /\ edge' = (Room > 0) /\ nospace' = (Room = 0)
      BY <3>1 DEF enable_epoll_out
    <3> QED BY <3>2, <3>3, Zenon
  <2>5. t = "DisableEpollOut" => nospace' = nospace
    BY <2>1 DEF HandleEvent, disable_epoll_out
  <2> HIDE DEF t
  <2>6. WillArm => WillArm'
    BY <2>2, <2>3, <2>4 DEF WillArm
  <2>7. Live' = Live
    BY <1>1, <1>4, <2>1 DEF Live
  <2>8. ResultsTrue'
    BY <1>1 DEF Core, ResultsTrue
  <2>9. FlushArmed'
    BY <1>1, <2>6, <2>7 DEF Core, FlushArmed
  <2>10. Woken'
    <3> SUFFICES ASSUME Live', Left'
                 PROVE  /\ WillArm'
                        /\ Asks(main_events') \/ edge' \/ nospace' \/ flush_events'[Home] > 0
      BY DEF Woken
    <3>1. /\ WillArm
          /\ Asks(main_events) \/ edge \/ nospace \/ flush_events[Home] > 0
      BY <1>1, <2>7 DEF Core, Woken, Left
    <3>2. CASE t = "EnableEpollOut"
      BY <2>4, <2>6, <3>1, <3>2
    \* EPOLLOUT goes off, so the request to turn it on is still to come.
    <3>3. CASE t = "DisableEpollOut"
      <4>1. EndsOn(main_events)
        BY <2>3, <3>1, <3>3 DEF WillArm
      <4> QED BY <2>3, <2>6, <3>1, <3>3, <4>1, EndsOnAsks
    <3> QED BY <2>2, <3>2, <3>3
  <2> QED BY <2>8, <2>9, <2>10 DEF Core
<1>5. registered' = registered \/ registered' = FALSE
  BY DEF HandleEvent, close_session
<1>6. registered = TRUE \/ registered = FALSE
  BY DEF IInv, TypeOK
<1>7. registered' = TRUE \/ registered' = FALSE
  BY <1>5, <1>6
<1> QED BY <1>3, <1>4, <1>7, Zenon

\* The edge becomes a FLUSH event of the one worker.
LEMMA EpollOutCore == ASSUME IInv, senders = {Home}, Core, HandleEpollOut PROVE Core'
<1>1. /\ UNCHANGED <<registered, peer, send_queue, main_events, armed, nospace, pc, task>>
      /\ request_flush
  BY DEF HandleEpollOut, mainVars, sessionVars
<1>2. flush_events'[Home] > 0
  BY <1>1, WorkersAssumption DEF request_flush, IInv, TypeOK
<1>3. WillArm' = WillArm /\ Live' = Live /\ Left' = Left
  BY <1>1 DEF WillArm, Live, Left
<1>4. ResultsTrue' /\ FlushArmed'
  BY <1>1, <1>3 DEF Core, ResultsTrue, FlushArmed
<1>5. Woken'
  BY <1>2, <1>3 DEF Core, Woken
<1> QED BY <1>4, <1>5 DEF Core

\* The client reads: the edge that was owed is reported if EPOLLOUT is on, and
\* otherwise the request to turn it on is to come.
LEMMA ReadCore == ASSUME IInv, Core, recv_all PROVE Core'
<1>1. /\ UNCHANGED <<registered, peer, send_queue, main_events, armed, pc, task, flush_events>>
      /\ edge' = (edge \/ (armed /\ nospace))
  BY DEF recv_all, mainVars, sessionVars, threadVars
<1>2. edge \/ (armed /\ nospace) => edge'
  BY <1>1, Zenon
<1>3. WillArm' = WillArm /\ Live' = Live /\ Left' = Left
  BY <1>1 DEF WillArm, Live, Left
<1>4. ResultsTrue' /\ FlushArmed'
  BY <1>1, <1>3 DEF Core, ResultsTrue, FlushArmed
<1>5. WillArm => armed \/ Asks(main_events)
  BY EndsOnAsks DEF WillArm
<1>6. Woken'
  BY <1>1, <1>2, <1>3, <1>5 DEF Core, Woken
<1> QED BY <1>4, <1>6 DEF Core

\* The connection begins or ends.
LEMMA EdgesCore ==
  ASSUME IInv, Core, AcceptClient \/ HangUp \/ ClientCloses \/ (\E w \in Workers : Release(w))
  PROVE  Core'
<1>1. CASE AcceptClient
  <2>1. pc'[Home] = "idle" /\ send_queue' = << >>
    BY <1>1, WorkersAssumption DEF AcceptClient, Destroyed, threadVars
  <2> QED BY <2>1 DEF Core, ResultsTrue, FlushArmed, Woken, Left
<1>2. CASE HangUp \/ ClientCloses
  <2>1. ~Live' /\ UNCHANGED <<pc, send_queue>> /\ (peer = "closed" => peer' = "closed")
    BY <1>2 DEF HangUp, ClientCloses, close_session, Live, threadVars, sessionVars
  <2> QED BY <2>1 DEF Core, ResultsTrue, FlushArmed, Woken
<1>3. CASE \E w \in Workers : Release(w)
  <2>1. ~Live' /\ UNCHANGED <<pc, send_queue, peer>>
    BY <1>3 DEF Release, Live, threadVars, sessionVars, mainVars
  <2> QED BY <2>1 DEF Core, ResultsTrue, FlushArmed, Woken
<1> QED BY <1>1, <1>2, <1>3

-----------------------------------------------------------------------------
(***************************************************************************)
(* The theorem.                                                            *)
(***************************************************************************)
\* Every step keeps the invariant.
LEMMA FlushNext == IInv /\ FlushInv /\ [Next]_vars => FlushInv'
<1> SUFFICES ASSUME IInv, FlushInv, [Next]_vars PROVE FlushInv'
  OBVIOUS
<1>1. SocketBounded /\ OthersIdle /\ (senders = {Home} => Core)
  BY DEF FlushInv, Core
<1>2. SocketBounded' /\ OthersIdle'
  BY <1>1, BoundedNext, OthersNext
<1>3. senders' = senders
  BY DEF Next, WorkerStep, SendPacket, TakeFlush, Enter, Front, Send, WouldBlock, SendFails,
         Pop, Store, More, Report, Release, AcceptClient, HandleEvent, HandleEpollOut, HangUp,
         recv_all, ClientCloses, vars
<1>4. ASSUME senders = {Home} PROVE Core'
  <2>1. Core
    BY <1>1, <1>4
  <2>2. ASSUME NEW w \in Workers, SendPacket(w) \/ WorkerStep(w) PROVE Core'
    <3>1. w = Home
      BY <1>1, <1>4, <2>2, OnlySendersAct
    <3>2. SendPacket(Home) \/ WorkerStep(Home)
      BY <2>2, <3>1
    <3> QED
      BY <1>1, <1>4, <2>1, <3>2, PackCore, TakeCore, InnerCore, SendCore, BlockCore, ReportCore
         DEF WorkerStep
  <2>3. CASE UNCHANGED vars
    BY <2>1, <2>3 DEF vars, Core, ResultsTrue, FlushArmed, Woken, Left, Live, WillArm
  <2> QED
    BY <1>1, <1>4, <2>1, <2>2, <2>3, EventCore, EpollOutCore, ReadCore, EdgesCore DEF Next
<1> QED BY <1>2, <1>3, <1>4 DEF FlushInv, Core

\* While one worker sends to a live session, a queue that is not empty has
\* somebody at it, or on the way to it, or an edge to come with EPOLLOUT on, or a
\* request to turn it on: for any number of connections that use the descriptor,
\* whose late requests may still be in the main thread's queue.
THEOREM NothingStuck == Spec => []NoneLeftBehind
<1>1. Init => IInv /\ FlushInv
  <2> SUFFICES ASSUME Init PROVE FlushInv
    BY InitIInv
  <2>1. SocketBounded
    BY SocketAssumption DEF Init, SocketBounded
  <2>2. OthersIdle
    BY DEF Init, OthersIdle
  <2>3. ResultsTrue /\ FlushArmed /\ Woken
    BY WorkersAssumption DEF Init, ResultsTrue, FlushArmed, Woken, Left
  <2> QED BY <2>1, <2>2, <2>3 DEF FlushInv
<1>2. IInv /\ FlushInv /\ [Next]_vars => (IInv /\ FlushInv)'
  BY IInvNext, FlushNext
<1>3. IInv /\ FlushInv => NoneLeftBehind
  <2> SUFFICES ASSUME IInv, FlushInv, send_queue # << >>, ~sending, Live, senders = {Home}
               PROVE  \/ \E w \in Workers : \/ pc[w] \in {"test", "more", "retest", "Pending"}
                                             \/ flush_events[w] > 0
                      \/ armed /\ (edge \/ nospace)
                      \/ \E i \in DOMAIN main_events : main_events[i].type = "EnableEpollOut"
    BY DEF NoneLeftBehind, Live
  <2>1. OthersIdle /\ ResultsTrue /\ Woken
    BY DEF FlushInv
  <2>2. ~InFlush(Home)
    BY <2>1, HomeAlone
  <2>3. pc[Home] \in {"idle", "test", "more", "retest", "Pending"}
    BY <2>1, <2>2, WorkersAssumption
       DEF IInv, TypeOK, Labels, FlushResults, InFlush, ResultsTrue, Live
  <2>4. CASE pc[Home] = "idle"
    <3>1. WillArm /\ (Asks(main_events) \/ edge \/ nospace \/ flush_events[Home] > 0)
      BY <2>1, <2>4 DEF Woken, Left
    <3>2. DOMAIN main_events = 1..Len(main_events)
      BY DEF IInv, TypeOK
    <3>3. Asks(main_events) => \E i \in DOMAIN main_events : main_events[i].type = "EnableEpollOut"
      BY <3>2 DEF Asks
    <3>4. WillArm => armed \/ Asks(main_events)
      BY EndsOnAsks DEF WillArm
    <3> QED BY <3>1, <3>3, <3>4, WorkersAssumption
  <2>5. CASE pc[Home] # "idle"
    BY <2>3, <2>5, WorkersAssumption
  <2> QED BY <2>4, <2>5
<1> QED BY <1>1, <1>2, <1>3, PTL DEF Spec
=============================================================================
