------------------------------ MODULE Framing ------------------------------
(***************************************************************************)
(* From the client's send_request to RoomManager::dispatch_packet: a       *)
(* stream of bytes that the network cuts anywhere, an edge-triggered       *)
(* EPOLLIN, the loop of Session::on_readable, and the loop that cuts the   *)
(* receive buffer into packets.                                            *)
(*                                                                         *)
(* A byte is <<i, k>>, the k-th of the i-th packet of the connection, so   *)
(* that what is dispatched can be compared with what was sent.  What a     *)
(* packet says is left to RoomServer.                                      *)
(***************************************************************************)
EXTENDS Integers, Sequences

CONSTANTS
  BodySizes,            \* the lengths a body may have
  HeaderSize,           \* sizeof(Header)
  RequestSize,          \* sizeof(Request)
  RecvSize,             \* the size of on_readable's buffer
  MaxPackets            \* bound: packets of the connection

ASSUME SizesAssumption ==
  /\ BodySizes \subseteq Nat
  /\ {HeaderSize, RequestSize, RecvSize} \subseteq Nat \ {0}
  /\ MaxPackets \in Nat

VARIABLES
  lens,                 \* body_len of every packet the client has made
  out,                  \* Socket::send_buf_ of the client: not yet written
  wire,                 \* written and not yet received
  peer,                 \* the client's end: "up" or "closed"
  open,                 \* the session is in the server's table and epoll set
  edge,                 \* epoll_wait will report EPOLLIN
  pc,                   \* where the main thread is
  recv_buffer,          \* Session::recv_buffer_
  packet,               \* the Packet of handle_request
  dispatched            \* what dispatch_packet was called with

clientVars == <<lens, out>>
vars == <<lens, out, wire, peer, open, edge, pc, recv_buffer, packet, dispatched>>

EmptyPacket == [header |-> << >>, request |-> << >>, body |-> << >>]

Bytes(i, first, last) == [k \in 1..(last - first + 1) |-> <<i, first + k - 1>>]

\* The i-th packet as the client meant it.
PacketSent(i) ==
  LET fixed == HeaderSize + RequestSize IN
  [header  |-> Bytes(i, 1, HeaderSize),
   request |-> Bytes(i, HeaderSize + 1, fixed),
   body    |-> Bytes(i, fixed + 1, fixed + lens[i])]

-----------------------------------------------------------------------------
(***************************************************************************)
(* The client.                                                             *)
(***************************************************************************)
\* send_request packs header, request and body into send_buf_.
send_request ==
  /\ peer = "up"
  /\ Len(lens) < MaxPackets
  /\ \E n \in BodySizes :
       /\ lens' = Append(lens, n)
       /\ out' = out \o Bytes(Len(lens) + 1, 1, HeaderSize + RequestSize + n)
  /\ UNCHANGED <<wire, peer, open, edge, pc, recv_buffer, packet, dispatched>>

\* One call of send in send_all: the kernel takes some, and more arrives.
send_all ==
  /\ peer = "up"
  /\ out # << >>
  /\ \E n \in 1..Len(out) :
       /\ wire' = wire \o SubSeq(out, 1, n)
       /\ out' = SubSeq(out, n + 1, Len(out))
  /\ edge' = open
  /\ UNCHANGED <<lens, peer, open, pc, recv_buffer, packet, dispatched>>

\* The client ends, in the middle of a packet perhaps: a FIN behind what was
\* written, or a reset, which discards it.
ClientCloses ==
  /\ peer = "up"
  /\ peer' = "closed"
  /\ wire' \in {wire, << >>}
  /\ edge' = open
  /\ UNCHANGED <<clientVars, open, pc, recv_buffer, packet, dispatched>>

-----------------------------------------------------------------------------
(***************************************************************************)
(* The main thread.                                                        *)
(***************************************************************************)
EpollIn ==
  /\ pc = "epoll_wait"
  /\ edge
  /\ edge' = FALSE
  /\ pc' = "recv"
  /\ UNCHANGED <<clientVars, wire, peer, open, recv_buffer, packet, dispatched>>

\* mutant: on_readable calls recv once.
AfterRecv_Once == "extract"

AfterRecv == "recv"

\* on_readable's loop: until EAGAIN.  A recv that returns 0 or fails closes the
\* session, whatever is in the buffer.
Recv ==
  LET n == IF Len(wire) < RecvSize THEN Len(wire) ELSE RecvSize IN
  /\ pc = "recv"
  /\ \/ /\ wire # << >>
        /\ recv_buffer' = recv_buffer \o SubSeq(wire, 1, n)
        /\ wire' = SubSeq(wire, n + 1, Len(wire))
        /\ pc' = AfterRecv
        /\ UNCHANGED <<open, edge, packet>>
     \/ /\ wire = << >> /\ peer = "up"
        /\ pc' = "extract"
        /\ packet' = EmptyPacket
        /\ UNCHANGED <<wire, open, edge, recv_buffer>>
     \/ /\ wire = << >> /\ peer = "closed"
        /\ open' = FALSE /\ edge' = FALSE
        /\ pc' = "epoll_wait"
        /\ UNCHANGED <<wire, recv_buffer, packet>>
  /\ UNCHANGED <<clientVars, peer, dispatched>>

\* request.body_len, read from the bytes of the request.
body_len(request) == lens[request[1][1]]

\* How much of the buffer is the next packet; 0 if it is not there in full.
PacketLength(buffer) ==
  LET fixed == HeaderSize + RequestSize IN
  IF Len(buffer) < fixed THEN 0
  ELSE LET all == fixed + body_len(SubSeq(buffer, HeaderSize + 1, fixed)) IN
       IF Len(buffer) < all THEN 0 ELSE all

\* memcpy into the packet at hand; the body is written only if there is one.
Copied(buffer, p) ==
  LET fixed == HeaderSize + RequestSize
      all   == PacketLength(buffer) IN
  [header  |-> SubSeq(buffer, 1, HeaderSize),
   request |-> SubSeq(buffer, HeaderSize + 1, fixed),
   body    |-> IF all > fixed THEN SubSeq(buffer, fixed + 1, all) ELSE p.body]

\* mutant: the packet is not cleared between two packets.
Reset_Kept(p) == p

\* packet = {}
Reset(p) == EmptyPacket

\* mutant: one packet is taken for one event.
AfterDispatch_Once == "epoll_wait"

AfterDispatch == "extract"

\* One round of handle_request's loop: extract_packet, then dispatch_packet.
Extract ==
  LET n == PacketLength(recv_buffer) IN
  /\ pc = "extract"
  /\ \/ /\ n > 0
        /\ recv_buffer' = SubSeq(recv_buffer, n + 1, Len(recv_buffer))
        /\ dispatched' = Append(dispatched, Copied(recv_buffer, packet))
        /\ packet' = Reset(Copied(recv_buffer, packet))
        /\ pc' = AfterDispatch
     \/ /\ n = 0
        /\ pc' = "epoll_wait"
        /\ UNCHANGED <<recv_buffer, packet, dispatched>>
  /\ UNCHANGED <<clientVars, wire, peer, open, edge>>

-----------------------------------------------------------------------------
Init ==
  /\ lens = << >> /\ out = << >> /\ wire = << >>
  /\ peer = "up" /\ open = TRUE /\ edge = FALSE
  /\ pc = "epoll_wait"
  /\ recv_buffer = << >> /\ packet = EmptyPacket /\ dispatched = << >>

MainThread == EpollIn \/ Recv \/ Extract

Next == send_request \/ send_all \/ ClientCloses \/ MainThread

Spec == Init /\ [][Next]_vars

\* The main thread runs, and so does a client inside send_all.
FairSpec == Spec /\ WF_vars(MainThread) /\ WF_vars(send_all)

-----------------------------------------------------------------------------
(***************************************************************************)
(* Properties.                                                             *)
(***************************************************************************)
\* Wherever the stream is cut, what is dispatched is what was sent: whole packets,
\* in order, each with its own body, an empty one included.
PacketsIntact ==
  /\ Len(dispatched) <= Len(lens)
  /\ \A i \in DOMAIN dispatched : dispatched[i] = PacketSent(i)

\* Edge-triggered: a main thread that waits with no edge to come has left nothing
\* in the kernel and no complete packet in the buffer.  Nobody would wake it.
NothingLeftUnread ==
  (pc = "epoll_wait" /\ open /\ ~edge) => (wire = << >> /\ PacketLength(recv_buffer) = 0)

\* Every packet of a client that stays is dispatched in the end, without any
\* further packet to wake the main thread.
Dispatched ==
  \A i \in 1..MaxPackets :
    (Len(lens) >= i) ~> (Len(dispatched) >= i \/ peer = "closed")
=============================================================================
