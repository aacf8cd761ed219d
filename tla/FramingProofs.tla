--------------------------- MODULE FramingProofs ---------------------------
(***************************************************************************)
(* Theorems about Framing for all sizes of headers, bodies and reads, and  *)
(* any number of packets.                                                  *)
(*                                                                         *)
(* What is under way from the client to extract_packet is one sequence of  *)
(* bytes, Pipe, however it is divided over send_buf_, the network and      *)
(* recv_buffer_.  PipeInv describes it without a recursive definition: two *)
(* bytes of one packet are as far apart as their places in the packet.     *)
(***************************************************************************)
EXTENDS Framing, SequenceTheorems, TLAPS

-----------------------------------------------------------------------------
(***************************************************************************)
(* The invariant.                                                          *)
(***************************************************************************)
Fixed == HeaderSize + RequestSize

Byte == Nat \X Nat

PacketType == [header : Seq(Byte), request : Seq(Byte), body : Seq(Byte)]

\* The type of every variable.
TypeOK ==
  /\ lens \in Seq(Nat) /\ out \in Seq(Byte) /\ wire \in Seq(Byte) /\ recv_buffer \in Seq(Byte)
  /\ peer \in {"up", "closed"} /\ open \in BOOLEAN /\ edge \in BOOLEAN
  /\ pc \in {"epoll_wait", "recv", "extract"}
  /\ packet \in PacketType /\ dispatched \in Seq(PacketType)

\* The length of the i-th packet, for the bodies ls.
Total(ls, i) == Fixed + ls[i]

\* The bytes of q belong to packets of ls.
Known(q, ls) ==
  \A j \in 1..Len(q) : q[j][1] \in 1..Len(ls) /\ q[j][2] \in 1..Total(ls, q[j][1])

\* From any byte of q on, the rest of its packet follows.
Runs(q, ls) ==
  \A j \in 1..Len(q), l \in 1..Len(q) :
    (j <= l /\ q[j][2] + (l - j) <= Total(ls, q[j][1])) =>
      q[l] = <<q[j][1], q[j][2] + (l - j)>>

\* After the last byte of a packet comes the first of the next.
Joins(q, ls) ==
  \A j \in 1..Len(q) :
    (j < Len(q) /\ q[j][2] = Total(ls, q[j][1])) => q[j + 1] = <<q[j][1] + 1, 1>>

Chain(q, ls) == Known(q, ls) /\ Runs(q, ls) /\ Joins(q, ls)

\* What is behind recv_buffer_: send_buf_ counts while the client is there.
Behind == wire \o (IF peer = "up" THEN out ELSE << >>)

\* Everything not yet dispatched that can still arrive.
Pipe == recv_buffer \o Behind

EndsWith(q, ls, d) ==
  IF q = << >> THEN d = Len(ls) ELSE q[Len(q)] = <<Len(ls), Total(ls, Len(ls))>>

PipeInv ==
  /\ Chain(Pipe, lens)
  /\ Pipe # << >> => Pipe[1] = <<Len(dispatched) + 1, 1>>
  /\ peer = "up" => EndsWith(Pipe, lens, Len(dispatched))

\* handle_request starts every round with an empty packet.
PacketClear == pc = "extract" => packet = EmptyPacket

\* Outside the loop of on_readable, something unread has an edge to come.
EdgeKept == open /\ ~edge /\ pc # "recv" => wire = << >>

\* The loop of handle_request leaves no complete packet in the buffer.
NoneComplete == open /\ pc = "epoll_wait" => PacketLength(recv_buffer) = 0

IInv == TypeOK /\ PipeInv /\ PacketsIntact /\ PacketClear /\ EdgeKept /\ NoneComplete

-----------------------------------------------------------------------------
(***************************************************************************)
(* Sequences of bytes.                                                     *)
(***************************************************************************)
\* Every length the code works with is a natural number.
LEMMA SizeTypes ==
  /\ HeaderSize \in Nat /\ HeaderSize > 0 /\ RequestSize \in Nat /\ RequestSize > 0
  /\ RecvSize \in Nat /\ RecvSize > 0 /\ BodySizes \subseteq Nat /\ MaxPackets \in Nat
  /\ Fixed \in Nat /\ Fixed > 1
BY SizesAssumption DEF Fixed

\* The place of a byte further on is a number.
LEMMA SumType ==
  ASSUME NEW a \in Int, NEW b \in Int, NEW c \in Int
  PROVE  a + (b - c) \in Int
OBVIOUS

\* The bytes first to last of one packet, as a sequence.
LEMMA BytesShape ==
  ASSUME NEW i \in Nat, NEW first \in Nat, NEW last \in Nat, first <= last + 1
  PROVE  /\ Bytes(i, first, last) \in Seq(Byte)
         /\ Len(Bytes(i, first, last)) = last - first + 1
         /\ \A k \in 1..(last - first + 1) : Bytes(i, first, last)[k] = <<i, first + k - 1>>
<1> DEFINE n == last - first + 1
<1>1. n \in Nat
  OBVIOUS
<1>2. \A k \in 1..n : <<i, first + k - 1>> \in Byte
  BY DEF Byte
<1>3. Bytes(i, first, last) = [k \in 1..n |-> <<i, first + k - 1>>]
  BY DEF Bytes
<1> HIDE DEF n
<1>4. Bytes(i, first, last) \in Seq(Byte) /\ Len(Bytes(i, first, last)) = n
  <2>1. Bytes(i, first, last) \in [1..n -> Byte]
    BY <1>2, <1>3, Zenon
  <2> QED BY <1>1, <2>1
<1>5. \A k \in 1..n : Bytes(i, first, last)[k] = <<i, first + k - 1>>
  BY <1>3
<1> QED BY <1>4, <1>5 DEF n

\* The n bytes of a whole packet.
LEMMA WholePacketShape ==
  ASSUME NEW i \in Nat, NEW n \in Nat
  PROVE  /\ Bytes(i, 1, n) \in Seq(Byte) /\ Len(Bytes(i, 1, n)) = n
         /\ \A k \in 1..n : Bytes(i, 1, n)[k] = <<i, k>>
<1> DEFINE m == 1
<1>1. m \in Nat /\ m <= n + 1 /\ n - m + 1 = n /\ \A k \in 1..n : m + k - 1 = k
  OBVIOUS
<1> HIDE DEF m
<1>2. /\ Bytes(i, m, n) \in Seq(Byte) /\ Len(Bytes(i, m, n)) = n - m + 1
      /\ \A k \in 1..(n - m + 1) : Bytes(i, m, n)[k] = <<i, m + k - 1>>
  BY <1>1, BytesShape
<1>3. /\ Bytes(i, m, n) \in Seq(Byte) /\ Len(Bytes(i, m, n)) = n
      /\ \A k \in 1..n : Bytes(i, m, n)[k] = <<i, k>>
  BY <1>1, <1>2
<1> QED BY <1>3 DEF m

\* The elements of what is left of a sequence when a prefix is taken off, as
\* recv and extract_packet do.
LEMMA RestShape ==
  ASSUME NEW q \in Seq(Byte), NEW n \in 0..Len(q)
  PROVE  /\ SubSeq(q, n + 1, Len(q)) \in Seq(Byte)
         /\ Len(SubSeq(q, n + 1, Len(q))) = Len(q) - n
         /\ \A j \in 1..(Len(q) - n) : SubSeq(q, n + 1, Len(q))[j] = q[n + j]
<1>1. n \in Nat /\ Len(q) \in Nat /\ n <= Len(q)
  OBVIOUS
<1>2. CASE n < Len(q)
  BY <1>1, <1>2, SubSeqProperties
<1>3. CASE n = Len(q)
  BY <1>1, <1>3, SubSeqProperties
<1> QED BY <1>1, <1>2, <1>3

\* Taking a prefix off and putting it back, as send_all does from send_buf_ to
\* the network and recv from the network to recv_buffer_.
LEMMA CutAndJoin ==
  ASSUME NEW q \in Seq(Byte), NEW n \in 0..Len(q)
  PROVE  /\ SubSeq(q, 1, n) \in Seq(Byte)
         /\ Len(SubSeq(q, 1, n)) = n
         /\ SubSeq(q, 1, n) \o SubSeq(q, n + 1, Len(q)) = q
<1> DEFINE a == SubSeq(q, 1, n)
           b == SubSeq(q, n + 1, Len(q))
<1>1. n \in Nat /\ Len(q) \in Nat /\ n <= Len(q)
  OBVIOUS
<1>2. a \in Seq(Byte) /\ Len(a) = n /\ \A j \in 1..n : a[j] = q[j]
  BY <1>1, SubSeqProperties
<1>3. b \in Seq(Byte) /\ Len(b) = Len(q) - n /\ \A j \in 1..(Len(q) - n) : b[j] = q[n + j]
  BY RestShape
<1> HIDE DEF a, b
<1>4. /\ a \o b \in Seq(Byte) /\ Len(a \o b) = Len(q)
      /\ \A j \in 1..Len(q) : (a \o b)[j] = q[j]
  <2>1. a \o b \in Seq(Byte) /\ Len(a \o b) = Len(a) + Len(b)
    BY <1>2, <1>3, ConcatProperties
  <2>2. \A j \in 1..(Len(a) + Len(b)) :
          (a \o b)[j] = IF j <= Len(a) THEN a[j] ELSE b[j - Len(a)]
    BY <1>2, <1>3, ConcatProperties
  <2>3. Len(a \o b) = Len(q)
    BY <1>1, <1>2, <1>3, <2>1
  <2>4. ASSUME NEW j \in 1..Len(q) PROVE (a \o b)[j] = q[j]
    <3>1. CASE j <= n
      BY <1>1, <1>2, <1>3, <2>2, <3>1
    <3>2. CASE j > n
      <4>1. (a \o b)[j] = b[j - n] /\ j - n \in 1..(Len(q) - n) /\ n + (j - n) = j
        BY <1>1, <1>2, <1>3, <2>2, <3>2
      <4> QED BY <1>3, <4>1
    <3>3. j <= n \/ j > n
      BY <1>1
    <3> QED BY <3>1, <3>2, <3>3
  <2> QED BY <2>1, <2>3, <2>4
<1>5. a \o b = q
  BY <1>4, SeqEqual
<1> QED BY <1>2, <1>5 DEF a, b

-----------------------------------------------------------------------------
(***************************************************************************)
(* Chains of packets.                                                      *)
(***************************************************************************)
\* A prefix of a chain is a chain: what a client leaves behind when it ends.
LEMMA ChainPrefix ==
  ASSUME NEW a \in Seq(Byte), NEW b \in Seq(Byte), NEW ls \in Seq(Nat), Chain(a \o b, ls)
  PROVE  Chain(a, ls)
<1> DEFINE q == a \o b
<1>1. Len(a) \in Nat /\ Len(b) \in Nat /\ Len(q) = Len(a) + Len(b)
  BY ConcatProperties
<1>2. \A j \in 1..Len(a) : q[j] = a[j]
  BY <1>1, ConcatProperties
<1>3. Known(q, ls) /\ Runs(q, ls) /\ Joins(q, ls)
  BY DEF Chain
<1> HIDE DEF q
<1>4. Known(a, ls)
  BY <1>1, <1>2, <1>3 DEF Known
<1>5. Runs(a, ls)
  BY <1>1, <1>2, <1>3 DEF Runs
<1>6. Joins(a, ls)
  <2> SUFFICES ASSUME NEW j \in 1..Len(a), j < Len(a), a[j][2] = Total(ls, a[j][1])
               PROVE  a[j + 1] = <<a[j][1] + 1, 1>>
    BY DEF Joins
  <2>1. j \in 1..Len(q) /\ j < Len(q) /\ q[j] = a[j] /\ q[j + 1] = a[j + 1]
    BY <1>1, <1>2
  <2> QED BY <1>3, <2>1 DEF Joins
<1> QED BY <1>4, <1>5, <1>6 DEF Chain

\* What is left of a chain when a prefix is taken off is a chain.
LEMMA ChainRest ==
  ASSUME NEW q \in Seq(Byte), NEW ls \in Seq(Nat), NEW n \in 0..Len(q), Chain(q, ls)
  PROVE  Chain(SubSeq(q, n + 1, Len(q)), ls)
<1> DEFINE b == SubSeq(q, n + 1, Len(q))
<1>1. /\ n \in Nat /\ Len(q) \in Nat /\ n <= Len(q) /\ Len(b) = Len(q) - n
      /\ \A j \in 1..(Len(q) - n) : b[j] = q[n + j]
  BY RestShape
<1>2. Known(q, ls) /\ Runs(q, ls) /\ Joins(q, ls)
  BY DEF Chain
<1> HIDE DEF b
<1>3. Known(b, ls)
  <2> SUFFICES ASSUME NEW j \in 1..Len(b)
               PROVE  b[j][1] \in 1..Len(ls) /\ b[j][2] \in 1..Total(ls, b[j][1])
    BY DEF Known
  <2>1. n + j \in 1..Len(q) /\ b[j] = q[n + j]
    BY <1>1
  <2> QED BY <1>2, <2>1 DEF Known
<1>4. Runs(b, ls)
  <2> SUFFICES ASSUME NEW j \in 1..Len(b), NEW l \in 1..Len(b), j <= l,
                      b[j][2] + (l - j) <= Total(ls, b[j][1])
               PROVE  b[l] = <<b[j][1], b[j][2] + (l - j)>>
    BY DEF Runs
  <2>1. n + j \in 1..Len(q) /\ n + l \in 1..Len(q) /\ (n + l) - (n + j) = l - j
    BY <1>1
  <2>2. b[j] = q[n + j] /\ b[l] = q[n + l]
    BY <1>1
  <2> QED BY <1>1, <1>2, <2>1, <2>2 DEF Runs
<1>5. Joins(b, ls)
  <2> SUFFICES ASSUME NEW j \in 1..Len(b), j < Len(b), b[j][2] = Total(ls, b[j][1])
               PROVE  b[j + 1] = <<b[j][1] + 1, 1>>
    BY DEF Joins
  <2>1. n + j \in 1..Len(q) /\ n + j < Len(q) /\ n + (j + 1) = (n + j) + 1
    BY <1>1
  <2>2. b[j] = q[n + j] /\ b[j + 1] = q[(n + j) + 1]
    BY <1>1, <2>1
  <2>3. q[n + j][2] = Total(ls, q[n + j][1])
    BY <2>2
  <2>4. q[(n + j) + 1] = <<q[n + j][1] + 1, 1>>
    BY <1>2, <2>1, <2>3 DEF Joins
  <2> QED BY <2>2, <2>4
<1> QED BY <1>3, <1>4, <1>5 DEF Chain, b

\* A chain that starts a packet holds that packet's bytes in order, as far as
\* it goes: what extract_packet finds at an offset of recv_buffer_.
LEMMA ChainReads ==
  ASSUME NEW q \in Seq(Byte), NEW ls \in Seq(Nat), Chain(q, ls), NEW d \in 1..Len(ls),
         q # << >>, q[1] = <<d, 1>>, NEW l \in 1..Len(q), l <= Total(ls, d)
  PROVE  q[l] = <<d, l>>
<1>1. 1 \in 1..Len(q) /\ 1 <= l /\ 1 + (l - 1) = l
  OBVIOUS
<1>2. q[1][1] = d /\ q[1][2] = 1
  OBVIOUS
<1>3. q[1][2] + (l - 1) <= Total(ls, q[1][1])
  BY <1>1, <1>2
<1>4. q[l] = <<q[1][1], q[1][2] + (l - 1)>>
  BY <1>1, <1>3 DEF Chain, Runs
<1> QED BY <1>1, <1>2, <1>4

\* send_request adds a packet behind the last one.
LEMMA ChainGrows ==
  ASSUME NEW q \in Seq(Byte), NEW ls \in Seq(Nat), NEW n \in Nat, NEW d \in Nat,
         Chain(q, ls), EndsWith(q, ls, d)
  PROVE  LET new == Bytes(Len(ls) + 1, 1, Fixed + n)
             more == Append(ls, n) IN
         /\ Chain(q \o new, more)
         /\ EndsWith(q \o new, more, d)
         /\ q \o new # << >>
         /\ (q \o new)[1] = IF q = << >> THEN <<d + 1, 1>> ELSE q[1]
<1> DEFINE new == Bytes(Len(ls) + 1, 1, Fixed + n)
           more == Append(ls, n)
           p == q \o new
           N == Len(ls) + 1
           T == Fixed + n
<1>1. N \in Nat /\ T \in Nat /\ T > 1 /\ Len(q) \in Nat /\ Len(ls) \in Nat
  BY SizeTypes
<1>2. /\ new \in Seq(Byte) /\ Len(new) = T
      /\ \A k \in 1..T : new[k] = <<N, k>>
  BY <1>1, WholePacketShape
<1>3. more \in Seq(Nat) /\ Len(more) = N /\ more[N] = n /\ \A i \in 1..Len(ls) : more[i] = ls[i]
  BY AppendProperties
<1>4. Total(more, N) = T /\ \A i \in 1..Len(ls) : Total(more, i) = Total(ls, i)
  BY <1>3 DEF Total
<1>5. /\ p \in Seq(Byte) /\ Len(p) = Len(q) + T
      /\ \A j \in 1..Len(q) : p[j] = q[j]
      /\ \A j \in (Len(q) + 1)..Len(p) : p[j] = <<N, j - Len(q)>>
  <2>1. p \in Seq(Byte) /\ Len(p) = Len(q) + Len(new)
    BY <1>2, ConcatProperties
  <2>2. \A j \in 1..(Len(q) + Len(new)) :
          p[j] = IF j <= Len(q) THEN q[j] ELSE new[j - Len(q)]
    BY <1>2, ConcatProperties
  <2> HIDE DEF p, new
  <2> QED BY <1>1, <1>2, <2>1, <2>2
<1>6. Known(q, ls) /\ Runs(q, ls) /\ Joins(q, ls)
  BY DEF Chain
<1>7. q # << >> => Len(q) >= 1 /\ q[Len(q)] = <<Len(ls), Total(ls, Len(ls))>>
  BY DEF EndsWith
<1>8. \A j \in 1..Len(q) : /\ q[j][1] \in 1..Len(ls) /\ q[j][2] \in 1..Total(ls, q[j][1])
                            /\ q[j] = <<q[j][1], q[j][2]>>
  BY <1>6 DEF Known, Byte
<1>9. \A i \in 1..Len(ls) : Total(ls, i) \in Nat
  BY SizeTypes DEF Total
<1> HIDE DEF new, more, p, N, T
<1>10. Known(p, more)
  <2> SUFFICES ASSUME NEW j \in 1..Len(p)
               PROVE  p[j][1] \in 1..Len(more) /\ p[j][2] \in 1..Total(more, p[j][1])
    BY DEF Known
  <2>1. CASE j <= Len(q)
    <3>1. j \in 1..Len(q) /\ p[j] = q[j]
      BY <1>1, <1>5, <2>1
    <3>2. q[j][1] \in 1..Len(ls) /\ q[j][2] \in 1..Total(more, q[j][1])
      BY <1>4, <1>8, <3>1
    <3> QED BY <1>1, <1>3, <3>1, <3>2 DEF N
  <2>2. CASE j > Len(q)
    <3>1. p[j] = <<N, j - Len(q)>> /\ j - Len(q) \in 1..T
      BY <1>1, <1>5, <2>2
    <3>2. p[j][1] = N /\ p[j][2] = j - Len(q) /\ N \in 1..N
      BY <1>1, <3>1 DEF N
    <3> QED BY <1>1, <1>3, <1>4, <3>1, <3>2
  <2> QED BY <1>1, <1>5, <2>1, <2>2
<1>11. Runs(p, more)
  <2> SUFFICES ASSUME NEW j \in 1..Len(p), NEW l \in 1..Len(p), j <= l,
                      p[j][2] + (l - j) <= Total(more, p[j][1])
               PROVE  p[l] = <<p[j][1], p[j][2] + (l - j)>>
    BY DEF Runs
  <2>1. CASE j > Len(q)
    <3>1. p[j] = <<N, j - Len(q)>> /\ p[l] = <<N, l - Len(q)>>
      BY <1>1, <1>5, <2>1
    <3>2. (j - Len(q)) + (l - j) = l - Len(q)
      BY <1>1, <1>5
    <3> QED BY <3>1, <3>2
  <2>2. CASE j <= Len(q)
    <3>1. j \in 1..Len(q) /\ p[j] = q[j] /\ q[j][1] \in 1..Len(ls)
      BY <1>1, <1>5, <1>8, <2>2
    <3>2. q[j][2] + (l - j) <= Total(ls, q[j][1])
      BY <1>4, <3>1
    <3>3. CASE l <= Len(q)
      <4>1. l \in 1..Len(q) /\ p[l] = q[l]
        BY <1>1, <1>5, <3>3
      <4> QED BY <1>6, <3>1, <3>2, <4>1 DEF Runs
    \* The run of an old byte ends at the last byte of the last packet.
    <3>4. CASE l > Len(q)
      <4>1. Len(q) \in 1..Len(q) /\ q # << >> /\ q[j][2] \in Nat /\ Total(ls, q[j][1]) \in Nat
        BY <1>1, <1>8, <1>9, <3>1
      <4>2. q[j][2] + (Len(q) - j) < q[j][2] + (l - j)
        BY <1>1, <1>5, <3>1, <3>4, <4>1
      <4>3. q[j][2] + (Len(q) - j) < Total(ls, q[j][1])
        BY <1>1, <1>5, <3>1, <3>2, <4>1, <4>2
      <4>4. q[Len(q)] = <<q[j][1], q[j][2] + (Len(q) - j)>>
        <5> DEFINE x == q[j][2] + (Len(q) - j)
                   y == Total(ls, q[j][1])
        <5>1. x \in Int /\ y \in Int
          <6>1. q[j][2] \in Int /\ Len(q) \in Int /\ j \in Int /\ y \in Int
            BY <1>1, <3>1, <4>1
          <6> HIDE DEF y
          <6> QED BY <6>1, SumType
        <5>2. x < y
          BY <4>3
        <5> HIDE DEF x, y
        <5>3. x <= y
          BY <5>1, <5>2
        <5> USE DEF x, y
        <5> QED BY <1>6, <2>2, <3>1, <4>1, <5>3 DEF Runs
      <4>5. q[j][1] = Len(ls) /\ q[j][2] + (Len(q) - j) = Total(ls, Len(ls))
        BY <1>7, <4>1, <4>4
      <4> QED BY <4>1, <4>3, <4>5
    <3> QED BY <1>1, <1>5, <3>3, <3>4
  <2> QED BY <1>1, <1>5, <2>1, <2>2
<1>12. Joins(p, more)
  <2> SUFFICES ASSUME NEW j \in 1..Len(p), j < Len(p), p[j][2] = Total(more, p[j][1])
               PROVE  p[j + 1] = <<p[j][1] + 1, 1>>
    BY DEF Joins
  <2>1. CASE j < Len(q)
    <3>1. j \in 1..Len(q) /\ j + 1 \in 1..Len(q)
      BY <1>1, <2>1
    <3>2. p[j] = q[j] /\ p[j + 1] = q[j + 1]
      BY <1>5, <3>1
    <3>3. q[j][2] = Total(ls, q[j][1])
      BY <1>4, <1>8, <3>1, <3>2
    <3> QED BY <1>6, <2>1, <3>1, <3>2, <3>3 DEF Joins
  <2>2. CASE j = Len(q)
    <3>1. q # << >> /\ p[j] = <<Len(ls), Total(ls, Len(ls))>>
      BY <1>1, <1>5, <1>7, <2>2
    <3>2. p[j + 1] = <<N, 1>>
      BY <1>1, <1>5, <2>2
    <3> QED BY <3>1, <3>2 DEF N
  <2>3. CASE j > Len(q)
    <3>1. p[j] = <<N, j - Len(q)>> /\ j - Len(q) < T
      BY <1>1, <1>5, <2>3
    <3> QED BY <1>1, <1>4, <1>5, <3>1
  <2> QED BY <1>1, <1>5, <2>1, <2>2, <2>3
<1>13. p # << >> /\ p[Len(p)] = <<N, T>>
  BY <1>1, <1>5
<1>14. p[1] = IF q = << >> THEN <<d + 1, 1>> ELSE q[1]
  <2>1. CASE q = << >>
    <3>1. d = Len(ls) /\ Len(q) = 0
      BY <2>1 DEF EndsWith
    <3> QED BY <1>1, <1>5, <2>1, <3>1 DEF N
  <2>2. CASE q # << >>
    BY <1>1, <1>5, <1>7, <2>2
  <2> QED BY <2>1, <2>2
<1>15. Chain(p, more)
  BY <1>10, <1>11, <1>12 DEF Chain
<1>16. EndsWith(p, more, d)
  BY <1>3, <1>4, <1>13 DEF EndsWith
<1> QED BY <1>13, <1>14, <1>15, <1>16 DEF p, new, more

\* A prefix of a chain is a chain with the same first byte.
LEMMA PrefixStarts ==
  ASSUME NEW a \in Seq(Byte), NEW b \in Seq(Byte), NEW ls \in Seq(Nat), NEW x,
         Chain(a \o b, ls), a \o b # << >> => (a \o b)[1] = x
  PROVE  Chain(a, ls) /\ (a # << >> => a[1] = x)
<1>1. Chain(a, ls)
  BY ChainPrefix
<1>2. ASSUME a # << >> PROVE a[1] = x
  <2>1. Len(a) \in Nat /\ Len(a) >= 1 /\ Len(b) \in Nat
    BY <1>2
  <2>2. Len(a \o b) = Len(a) + Len(b) /\ a \o b \in Seq(Byte)
    BY ConcatProperties
  <2>3. (a \o b)[1] = a[1]
    BY <2>1, ConcatProperties
  <2>4. a \o b # << >>
    BY <2>1, <2>2, EmptySeq
  <2> QED BY <2>3, <2>4
<1> QED BY <1>1, <1>2

\* Taking a prefix off recv_buffer_ takes it off the whole pipe.
LEMMA RestOfConcat ==
  ASSUME NEW a \in Seq(Byte), NEW b \in Seq(Byte), NEW n \in 0..Len(a)
  PROVE  SubSeq(a, n + 1, Len(a)) \o b = SubSeq(a \o b, n + 1, Len(a \o b))
<1> DEFINE c == a \o b
           r == SubSeq(a, n + 1, Len(a))
           s == SubSeq(c, n + 1, Len(c))
           t == r \o b
<1>1. n \in Nat /\ Len(a) \in Nat /\ Len(b) \in Nat /\ n <= Len(a)
  OBVIOUS
<1>2. /\ c \in Seq(Byte) /\ Len(c) = Len(a) + Len(b)
      /\ \A j \in 1..(Len(a) + Len(b)) : c[j] = IF j <= Len(a) THEN a[j] ELSE b[j - Len(a)]
  BY ConcatProperties
<1>3. /\ r \in Seq(Byte) /\ Len(r) = Len(a) - n
      /\ \A j \in 1..(Len(a) - n) : r[j] = a[n + j]
  BY RestShape
<1> HIDE DEF c, r
<1>4. n \in 0..Len(c)
  BY <1>1, <1>2
<1>5. /\ s \in Seq(Byte) /\ Len(s) = Len(c) - n
      /\ \A j \in 1..(Len(c) - n) : s[j] = c[n + j]
  BY <1>2, <1>4, RestShape
<1>6. /\ t \in Seq(Byte) /\ Len(t) = Len(r) + Len(b)
      /\ \A j \in 1..(Len(r) + Len(b)) : t[j] = IF j <= Len(r) THEN r[j] ELSE b[j - Len(r)]
  BY <1>3, ConcatProperties
<1> HIDE DEF s, t
<1>7. Len(t) = Len(s)
  BY <1>1, <1>2, <1>3, <1>5, <1>6
<1>8. ASSUME NEW j \in 1..Len(t) PROVE t[j] = s[j]
  <2>1. j \in 1..(Len(c) - n) /\ j \in 1..(Len(r) + Len(b)) /\ n + j \in 1..(Len(a) + Len(b))
    BY <1>1, <1>2, <1>3, <1>6
  <2>2. s[j] = IF n + j <= Len(a) THEN a[n + j] ELSE b[(n + j) - Len(a)]
    BY <1>2, <1>5, <2>1
  <2>3. CASE j <= Len(r)
    <3>1. n + j <= Len(a) /\ j \in 1..(Len(a) - n)
      BY <1>1, <1>3, <2>1, <2>3
    <3> QED BY <1>3, <1>6, <2>1, <2>2, <2>3, <3>1
  <2>4. CASE ~(j <= Len(r))
    <3>1. ~(n + j <= Len(a)) /\ (n + j) - Len(a) = j - Len(r)
      BY <1>1, <1>3, <2>1, <2>4
    <3> QED BY <1>6, <2>1, <2>2, <2>4, <3>1
  <2> QED BY <2>3, <2>4
<1>9. t = s
  BY <1>5, <1>6, <1>7, <1>8, SeqEqual
<1> QED BY <1>9 DEF t, s, r, c

-----------------------------------------------------------------------------
(***************************************************************************)
(* extract_packet.                                                         *)
(***************************************************************************)
\* PacketLength, for given bodies.
LengthIn(q, ls) ==
  IF Len(q) < Fixed THEN 0
  ELSE LET all == Fixed + ls[SubSeq(q, HeaderSize + 1, Fixed)[1][1]] IN
       IF Len(q) < all THEN 0 ELSE all

\* In a chain that starts with packet d, extract_packet finds packet d or nothing.
LEMMA NextPacket ==
  ASSUME NEW q \in Seq(Byte), NEW ls \in Seq(Nat), NEW d \in Nat, Chain(q, ls),
         q # << >> => q[1] = <<d, 1>>
  PROVE  /\ q # << >> => d \in 1..Len(ls)
         /\ LengthIn(q, ls) # 0 => q # << >> /\ Len(q) >= Total(ls, d)
         /\ LengthIn(q, ls) = IF q # << >> /\ Len(q) >= Total(ls, d) THEN Total(ls, d) ELSE 0
<1>1. Len(q) \in Nat /\ HeaderSize \in Nat /\ RequestSize \in Nat /\ RequestSize > 0
      /\ Fixed = HeaderSize + RequestSize
  BY SizeTypes DEF Fixed
<1>2. ASSUME q # << >> PROVE d \in 1..Len(ls)
  <2>1. 1 \in 1..Len(q) /\ q[1][1] = d
    BY <1>2
  <2> QED BY <2>1 DEF Chain, Known
<1>3. ASSUME q # << >>
      PROVE  /\ Total(ls, d) \in Nat /\ Total(ls, d) >= Fixed
             /\ LengthIn(q, ls) = IF Len(q) >= Total(ls, d) THEN Total(ls, d) ELSE 0
  <2>1. Total(ls, d) = Fixed + ls[d] /\ ls[d] \in Nat /\ Fixed \in Nat
    BY <1>2, <1>3, SizeTypes DEF Total
  <2>2. CASE Len(q) < Fixed
    BY <1>1, <2>1, <2>2 DEF LengthIn
  <2>3. CASE Len(q) >= Fixed
    <3>1. HeaderSize + 1 \in 1..Len(q) /\ HeaderSize + 1 <= Fixed /\ HeaderSize + 1 <= Total(ls, d)
      BY <1>1, <2>1, <2>3
    <3>2. q[HeaderSize + 1] = <<d, HeaderSize + 1>>
      BY <1>2, <1>3, <3>1, ChainReads
    <3> DEFINE r == SubSeq(q, HeaderSize + 1, Fixed)
    <3>3. r[1] = q[HeaderSize + 1]
      BY <1>1, <2>3
    <3> HIDE DEF r
    <3>4. r[1][1] = d
      BY <3>2, <3>3
    <3>5. LengthIn(q, ls) = IF Len(q) < Total(ls, d) THEN 0 ELSE Total(ls, d)
      BY <1>1, <2>1, <2>3, <3>4 DEF LengthIn, r
    <3> QED BY <1>1, <2>1, <3>5
  <2> QED BY <1>1, <2>1, <2>2, <2>3
<1>4. ASSUME q = << >> PROVE LengthIn(q, ls) = 0
  BY <1>1, <1>4, SizeTypes DEF LengthIn
<1> QED BY <1>2, <1>3, <1>4

\* A slice of a chain that starts with packet d is that slice of packet d.
LEMMA SliceOfPacket ==
  ASSUME NEW q \in Seq(Byte), NEW ls \in Seq(Nat), NEW d \in 1..Len(ls), Chain(q, ls),
         q # << >>, q[1] = <<d, 1>>, NEW first \in Nat, NEW last \in Nat,
         first >= 1, first <= last + 1, last <= Len(q), last <= Total(ls, d)
  PROVE  SubSeq(q, first, last) = Bytes(d, first, last)
<1> DEFINE s == SubSeq(q, first, last)
           t == Bytes(d, first, last)
<1>1. Len(q) \in Nat /\ Total(ls, d) \in Nat /\ d \in Nat
  BY SizeTypes DEF Total
<1>2. /\ t \in Seq(Byte) /\ Len(t) = last - first + 1
      /\ \A k \in 1..(last - first + 1) : t[k] = <<d, first + k - 1>>
  BY <1>1, BytesShape
<1>3. /\ s \in Seq(Byte) /\ Len(s) = last - first + 1
      /\ \A k \in 1..(last - first + 1) : s[k] = q[first + k - 1]
  <2>1. \A i \in first..last : q[i] \in Byte
    BY <1>1
  <2>2. first \in Int /\ last \in Int
    OBVIOUS
  <2>3. /\ s \in Seq(Byte) /\ Len(s) = IF first <= last THEN last - first + 1 ELSE 0
        /\ \A k \in 1..(last - first + 1) : s[k] = q[first + k - 1]
    BY <2>1, <2>2, SubSeqProperties
  <2> HIDE DEF s
  <2> QED BY <2>3
<1> HIDE DEF s, t
<1>4. ASSUME NEW k \in 1..Len(s) PROVE s[k] = t[k]
  <2> DEFINE l == first + k - 1
  <2>1. k \in 1..(last - first + 1) /\ l \in 1..Len(q) /\ l <= Total(ls, d)
    BY <1>1, <1>3
  <2> HIDE DEF l
  <2>2. q[l] = <<d, l>>
    BY <2>1, ChainReads
  <2> QED BY <1>2, <1>3, <2>1, <2>2 DEF l
<1>5. s = t
  BY <1>2, <1>3, <1>4, SeqEqual
<1> QED BY <1>5 DEF s, t

\* What extract_packet copies into an empty packet is the packet that was sent.
LEMMA CopyExact ==
  ASSUME NEW q \in Seq(Byte), lens \in Seq(Nat), NEW d \in 1..Len(lens), Chain(q, lens),
         q # << >>, q[1] = <<d, 1>>, Len(q) >= Total(lens, d),
         PacketLength(q) = Total(lens, d)
  PROVE  Copied(q, EmptyPacket) = PacketSent(d)
<1> DEFINE n == lens[d]
<1>1. /\ n \in Nat /\ Total(lens, d) = Fixed + n /\ Len(q) \in Nat
      /\ HeaderSize \in Nat /\ RequestSize \in Nat /\ Fixed = HeaderSize + RequestSize
  BY SizeTypes DEF Total, Fixed
<1> HIDE DEF n
<1>2. SubSeq(q, 1, HeaderSize) = Bytes(d, 1, HeaderSize)
  <2> DEFINE f == 1
  <2>1. f \in Nat /\ f >= 1 /\ f <= HeaderSize + 1 /\ HeaderSize <= Len(q)
        /\ HeaderSize <= Total(lens, d)
    BY <1>1
  <2> HIDE DEF f
  <2>2. SubSeq(q, f, HeaderSize) = Bytes(d, f, HeaderSize)
    BY <1>1, <2>1, SliceOfPacket, SMTT(30)
  <2> QED BY <2>2 DEF f
<1>3. SubSeq(q, HeaderSize + 1, Fixed) = Bytes(d, HeaderSize + 1, Fixed)
  <2> DEFINE f == HeaderSize + 1
  <2>0. Fixed \in Nat /\ Fixed <= Total(lens, d) /\ Total(lens, d) \in Nat
    BY <1>1
  <2>1. f \in Nat /\ f >= 1 /\ f <= Fixed + 1 /\ Fixed \in Nat /\ Fixed <= Len(q)
        /\ Fixed <= Total(lens, d)
    BY <1>1, <2>0
  <2> HIDE DEF f
  <2>2. SubSeq(q, f, Fixed) = Bytes(d, f, Fixed)
    BY <2>1, SliceOfPacket, SMTT(30)
  <2> QED BY <2>2 DEF f
<1>4. SubSeq(q, Fixed + 1, Fixed + n) = Bytes(d, Fixed + 1, Fixed + n)
  <2> DEFINE f == Fixed + 1
             g == Fixed + n
  <2>1. f \in Nat /\ f >= 1 /\ f <= g + 1 /\ g \in Nat /\ g <= Len(q) /\ g <= Total(lens, d)
    BY <1>1
  <2> HIDE DEF f, g
  <2>2. SubSeq(q, f, g) = Bytes(d, f, g)
    BY <2>1, SliceOfPacket, SMTT(30)
  <2> QED BY <2>2 DEF f, g
<1>5. n = 0 => Bytes(d, Fixed + 1, Fixed + n) = << >>
  <2> SUFFICES ASSUME n = 0 PROVE SubSeq(q, Fixed + 1, Fixed + n) = << >>
    BY <1>4
  <2>1. Fixed + 1 \in Int /\ Fixed + n \in Int /\ Fixed + n < Fixed + 1
    BY <1>1
  <2> QED BY <2>1, SubSeqEmpty
<1> DEFINE body == IF Fixed + n > Fixed THEN SubSeq(q, Fixed + 1, Fixed + n) ELSE << >>
<1>6. body = Bytes(d, Fixed + 1, Fixed + n)
  <2>1. CASE n = 0
    BY <1>1, <1>5, <2>1
  <2>2. CASE n > 0
    <3>1. Fixed + n > Fixed
      BY <1>1, <2>2
    <3> QED BY <1>4, <3>1, Zenon
  <2> QED BY <1>1, <2>1, <2>2
<1>7. Copied(q, EmptyPacket) =
        [header |-> SubSeq(q, 1, HeaderSize), request |-> SubSeq(q, HeaderSize + 1, Fixed),
         body |-> body]
  BY <1>1 DEF Copied, EmptyPacket, Fixed
<1>8. PacketSent(d) =
        [header |-> Bytes(d, 1, HeaderSize), request |-> Bytes(d, HeaderSize + 1, Fixed),
         body |-> Bytes(d, Fixed + 1, Fixed + n)]
  BY DEF PacketSent, Fixed, n
<1> HIDE DEF body
<1> QED BY <1>2, <1>3, <1>6, <1>7, <1>8

-----------------------------------------------------------------------------
(***************************************************************************)
(* What the invariant says of recv_buffer_.                                *)
(***************************************************************************)
\* The pipe is a sequence of bytes.
LEMMA PipeType ==
  ASSUME TypeOK PROVE Behind \in Seq(Byte) /\ Pipe \in Seq(Byte)
<1>1. (IF peer = "up" THEN out ELSE << >>) \in Seq(Byte)
  BY DEF TypeOK
<1>2. Behind \in Seq(Byte)
  BY <1>1, ConcatProperties DEF TypeOK, Behind
<1> QED BY <1>2, ConcatProperties DEF TypeOK, Pipe

\* recv_buffer_ starts at the first byte of the packet to be dispatched next.
LEMMA BufferChain ==
  ASSUME TypeOK, PipeInv
  PROVE  /\ Chain(recv_buffer, lens)
         /\ recv_buffer # << >> => recv_buffer[1] = <<Len(dispatched) + 1, 1>>
<1>1. recv_buffer \in Seq(Byte) /\ Behind \in Seq(Byte) /\ lens \in Seq(Nat)
  BY PipeType DEF TypeOK
<1> DEFINE x == <<Len(dispatched) + 1, 1>>
<1>2. Chain(recv_buffer \o Behind, lens)
  BY DEF PipeInv, Pipe
<1>3. recv_buffer \o Behind # << >> => (recv_buffer \o Behind)[1] = x
  BY DEF PipeInv, Pipe
<1> HIDE DEF x
<1>4. Chain(recv_buffer, lens) /\ (recv_buffer # << >> => recv_buffer[1] = x)
  BY <1>1, <1>2, <1>3, PrefixStarts
<1> QED BY <1>4 DEF x

\* PacketLength is LengthIn for the bodies made so far.
LEMMA LengthNow ==
  ASSUME NEW q PROVE PacketLength(q) = LengthIn(q, lens)
BY DEF PacketLength, LengthIn, body_len, Fixed

-----------------------------------------------------------------------------
(***************************************************************************)
(* One lemma for each action.                                              *)
(***************************************************************************)
\* send_request adds a packet at the end of the pipe.
LEMMA SendRequestStep == ASSUME IInv, send_request PROVE IInv'
<1>1. TypeOK /\ PipeInv /\ PacketsIntact /\ PacketClear /\ EdgeKept /\ NoneComplete
  BY DEF IInv
<1>2. PICK n \in BodySizes :
        /\ lens' = Append(lens, n)
        /\ out' = out \o Bytes(Len(lens) + 1, 1, Fixed + n)
  BY DEF send_request, Fixed
<1>3. /\ peer = "up" /\ peer' = "up" /\ wire' = wire /\ open' = open /\ edge' = edge /\ pc' = pc
      /\ recv_buffer' = recv_buffer /\ packet' = packet /\ dispatched' = dispatched
  BY DEF send_request
<1> DEFINE new == Bytes(Len(lens) + 1, 1, Fixed + n)
           d == Len(dispatched)
<1>4. /\ n \in Nat /\ lens \in Seq(Nat) /\ Len(lens) \in Nat /\ d \in Nat
      /\ Fixed + n \in Nat /\ Len(lens) + 1 \in Nat
  BY <1>1, SizeTypes DEF TypeOK
<1>5. new \in Seq(Byte)
  BY <1>4, WholePacketShape
<1>6. lens' \in Seq(Nat) /\ Len(lens') = Len(lens) + 1 /\ \A i \in 1..Len(lens) : lens'[i] = lens[i]
  BY <1>2, <1>4, AppendProperties
<1> HIDE DEF new
<1>7. out \in Seq(Byte) /\ wire \in Seq(Byte) /\ recv_buffer \in Seq(Byte)
  BY <1>1 DEF TypeOK
<1>8. out' = out \o new
  BY <1>2 DEF new
<1>9. TypeOK'
  <2>1. out' \in Seq(Byte)
    BY <1>5, <1>7, <1>8, ConcatProperties
  <2> QED BY <1>1, <1>3, <1>6, <2>1 DEF TypeOK
<1>10. Pipe' = Pipe \o new
  <2>1. Behind = wire \o out /\ Behind' = wire \o (out \o new)
    BY <1>3, <1>8 DEF Behind
  <2>2. Behind' = Behind \o new
    BY <1>5, <1>7, <2>1, ConcatAssociative
  <2>3. Behind \in Seq(Byte)
    BY <1>1, PipeType
  <2>4. Pipe' = recv_buffer \o (Behind \o new)
    BY <1>3, <2>2 DEF Pipe
  <2>5. (recv_buffer \o Behind) \o new = recv_buffer \o (Behind \o new)
    BY <1>5, <1>7, <2>3, ConcatAssociative
  <2> QED BY <2>4, <2>5, Zenon DEF Pipe
<1>11. PipeInv'
  <2>1. Chain(Pipe, lens) /\ EndsWith(Pipe, lens, d) /\ Pipe \in Seq(Byte)
    BY <1>1, <1>3, PipeType DEF PipeInv
  <2>2. /\ Chain(Pipe \o new, lens') /\ EndsWith(Pipe \o new, lens', d)
        /\ (Pipe \o new)[1] = IF Pipe = << >> THEN <<d + 1, 1>> ELSE Pipe[1]
    BY <1>2, <1>4, <2>1, ChainGrows DEF new
  <2>3. (Pipe \o new)[1] = <<d + 1, 1>>
    BY <1>1, <2>2 DEF PipeInv
  <2> QED BY <1>3, <1>10, <2>2, <2>3 DEF PipeInv
<1>12. PacketsIntact'
  <2>1. d <= Len(lens) /\ \A i \in DOMAIN dispatched : dispatched[i] = PacketSent(i)
    BY <1>1 DEF PacketsIntact
  <2>2. ASSUME NEW i \in DOMAIN dispatched PROVE dispatched[i] = PacketSent(i)'
    <3>1. i \in 1..Len(lens)
      BY <1>1, <1>4, <2>1 DEF TypeOK
    <3>2. lens'[i] = lens[i]
      BY <1>6, <3>1
    <3>3. PacketSent(i)' = PacketSent(i)
      BY <3>2 DEF PacketSent
    <3> QED BY <2>1, <3>3
  <2>3. d <= Len(lens')
    BY <1>4, <1>6, <2>1
  <2> QED BY <1>3, <2>2, <2>3 DEF PacketsIntact
<1>13. PacketClear' /\ EdgeKept'
  BY <1>1, <1>3 DEF PacketClear, EdgeKept
\* The packet at the head of the buffer was there before.
<1>14. PacketLength(recv_buffer)' = PacketLength(recv_buffer)
  <2>1. /\ Chain(recv_buffer, lens) /\ d + 1 \in Nat
        /\ recv_buffer # << >> => recv_buffer[1] = <<d + 1, 1>>
    BY <1>1, <1>4, BufferChain
  <2>2. /\ recv_buffer # << >> => d + 1 \in 1..Len(lens)
        /\ LengthIn(recv_buffer, lens) =
             IF recv_buffer # << >> /\ Len(recv_buffer) >= Total(lens, d + 1)
             THEN Total(lens, d + 1) ELSE 0
    BY <1>4, <1>7, <2>1, NextPacket
  <2>3. Chain(recv_buffer, lens')
    <3>1. Chain(recv_buffer \o Behind', lens')
      BY <1>3, <1>11, Zenon DEF PipeInv, Pipe
    <3>2. Behind' \in Seq(Byte)
      <4>1. Behind' = wire \o (out \o new) /\ out \o new \in Seq(Byte)
        BY <1>3, <1>5, <1>7, <1>8, ConcatProperties DEF Behind
      <4> QED BY <1>7, <4>1, ConcatProperties
    <3> QED BY <1>6, <1>7, <3>1, <3>2, ChainPrefix
  <2>4. LengthIn(recv_buffer, lens') =
             IF recv_buffer # << >> /\ Len(recv_buffer) >= Total(lens', d + 1)
             THEN Total(lens', d + 1) ELSE 0
    BY <1>6, <1>7, <2>1, <2>3, NextPacket
  <2>5. recv_buffer # << >> => Total(lens', d + 1) = Total(lens, d + 1)
    BY <1>6, <2>2 DEF Total
  <2>6. LengthIn(recv_buffer, lens') = LengthIn(recv_buffer, lens)
    BY <2>2, <2>4, <2>5
  <2>7. PacketLength(recv_buffer)' = LengthIn(recv_buffer, lens')
    BY <1>3 DEF PacketLength, LengthIn, body_len, Fixed
  <2> QED BY <2>6, <2>7, LengthNow
<1>15. NoneComplete'
  BY <1>1, <1>3, <1>14 DEF NoneComplete
<1> QED BY <1>9, <1>11, <1>12, <1>13, <1>15 DEF IInv

\* What send_all writes moves from send_buf_ to the network: the pipe is the same.
LEMMA SendAllStep == ASSUME IInv, send_all PROVE IInv'
<1>1. TypeOK /\ PipeInv /\ PacketsIntact /\ PacketClear /\ EdgeKept /\ NoneComplete
  BY DEF IInv
<1>2. PICK n \in 1..Len(out) :
        wire' = wire \o SubSeq(out, 1, n) /\ out' = SubSeq(out, n + 1, Len(out))
  BY DEF send_all
<1>3. /\ peer = "up" /\ peer' = "up" /\ lens' = lens /\ open' = open /\ edge' = open /\ pc' = pc
      /\ recv_buffer' = recv_buffer /\ packet' = packet /\ dispatched' = dispatched
  BY DEF send_all
<1> DEFINE a == SubSeq(out, 1, n)
           b == SubSeq(out, n + 1, Len(out))
<1>4. out \in Seq(Byte) /\ wire \in Seq(Byte) /\ recv_buffer \in Seq(Byte) /\ n \in 0..Len(out)
  BY <1>1 DEF TypeOK
<1>5. a \in Seq(Byte) /\ b \in Seq(Byte) /\ a \o b = out
  BY <1>4, CutAndJoin, RestShape
<1> HIDE DEF a, b
<1>6. wire' = wire \o a /\ out' = b
  BY <1>2 DEF a, b
<1>7. TypeOK'
  <2>1. wire' \in Seq(Byte)
    BY <1>4, <1>5, <1>6, ConcatProperties
  <2> QED BY <1>1, <1>3, <1>5, <1>6, <2>1 DEF TypeOK
<1>8. Behind' = Behind
  <2>1. Behind = wire \o (a \o b) /\ Behind' = (wire \o a) \o b
    BY <1>3, <1>5, <1>6 DEF Behind
  <2>2. a \in Seq(Byte) /\ b \in Seq(Byte) /\ wire \in Seq(Byte)
    BY <1>4, <1>5
  <2>3. (wire \o a) \o b = wire \o (a \o b)
    BY <2>2, ConcatAssociative
  <2> QED BY <2>1, <2>3, Zenon
<1>9. Pipe' = Pipe
  BY <1>3, <1>8 DEF Pipe
<1>10. PipeInv'
  BY <1>1, <1>3, <1>9 DEF PipeInv
<1>11. PacketsIntact'
  BY <1>1, <1>3 DEF PacketsIntact, PacketSent
<1>12. PacketClear' /\ EdgeKept'
  BY <1>1, <1>3 DEF PacketClear, EdgeKept
<1>13. NoneComplete'
  BY <1>1, <1>3 DEF NoneComplete, PacketLength, body_len
<1> QED BY <1>7, <1>10, <1>11, <1>12, <1>13 DEF IInv

\* A client that ends leaves a prefix of the pipe: send_buf_ is lost, and with a
\* reset so is what the server has not read.
LEMMA ClientClosesStep == ASSUME IInv, ClientCloses PROVE IInv'
<1>1. TypeOK /\ PipeInv /\ PacketsIntact /\ PacketClear /\ EdgeKept /\ NoneComplete
  BY DEF IInv
<1>2. /\ peer = "up" /\ peer' = "closed" /\ wire' \in {wire, << >>} /\ edge' = open
      /\ lens' = lens /\ out' = out /\ open' = open /\ pc' = pc
      /\ recv_buffer' = recv_buffer /\ packet' = packet /\ dispatched' = dispatched
  BY DEF ClientCloses, clientVars
<1>3. out \in Seq(Byte) /\ wire \in Seq(Byte) /\ recv_buffer \in Seq(Byte) /\ lens \in Seq(Nat)
  BY <1>1 DEF TypeOK
<1>4. TypeOK'
  <2>1. << >> \in Seq(Byte)
    OBVIOUS
  <2>2. wire' \in Seq(Byte)
    BY <1>2, <1>3, <2>1, Zenon
  <2> QED BY <1>1, <1>2, <2>2 DEF TypeOK
<1> DEFINE x == <<Len(dispatched) + 1, 1>>
<1>5. Behind = wire \o out /\ Behind' = wire'
  <2>1. Behind' = wire' \o << >> /\ wire' \in Seq(Byte)
    <3>1. wire' \in Seq(Byte)
      BY <1>4 DEF TypeOK
    <3>2. peer' # "up"
      BY <1>2
    <3> QED BY <3>1, <3>2, Zenon DEF Behind
  <2>2. wire' \o << >> = wire'
    BY <2>1, ConcatEmptySeq
  <2>3. Behind = wire \o out
    BY <1>2 DEF Behind
  <2> QED BY <2>1, <2>2, <2>3, Zenon
<1>6. Chain(Pipe, lens) /\ (Pipe # << >> => Pipe[1] = x)
  BY <1>1 DEF PipeInv
<1> HIDE DEF x
<1>7. Chain(Pipe', lens) /\ (Pipe' # << >> => Pipe'[1] = x)
  <2>1. CASE wire' = wire
    <3> DEFINE q == recv_buffer \o wire
    <3>1. (recv_buffer \o wire) \o out = recv_buffer \o (wire \o out)
      BY <1>3, ConcatAssociative
    <3>2. q \in Seq(Byte)
      BY <1>3, ConcatProperties
    <3>3. Pipe = q \o out /\ Pipe' = q
      BY <1>2, <1>5, <2>1, <3>1, Zenon DEF Pipe
    <3> HIDE DEF q
    <3>4. Chain(q \o out, lens) /\ (q \o out # << >> => (q \o out)[1] = x)
      BY <1>6, <3>3
    <3>5. Chain(q, lens) /\ (q # << >> => q[1] = x)
      BY <1>3, <3>2, <3>4, PrefixStarts
    <3> QED BY <3>3, <3>5
  <2>2. CASE wire' = << >>
    <3>1. recv_buffer \o << >> = recv_buffer
      BY <1>3, ConcatEmptySeq
    <3>2. Pipe' = recv_buffer
      BY <1>2, <1>5, <2>2, <3>1, Zenon DEF Pipe
    <3>3. Chain(recv_buffer, lens) /\ (recv_buffer # << >> => recv_buffer[1] = x)
      BY <1>1, BufferChain DEF x
    <3> QED BY <3>2, <3>3
  <2> QED BY <1>2, <2>1, <2>2
<1>8. PipeInv'
  BY <1>2, <1>7 DEF PipeInv, x
<1>9. PacketsIntact'
  BY <1>1, <1>2 DEF PacketsIntact, PacketSent
<1>10. PacketClear' /\ EdgeKept'
  BY <1>1, <1>2 DEF PacketClear, EdgeKept
<1>11. NoneComplete'
  BY <1>1, <1>2 DEF NoneComplete, PacketLength, body_len
<1> QED BY <1>4, <1>8, <1>9, <1>10, <1>11 DEF IInv

\* epoll_wait takes the edge and on_readable starts to read.
LEMMA EpollInStep == ASSUME IInv, EpollIn PROVE IInv'
<1>1. TypeOK /\ PipeInv /\ PacketsIntact /\ PacketClear /\ EdgeKept /\ NoneComplete
  BY DEF IInv
<1>2. /\ edge' = FALSE /\ pc' = "recv"
      /\ lens' = lens /\ out' = out /\ wire' = wire /\ peer' = peer /\ open' = open
      /\ recv_buffer' = recv_buffer /\ packet' = packet /\ dispatched' = dispatched
  BY DEF EpollIn, clientVars
<1>3. TypeOK'
  BY <1>1, <1>2 DEF TypeOK
<1>4. PipeInv'
  BY <1>1, <1>2 DEF PipeInv, Pipe, Behind
<1>5. PacketsIntact'
  BY <1>1, <1>2 DEF PacketsIntact, PacketSent
<1>6. PacketClear' /\ EdgeKept' /\ NoneComplete'
  BY <1>2 DEF PacketClear, EdgeKept, NoneComplete
<1> QED BY <1>3, <1>4, <1>5, <1>6 DEF IInv

\* What recv returns moves from the network to recv_buffer_: the pipe is the same.
\* The loop ends at EAGAIN, with nothing left to read.
LEMMA RecvStep == ASSUME IInv, Recv PROVE IInv'
<1>1. TypeOK /\ PipeInv /\ PacketsIntact /\ PacketClear /\ EdgeKept /\ NoneComplete
  BY DEF IInv
<1>2. pc = "recv" /\ lens' = lens /\ out' = out /\ peer' = peer /\ dispatched' = dispatched
  BY DEF Recv, clientVars
<1>3. out \in Seq(Byte) /\ wire \in Seq(Byte) /\ recv_buffer \in Seq(Byte) /\ lens \in Seq(Nat)
  BY <1>1 DEF TypeOK
<1>4. PacketsIntact'
  BY <1>1, <1>2 DEF PacketsIntact, PacketSent
<1> DEFINE n == IF Len(wire) < RecvSize THEN Len(wire) ELSE RecvSize
           a == SubSeq(wire, 1, n)
           b == SubSeq(wire, n + 1, Len(wire))
           o == IF peer = "up" THEN out ELSE << >>
<1>5. ASSUME recv_buffer' = recv_buffer \o a, wire' = b, pc' = "recv",
             open' = open, edge' = edge, packet' = packet
      PROVE  IInv'
  <2>1. n \in 0..Len(wire)
    BY <1>3, SizeTypes
  <2> HIDE DEF n
  <2>2. a \in Seq(Byte) /\ b \in Seq(Byte) /\ a \o b = wire
    BY <1>3, <2>1, CutAndJoin, RestShape
  <2> HIDE DEF a, b
  <2>3. a \in Seq(Byte) /\ b \in Seq(Byte) /\ o \in Seq(Byte)
    BY <1>3, <2>2
  <2> HIDE DEF o
  <2>4. Behind = wire \o o /\ Behind' = b \o o
    BY <1>2, <1>5 DEF Behind, o
  <2>5. (a \o b) \o o = a \o (b \o o)
    BY <2>3, ConcatAssociative
  <2> DEFINE c == b \o o
  <2>6. c \in Seq(Byte)
    BY <2>3, ConcatProperties
  <2> HIDE DEF c
  <2>7. (recv_buffer \o a) \o c = recv_buffer \o (a \o c)
    <3>1. recv_buffer \in Seq(Byte) /\ a \in Seq(Byte) /\ c \in Seq(Byte)
      BY <1>3, <2>3, <2>6
    <3> HIDE <1>5
    <3> QED BY <3>1, ConcatAssociative
  <2>8. Pipe' = Pipe
    BY <1>5, <2>2, <2>4, <2>5, <2>7, Zenon DEF Pipe, c
  <2>9. PipeInv'
    BY <1>1, <1>2, <2>8 DEF PipeInv
  <2>10. TypeOK'
    <3>1. recv_buffer' \in Seq(Byte)
      BY <1>3, <1>5, <2>3, ConcatProperties
    <3> QED BY <1>1, <1>2, <1>5, <2>3, <3>1 DEF TypeOK
  <2>11. PacketClear' /\ EdgeKept' /\ NoneComplete'
    BY <1>5 DEF PacketClear, EdgeKept, NoneComplete
  <2> QED BY <1>4, <2>9, <2>10, <2>11 DEF IInv
<1>6. ASSUME wire = << >>, pc' = "extract", packet' = EmptyPacket, wire' = wire, open' = open,
             edge' = edge, recv_buffer' = recv_buffer
      PROVE  IInv'
  <2>1. EmptyPacket \in PacketType
    BY DEF EmptyPacket, PacketType
  <2>2. TypeOK'
    BY <1>1, <1>2, <1>6, <2>1 DEF TypeOK
  <2>3. PipeInv'
    BY <1>1, <1>2, <1>6 DEF PipeInv, Pipe, Behind
  <2>4. PacketClear' /\ EdgeKept' /\ NoneComplete'
    BY <1>6 DEF PacketClear, EdgeKept, NoneComplete, EmptyPacket
  <2> QED BY <1>4, <2>2, <2>3, <2>4 DEF IInv
<1>7. ASSUME open' = FALSE, edge' = FALSE, pc' = "epoll_wait", wire' = wire,
             recv_buffer' = recv_buffer, packet' = packet
      PROVE  IInv'
  <2>1. TypeOK'
    BY <1>1, <1>2, <1>7 DEF TypeOK
  <2>2. PipeInv'
    BY <1>1, <1>2, <1>7 DEF PipeInv, Pipe, Behind
  <2>3. PacketClear' /\ EdgeKept' /\ NoneComplete'
    BY <1>7 DEF PacketClear, EdgeKept, NoneComplete
  <2> QED BY <1>4, <2>1, <2>2, <2>3 DEF IInv
<1>8. \/ /\ recv_buffer' = recv_buffer \o a /\ wire' = b /\ pc' = "recv"
         /\ open' = open /\ edge' = edge /\ packet' = packet
      \/ /\ wire = << >> /\ pc' = "extract" /\ packet' = EmptyPacket /\ wire' = wire
         /\ open' = open /\ edge' = edge /\ recv_buffer' = recv_buffer
      \/ /\ open' = FALSE /\ edge' = FALSE /\ pc' = "epoll_wait" /\ wire' = wire
         /\ recv_buffer' = recv_buffer /\ packet' = packet
  BY DEF Recv, AfterRecv
<1> HIDE DEF a, b
<1> QED BY <1>5, <1>6, <1>7, <1>8

\* extract_packet takes the next packet off the pipe, exactly as it was sent, or
\* finds none complete.
LEMMA ExtractStep == ASSUME IInv, Extract PROVE IInv'
<1>1. TypeOK /\ PipeInv /\ PacketsIntact /\ PacketClear /\ EdgeKept /\ NoneComplete
  BY DEF IInv
<1> DEFINE n == PacketLength(recv_buffer)
           q == recv_buffer
           d == Len(dispatched) + 1
<1>2. /\ pc = "extract" /\ lens' = lens /\ out' = out /\ wire' = wire /\ peer' = peer
      /\ open' = open /\ edge' = edge
  BY DEF Extract, clientVars
<1>3. \/ /\ n > 0 /\ recv_buffer' = SubSeq(q, n + 1, Len(q))
         /\ dispatched' = Append(dispatched, Copied(q, packet))
         /\ packet' = EmptyPacket /\ pc' = "extract"
      \/ /\ n = 0 /\ pc' = "epoll_wait"
         /\ recv_buffer' = q /\ packet' = packet /\ dispatched' = dispatched
  BY DEF Extract, Reset, AfterDispatch
<1>4. /\ q \in Seq(Byte) /\ lens \in Seq(Nat) /\ Len(q) \in Nat /\ Len(lens) \in Nat
      /\ Len(dispatched) \in Nat /\ d \in Nat /\ dispatched \in Seq(PacketType)
  BY <1>1 DEF TypeOK
<1>5. CASE n = 0
  <2>1. /\ pc' = "epoll_wait" /\ recv_buffer' = recv_buffer /\ packet' = packet
        /\ dispatched' = dispatched
    BY <1>3, <1>5
  <2>2. TypeOK'
    BY <1>1, <1>2, <2>1 DEF TypeOK
  <2>3. PipeInv'
    BY <1>1, <1>2, <2>1 DEF PipeInv, Pipe, Behind
  <2>4. PacketsIntact'
    BY <1>1, <1>2, <2>1 DEF PacketsIntact, PacketSent
  <2>5. PacketClear' /\ EdgeKept'
    BY <1>1, <1>2, <2>1 DEF PacketClear, EdgeKept
  <2>6. NoneComplete'
    BY <1>2, <1>5, <2>1 DEF NoneComplete, PacketLength, body_len
  <2> QED BY <2>2, <2>3, <2>4, <2>5, <2>6 DEF IInv
<1>6. CASE n > 0
  <2>1. /\ recv_buffer' = SubSeq(q, n + 1, Len(q))
        /\ dispatched' = Append(dispatched, Copied(q, packet))
        /\ packet' = EmptyPacket /\ pc' = "extract"
    BY <1>3, <1>6
  <2>2. packet = EmptyPacket
    BY <1>1, <1>2 DEF PacketClear
  <2>3. Chain(q, lens) /\ (q # << >> => q[1] = <<d, 1>>)
    BY <1>1, BufferChain
  <2>4. n = LengthIn(q, lens)
    BY LengthNow
  <2> HIDE DEF n, q, d
  <2>5. LengthIn(q, lens) # 0
    BY <1>6, <2>4
  <2>6. q # << >> /\ Len(q) >= Total(lens, d) /\ d \in 1..Len(lens) /\ n = Total(lens, d)
    BY <1>4, <2>3, <2>4, <2>5, NextPacket
  <2>7. n \in Nat /\ n \in 0..Len(q) /\ n \in 1..Len(q)
    <3>1. Total(lens, d) \in Nat
      BY <1>4, <2>6, SizeTypes DEF Total
    <3> QED BY <1>4, <1>6, <2>6, <3>1
  <2>8. Copied(q, packet) = PacketSent(d)
    <3>1. q[1] = <<d, 1>> /\ PacketLength(q) = Total(lens, d)
      BY <2>3, <2>6 DEF n, q
    <3>2. Copied(q, EmptyPacket) = PacketSent(d)
      BY <1>4, <2>3, <2>6, <3>1, CopyExact
    <3> QED BY <2>2, <3>2
  <2>9. PacketSent(d) \in PacketType
    <3>1. /\ d \in Nat /\ HeaderSize \in Nat /\ Fixed \in Nat /\ HeaderSize + 1 \in Nat
          /\ Fixed + 1 \in Nat /\ Fixed + lens[d] \in Nat
          /\ HeaderSize + 1 <= Fixed + 1 /\ Fixed + 1 <= (Fixed + lens[d]) + 1
      BY <1>4, <2>6, SizeTypes DEF Fixed
    <3>2. Bytes(d, 1, HeaderSize) \in Seq(Byte)
      BY <3>1, WholePacketShape
    <3>3. Bytes(d, HeaderSize + 1, Fixed) \in Seq(Byte)
      BY <3>1, BytesShape
    <3>4. Bytes(d, Fixed + 1, Fixed + lens[d]) \in Seq(Byte)
      BY <3>1, BytesShape
    <3> QED BY <3>2, <3>3, <3>4 DEF PacketSent, PacketType, Fixed
  <2> DEFINE sent == PacketSent(d)
  <2> HIDE DEF sent
  <2>10. dispatched' = Append(dispatched, sent) /\ sent \in PacketType
    BY <2>1, <2>8, <2>9 DEF sent
  <2>11. /\ dispatched' \in Seq(PacketType) /\ Len(dispatched') = d
         /\ dispatched'[d] = sent
         /\ \A i \in 1..Len(dispatched) : dispatched'[i] = dispatched[i]
    BY <1>4, <2>10, AppendProperties DEF d
  <2>12. TypeOK'
    <3>1. recv_buffer' \in Seq(Byte)
      BY <1>4, <2>1, <2>7, RestShape
    <3>2. EmptyPacket \in PacketType
      BY DEF EmptyPacket, PacketType
    <3> QED BY <1>1, <1>2, <2>1, <2>11, <3>1, <3>2 DEF TypeOK
  <2>13. PacketsIntact'
    <3>1. Len(dispatched') <= Len(lens')
      BY <1>2, <1>4, <2>6, <2>11
    <3>2. ASSUME NEW i \in DOMAIN dispatched' PROVE dispatched'[i] = PacketSent(i)'
      <4>1. PacketSent(i)' = PacketSent(i)
        BY <1>2 DEF PacketSent
      <4>2. i \in 1..d
        BY <2>11, <3>2
      <4>3. CASE i = d
        BY <2>11, <4>1, <4>3 DEF sent
      <4>4. CASE i # d
        <5>1. i \in 1..Len(dispatched) /\ i \in DOMAIN dispatched
          BY <1>4, <4>2, <4>4 DEF d
        <5>2. dispatched[i] = PacketSent(i)
          BY <1>1, <5>1 DEF PacketsIntact
        <5> QED BY <2>11, <4>1, <5>1, <5>2
      <4> QED BY <4>3, <4>4
    <3> QED BY <3>1, <3>2 DEF PacketsIntact
  <2>14. PipeInv'
    <3> DEFINE p == Pipe
    <3>1. Behind' = Behind /\ Behind \in Seq(Byte) /\ p \in Seq(Byte)
      BY <1>1, <1>2, PipeType DEF Behind
    <3>2. p = q \o Behind /\ Len(p) = Len(q) + Len(Behind) /\ Len(Behind) \in Nat
      BY <1>4, <3>1, ConcatProperties DEF Pipe, q
    <3>3. Pipe' = SubSeq(q, n + 1, Len(q)) \o Behind
      BY <2>1, <3>1 DEF Pipe
    <3>4. Pipe' = SubSeq(p, n + 1, Len(p))
      <4>1. SubSeq(q, n + 1, Len(q)) \o Behind = SubSeq(q \o Behind, n + 1, Len(q \o Behind))
        BY <1>4, <2>7, <3>1, RestOfConcat
      <4>2. p = q \o Behind
        BY <3>2
      <4> HIDE DEF p
      <4> QED BY <3>3, <4>1, <4>2, Zenon
    <3>5. /\ Chain(p, lens) /\ (p # << >> => p[1] = <<d, 1>>)
          /\ (peer = "up" => EndsWith(p, lens, Len(dispatched)))
      BY <1>1 DEF PipeInv, d
    <3> DEFINE r == SubSeq(p, n + 1, Len(p))
    <3> HIDE DEF p
    <3>6. n \in 0..Len(p) /\ n \in 1..Len(p) /\ Len(p) \in Nat /\ p # << >>
      BY <1>4, <2>7, <3>1, <3>2
    <3>7. /\ r \in Seq(Byte) /\ Len(r) = Len(p) - n
          /\ \A j \in 1..(Len(p) - n) : r[j] = p[n + j]
      BY <3>1, <3>6, RestShape
    <3>8. Chain(r, lens)
      BY <1>4, <3>1, <3>5, <3>6, ChainRest
    <3> HIDE DEF r
    <3>9. p[n] = <<d, n>>
      <4>1. n <= Total(lens, d) /\ p[1] = <<d, 1>>
        BY <2>6, <2>7, <3>5, <3>6
      <4> QED BY <1>4, <2>6, <3>1, <3>5, <3>6, <4>1, ChainReads
    <3>10. ASSUME r # << >> PROVE r[1] = <<d + 1, 1>>
      <4>1. Len(r) >= 1 /\ n < Len(p)
        BY <2>7, <3>6, <3>7, <3>10
      <4>2. r[1] = p[n + 1]
        BY <2>7, <3>6, <3>7, <4>1
      <4>3. p[n][1] = d /\ p[n][2] = Total(lens, d)
        BY <2>6, <3>9
      <4>4. p[n + 1] = <<p[n][1] + 1, 1>>
        BY <3>5, <3>6, <4>1, <4>3 DEF Chain, Joins
      <4> QED BY <4>2, <4>3, <4>4
    <3>11. ASSUME peer = "up" PROVE EndsWith(r, lens, d)
      <4>1. p[Len(p)] = <<Len(lens), Total(lens, Len(lens))>>
        BY <3>5, <3>6, <3>11 DEF EndsWith
      <4>2. CASE r = << >>
        <5>1. n = Len(p)
          BY <2>7, <3>6, <3>7, <4>2
        <5>2. d = Len(lens)
          BY <3>9, <4>1, <5>1
        <5> QED BY <4>2, <5>2 DEF EndsWith
      <4>3. CASE r # << >>
        <5>1. Len(r) \in 1..(Len(p) - n) /\ n + Len(r) = Len(p)
          BY <2>7, <3>6, <3>7, <4>3
        <5>2. r[Len(r)] = p[Len(p)]
          BY <3>7, <5>1
        <5> QED BY <4>1, <4>3, <5>2 DEF EndsWith
      <4> QED BY <4>2, <4>3
    <3>12. Pipe' = r /\ lens' = lens /\ peer' = peer /\ Len(dispatched') = d
      BY <1>2, <2>11, <3>4 DEF r
    <3> QED BY <3>8, <3>10, <3>11, <3>12 DEF PipeInv
  <2>15. PacketClear' /\ EdgeKept' /\ NoneComplete'
    BY <1>1, <1>2, <2>1 DEF PacketClear, EdgeKept, NoneComplete, EmptyPacket
  <2> QED BY <2>12, <2>13, <2>14, <2>15 DEF IInv
<1> QED BY <1>3, <1>5, <1>6

-----------------------------------------------------------------------------
(***************************************************************************)
(* The invariant and the theorems.                                         *)
(***************************************************************************)
\* IInv holds in every state of the connection.
LEMMA Invariance == Spec => []IInv
<1>1. Init => IInv
  <2> SUFFICES ASSUME Init PROVE IInv
    OBVIOUS
  <2>1. /\ lens = << >> /\ out = << >> /\ wire = << >> /\ recv_buffer = << >>
        /\ dispatched = << >> /\ peer = "up" /\ open = TRUE /\ edge = FALSE
        /\ pc = "epoll_wait" /\ packet = EmptyPacket
    BY DEF Init
  <2>2. TypeOK
    <3>1. EmptyPacket \in PacketType
      BY DEF EmptyPacket, PacketType
    <3>2. << >> \in Seq(Nat) /\ << >> \in Seq(Byte) /\ << >> \in Seq(PacketType)
      OBVIOUS
    <3> QED BY <2>1, <3>1, <3>2 DEF TypeOK
  <2>3. Pipe = << >>
    <3>1. << >> \in Seq(Byte)
      OBVIOUS
    <3>2. << >> \o << >> = << >>
      BY <3>1, ConcatEmptySeq
    <3> QED BY <2>1, <3>2 DEF Pipe, Behind
  <2>4. Len(Pipe) = 0 /\ Len(lens) = 0 /\ Len(dispatched) = 0
    BY <2>1, <2>3
  <2>5. PipeInv
    BY <2>3, <2>4 DEF PipeInv, Chain, Known, Runs, Joins, EndsWith
  <2>6. PacketsIntact
    BY <2>1, <2>4 DEF PacketsIntact
  <2>7. PacketClear /\ EdgeKept
    BY <2>1 DEF PacketClear, EdgeKept
  <2>8. NoneComplete
    BY <2>1, SizeTypes DEF NoneComplete, PacketLength, Fixed
  <2> QED BY <2>2, <2>5, <2>6, <2>7, <2>8 DEF IInv
<1>2. IInv /\ [Next]_vars => IInv'
  <2> SUFFICES ASSUME IInv, [Next]_vars PROVE IInv'
    OBVIOUS
  <2>1. CASE send_request
    BY <2>1, SendRequestStep
  <2>2. CASE send_all
    BY <2>2, SendAllStep
  <2>3. CASE ClientCloses
    BY <2>3, ClientClosesStep
  <2>4. CASE EpollIn
    BY <2>4, EpollInStep
  <2>5. CASE Recv
    BY <2>5, RecvStep
  <2>6. CASE Extract
    BY <2>6, ExtractStep
  <2>7. CASE UNCHANGED vars
    BY <2>7 DEF vars, IInv, TypeOK, PipeInv, Pipe, Behind, PacketsIntact, PacketSent,
                PacketClear, EdgeKept, NoneComplete, PacketLength, body_len
  <2> QED BY <2>1, <2>2, <2>3, <2>4, <2>5, <2>6, <2>7 DEF Next, MainThread
<1> QED BY <1>1, <1>2, PTL DEF Spec

\* However send, the network and recv cut the stream, and wherever the client
\* ends, what handle_request dispatches is what the client packed: whole packets,
\* in order, each with its own body.
THEOREM FramesIntact == Spec => []PacketsIntact
<1>1. IInv => PacketsIntact
  BY DEF IInv
<1> QED BY <1>1, Invariance, PTL

\* A main thread that waits with no edge to come has left nothing in the kernel
\* and no complete packet in recv_buffer_.
THEOREM EdgeDrained == Spec => []NothingLeftUnread
<1>1. IInv => NothingLeftUnread
  BY DEF IInv, EdgeKept, NoneComplete, NothingLeftUnread
<1> QED BY <1>1, Invariance, PTL
=============================================================================
