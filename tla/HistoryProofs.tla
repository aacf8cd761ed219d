--------------------------- MODULE HistoryProofs ---------------------------
(***************************************************************************)
(* What a member sees of a room's messages, for every page size, every     *)
(* number of messages and requests, and a database that may refuse or      *)
(* repeat a statement: the table is in order, the pages are one piece of   *)
(* it, no message is seen both live and in a page, and every body can be   *)
(* read back and is refused when it is cut.                                *)
(*                                                                         *)
(* Facts about loops (serialize, parse, the scan of the query) are proved  *)
(* for every input by induction on a set: the passes after which the fact  *)
(* holds are a set of numbers, and the smallest one that is missing cannot *)
(* be.                                                                     *)
(***************************************************************************)
EXTENDS History, FiniteSetTheorems, SequenceTheorems, WellFoundedInduction, TLAPS

-----------------------------------------------------------------------------
(***************************************************************************)
(* Induction, and sequences whose elements have no set.                    *)
(***************************************************************************)
\* A set of natural numbers has a least one.
LEMMA Least ==
  ASSUME NEW T, T \subseteq Nat, T # {}
  PROVE  \E x \in T : \A y \in T : x <= y
<1>1. IsWellFoundedOn(OpToRel(<, Nat), Nat)
  BY NatLessThanWellFounded
<1>2. PICK x \in T : \A y \in T : ~(<<y, x>> \in OpToRel(<, Nat))
  BY <1>1, WFMin, Zenon
<1>3. ASSUME NEW y \in T, y < x PROVE FALSE
  <2>1. <<y, x>> \in Nat \X Nat
    OBVIOUS
  <2>2. <<y, x>> \in OpToRel(<, Nat)
    BY <2>1, <1>3 DEF OpToRel
  <2> QED
    BY <1>2, <2>2
<1>4. \A y \in T : x <= y
  BY <1>3
<1> QED
  BY <1>4

\* Induction up to n, for a set: a smallest number that is missing cannot be.
LEMMA UpTo ==
  ASSUME NEW n \in Nat, NEW T, 0 \in T, \A i \in 1..n : i - 1 \in T => i \in T
  PROVE  \A i \in 0..n : i \in T
<1> SUFFICES ASSUME NEW m \in 0..n, m \notin T PROVE FALSE
  OBVIOUS
<1> DEFINE M == {i \in 0..n : i \notin T}
<1>1. M \subseteq Nat /\ m \in M
  OBVIOUS
<1>2. PICK x \in M : \A y \in M : x <= y
  <2> HIDE DEF M
  <2> QED
    BY <1>1, Least
<1>3. x # 0 /\ x \in 1..n /\ x - 1 \in 0..n
  OBVIOUS
<1>4. x - 1 \in T
  BY <1>2, <1>3
<1> QED
  BY <1>2, <1>3, <1>4

\* A sequence of whatever it holds.
IsSeq(s) == \E S : s \in Seq(S)

\* Append and Tail, without a set of elements.
LEMMA AppendIs ==
  ASSUME NEW s, IsSeq(s), NEW x
  PROVE  /\ IsSeq(Append(s, x)) /\ Len(s) \in Nat /\ Len(Append(s, x)) = Len(s) + 1
         /\ DOMAIN s = 1..Len(s) /\ DOMAIN Append(s, x) = 1..(Len(s) + 1)
         /\ \A i \in DOMAIN s : Append(s, x)[i] = s[i]
         /\ Append(s, x)[Len(s) + 1] = x
<1>1. PICK S : s \in Seq(S)
  BY DEF IsSeq
<1> DEFINE T == S \cup {x}
<1>2. s \in Seq(T) /\ x \in T
  BY <1>1
<1> HIDE DEF T
<1>3. Append(s, x) \in Seq(T)
  BY <1>2
<1> QED
  BY <1>2, <1>3 DEF IsSeq

\* The first element goes, the others move up.
LEMMA TailIs ==
  ASSUME NEW s, IsSeq(s), s # << >>
  PROVE  /\ IsSeq(Tail(s)) /\ Len(s) \in Nat \ {0} /\ Head(s) = s[1]
         /\ Len(Tail(s)) = Len(s) - 1
         /\ DOMAIN s = 1..Len(s) /\ DOMAIN Tail(s) = 1..(Len(s) - 1)
         /\ \A i \in DOMAIN Tail(s) : Tail(s)[i] = s[i + 1]
<1>1. PICK S : s \in Seq(S)
  BY DEF IsSeq
<1>2. Tail(s) \in Seq(S) /\ Len(s) \in Nat \ {0}
  BY <1>1
<1> QED
  BY <1>1, <1>2 DEF IsSeq

-----------------------------------------------------------------------------
(***************************************************************************)
(* The codec: what serialize writes, parse reads back.                     *)
(***************************************************************************)
\* The characters and numbers of a body.
Units == Int \cup {"tempnickname"}

\* Messages of any length.
Messages ==
  [id : Int, sender_id : Int, created_epoch : Int, sender_nick : Seq(Units), content : Seq(Units)]

\* The units that one message takes.
Width(m) == 5 + Len(m.sender_nick) + Len(m.content)

\* The message m stands in the body behind its first p units.
Holds(body, p, m) ==
  /\ body[p + 1] = m.id /\ body[p + 2] = m.sender_id /\ body[p + 3] = m.created_epoch
  /\ body[p + 4] = Len(m.sender_nick)
  /\ \A k \in 1..Len(m.sender_nick) : body[p + 4 + k] = m.sender_nick[k]
  /\ body[p + 5 + Len(m.sender_nick)] = Len(m.content)
  /\ \A k \in 1..Len(m.content) : body[p + 5 + Len(m.sender_nick) + k] = m.content[k]

\* a starts with the p units of b.
Starts(a, b, p) == \A k \in 1..p : a[k] = b[k]

\* c is b, which has n units, and behind it the string s of u units with its length.
Joined(c, b, n, u, s) ==
  /\ \A k \in 1..n : c[k] = b[k]
  /\ c[n + 1] = u
  /\ \A k \in 1..u : c[n + 1 + k] = s[k]

\* put_str: the length, then the string.
LEMMA PutStr ==
  ASSUME NEW out \in Seq(Units), NEW s \in Seq(Units)
  PROVE  /\ put_str(out, s) \in Seq(Units) /\ Len(put_str(out, s)) = Len(out) + 1 + Len(s)
         /\ Joined(put_str(out, s), out, Len(out), Len(s), s)
<1>p. PICK p \in Nat : p = Len(out)
  OBVIOUS
<1>u. PICK u \in Nat : u = Len(s)
  OBVIOUS
<1>c. PICK c : c = put_str(out, s)
  OBVIOUS
<1>1. u \in Units
  BY DEF Units
<1>2. Append(out, u) \in Seq(Units)
  BY <1>1
<1>3. PICK a \in Seq(Units) : a = Append(out, u)
  BY <1>2
<1>4. Len(a) = p + 1 /\ a[p + 1] = u /\ \A k \in 1..p : a[k] = out[k]
  BY <1>p, <1>1, <1>3
<1>5. c = a \o s
  BY <1>u, <1>c, <1>3 DEF put_str
<1>6. /\ c \in Seq(Units) /\ Len(c) = Len(a) + Len(s)
      /\ \A k \in 1..(Len(a) + Len(s)) : c[k] = IF k <= Len(a) THEN a[k] ELSE s[k - Len(a)]
  BY <1>5, ConcatProperties
<1>7. /\ Len(c) = p + 1 + u
      /\ \A k \in 1..(p + 1 + u) : c[k] = IF k <= p + 1 THEN a[k] ELSE s[k - (p + 1)]
  BY <1>p, <1>u, <1>4, <1>6
<1>8. \A k \in 1..(p + 1) : c[k] = a[k]
  BY <1>7
<1>9. \A k \in 1..u : c[p + 1 + k] = s[k]
  <2>1. \A k \in 1..u : p + 1 + k \in 1..(p + 1 + u) /\ ~(p + 1 + k <= p + 1) /\ (p + 1 + k) - (p + 1) = k
    OBVIOUS
  <2> QED
    BY <1>7, <2>1
<1> QED
  BY <1>p, <1>u, <1>c, <1>4, <1>6, <1>7, <1>8, <1>9 DEF Joined

\* Three numbers behind what is there.
LEMMA PutNumbers ==
  ASSUME NEW out \in Seq(Units), NEW h \in Seq(Units), Len(h) = 3
  PROVE  /\ out \o h \in Seq(Units) /\ Len(out \o h) = Len(out) + 3
         /\ \A k \in 1..Len(out) : (out \o h)[k] = out[k]
         /\ \A j \in 1..3 : (out \o h)[Len(out) + j] = h[j]
<1>p. PICK p \in Nat : p = Len(out)
  OBVIOUS
<1>a. PICK a : a = out \o h
  OBVIOUS
<1>1. /\ a \in Seq(Units) /\ Len(a) = Len(out) + Len(h)
      /\ \A k \in 1..(Len(out) + Len(h)) : a[k] = IF k <= Len(out) THEN out[k] ELSE h[k - Len(out)]
  BY <1>a, ConcatProperties
<1>2. /\ Len(a) = p + 3
      /\ \A k \in 1..(p + 3) : a[k] = IF k <= p THEN out[k] ELSE h[k - p]
  BY <1>p, <1>1
<1>3. \A k \in 1..p : a[k] = out[k]
  BY <1>2
<1>4. \A j \in 1..3 : p + j \in 1..(p + 3) /\ ~(p + j <= p) /\ (p + j) - p = j
  OBVIOUS
<1>5. \A j \in 1..3 : a[p + j] = h[j]
  BY <1>2, <1>4
<1> QED
  BY <1>p, <1>a, <1>1, <1>2, <1>3, <1>5

\* The places of the fields, once a string is put behind the numbers and another one behind it.
LEMMA FieldPlaces ==
  ASSUME NEW p \in Nat, NEW u \in Nat, NEW v \in Nat,
         NEW out, NEW a, NEW b, NEW c, NEW s, NEW t,
         Starts(a, out, p),
         NEW q \in Nat, NEW w \in Nat, Joined(b, a, q, u, s), Joined(c, b, w, v, t),
         q = p + 3, w = p + 4 + u
  PROVE  /\ \A k \in 1..p : c[k] = out[k]
         /\ c[p + 1] = a[p + 1] /\ c[p + 2] = a[p + 2] /\ c[p + 3] = a[p + 3]
         /\ c[p + 4] = u /\ \A k \in 1..u : c[p + 4 + k] = s[k]
         /\ c[p + 5 + u] = v /\ \A k \in 1..v : c[p + 5 + u + k] = t[k]
<1>1. \A k \in 1..(p + 3) : c[k] = a[k]
  BY DEF Joined
<1>2. \A k \in 1..p : c[k] = out[k]
  BY <1>1 DEF Starts
<1>3. c[p + 4] = u /\ \A k \in 1..u : c[p + 4 + k] = s[k]
  BY DEF Joined
<1>4. c[p + 5 + u] = v /\ \A k \in 1..v : c[p + 5 + u + k] = t[k]
  BY DEF Joined
<1> QED
  BY <1>1, <1>2, <1>3, <1>4

\* One message is put behind what is there.
LEMMA PutMessage ==
  ASSUME NEW out \in Seq(Units), NEW m \in Messages
  PROVE  /\ put_message(out, m) \in Seq(Units)
         /\ Width(m) \in Nat /\ Width(m) >= 5 /\ Len(put_message(out, m)) = Len(out) + Width(m)
         /\ \A k \in 1..Len(out) : put_message(out, m)[k] = out[k]
         /\ Holds(put_message(out, m), Len(out), m)
<1>p. PICK p \in Nat : p = Len(out)
  OBVIOUS
<1>1. /\ m.sender_nick \in Seq(Units) /\ m.content \in Seq(Units)
      /\ m.id \in Units /\ m.sender_id \in Units /\ m.created_epoch \in Units
  BY DEF Messages, Units
<1>2. PICK s \in Seq(Units) : s = m.sender_nick
  BY <1>1
<1>3. PICK t \in Seq(Units) : t = m.content
  BY <1>1
<1>4. PICK u \in Nat : u = Len(s)
  OBVIOUS
<1>5. PICK v \in Nat : v = Len(t)
  OBVIOUS
<1>6. <<m.id, m.sender_id, m.created_epoch>> \in Seq(Units)
  BY <1>1
<1>7. PICK h \in Seq(Units) : h = <<m.id, m.sender_id, m.created_epoch>>
  BY <1>6
<1>8. Len(h) = 3
  BY <1>7
<1>9. PICK a : a = out \o h
  OBVIOUS
<1>10. a \in Seq(Units) /\ Len(a) = Len(out) + 3
  BY <1>8, <1>9, PutNumbers
<1>11. /\ \A k \in 1..p : a[k] = out[k]
       /\ \A j \in 1..3 : a[p + j] = h[j]
  BY <1>p, <1>8, <1>9, PutNumbers
<1>12. PICK b : b = put_str(a, s)
  OBVIOUS
<1>13. b \in Seq(Units) /\ Len(b) = Len(a) + 1 + Len(s) /\ Joined(b, a, Len(a), Len(s), s)
  BY <1>10, <1>12, PutStr
<1>14. PICK c : c = put_str(b, t)
  OBVIOUS
<1>15. c \in Seq(Units) /\ Len(c) = Len(b) + 1 + Len(t) /\ Joined(c, b, Len(b), Len(t), t)
  BY <1>13, <1>14, PutStr
<1>16. Len(a) = p + 3
  BY <1>p, <1>10
<1>17. Len(b) = p + 4 + u
  BY <1>4, <1>13, <1>16
<1>18. Len(c) = p + (5 + u + v)
  BY <1>5, <1>15, <1>17
<1>19. PICK q \in Nat, w \in Nat : q = p + 3 /\ w = p + 4 + u
  OBVIOUS
<1>20. /\ \A k \in 1..p : c[k] = out[k]
       /\ c[p + 1] = a[p + 1] /\ c[p + 2] = a[p + 2] /\ c[p + 3] = a[p + 3]
       /\ c[p + 4] = u /\ \A k \in 1..u : c[p + 4 + k] = s[k]
       /\ c[p + 5 + u] = v /\ \A k \in 1..v : c[p + 5 + u + k] = t[k]
  <2>1. Joined(b, a, q, u, s) /\ Joined(c, b, w, v, t)
    BY <1>4, <1>5, <1>13, <1>15, <1>16, <1>17, <1>19
  <2>2. Starts(a, out, p)
    BY <1>11 DEF Starts
  <2> QED
    BY <1>19, <2>1, <2>2, FieldPlaces
<1>21. put_message(out, m) = c
  BY <1>2, <1>3, <1>7, <1>9, <1>12, <1>14 DEF put_message
<1>22. Width(m) = 5 + u + v
  BY <1>2, <1>3, <1>4, <1>5 DEF Width
<1>23. Holds(c, p, m)
  <2>1. h[1] = m.id /\ h[2] = m.sender_id /\ h[3] = m.created_epoch
    BY <1>7
  <2>2. a[p + 1] = m.id /\ a[p + 2] = m.sender_id /\ a[p + 3] = m.created_epoch
    BY <1>11, <2>1
  <2> QED
    BY <2>2, <1>2, <1>3, <1>4, <1>5, <1>20 DEF Holds
<1>24. c \in Seq(Units) /\ \A k \in 1..Len(out) : c[k] = out[k]
  BY <1>p, <1>15, <1>20
<1>25. Width(m) \in Nat /\ Width(m) >= 5 /\ Len(c) = Len(out) + Width(m)
  BY <1>p, <1>18, <1>22
<1> QED
  BY <1>p, <1>21, <1>23, <1>24, <1>25

\* g is the body after each of the first n messages.
PutStep(g, in, n) ==
  g = [i \in 0..n |-> IF i = 0 THEN <<Len(in)>> ELSE put_message(g[i - 1], in[i])]

\* The loop of serialize is well defined.
LEMMA PutLoop ==
  ASSUME NEW in, Len(in) \in Nat
  PROVE  PutStep(put_messages(in), in, Len(in))
<1> DEFINE T == {n \in Nat : \E g : PutStep(g, in, n)}
<1>1. 0 \in T
  <2>1. PutStep([i \in 0..0 |-> <<Len(in)>>], in, 0)
    BY DEF PutStep
  <2> QED
    BY <2>1
<1>2. ASSUME NEW n \in 1..Len(in), n - 1 \in T PROVE n \in T
  <2>1. PICK g : PutStep(g, in, n - 1)
    BY <1>2
  <2> DEFINE h == [i \in 0..n |-> IF i = n THEN put_message(g[n - 1], in[n]) ELSE g[i]]
  <2>2. \A i \in 0..n : h[i] = IF i = n THEN put_message(g[n - 1], in[n]) ELSE g[i]
    OBVIOUS
  <2>3. \A i \in 0..(n - 1) : g[i] = IF i = 0 THEN <<Len(in)>> ELSE put_message(g[i - 1], in[i])
    BY <2>1 DEF PutStep
  <2>4. h = [i \in 0..n |-> h[i]]
    OBVIOUS
  <2> HIDE DEF h
  <2>5. \A i \in 0..n : h[i] = IF i = 0 THEN <<Len(in)>> ELSE put_message(h[i - 1], in[i])
    BY <2>2, <2>3
  <2>6. PutStep(h, in, n)
    BY <2>4, <2>5 DEF PutStep
  <2> QED
    BY <2>6
<1>3. \A n \in 0..Len(in) : n \in T
  <2> HIDE DEF T
  <2> QED
    BY <1>1, <1>2, UpTo
<1>4. \E g : PutStep(g, in, Len(in))
  BY <1>3
<1> QED
  BY <1>4 DEF put_messages, PutStep

\* The body after i messages, and its length.
Written(in, i) == put_messages(in)[i]
Size(in, i)    == Len(Written(in, i))

\* What the loop has written.
LEMMA PutFacts ==
  ASSUME NEW in \in Seq(Messages)
  PROVE  /\ \A i \in 0..Len(in) : /\ Written(in, i) \in Seq(Units)
                                  /\ Size(in, i) \in Nat
         /\ Size(in, 0) = 1 /\ Written(in, 0)[1] = Len(in)
         /\ \A i \in 1..Len(in) :
              /\ Width(in[i]) \in Nat /\ Width(in[i]) >= 5
              /\ Size(in, i) = Size(in, i - 1) + Width(in[i])
              /\ Starts(Written(in, i), Written(in, i - 1), Size(in, i - 1))
              /\ Holds(Written(in, i), Size(in, i - 1), in[i])
<1>n. PICK n \in Nat : n = Len(in)
  OBVIOUS
<1>1. PICK g : g = put_messages(in) /\ PutStep(g, in, n)
  BY <1>n, PutLoop
<1>a. g = [i \in 0..n |-> IF i = 0 THEN <<n>> ELSE put_message(g[i - 1], in[i])]
  BY <1>n, <1>1 DEF PutStep
<1>b. \A i \in 0..n : g[i] = IF i = 0 THEN <<n>> ELSE put_message(g[i - 1], in[i])
  BY <1>a
<1>c. g[0] = <<n>> /\ \A i \in 1..n : g[i] = put_message(g[i - 1], in[i])
  <2>1. 0 \in 0..n /\ \A i \in 1..n : i \in 0..n /\ i # 0
    OBVIOUS
  <2> QED
    BY <1>b, <2>1
<1>2. /\ Written(in, 0) = <<n>>
      /\ \A i \in 1..Len(in) : Written(in, i) = put_message(Written(in, i - 1), in[i])
  BY <1>n, <1>1, <1>c DEF Written
<1>3. n \in Units /\ \A i \in 1..Len(in) : in[i] \in Messages
  BY <1>n DEF Units
<1>4. Written(in, 0) \in Seq(Units) /\ Size(in, 0) = 1 /\ Written(in, 0)[1] = Len(in)
  <2>1. <<n>> \in Seq(Units) /\ Len(<<n>>) = 1 /\ <<n>>[1] = n
    BY <1>3
  <2> QED
    BY <1>n, <1>2, <2>1 DEF Size
<1> DEFINE T == {i \in Nat : Written(in, i) \in Seq(Units)}
<1>5. 0 \in T
  BY <1>4
<1>6. ASSUME NEW i \in 1..Len(in), i - 1 \in T PROVE i \in T
  <2>1. PICK out \in Seq(Units) : out = Written(in, i - 1)
    BY <1>6
  <2>2. PICK m \in Messages : m = in[i]
    BY <1>3
  <2>3. put_message(out, m) \in Seq(Units)
    BY PutMessage
  <2> QED
    BY <1>n, <1>2, <2>1, <2>2, <2>3
<1>7. \A i \in 0..n : i \in T
  <2>1. \A i \in 1..n : i - 1 \in T => i \in T
    BY <1>n, <1>6
  <2> HIDE DEF T
  <2> QED
    BY <1>5, <2>1, UpTo
<1>8. \A i \in 0..Len(in) : Written(in, i) \in Seq(Units)
  BY <1>n, <1>7
<1>9. \A i \in 0..Len(in) : Size(in, i) \in Nat
  BY <1>8 DEF Size
<1>10. ASSUME NEW i \in 1..Len(in)
       PROVE  /\ Width(in[i]) \in Nat /\ Width(in[i]) >= 5
              /\ Size(in, i) = Size(in, i - 1) + Width(in[i])
              /\ Starts(Written(in, i), Written(in, i - 1), Size(in, i - 1))
              /\ Holds(Written(in, i), Size(in, i - 1), in[i])
  <2>1. PICK out \in Seq(Units) : out = Written(in, i - 1)
    BY <1>8
  <2>2. PICK m \in Messages : m = in[i]
    BY <1>3
  <2>3. Written(in, i) = put_message(out, m)
    BY <1>2, <2>1, <2>2
  <2>4. /\ Width(m) \in Nat /\ Width(m) >= 5 /\ Len(put_message(out, m)) = Len(out) + Width(m)
        /\ \A k \in 1..Len(out) : put_message(out, m)[k] = out[k]
        /\ Holds(put_message(out, m), Len(out), m)
    BY PutMessage
  <2> QED
    BY <2>1, <2>2, <2>3, <2>4 DEF Size, Starts
<1> QED
  BY <1>4, <1>8, <1>9, <1>10

\* A body grows, and what has been written stays.
LEMMA PutGrows ==
  ASSUME NEW in \in Seq(Messages), NEW i \in 0..Len(in), NEW j \in 0..Len(in), i <= j
  PROVE  /\ Size(in, i) <= Size(in, j)
         /\ Starts(Written(in, j), Written(in, i), Size(in, i))
<1>0. PICK n \in Nat : n = Len(in)
  OBVIOUS
<1> DEFINE T == {d \in Nat : i + d <= n => /\ Size(in, i) <= Size(in, i + d)
                                           /\ Starts(Written(in, i + d), Written(in, i), Size(in, i))}
<1>1. 0 \in T
  BY <1>0, PutFacts DEF Starts
<1>2. ASSUME NEW d \in 1..n, d - 1 \in T PROVE d \in T
  <2> SUFFICES ASSUME i + d <= n
               PROVE  /\ Size(in, i) <= Size(in, i + d)
                      /\ Starts(Written(in, i + d), Written(in, i), Size(in, i))
    OBVIOUS
  <2>1. PICK e \in 1..n : e = i + d
    BY <1>0
  <2>2. i + (d - 1) = e - 1 /\ e - 1 \in 0..n
    BY <2>1, <1>0
  <2>3. Size(in, i) <= Size(in, e - 1) /\ Starts(Written(in, e - 1), Written(in, i), Size(in, i))
    BY <1>2, <2>1, <2>2
  <2>4. /\ Width(in[e]) \in Nat
        /\ Size(in, e) = Size(in, e - 1) + Width(in[e])
        /\ Starts(Written(in, e), Written(in, e - 1), Size(in, e - 1))
    BY <1>0, PutFacts
  <2>5. Size(in, i) \in Nat /\ Size(in, e - 1) \in Nat
    BY <1>0, <2>2, PutFacts
  <2> QED
    BY <2>1, <2>3, <2>4, <2>5 DEF Starts
<1>3. \A d \in 0..n : d \in T
  <2> HIDE DEF T
  <2> QED
    BY <1>1, <1>2, UpTo
<1>4. PICK d \in 0..n : j = i + d
  BY <1>0
<1> QED
  BY <1>0, <1>3, <1>4

\* The string s of u units stands in the body behind its first q.
Spelled(body, q, u, s) == \A k \in 1..u : body[q + k] = s[k]

\* A piece of the body is a string.
LEMMA CutOut ==
  ASSUME NEW b \in Seq(Units), NEW s \in Seq(Units), NEW q \in Nat,
         q + Len(s) <= Len(b), Spelled(b, q, Len(s), s)
  PROVE  SubSeq(b, q + 1, q + Len(s)) = s
<1>n. PICK n \in Nat : n = Len(b)
  OBVIOUS
<1>u. PICK u \in Nat : u = Len(s)
  OBVIOUS
<1>1. PICK c : c = SubSeq(b, q + 1, q + u)
  OBVIOUS
<1>2. q + 1 \in 1..(n + 1) /\ q + u \in 0..n
  BY <1>n, <1>u
<1>3. /\ c \in Seq(Units) /\ Len(c) = u
      /\ \A k \in 1..u : c[k] = b[q + k]
  <2>1. /\ c \in Seq(Units)
        /\ Len(c) = IF q + 1 <= q + u THEN (q + u) - (q + 1) + 1 ELSE 0
        /\ \A k \in 1..((q + u) - (q + 1) + 1) : c[k] = b[(q + 1) + k - 1]
    BY <1>n, <1>1, <1>2, SubSeqProperties
  <2>2. (IF q + 1 <= q + u THEN (q + u) - (q + 1) + 1 ELSE 0) = u /\ (q + u) - (q + 1) + 1 = u
    OBVIOUS
  <2>3. \A k \in 1..u : (q + 1) + k - 1 = q + k
    OBVIOUS
  <2> QED
    BY <2>1, <2>2, <2>3
<1>4. Len(c) = Len(s) /\ \A k \in 1..Len(c) : c[k] = s[k]
  BY <1>u, <1>3 DEF Spelled
<1>5. c = s
  BY <1>3, <1>4, SeqEqual
<1> QED
  BY <1>u, <1>1, <1>5

\* What stands in the body stands in its first n units, if it fits.
LEMMA Within ==
  ASSUME NEW b, NEW full, NEW n \in Nat, Starts(b, full, n),
         NEW q \in Nat, NEW u \in Nat, q + u <= n, NEW s, Spelled(full, q, u, s)
  PROVE  Spelled(b, q, u, s)
<1> SUFFICES ASSUME NEW k \in 1..u PROVE b[q + k] = s[k]
  BY DEF Spelled
<1>1. q + k \in 1..n
  OBVIOUS
<1> QED
  BY <1>1 DEF Starts, Spelled

\* A read that has been refused refuses the next.
LEMMA TakeFail ==
  ASSUME NEW b
  PROVE  take_str(b, FAIL) = FAIL /\ \A k : take(b, FAIL, k) = FAIL
BY DEF take, take_str

\* take_str behind p units, if the length is there.
LEMMA TakeStr ==
  ASSUME NEW b, NEW n \in Nat, n = Len(b), NEW p \in Nat, NEW u \in Nat, p + 1 <= n => b[p + 1] = u
  PROVE  take_str(b, p) = IF p + 1 + u <= n THEN p + 1 + u ELSE FAIL
<1>1. p # FAIL /\ p + 1 # FAIL
  BY DEF FAIL
<1>2. take(b, p, 1) = IF p + 1 > n THEN FAIL ELSE p + 1
  BY <1>1 DEF take
<1>3. CASE p + 1 > n
  BY <1>2, <1>3 DEF take_str
<1>4. CASE p + 1 <= n
  <2>1. take(b, p, 1) = p + 1 /\ b[p + 1] = u
    BY <1>2, <1>4
  <2>2. take_str(b, p) = take(b, p + 1, u)
    BY <1>1, <2>1 DEF take_str
  <2>3. take(b, p + 1, u) = IF p + 1 + u > n THEN FAIL ELSE p + 1 + u
    BY <1>1 DEF take
  <2> QED
    BY <2>2, <2>3
<1> QED
  BY <1>3, <1>4

\* take_message reads the message that stands there, or is refused.
LEMMA TakeMessage ==
  ASSUME NEW b \in Seq(Units), NEW n \in Nat, n = Len(b), NEW p \in Nat, p <= n,
         NEW m \in Messages, NEW full, Holds(full, p, m), Starts(b, full, n), NEW o
  PROVE  take_message(b, [off |-> p, out |-> o]) =
           IF p + Width(m) <= n THEN [off |-> p + Width(m), out |-> Append(o, m)]
                                ELSE [off |-> FAIL, out |-> o]
<1>1. m.sender_nick \in Seq(Units) /\ m.content \in Seq(Units)
  BY DEF Messages
<1>2. PICK s \in Seq(Units) : s = m.sender_nick
  BY <1>1
<1>3. PICK t \in Seq(Units) : t = m.content
  BY <1>1
<1>4. PICK u \in Nat : u = Len(s)
  OBVIOUS
<1>5. PICK v \in Nat : v = Len(t)
  OBVIOUS
<1>6. Width(m) = 5 + u + v
  BY <1>2, <1>3, <1>4, <1>5 DEF Width
<1>7. /\ full[p + 1] = m.id /\ full[p + 2] = m.sender_id /\ full[p + 3] = m.created_epoch
      /\ full[p + 4] = u /\ \A k \in 1..u : full[p + 4 + k] = s[k]
      /\ full[p + 5 + u] = v /\ \A k \in 1..v : full[p + 5 + u + k] = t[k]
  BY <1>2, <1>3, <1>4, <1>5 DEF Holds
<1>8. \A k \in 1..n : b[k] = full[k]
  BY DEF Starts
<1> DEFINE nick    == take(b, p, 3)
           content == take_str(b, nick)
           end     == take_str(b, content)
<1>9. nick = IF p + 3 <= n THEN p + 3 ELSE FAIL
  BY DEF take, FAIL
<1>10. content = IF p + 4 + u <= n THEN p + 4 + u ELSE FAIL
  <2>1. CASE p + 3 <= n
    <3>1. PICK q \in Nat : q = p + 3
      OBVIOUS
    <3>2. q + 1 <= n => b[q + 1] = u
      BY <1>7, <1>8, <3>1
    <3>3. take_str(b, q) = IF q + 1 + u <= n THEN q + 1 + u ELSE FAIL
      BY <3>2, TakeStr
    <3> QED
      BY <1>9, <2>1, <3>1, <3>3
  <2>2. CASE ~(p + 3 <= n)
    BY <1>9, <2>2, TakeFail
  <2> QED
    BY <2>1, <2>2
<1>11. end = IF p + 5 + u + v <= n THEN p + 5 + u + v ELSE FAIL
  <2>1. CASE p + 4 + u <= n
    <3>1. PICK q \in Nat : q = p + 4 + u
      OBVIOUS
    <3>2. q + 1 <= n => b[q + 1] = v
      BY <1>7, <1>8, <3>1
    <3>3. take_str(b, q) = IF q + 1 + v <= n THEN q + 1 + v ELSE FAIL
      BY <3>2, TakeStr
    <3> QED
      BY <1>10, <2>1, <3>1, <3>3
  <2>2. CASE ~(p + 4 + u <= n)
    BY <1>10, <2>2, TakeFail
  <2> QED
    BY <2>1, <2>2
<1>12. take_message(b, [off |-> p, out |-> o]) =
         [off |-> end,
          out |-> IF end = FAIL THEN o
                  ELSE Append(o, [id |-> b[p + 1], sender_id |-> b[p + 2],
                                  created_epoch |-> b[p + 3],
                                  sender_nick |-> SubSeq(b, nick + 2, content),
                                  content |-> SubSeq(b, content + 2, end)])]
  BY DEF take_message
<1> HIDE DEF nick, content, end
<1>13. CASE p + 5 + u + v <= n
  <2>1. nick = p + 3 /\ content = p + 4 + u /\ end = p + 5 + u + v /\ end # FAIL
    BY <1>9, <1>10, <1>11, <1>13 DEF FAIL
  <2>2. b[p + 1] = m.id /\ b[p + 2] = m.sender_id /\ b[p + 3] = m.created_epoch
    <3>1. p + 1 \in 1..n /\ p + 2 \in 1..n /\ p + 3 \in 1..n
      BY <1>13
    <3> QED
      BY <1>7, <1>8, <3>1
  <2>3. SubSeq(b, nick + 2, content) = s
    <3>1. PICK q \in Nat : q = p + 4
      OBVIOUS
    <3>2. q + u <= n
      BY <1>13, <3>1
    <3>3. Spelled(full, q, u, s)
      BY <1>7, <3>1 DEF Spelled
    <3>4. Spelled(b, q, u, s)
      BY <3>2, <3>3, Within
    <3>5. q + Len(s) <= Len(b) /\ Spelled(b, q, Len(s), s)
      BY <1>4, <3>2, <3>4
    <3>6. SubSeq(b, q + 1, q + Len(s)) = s
      BY <3>5, CutOut
    <3> QED
      BY <1>4, <2>1, <3>1, <3>6
  <2>4. SubSeq(b, content + 2, end) = t
    <3>1. PICK q \in Nat : q = p + 5 + u
      OBVIOUS
    <3>2. q + v <= n
      BY <1>13, <3>1
    <3>3. Spelled(full, q, v, t)
      BY <1>7, <3>1 DEF Spelled
    <3>4. Spelled(b, q, v, t)
      BY <3>2, <3>3, Within
    <3>5. q + Len(t) <= Len(b) /\ Spelled(b, q, Len(t), t)
      BY <1>5, <3>2, <3>4
    <3>6. SubSeq(b, q + 1, q + Len(t)) = t
      BY <3>5, CutOut
    <3> QED
      BY <1>5, <2>1, <3>1, <3>6
  <2>5. m = [id |-> m.id, sender_id |-> m.sender_id, created_epoch |-> m.created_epoch,
             sender_nick |-> s, content |-> t]
    BY <1>2, <1>3 DEF Messages
  <2>6. take_message(b, [off |-> p, out |-> o]) = [off |-> end, out |-> Append(o, m)]
    BY <1>12, <2>1, <2>2, <2>3, <2>4, <2>5
  <2>7. p + Width(m) = end /\ end <= n
    BY <1>6, <1>13, <2>1
  <2> QED
    BY <2>6, <2>7
<1>14. CASE ~(p + 5 + u + v <= n)
  BY <1>6, <1>11, <1>12, <1>14
<1> QED
  BY <1>13, <1>14

\* g is the Reader after each of the first n messages.
ReadStep(g, body, n) ==
  g = [i \in 0..n |-> IF i = 0 THEN [off |-> 1, out |-> << >>] ELSE take_message(body, g[i - 1])]

\* The loop of parse is well defined.
LEMMA ReadLoop ==
  ASSUME NEW b, NEW c \in Nat, b[1] = c
  PROVE  ReadStep(take_messages(b), b, c)
<1> DEFINE T == {n \in Nat : \E g : ReadStep(g, b, n)}
<1>1. 0 \in T
  <2>1. ReadStep([i \in 0..0 |-> [off |-> 1, out |-> << >>]], b, 0)
    BY DEF ReadStep
  <2> QED
    BY <2>1
<1>2. ASSUME NEW n \in 1..c, n - 1 \in T PROVE n \in T
  <2>1. PICK g : ReadStep(g, b, n - 1)
    BY <1>2
  <2> DEFINE h == [i \in 0..n |-> IF i = n THEN take_message(b, g[n - 1]) ELSE g[i]]
  <2>2. \A i \in 0..n : h[i] = IF i = n THEN take_message(b, g[n - 1]) ELSE g[i]
    OBVIOUS
  <2>3. \A i \in 0..(n - 1) :
          g[i] = IF i = 0 THEN [off |-> 1, out |-> << >>] ELSE take_message(b, g[i - 1])
    BY <2>1 DEF ReadStep
  <2>4. h = [i \in 0..n |-> h[i]]
    OBVIOUS
  <2> HIDE DEF h
  <2>5. \A i \in 0..n :
          h[i] = IF i = 0 THEN [off |-> 1, out |-> << >>] ELSE take_message(b, h[i - 1])
    BY <2>2, <2>3
  <2>6. ReadStep(h, b, n)
    BY <2>4, <2>5 DEF ReadStep
  <2> QED
    BY <2>6
<1>3. \A n \in 0..c : n \in T
  <2> HIDE DEF T
  <2> QED
    BY <1>1, <1>2, UpTo
<1>4. \E g : ReadStep(g, b, c)
  BY <1>3
<1> QED
  BY <1>4 DEF take_messages, ReadStep

\* A message that stands in a body stands in every longer one.
LEMMA HoldsLonger ==
  ASSUME NEW a, NEW full, NEW m \in Messages, NEW p \in Nat, NEW w \in Nat,
         w = p + Width(m), Holds(a, p, m), Starts(full, a, w)
  PROVE  Holds(full, p, m)
<1>1. PICK u \in Nat, v \in Nat : u = Len(m.sender_nick) /\ v = Len(m.content)
  <2>1. m.sender_nick \in Seq(Units) /\ m.content \in Seq(Units)
    BY DEF Messages
  <2> QED
    BY <2>1
<1>2. w = p + (5 + u + v)
  BY <1>1 DEF Width
<1>3. /\ p + 1 \in 1..w /\ p + 2 \in 1..w /\ p + 3 \in 1..w /\ p + 4 \in 1..w
      /\ p + 5 + u \in 1..w
      /\ \A k \in 1..u : p + 4 + k \in 1..w
      /\ \A k \in 1..v : p + 5 + u + k \in 1..w
  BY <1>2
<1>4. \A k \in 1..w : full[k] = a[k]
  BY DEF Starts
<1>5. /\ a[p + 1] = m.id /\ a[p + 2] = m.sender_id /\ a[p + 3] = m.created_epoch
      /\ a[p + 4] = u /\ \A k \in 1..u : a[p + 4 + k] = m.sender_nick[k]
      /\ a[p + 5 + u] = v /\ \A k \in 1..v : a[p + 5 + u + k] = m.content[k]
  BY <1>1 DEF Holds
<1>6. /\ full[p + 1] = m.id /\ full[p + 2] = m.sender_id /\ full[p + 3] = m.created_epoch
      /\ full[p + 4] = u /\ \A k \in 1..u : full[p + 4 + k] = m.sender_nick[k]
      /\ full[p + 5 + u] = v /\ \A k \in 1..v : full[p + 5 + u + k] = m.content[k]
  BY <1>3, <1>4, <1>5
<1> QED
  BY <1>1, <1>6 DEF Holds

\* The Reader r has read the first i messages of in, p units, out of n; or it was refused.
ReadTo(r, in, i, p, n) ==
  IF p <= n
    THEN \E o \in Seq(Messages) : /\ r = [off |-> p, out |-> o] /\ Len(o) = i
                                  /\ \A k \in 1..i : o[k] = in[k]
    ELSE r.off = FAIL

\* One turn of parse's loop.
LEMMA ReadOne ==
  ASSUME NEW b \in Seq(Units), NEW n \in Nat, n = Len(b), NEW r, NEW in,
         NEW i \in Nat, NEW j \in Nat, j = i + 1, NEW p \in Nat, NEW q \in Nat,
         in[j] \in Messages, q = p + Width(in[j]), Width(in[j]) \in Nat,
         NEW full, Holds(full, p, in[j]), Starts(b, full, n), ReadTo(r, in, i, p, n)
  PROVE  ReadTo(take_message(b, r), in, j, q, n)
<1>1. CASE p <= n
  <2>1. PICK o \in Seq(Messages) : /\ r = [off |-> p, out |-> o] /\ Len(o) = i
                                   /\ \A k \in 1..i : o[k] = in[k]
    BY <1>1 DEF ReadTo
  <2>2. PICK m \in Messages : m = in[j]
    OBVIOUS
  <2>3. take_message(b, r) = IF p + Width(m) <= n THEN [off |-> p + Width(m), out |-> Append(o, m)]
                                                  ELSE [off |-> FAIL, out |-> o]
    BY <1>1, <2>1, <2>2, TakeMessage
  <2>4. CASE q <= n
    <3>1. take_message(b, r) = [off |-> q, out |-> Append(o, m)]
      BY <2>2, <2>3, <2>4
    <3>2. /\ Append(o, m) \in Seq(Messages) /\ Len(Append(o, m)) = j
          /\ \A k \in 1..j : Append(o, m)[k] = in[k]
      BY <2>1, <2>2
    <3> QED
      BY <2>4, <3>1, <3>2 DEF ReadTo
  <2>5. CASE ~(q <= n)
    BY <2>2, <2>3, <2>5 DEF ReadTo
  <2> QED
    BY <2>4, <2>5
<1>2. CASE ~(p <= n)
  <2>1. r.off = FAIL
    BY <1>2 DEF ReadTo
  <2>2. take(b, r.off, 3) = FAIL
    BY <2>1, TakeFail
  <2>3. take_message(b, r).off = FAIL
    BY <2>2, TakeFail DEF take_message
  <2>4. ~(q <= n)
    BY <1>2
  <2> QED
    BY <2>3, <2>4 DEF ReadTo
<1> QED
  BY <1>1, <1>2

\* parse's loop on a body that serialize wrote, or on its first n units.
LEMMA ReadFacts ==
  ASSUME NEW in \in Seq(Messages), NEW b \in Seq(Units), NEW n \in Nat \ {0}, n = Len(b),
         n <= Size(in, Len(in)), Starts(b, Written(in, Len(in)), n)
  PROVE  /\ b[1] = Len(in)
         /\ ReadTo(take_messages(b)[Len(in)], in, Len(in), Size(in, Len(in)), n)
<1>c. PICK c \in Nat : c = Len(in)
  OBVIOUS
<1>f. PICK full : full = Written(in, c)
  OBVIOUS
<1>1. Starts(b, full, n)
  BY <1>c, <1>f
<1>2. b[1] = c
  <2>1. Size(in, 0) = 1 /\ Written(in, 0)[1] = c
    BY <1>c, PutFacts
  <2>2. Starts(full, Written(in, 0), Size(in, 0))
    BY <1>c, <1>f, PutGrows
  <2>3. full[1] = c
    BY <2>1, <2>2 DEF Starts
  <2> QED
    BY <1>1, <2>3 DEF Starts
<1>3. PICK g : g = take_messages(b) /\ ReadStep(g, b, c)
  BY <1>2, ReadLoop
<1>4. g = [i \in 0..c |-> IF i = 0 THEN [off |-> 1, out |-> << >>] ELSE take_message(b, g[i - 1])]
  BY <1>3 DEF ReadStep
<1>5. g[0] = [off |-> 1, out |-> << >>] /\ \A i \in 1..c : g[i] = take_message(b, g[i - 1])
  <2>1. \A i \in 0..c : g[i] = IF i = 0 THEN [off |-> 1, out |-> << >>]
                                        ELSE take_message(b, g[i - 1])
    BY <1>4
  <2>2. 0 \in 0..c /\ \A i \in 1..c : i \in 0..c /\ i # 0
    OBVIOUS
  <2> QED
    BY <2>1, <2>2
<1> DEFINE T == {i \in Nat : ReadTo(g[i], in, i, Size(in, i), n)}
<1>6. 0 \in T
  <2>1. Size(in, 0) = 1
    BY PutFacts
  <2>2. << >> \in Seq(Messages) /\ Len(<< >>) = 0 /\ \A k \in 1..0 : << >>[k] = in[k]
    OBVIOUS
  <2>3. 1 <= n
    OBVIOUS
  <2>4. ReadTo(g[0], in, 0, 1, n)
    BY <1>5, <2>2, <2>3, Zenon DEF ReadTo
  <2> QED
    BY <2>1, <2>4
<1>7. ASSUME NEW i \in 1..c, i - 1 \in T PROVE i \in T
  <2>1. PICK h \in Nat : h = i - 1
    OBVIOUS
  <2>a. h \in 0..Len(in) /\ i \in 0..Len(in) /\ i \in 1..Len(in)
    BY <1>c, <2>1
  <2>b. Size(in, h) \in Nat /\ Size(in, i) \in Nat
    BY <2>a, PutFacts
  <2>2. PICK p \in Nat, q \in Nat : p = Size(in, h) /\ q = Size(in, i)
    BY <2>b
  <2>3. ReadTo(g[h], in, h, p, n)
    BY <1>7, <2>1, <2>2
  <2>4. /\ in[i] \in Messages /\ Width(in[i]) \in Nat /\ q = p + Width(in[i])
        /\ Holds(Written(in, i), p, in[i])
    <3>1. in[i] \in Messages
      BY <2>a
    <3>2. /\ Width(in[i]) \in Nat /\ Size(in, i) = Size(in, i - 1) + Width(in[i])
          /\ Holds(Written(in, i), Size(in, i - 1), in[i])
      BY <2>a, PutFacts
    <3> QED
      BY <2>1, <2>2, <3>1, <3>2
  <2>5. Starts(full, Written(in, i), q)
    BY <1>c, <1>f, <2>2, PutGrows
  <2>6. Holds(full, p, in[i])
    BY <2>4, <2>5, HoldsLonger
  <2>7. i = h + 1 /\ g[i] = take_message(b, g[h])
    BY <1>5, <2>1
  <2>8. ReadTo(g[i], in, i, q, n)
    BY <1>1, <2>3, <2>4, <2>6, <2>7, ReadOne
  <2> QED
    BY <2>2, <2>8
<1>8. \A i \in 0..c : i \in T
  <2> HIDE DEF T
  <2> QED
    BY <1>6, <1>7, UpTo
<1>9. ReadTo(g[c], in, c, Size(in, c), n)
  BY <1>8
<1> QED
  BY <1>c, <1>2, <1>3, <1>9

\* What serialize writes, parse reads back.
LEMMA RoundTrip ==
  ASSUME NEW in \in Seq(Messages)
  PROVE  parse(serialize(in)) = [ok |-> TRUE, out |-> in]
<1>1. PICK b : b = serialize(in) /\ b = Written(in, Len(in))
  BY DEF serialize, Written
<1>2. b \in Seq(Units) /\ Len(b) = Size(in, Len(in))
  BY <1>1, PutFacts DEF Size
<1>3. PICK n \in Nat : n = Len(b)
  BY <1>2
<1>4. n >= 1
  <2>1. Size(in, 0) = 1 /\ Size(in, 0) <= Size(in, Len(in))
    BY PutFacts, PutGrows
  <2> QED
    BY <2>1, <1>2, <1>3
<1>5. Starts(b, Written(in, Len(in)), n)
  BY <1>1 DEF Starts
<1>6. b[1] = Len(in) /\ ReadTo(take_messages(b)[Len(in)], in, Len(in), Size(in, Len(in)), n)
  BY <1>2, <1>3, <1>4, <1>5, ReadFacts
<1>7. PICK o \in Seq(Messages) : /\ take_messages(b)[Len(in)] = [off |-> n, out |-> o]
                                 /\ Len(o) = Len(in) /\ \A k \in 1..Len(in) : o[k] = in[k]
  <2>1. Size(in, Len(in)) = n /\ n <= n
    BY <1>2, <1>3
  <2>2. ReadTo(take_messages(b)[Len(in)], in, Len(in), n, n)
    BY <1>6, <2>1
  <2> QED
    BY <2>1, <2>2, Zenon DEF ReadTo
<1>8. o = in
  BY <1>7, SeqEqual
<1>9. take(b, 0, 1) # FAIL /\ n # FAIL
  BY <1>3, <1>4 DEF take, FAIL
<1>10. take_messages(b)[b[1]] = [off |-> n, out |-> in]
  BY <1>6, <1>7, <1>8
<1>11. parse(b) = [ok |-> take_messages(b)[b[1]].off # FAIL, out |-> take_messages(b)[b[1]].out]
  BY <1>9, Zenon DEF parse
<1>12. take_messages(b)[b[1]].off = n /\ take_messages(b)[b[1]].out = in
  BY <1>10
<1>13. (take_messages(b)[b[1]].off # FAIL) = TRUE
  BY <1>9, <1>12
<1>14. parse(b) = [ok |-> TRUE, out |-> in]
  BY <1>11, <1>12, <1>13, Zenon
<1> QED
  BY <1>1, <1>14

\* What serialize writes, cut short, parse refuses.
LEMMA CutShort ==
  ASSUME NEW in \in Seq(Messages), NEW n \in 0..(Len(serialize(in)) - 1)
  PROVE  ~parse(SubSeq(serialize(in), 1, n)).ok
<1>1. PICK f : f = serialize(in) /\ f = Written(in, Len(in))
  BY DEF serialize, Written
<1>2. f \in Seq(Units) /\ Len(f) = Size(in, Len(in)) /\ Len(f) \in Nat
  BY <1>1, PutFacts DEF Size
<1>3. n \in Nat /\ n < Len(f)
  BY <1>1, <1>2
<1>4. PICK b : b = SubSeq(f, 1, n)
  OBVIOUS
<1>5. b \in Seq(Units) /\ Len(b) = n /\ \A k \in 1..n : b[k] = f[k]
  BY <1>2, <1>3, <1>4, SubSeqProperties
<1>6. CASE n = 0
  <2>1. take(b, 0, 1) = FAIL
    BY <1>5, <1>6 DEF take
  <2> QED
    BY <1>1, <1>4, <2>1 DEF parse
<1>7. CASE n # 0
  <2>1. Starts(b, Written(in, Len(in)), n)
    BY <1>1, <1>5 DEF Starts
  <2>2. b[1] = Len(in) /\ ReadTo(take_messages(b)[Len(in)], in, Len(in), Size(in, Len(in)), n)
    BY <1>2, <1>3, <1>5, <1>7, <2>1, ReadFacts
  <2>3. take_messages(b)[Len(in)].off = FAIL
    BY <1>2, <1>3, <2>2 DEF ReadTo
  <2>4. take(b, 0, 1) # FAIL
    BY <1>3, <1>5, <1>7 DEF take, FAIL
  <2> QED
    BY <1>1, <1>4, <2>2, <2>3, <2>4 DEF parse
<1> QED
  BY <1>6, <1>7

-----------------------------------------------------------------------------
(***************************************************************************)
(* The inductive invariant.                                                *)
(***************************************************************************)
\* A body is empty or a list of messages.
Bodies   == {<< >>} \cup {serialize(in) : in \in Seq(Messages)}
Commands == {"CMD_SEND_MESSAGE", "CMD_JOIN_ROOM", "CMD_LOAD_MESSAGE", "CMD_LEAVE_ROOM"}
Steps    == {"SEND_MESSAGE", "SAVE_MESSAGE", "JOIN_ROOM", "LEAVE_ROOM", "REQUEST_DB_LOAD_MESSAGE",
             "SEND_RESPONSE"}
Statuses == {"None", "Success", "DBError", "UserNotFound"}
Events   == [command : Commands, next : Steps, arg : Int, status : Statuses, body : Bodies]
IsTalk(e) == e.command = "CMD_SEND_MESSAGE"
Requests == {e \in Events : ~IsTalk(e)}
Saves    == [type : {"SaveMessage"}, room : {Room, Elsewhere}, msg : Int]
Loads    == [type : {"LoadHistory"}, cursor : Nat, event : Requests]
Answers  == [type : {"PKT_RESPONSE"}, command : Commands, status : Statuses, body : Bodies]
News     == [type : {"PKT_BROADCAST"}, msg : Int]
TableRows == [id : Nat, room : {Room, Elsewhere}, msg : Int]

\* What the queues, the table and the screen hold; the ids count the rows.
Typed ==
  /\ room_events \in Seq(Events) /\ lobby_events \in Seq(Events)
  /\ jobs \in Seq(Saves \cup Loads) /\ socket \in Seq(Answers \cup News)
  /\ rows \in Seq(TableRows) /\ \A i \in DOMAIN rows : rows[i].id = i
  /\ pages \in Seq(Seq(Messages)) /\ live \in Seq(Int)
  /\ oldest_message_id \in Int /\ sent \in Nat /\ written \in Nat

IsSave(job) == job.type = "SaveMessage" /\ job.room = Room

\* A message is in one place on its way to the table, and none overtakes another.
InOrder ==
  /\ \A i, j \in DOMAIN room_events :
       i < j /\ IsTalk(room_events[i]) /\ IsTalk(room_events[j]) =>
         room_events[i].arg < room_events[j].arg
  /\ \A i, j \in DOMAIN jobs : i < j /\ IsSave(jobs[i]) /\ IsSave(jobs[j]) => jobs[i].msg < jobs[j].msg
  /\ \A i \in DOMAIN jobs, j \in DOMAIN room_events :
       IsSave(jobs[i]) /\ IsTalk(room_events[j]) => jobs[i].msg < room_events[j].arg
  /\ \A i \in DOMAIN rows, j \in DOMAIN jobs :
       rows[i].room = Room /\ IsSave(jobs[j]) => rows[i].msg < jobs[j].msg
  /\ \A i \in DOMAIN rows, j \in DOMAIN room_events :
       rows[i].room = Room /\ IsTalk(room_events[j]) => rows[i].msg < room_events[j].arg

\* Nothing is newer than the last message sent.
NoneAhead ==
  /\ \A i \in DOMAIN room_events : IsTalk(room_events[i]) => room_events[i].arg <= sent
  /\ \A i \in DOMAIN jobs : IsSave(jobs[i]) => jobs[i].msg <= sent
  /\ \A i \in DOMAIN rows : rows[i].room = Room => rows[i].msg <= sent

\* The places in a queue that hold one of S.
Marked(q, S) == {i \in DOMAIN q : q[i] \in S}

\* Where the client's request is.
AtTheRoom  == Marked(room_events, Requests)
AtTheLobby == Marked(lobby_events, Events)
AtTheDB    == Marked(jobs, Loads)
OnTheWay   == Marked(socket, Answers)

AtMostOne(S) == \A i, j \in S : i = j

\* It is in one place at most, and in none when the client waits for nothing.
OneRequest ==
  /\ AtMostOne(AtTheRoom) /\ AtMostOne(AtTheLobby) /\ AtMostOne(AtTheDB) /\ AtMostOne(OnTheWay)
  /\ AtTheRoom # {} => AtTheLobby = {} /\ AtTheDB = {} /\ OnTheWay = {}
  /\ AtTheLobby # {} => AtTheDB = {} /\ OnTheWay = {}
  /\ AtTheDB # {} => OnTheWay = {}
  /\ pending = NONE => AtTheRoom = {} /\ AtTheLobby = {} /\ AtTheDB = {} /\ OnTheWay = {}

\* page is a piece of the table: the room's rows before arg, if arg is an id, newest
\* first and none left out.
Piece(page, arg) ==
  /\ \A k \in DOMAIN page : OfTheRoom(page[k]) /\ (arg # 0 => page[k].id < arg)
  /\ \A k, l \in DOMAIN page : k < l => page[l].id < page[k].id
  /\ \A n \in DOMAIN rows :
       rows[n].room = Room /\ page # << >> /\ page[Len(page)].id <= n /\ (n < arg \/ n <= page[1].id) =>
         \E k \in DOMAIN page : page[k] = ToMessage(rows[n])

\* The request that the client waits for: /load asks before the oldest message it shows.
Asked(cmd, arg) ==
  /\ pending = cmd
  /\ cmd \in {"CMD_JOIN_ROOM", "CMD_LOAD_MESSAGE", "CMD_LEAVE_ROOM"}
  /\ arg = IF cmd = "CMD_LOAD_MESSAGE" THEN oldest_message_id ELSE 0
  /\ cmd = "CMD_LOAD_MESSAGE" => state = "IN_ROOM"

\* An answer with a page brings the piece that was asked for.
Brings(cmd, status, body) ==
  status = "Success" =>
    /\ cmd = "CMD_JOIN_ROOM" => Piece(Shown(body), 0)
    /\ cmd = "CMD_LOAD_MESSAGE" => Piece(Shown(body), oldest_message_id)

\* The request at the room's worker, at the lobby's, at the database, and the answer.
RoomHas(e) ==
  /\ Asked(e.command, e.arg)
  /\ e.next = "SEND_RESPONSE" => Brings(e.command, e.status, e.body)
LobbyHas(e) == Asked(e.command, e.arg) /\ e.next # "SEND_RESPONSE"
DBHas(job) ==
  /\ Asked(job.event.command, job.event.arg) /\ job.event.command # "CMD_LEAVE_ROOM"
  /\ job.cursor = cursor_of(job.event.arg)
WayHas(res) ==
  /\ pending = res.command
  /\ res.command = "CMD_LOAD_MESSAGE" => state = "IN_ROOM"
  /\ Brings(res.command, res.status, res.body)

Requested ==
  /\ \A i \in AtTheRoom : RoomHas(room_events[i])
  /\ \A i \in AtTheLobby : LobbyHas(lobby_events[i])
  /\ \A i \in AtTheDB : DBHas(jobs[i])
  /\ \A i \in OnTheWay : WayHas(socket[i])

\* A message that is sent gets no answer here.
TalkSteps ==
  \A i \in DOMAIN room_events :
    IsTalk(room_events[i]) => room_events[i].next \in {"SEND_MESSAGE", "SAVE_MESSAGE"}

\* What is on the screen.
Screen ==
  /\ PagesExact
  /\ oldest_message_id \in 0..Len(rows)
  /\ state = "IN_ROOM" => pages # << >>
  /\ oldest_message_id = 0 => \A i \in DOMAIN pages : pages[i] = << >>

\* The answer to JOIN, with its page.
Welcome(p) == p.type = "PKT_RESPONSE" /\ p.command = "CMD_JOIN_ROOM" /\ p.status = "Success"

IsNews(p) == p.type = "PKT_BROADCAST"

\* All of the page is older than the message.
Older(page, m) == \A k \in DOMAIN page : MessageOf(page[k]) < m

\* What comes behind JOIN's page is newer than everything in it.
Newer ==
  /\ \A i, j \in DOMAIN socket :
       i < j /\ Welcome(socket[i]) /\ IsNews(socket[j]) => Older(Shown(socket[i].body), socket[j].msg)
  /\ pages # << >> =>
       /\ \A j \in DOMAIN socket : IsNews(socket[j]) => Older(pages[1], socket[j].msg)
       /\ \A j \in DOMAIN live : Older(pages[1], live[j])

-----------------------------------------------------------------------------
(***************************************************************************)
(* The database: how often a statement is done, and what a page holds.     *)
(***************************************************************************)
\* A statement is tried once or twice.
LEMMA Tries ==
  ASSUME NEW up, NEW attempts \in exec(up)
  PROVE  TimesDone(attempts) \in 0..2
<1>1. DOMAIN attempts \subseteq 1..2
  <2>1. PICK a \in exec_once(up) :
          attempts \in IF a.ok \/ a.alive THEN {<<a>>}
                       ELSE {<<a>>} \cup {<<a, b>> : b \in exec_once(TRUE)}
    BY Zenon DEF exec
  <2>2. attempts = <<a>> \/ \E b : attempts = <<a, b>>
    BY <2>1, Zenon
  <2>3. CASE attempts = <<a>>
    BY <2>3
  <2>4. ASSUME NEW b, attempts = <<a, b>> PROVE DOMAIN attempts \subseteq 1..2
    BY <2>4
  <2> QED
    BY <2>2, <2>3, <2>4
<1> DEFINE D == {i \in DOMAIN attempts : attempts[i].done}
<1>2. D \subseteq 1..2
  BY <1>1
<1>3. IsFiniteSet(1..2) /\ Cardinality(1..2) = 2
  <2>1. PICK a \in Int, b \in Int : a = 1 /\ b = 2
    OBVIOUS
  <2>2. IsFiniteSet(a..b) /\ Cardinality(a..b) = IF a > b THEN 0 ELSE b - a + 1
    BY FS_Interval
  <2> QED
    BY <2>1, <2>2
<1> HIDE DEF D
<1>4. Cardinality(D) \in Nat /\ Cardinality(D) <= 2
  BY <1>2, <1>3, FS_Subset, FS_CardinalityType
<1> QED
  BY <1>4 DEF TimesDone, D

\* The page p after the rows from lo on, of L.
Gathered(p, c, lo) ==
  /\ p \in Seq(TableRows) /\ Len(p) <= PageSize
  /\ \A k \in 1..Len(p) : /\ p[k].id \in lo..Len(rows) /\ p[k].id < c
                          /\ p[k] = rows[p[k].id] /\ p[k].room = Room
  /\ \A k, l \in 1..Len(p) : k < l => p[l].id < p[k].id
  /\ \A n \in lo..Len(rows) :
       rows[n].room = Room /\ n < c =>
         (\E k \in 1..Len(p) : p[k] = rows[n]) \/ (Len(p) = PageSize /\ n < p[Len(p)].id)

\* One more row.
LEMMA GatherOne ==
  ASSUME rows \in Seq(TableRows), NEW L \in Nat, L = Len(rows), \A i \in 1..L : rows[i].id = i,
         NEW lo \in 1..L, NEW hi \in Nat, hi = lo + 1, NEW c \in Nat, NEW p, Gathered(p, c, hi)
  PROVE  Gathered(IF rows[lo].room = Room /\ Before(rows[lo].id, c) /\ Len(p) < PageSize
                    THEN Append(p, rows[lo]) ELSE p, c, lo)
<1>1. /\ p \in Seq(TableRows) /\ Len(p) <= PageSize
      /\ \A k \in 1..Len(p) : /\ p[k].id \in hi..L /\ p[k].id < c
                              /\ p[k] = rows[p[k].id] /\ p[k].room = Room
      /\ \A k, l \in 1..Len(p) : k < l => p[l].id < p[k].id
      /\ \A n \in hi..L : rows[n].room = Room /\ n < c =>
           (\E k \in 1..Len(p) : p[k] = rows[n]) \/ (Len(p) = PageSize /\ n < p[Len(p)].id)
  BY DEF Gathered
<1>2. PICK m \in Nat : m = Len(p)
  BY <1>1
<1>3. rows[lo] \in TableRows /\ rows[lo].id = lo
  OBVIOUS
<1>4. \A n \in lo..L : n = lo \/ n \in hi..L
  OBVIOUS
<1>5. PageSize \in Nat \ {0}
  BY PageAssumption
<1>6. CASE rows[lo].room = Room /\ Before(rows[lo].id, c) /\ m < PageSize
  <2>1. PICK q : q = Append(p, rows[lo])
    OBVIOUS
  <2>2. /\ q \in Seq(TableRows) /\ Len(q) = m + 1 /\ q[m + 1] = rows[lo]
        /\ \A k \in 1..m : q[k] = p[k]
    BY <1>1, <1>2, <1>3, <2>1
  <2>3. \A k \in 1..(m + 1) : k = m + 1 \/ k \in 1..m
    OBVIOUS
  <2>4. /\ \A k \in 1..(m + 1) : /\ q[k].id \in lo..L /\ q[k].id < c
                                 /\ q[k] = rows[q[k].id] /\ q[k].room = Room
    BY <1>1, <1>2, <1>3, <1>6, <2>2, <2>3 DEF Before
  <2>5. \A k, l \in 1..(m + 1) : k < l => q[l].id < q[k].id
    <3> SUFFICES ASSUME NEW k \in 1..(m + 1), NEW l \in 1..(m + 1), k < l PROVE q[l].id < q[k].id
      OBVIOUS
    <3>1. k \in 1..m /\ q[k] = p[k] /\ p[k].id \in hi..L
      BY <1>1, <1>2, <2>2
    <3>2. CASE l \in 1..m
      BY <1>1, <1>2, <2>2, <3>1, <3>2
    <3>3. CASE l = m + 1
      BY <1>3, <2>2, <3>1, <3>3
    <3> QED
      BY <2>3, <3>2, <3>3
  <2>6. ASSUME NEW n \in lo..L, rows[n].room = Room, n < c
        PROVE  \E k \in 1..(m + 1) : q[k] = rows[n]
    <3>1. CASE n = lo
      BY <2>2, <3>1
    <3>2. CASE n \in hi..L
      <4>1. PICK k \in 1..m : p[k] = rows[n]
        BY <1>1, <1>2, <1>6, <2>6, <3>2
      <4> QED
        BY <2>2, <4>1
    <3> QED
      BY <1>4, <3>1, <3>2
  <2>7. m + 1 <= PageSize
    BY <1>5, <1>6
  <2>8. Gathered(q, c, lo)
    BY <2>2, <2>4, <2>5, <2>6, <2>7 DEF Gathered
  <2> QED
    BY <1>2, <1>6, <2>1, <2>8
<1>7. CASE ~(rows[lo].room = Room /\ Before(rows[lo].id, c) /\ m < PageSize)
  <2>1. \A k \in 1..m : p[k].id \in lo..L
    BY <1>1, <1>2
  <2>2. ASSUME NEW n \in lo..L, rows[n].room = Room, n < c
        PROVE  (\E k \in 1..m : p[k] = rows[n]) \/ (m = PageSize /\ n < p[m].id)
    <3>1. CASE n = lo
      <4>1. m = PageSize /\ m \in 1..m
        BY <1>1, <1>2, <1>3, <1>5, <1>7, <2>2, <3>1 DEF Before
      <4>2. p[m].id \in hi..L
        BY <1>1, <1>2, <4>1
      <4> QED
        BY <3>1, <4>1, <4>2
    <3>2. CASE n \in hi..L
      BY <1>1, <1>2, <2>2, <3>2
    <3> QED
      BY <1>4, <3>1, <3>2
  <2>3. Gathered(p, c, lo)
    BY <1>1, <1>2, <2>1, <2>2 DEF Gathered
  <2> QED
    BY <1>2, <1>7, <2>3
<1> QED
  BY <1>6, <1>7

\* g is the page after each of the first n rows, from the newest.
ScanStep(g, c, n) ==
  g = [i \in 0..n |->
         IF i = 0 THEN << >>
         ELSE IF /\ rows[Len(rows) + 1 - i].room = Room /\ Before(rows[Len(rows) + 1 - i].id, c)
                 /\ Len(g[i - 1]) < PageSize
                THEN Append(g[i - 1], rows[Len(rows) + 1 - i]) ELSE g[i - 1]]

\* The scan is well defined.
LEMMA ScanLoop ==
  ASSUME NEW c, Len(rows) \in Nat
  PROVE  ScanStep(scan(c), c, Len(rows))
<1> DEFINE T == {n \in Nat : \E g : ScanStep(g, c, n)}
           F(p, i) == IF /\ rows[Len(rows) + 1 - i].room = Room /\ Before(rows[Len(rows) + 1 - i].id, c)
                         /\ Len(p) < PageSize
                        THEN Append(p, rows[Len(rows) + 1 - i]) ELSE p
<1>0. \A g, n : ScanStep(g, c, n) <=> g = [i \in 0..n |-> IF i = 0 THEN << >> ELSE F(g[i - 1], i)]
  BY DEF ScanStep
<1>s. scan(c) = LET page[i \in 0..Len(rows)] == IF i = 0 THEN << >> ELSE F(page[i - 1], i) IN page
  BY Zenon DEF scan
<1> HIDE DEF F
<1>1. 0 \in T
  <2>a. PICK z : z = [i \in 0..0 |-> << >>]
    OBVIOUS
  <2>b. z = [i \in 0..0 |-> IF i = 0 THEN << >> ELSE F(z[i - 1], i)]
    BY <2>a
  <2>1. ScanStep(z, c, 0)
    BY <1>0, <2>b
  <2> QED
    BY <2>1
<1>2. ASSUME NEW n \in 1..Len(rows), n - 1 \in T PROVE n \in T
  <2>1. PICK g : ScanStep(g, c, n - 1)
    BY <1>2
  <2> DEFINE h == [i \in 0..n |-> IF i = n THEN F(g[n - 1], n) ELSE g[i]]
  <2>2. \A i \in 0..n : h[i] = IF i = n THEN F(g[n - 1], n) ELSE g[i]
    OBVIOUS
  <2>3. \A i \in 0..(n - 1) : g[i] = IF i = 0 THEN << >> ELSE F(g[i - 1], i)
    BY <1>0, <2>1
  <2>4. h = [i \in 0..n |-> h[i]]
    OBVIOUS
  <2> HIDE DEF h
  <2>5. \A i \in 0..n : h[i] = IF i = 0 THEN << >> ELSE F(h[i - 1], i)
    BY <2>2, <2>3
  <2>6. ScanStep(h, c, n)
    BY <1>0, <2>4, <2>5
  <2> QED
    BY <2>6
<1>3. \A n \in 0..Len(rows) : n \in T
  <2> HIDE DEF T
  <2> QED
    BY <1>1, <1>2, UpTo
<1>4. \E g : ScanStep(g, c, Len(rows))
  BY <1>3
<1>5. \E g : g = [i \in 0..Len(rows) |-> IF i = 0 THEN << >> ELSE F(g[i - 1], i)]
  BY <1>0, <1>4
<1>6. scan(c) = [i \in 0..Len(rows) |-> IF i = 0 THEN << >> ELSE F(scan(c)[i - 1], i)]
  BY <1>5, <1>s
<1> QED
  BY <1>0, <1>6

\* kSelectRecent's page.
LEMMA RecentRows ==
  ASSUME Typed, NEW c \in Nat
  PROVE  Gathered(Recent(c), c, 1)
<1>1. PICK L \in Nat : L = Len(rows)
  BY DEF Typed
<1>2. rows \in Seq(TableRows) /\ \A i \in 1..L : rows[i].id = i
  <2>1. rows \in Seq(TableRows) /\ \A i \in DOMAIN rows : rows[i].id = i
    BY Zenon DEF Typed
  <2> QED
    BY <1>1, <2>1
<1>3. PICK g : g = scan(c) /\ ScanStep(g, c, L)
  BY <1>1, ScanLoop
<1>4. g[0] = << >> /\ \A i \in 1..L :
        g[i] = IF /\ rows[L + 1 - i].room = Room /\ Before(rows[L + 1 - i].id, c)
                  /\ Len(g[i - 1]) < PageSize
                 THEN Append(g[i - 1], rows[L + 1 - i]) ELSE g[i - 1]
  <2>1. \A i \in 0..L :
          g[i] = IF i = 0 THEN << >>
                 ELSE IF /\ rows[L + 1 - i].room = Room /\ Before(rows[L + 1 - i].id, c)
                         /\ Len(g[i - 1]) < PageSize
                        THEN Append(g[i - 1], rows[L + 1 - i]) ELSE g[i - 1]
    BY <1>1, <1>3 DEF ScanStep
  <2>2. 0 \in 0..L /\ \A i \in 1..L : i \in 0..L /\ i # 0
    OBVIOUS
  <2> QED
    BY <2>1, <2>2
<1> DEFINE T == {i \in Nat : Gathered(g[i], c, L + 1 - i)}
<1>5. 0 \in T
  <2>1. << >> \in Seq(TableRows) /\ Len(<< >>) = 0
    OBVIOUS
  <2>2. PageSize \in Nat /\ (L + 1)..L = {} /\ 1..0 = {} /\ L + 1 - 0 = L + 1
    BY PageAssumption
  <2>3. 0 <= PageSize
    BY <2>2
  <2>4. Gathered(<< >>, c, L + 1)
    BY <1>1, <2>1, <2>2, <2>3, Zenon DEF Gathered
  <2> QED
    BY <1>4, <2>2, <2>4
<1>6. ASSUME NEW i \in 1..L, i - 1 \in T PROVE i \in T
  <2>1. PICK lo \in 1..L : lo = L + 1 - i
    OBVIOUS
  <2>2. PICK hi \in Nat : hi = lo + 1 /\ hi = L + 1 - (i - 1)
    BY <2>1
  <2>3. PICK p : p = g[i - 1]
    OBVIOUS
  <2>4. Gathered(p, c, hi)
    BY <1>6, <2>2, <2>3
  <2>5. Gathered(IF rows[lo].room = Room /\ Before(rows[lo].id, c) /\ Len(p) < PageSize
                   THEN Append(p, rows[lo]) ELSE p, c, lo)
    BY <1>1, <1>2, <2>2, <2>4, GatherOne
  <2>6. g[i] = IF rows[lo].room = Room /\ Before(rows[lo].id, c) /\ Len(p) < PageSize
                   THEN Append(p, rows[lo]) ELSE p
    BY <1>4, <2>1, <2>3
  <2>7. Gathered(g[i], c, lo)
    BY <2>5, <2>6
  <2> QED
    BY <2>1, <2>7
<1>7. \A i \in 0..L : i \in T
  <2> HIDE DEF T
  <2> QED
    BY <1>5, <1>6, UpTo
<1>8. Gathered(g[L], c, 1)
  <2>1. L \in T /\ L + 1 - L = 1
    BY <1>7
  <2> QED
    BY <2>1
<1> QED
  BY <1>1, <1>3, <1>8 DEF Recent

\* A row as a message.
LEMMA RowAsMessage ==
  ASSUME NEW r \in TableRows
  PROVE  ToMessage(r) \in Messages /\ ToMessage(r).id = r.id /\ MessageOf(ToMessage(r)) = r.msg
<1>1. r.id \in Int /\ r.msg \in Units /\ "tempnickname" \in Units
  BY DEF TableRows, Units
<1>2. <<"tempnickname">> \in Seq(Units) /\ <<r.msg>> \in Seq(Units) /\ <<r.msg>>[1] = r.msg
  BY <1>1
<1> QED
  BY <1>1, <1>2 DEF ToMessage, Messages, MessageOf

\* A page that the database answers is the piece that was asked for.
LEMMA RecentPiece ==
  ASSUME Typed, NEW arg \in 0..Len(rows)
  PROVE  /\ to_messages(Recent(cursor_of(arg))) \in Seq(Messages)
         /\ Piece(to_messages(Recent(cursor_of(arg))), arg)
<1>1. PICK c \in Nat : c = cursor_of(arg) /\ (arg # 0 => c = arg)
  <2>1. MaxMessages \in Nat /\ MaxElsewhere \in Nat
    BY LimitsAssumption
  <2>2. arg \in Nat
    BY DEF Typed
  <2>3. NewestCursor \in Nat
    BY <2>1 DEF NewestCursor, MaxId
  <2> QED
    BY <2>2, <2>3 DEF cursor_of
<1>2. PICK p : p = Recent(c) /\ Gathered(p, c, 1)
  BY RecentRows
<1>3. PICK L \in Nat : L = Len(rows) /\ DOMAIN rows = 1..L
  BY DEF Typed
<1>4. /\ p \in Seq(TableRows) /\ Len(p) <= PageSize
      /\ \A k \in 1..Len(p) : /\ p[k].id \in 1..L /\ p[k].id < c
                              /\ p[k] = rows[p[k].id] /\ p[k].room = Room
      /\ \A k, l \in 1..Len(p) : k < l => p[l].id < p[k].id
      /\ \A n \in 1..L : rows[n].room = Room /\ n < c =>
           (\E k \in 1..Len(p) : p[k] = rows[n]) \/ (Len(p) = PageSize /\ n < p[Len(p)].id)
  BY <1>2, <1>3 DEF Gathered
<1>5. PICK m \in Nat : m = Len(p) /\ DOMAIN p = 1..m
  BY <1>4
<1>6. PICK page : page = to_messages(p)
  OBVIOUS
<1>7. page = [k \in 1..m |-> ToMessage(p[k])]
  BY <1>5, <1>6 DEF to_messages
<1>8. \A k \in 1..m : p[k] \in TableRows
  BY <1>4, <1>5
<1>9. \A k \in 1..m : /\ page[k] = ToMessage(p[k]) /\ page[k] \in Messages
                      /\ page[k].id = p[k].id
  <2> TAKE k \in 1..m
  <2>1. page[k] = ToMessage(p[k])
    BY <1>7
  <2> QED
    BY <2>1, <1>8, RowAsMessage
<1>10. page \in Seq(Messages) /\ Len(page) = m /\ DOMAIN page = 1..m
  BY <1>7, <1>9
<1>11. \A k \in 1..m : OfTheRoom(page[k]) /\ (arg # 0 => page[k].id < arg)
  BY <1>1, <1>3, <1>4, <1>5, <1>9 DEF OfTheRoom
<1>12. \A k, l \in 1..m : k < l => page[l].id < page[k].id
  BY <1>4, <1>5, <1>9
<1>13. ASSUME NEW n \in 1..L, rows[n].room = Room, page # << >>, page[m].id <= n,
              n < arg \/ n <= page[1].id
       PROVE  \E k \in 1..m : page[k] = ToMessage(rows[n])
  <2>1. m # 0
    BY <1>10, <1>13
  <2>2. 1 \in 1..m /\ m \in 1..m
    BY <2>1
  <2>3. p[m].id <= n /\ p[1].id < c /\ p[m].id \in Nat /\ p[1].id \in Nat
    BY <1>4, <1>5, <1>9, <1>13, <2>2
  <2>4. n < c
    <3>1. CASE n < arg
      BY <1>1, <3>1
    <3>2. CASE n <= page[1].id
      BY <1>9, <2>2, <2>3, <3>2
    <3> QED
      BY <1>13, <3>1, <3>2
  <2>5. PICK k \in 1..m : p[k] = rows[n]
    BY <1>4, <1>5, <1>13, <2>3, <2>4
  <2> QED
    BY <1>9, <2>5
<1>14. Piece(page, arg)
  BY <1>3, <1>10, <1>11, <1>12, <1>13 DEF Piece
<1> QED
  BY <1>1, <1>2, <1>6, <1>10, <1>14

-----------------------------------------------------------------------------
(***************************************************************************)
(* What every step keeps of the types.                                     *)
(***************************************************************************)
\* Any page of the table is a list of messages.
LEMMA PageMessages ==
  ASSUME Typed, NEW c \in Nat
  PROVE  to_messages(Recent(c)) \in Seq(Messages)
<1>1. PICK p : p = Recent(c) /\ p \in Seq(TableRows)
  BY RecentRows DEF Gathered
<1>2. PICK m \in Nat : m = Len(p) /\ DOMAIN p = 1..m /\ \A k \in 1..m : p[k] \in TableRows
  BY <1>1
<1>3. to_messages(p) = [k \in 1..m |-> ToMessage(p[k])]
  BY <1>2 DEF to_messages
<1>4. \A k \in 1..m : ToMessage(p[k]) \in Messages
  BY <1>2, RowAsMessage
<1> QED
  BY <1>1, <1>3, <1>4

\* What the client shows of a body.
LEMMA ShownMessages ==
  /\ Shown(<< >>) = << >>
  /\ \A in \in Seq(Messages) : Shown(serialize(in)) = in
  /\ \A body \in Bodies : Shown(body) \in Seq(Messages)
<1>1. Shown(<< >>) = << >>
  <2>1. take(<< >>, 0, 1) = FAIL
    BY DEF take
  <2>2. parse(<< >>).ok = FALSE
    BY <2>1 DEF parse
  <2> QED
    BY <2>2 DEF Shown
<1>2. \A in \in Seq(Messages) : Shown(serialize(in)) = in
  <2> TAKE in \in Seq(Messages)
  <2>1. PICK r : r = parse(serialize(in)) /\ r = [ok |-> TRUE, out |-> in]
    BY RoundTrip
  <2>2. r.ok /\ r.out = in
    BY <2>1
  <2> QED
    BY <2>1, <2>2, Zenon DEF Shown
<1>3. << >> \in Seq(Messages)
  OBVIOUS
<1> QED
  BY <1>1, <1>2, <1>3, Zenon DEF Bodies

\* An event that goes on.
LEMMA GoesOn ==
  ASSUME NEW e \in Events, NEW s \in Steps
  PROVE  /\ [e EXCEPT !.next = s] \in Events
         /\ [e EXCEPT !.next = s].command = e.command /\ [e EXCEPT !.next = s].arg = e.arg
         /\ [e EXCEPT !.next = s].next = s
BY DEF Events

\* The first event of the queue goes on.
LEMMA HeadGoesOn ==
  ASSUME Typed, room_events # << >>, NEW s \in Steps,
         NEW q, q = [room_events EXCEPT ![1].next = s]
  PROVE  /\ q \in Seq(Events) /\ DOMAIN q = DOMAIN room_events /\ 1 \in DOMAIN q /\ q[1].next = s
         /\ \A i \in DOMAIN q : /\ q[i].command = room_events[i].command
                                /\ q[i].arg = room_events[i].arg
                                /\ i # 1 => q[i] = room_events[i]
<1>1. room_events \in Seq(Events)
  BY DEF Typed
<1>2. PICK n \in Nat \ {0} : n = Len(room_events) /\ DOMAIN room_events = 1..n
  BY <1>1
<1>3. room_events[1] \in Events /\ \A i \in 1..n : room_events[i] \in Events
  BY <1>1, <1>2
<1>4. PICK e \in Events : /\ e = [room_events[1] EXCEPT !.next = s]
                          /\ e.command = room_events[1].command /\ e.arg = room_events[1].arg
                          /\ e.next = s
  BY <1>3, GoesOn
<1>5. q = [room_events EXCEPT ![1] = e]
  BY <1>4
<1>6. q = [i \in 1..n |-> IF i = 1 THEN e ELSE room_events[i]]
  BY <1>1, <1>2, <1>5
<1>7. q \in Seq(Events) /\ DOMAIN q = 1..n
  <2>1. q \in Seq(Events)
    BY <1>1, <1>2, <1>5, ExceptSeq
  <2> QED
    BY <1>6, <2>1
<1> QED
  BY <1>2, <1>4, <1>6, <1>7

\* The table with the rows that a statement adds.
Added(n, r, m) == rows \o [i \in 1..n |-> Row(Len(rows) + i, r, m)]

\* t is the table and behind it n rows of that room and message.
Extends(t, n, r, m) ==
  /\ t \in Seq(TableRows) /\ Len(t) = Len(rows) + n /\ Len(rows) \in Nat
  /\ DOMAIN t = 1..(Len(rows) + n) /\ DOMAIN rows = 1..Len(rows)
  /\ \A i \in DOMAIN t : t[i].id = i
  /\ \A i \in DOMAIN rows : t[i] = rows[i]
  /\ \A i \in DOMAIN t : i > Len(rows) => t[i].room = r /\ t[i].msg = m

LEMMA RowsAdded ==
  ASSUME Typed, NEW n \in 0..2, NEW r \in {Room, Elsewhere}, NEW m \in Int
  PROVE  Extends(Added(n, r, m), n, r, m)
<1>0. PICK t : t = Added(n, r, m)
  OBVIOUS
<1>1. PICK L \in Nat : L = Len(rows) /\ DOMAIN rows = 1..L
  BY DEF Typed
<1>2. rows \in Seq(TableRows) /\ \A i \in 1..L : rows[i].id = i
  <2>1. rows \in Seq(TableRows) /\ \A i \in DOMAIN rows : rows[i].id = i
    BY Zenon DEF Typed
  <2> QED
    BY <1>1, <2>1
<1>3. PICK a : a = [i \in 1..n |-> Row(L + i, r, m)]
  OBVIOUS
<1>4. \A i \in 1..n : a[i] = [id |-> L + i, room |-> r, msg |-> m]
  BY <1>3 DEF Row
<1>5. \A i \in 1..n : Row(L + i, r, m) \in TableRows
  BY DEF Row, TableRows
<1>6. a \in Seq(TableRows) /\ Len(a) = n
  BY <1>3, <1>5
<1>7. t = rows \o a
  BY <1>0, <1>1, <1>3 DEF Added
<1>8. /\ t \in Seq(TableRows) /\ Len(t) = Len(rows) + Len(a)
      /\ \A k \in 1..(Len(rows) + Len(a)) :
           t[k] = IF k <= Len(rows) THEN rows[k] ELSE a[k - Len(rows)]
  BY <1>2, <1>6, <1>7, ConcatProperties
<1>9. /\ Len(t) = L + n /\ DOMAIN t = 1..(L + n)
      /\ \A k \in 1..(L + n) : t[k] = IF k <= L THEN rows[k] ELSE a[k - L]
  BY <1>1, <1>6, <1>8
<1>10. \A k \in 1..L : t[k] = rows[k]
  BY <1>9
<1>11. \A k \in 1..(L + n) : k > L => t[k] = [id |-> k, room |-> r, msg |-> m]
  <2> SUFFICES ASSUME NEW k \in 1..(L + n), k > L PROVE t[k] = [id |-> k, room |-> r, msg |-> m]
    OBVIOUS
  <2>1. k - L \in 1..n /\ L + (k - L) = k /\ ~(k <= L)
    OBVIOUS
  <2> QED
    BY <1>4, <1>9, <2>1
<1>12. \A k \in 1..(L + n) : t[k].id = k
  <2> TAKE k \in 1..(L + n)
  <2>1. CASE k <= L
    BY <1>2, <1>10, <2>1
  <2>2. CASE k > L
    <3>1. t[k] = [id |-> k, room |-> r, msg |-> m]
      BY <1>11, <2>2
    <3> QED
      BY <3>1
  <2> QED
    BY <2>1, <2>2
<1>13. \A k \in 1..(L + n) : k > L => t[k].room = r /\ t[k].msg = m
  <2> SUFFICES ASSUME NEW k \in 1..(L + n), k > L PROVE t[k].room = r /\ t[k].msg = m
    OBVIOUS
  <2>1. t[k] = [id |-> k, room |-> r, msg |-> m]
    BY <1>11
  <2> QED
    BY <2>1
<1>14. Extends(t, n, r, m)
  BY <1>1, <1>8, <1>9, <1>10, <1>12, <1>13 DEF Extends
<1> QED
  BY <1>0, <1>14

\* A step of process_job, by its kind.
LEMMA JobDone ==
  ASSUME Typed, ProcessJob
  PROVE  /\ jobs # << >> /\ jobs' = Tail(jobs) /\ Head(jobs) \in Saves \cup Loads
         /\ \/ /\ Head(jobs) \in Saves
               /\ \E n \in 0..2 : rows' = Added(n, Head(jobs).room, Head(jobs).msg)
               /\ UNCHANGED room_events
            \/ /\ Head(jobs) \in Loads
               /\ \E status \in Statuses, body \in Bodies :
                    /\ room_events' = Append(room_events,
                         [Head(jobs).event EXCEPT !.next = "SEND_RESPONSE", !.status = status,
                                                  !.body = body])
                    /\ \/ body = << >> /\ status # "Success"
                       \/ body = serialize(to_messages(Recent(Head(jobs).cursor)))
               /\ UNCHANGED rows
<1>1. jobs # << >> /\ jobs' = Tail(jobs)
  BY DEF ProcessJob
<1>2. PICK job : job = Head(jobs)
  OBVIOUS
<1>3. job \in Saves \cup Loads
  BY <1>1, <1>2 DEF Typed
<1>4. PICK attempts \in exec(alive) :
        \/ /\ job.type = "SaveMessage"
           /\ rows' = Added(TimesDone(attempts), job.room, job.msg)
           /\ UNCHANGED room_events
        \/ /\ job.type = "LoadHistory"
           /\ room_events' = Append(room_events,
                [job.event EXCEPT
                   !.next   = "SEND_RESPONSE",
                   !.status = IF attempts[Len(attempts)].ok THEN "Success" ELSE "DBError",
                   !.body   = IF attempts[Len(attempts)].ok
                                THEN serialize(to_messages(Recent(job.cursor))) ELSE << >>])
           /\ UNCHANGED rows
  BY <1>2, Zenon DEF ProcessJob, Added
<1>5. CASE job.type = "SaveMessage"
  <2>1. TimesDone(attempts) \in 0..2
    BY Tries
  <2>2. job \in Saves
    BY <1>3, <1>5 DEF Saves, Loads
  <2>3. rows' = Added(TimesDone(attempts), job.room, job.msg) /\ UNCHANGED room_events
    BY <1>4, <1>5, Zenon
  <2> QED
    BY <1>1, <1>2, <1>3, <2>1, <2>2, <2>3, Zenon
<1>6. CASE job.type = "LoadHistory"
  <2>1. job \in Loads
    BY <1>3, <1>6 DEF Saves, Loads
  <2>2. job.cursor \in Nat
    BY <2>1 DEF Loads
  <2>3. to_messages(Recent(job.cursor)) \in Seq(Messages)
    BY <2>2, PageMessages
  <2>4. serialize(to_messages(Recent(job.cursor))) \in Bodies /\ << >> \in Bodies
    BY <2>3 DEF Bodies
  <2>5. /\ room_events' = Append(room_events,
             [job.event EXCEPT
                !.next   = "SEND_RESPONSE",
                !.status = IF attempts[Len(attempts)].ok THEN "Success" ELSE "DBError",
                !.body   = IF attempts[Len(attempts)].ok
                             THEN serialize(to_messages(Recent(job.cursor))) ELSE << >>])
        /\ UNCHANGED rows
    BY <1>4, <1>6, Zenon
  <2>6. "Success" \in Statuses /\ "DBError" \in Statuses /\ "DBError" # "Success"
    BY DEF Statuses
  <2>7. \E status \in Statuses, body \in Bodies :
          /\ room_events' = Append(room_events,
               [job.event EXCEPT !.next = "SEND_RESPONSE", !.status = status, !.body = body])
          /\ \/ body = << >> /\ status # "Success"
             \/ body = serialize(to_messages(Recent(job.cursor)))
    <3>1. CASE attempts[Len(attempts)].ok
      BY <2>4, <2>5, <2>6, <3>1, Zenon
    <3>2. CASE ~attempts[Len(attempts)].ok
      BY <2>4, <2>5, <2>6, <3>2, Zenon
    <3> QED
      BY <3>1, <3>2
  <2> QED
    BY <1>1, <1>2, <1>3, <2>1, <2>5, <2>7, Zenon
<1>7. job.type = "SaveMessage" \/ job.type = "LoadHistory"
  BY <1>4, Zenon
<1> QED
  BY <1>5, <1>6, <1>7

\* The answer's event.
LEMMA Answered ==
  ASSUME NEW e \in Events, NEW s \in Statuses, NEW b \in Bodies, NEW f,
         f = [e EXCEPT !.next = "SEND_RESPONSE", !.status = s, !.body = b]
  PROVE  /\ f \in Events /\ f.next = "SEND_RESPONSE" /\ f.status = s /\ f.body = b
         /\ f.command = e.command /\ f.arg = e.arg
BY DEF Events, Steps

\* Packets, jobs and events that are made.
LEMMA Made ==
  /\ \A e \in Events, s \in Statuses :
       /\ Response(e, s) \in Answers /\ Response(e, s).type = "PKT_RESPONSE"
       /\ Response(e, s).command = e.command /\ Response(e, s).status = s
       /\ Response(e, s).body = e.body
  /\ \A m \in Int : Broadcast(m) \in News /\ Broadcast(m).msg = m /\ Broadcast(m).type = "PKT_BROADCAST"
  /\ \A r \in {Room, Elsewhere}, m \in Int :
       /\ SaveJob(r, m) \in Saves /\ SaveJob(r, m).type = "SaveMessage"
       /\ SaveJob(r, m).room = r /\ SaveJob(r, m).msg = m
  /\ \A e \in Requests : /\ LoadJob(e) \in Loads /\ LoadJob(e).type = "LoadHistory"
                       /\ LoadJob(e).event = e /\ LoadJob(e).cursor = cursor_of(e.arg)
  /\ \A c \in Commands, x \in Steps, a \in Int : /\ Event(c, x, a) \in Events /\ Event(c, x, a).command = c
                                     /\ Event(c, x, a).next = x /\ Event(c, x, a).arg = a
<1>1. MaxMessages \in Nat /\ MaxElsewhere \in Nat
  BY LimitsAssumption
<1>2. \A a \in Int : cursor_of(a) \in Nat
  BY <1>1 DEF cursor_of, NewestCursor, MaxId
<1>3. << >> \in Bodies
  BY DEF Bodies
<1>4. \A e \in Events : e.arg \in Int /\ e.command \in Commands /\ e.body \in Bodies
  BY DEF Events
<1>5. \A e \in Requests : LoadJob(e) \in Loads
  BY <1>2, <1>4 DEF LoadJob, Loads, Requests
<1>6. \A e \in Events, s \in Statuses : Response(e, s) \in Answers
  BY <1>4 DEF Response, Answers
<1>7. \A c \in Commands, x \in Steps, a \in Int : Event(c, x, a) \in Events
  BY <1>3 DEF Event, Events, Statuses
<1> QED
  BY <1>5, <1>6, <1>7 DEF Response, Broadcast, News, SaveJob, Saves, LoadJob, Event

\* The first of a queue, and what is left.
LEMMA HeadTail ==
  ASSUME NEW S, NEW q \in Seq(S), q # << >>
  PROVE  Head(q) \in S /\ Head(q) = q[1] /\ 1 \in DOMAIN q /\ Tail(q) \in Seq(S)
OBVIOUS

\* Names of commands, steps and statuses.
LEMMA Names ==
  /\ \A c \in {"CMD_SEND_MESSAGE", "CMD_JOIN_ROOM", "CMD_LOAD_MESSAGE", "CMD_LEAVE_ROOM"} : c \in Commands
  /\ \A s \in {"SEND_MESSAGE", "SAVE_MESSAGE", "JOIN_ROOM", "LEAVE_ROOM", "REQUEST_DB_LOAD_MESSAGE",
               "SEND_RESPONSE"} : s \in Steps
  /\ \A t \in {"None", "Success", "DBError", "UserNotFound"} : t \in Statuses
BY DEF Commands, Steps, Statuses

LEMMA StepTyped ==
  ASSUME Typed, [Next]_vars
  PROVE  Typed'
<1>0. /\ room_events \in Seq(Events) /\ lobby_events \in Seq(Events)
      /\ jobs \in Seq(Saves \cup Loads) /\ socket \in Seq(Answers \cup News)
      /\ rows \in Seq(TableRows) /\ \A i \in DOMAIN rows : rows[i].id = i
      /\ pages \in Seq(Seq(Messages)) /\ live \in Seq(Int)
      /\ oldest_message_id \in Int /\ sent \in Nat /\ written \in Nat
  BY DEF Typed
<1>e. \A e \in Events : e.arg \in Int /\ e.status \in Statuses /\ e.body \in Bodies
  BY DEF Events
<1>1. CASE SendMessage
  <2>1. room_events' \in Seq(Events)
    BY <1>1, HeadGoesOn, Names DEF SendMessage, AtRoom
  <2>2. Head(room_events) \in Events
    BY <1>0, <1>1, HeadTail DEF SendMessage, AtRoom
  <2>3. Broadcast(Head(room_events).arg) \in Answers \cup News
    BY <1>e, <2>2, Made
  <2>4. socket' \in Seq(Answers \cup News)
    <3>1. Append(socket, Broadcast(Head(room_events).arg)) \in Seq(Answers \cup News)
      BY <1>0, <2>3
    <3>2. socket' = Append(socket, Broadcast(Head(room_events).arg)) \/ socket' = socket
      BY <1>1 DEF SendMessage
    <3> QED
      BY <1>0, <3>1, <3>2
  <2> QED
    BY <1>0, <1>1, <2>1, <2>4 DEF SendMessage, Typed, dbVars, screenVars, countVars
<1>2. CASE SaveMessage
  <2>1. Head(room_events) \in Events /\ room_events' \in Seq(Events)
    BY <1>0, <1>2, HeadTail DEF SaveMessage, AtRoom
  <2>2. SaveJob(Room, Head(room_events).arg) \in Saves \cup Loads
    BY <1>e, <2>1, Made
  <2>3. jobs' \in Seq(Saves \cup Loads)
    BY <1>0, <1>2, <2>2 DEF SaveMessage
  <2> QED
    BY <1>0, <1>2, <2>1, <2>3 DEF SaveMessage, Typed, screenVars, countVars
<1>3. CASE JoinRoom
  <2>1. Head(room_events) \in Events /\ room_events' \in Seq(Events)
    BY <1>0, <1>3, HeadTail DEF JoinRoom, AtRoom
  <2>2. [Head(room_events) EXCEPT !.next = "LEAVE_ROOM"] \in Events
    BY <2>1, GoesOn, Names
  <2>3. lobby_events' \in Seq(Events)
    BY <1>0, <1>3, <2>2 DEF JoinRoom
  <2> QED
    BY <1>0, <1>3, <2>1, <2>3 DEF JoinRoom, Typed, dbVars, screenVars, countVars
<1>4. CASE LoadMessage
  <2>1. Head(room_events) \in Events /\ room_events' \in Seq(Events)
    BY <1>0, <1>4, HeadTail DEF LoadMessage, AtRoom
  <2>r. Head(room_events) \in Requests
    BY <1>4, <2>1 DEF LoadMessage, AtRoom, Requests, IsTalk
  <2>2. LoadJob(Head(room_events)) \in Saves \cup Loads
    BY <2>r, Made
  <2>3. jobs' \in Seq(Saves \cup Loads)
    BY <1>0, <1>4, <2>2 DEF LoadMessage
  <2> QED
    BY <1>0, <1>4, <2>1, <2>3 DEF LoadMessage, Typed, screenVars, countVars
<1>5. CASE LeaveRoom
  <2>1. Head(room_events) \in Events /\ room_events' \in Seq(Events)
    BY <1>0, <1>5, HeadTail DEF LeaveRoom, AtRoom
  <2>2. Response(Head(room_events), IF in_room THEN "Success" ELSE "UserNotFound") \in Answers \cup News
    BY <2>1, Made, Names
  <2>3. socket' \in Seq(Answers \cup News)
    BY <1>0, <1>5, <2>2 DEF LeaveRoom
  <2> QED
    BY <1>0, <1>5, <2>1, <2>3 DEF LeaveRoom, Typed, dbVars, screenVars, countVars
<1>6. CASE SendResponse
  <2>1. Head(room_events) \in Events /\ room_events' \in Seq(Events)
    BY <1>0, <1>6, HeadTail DEF SendResponse
  <2>2. Response(Head(room_events), Head(room_events).status) \in Answers \cup News
    BY <1>e, <2>1, Made
  <2>3. socket' \in Seq(Answers \cup News)
    BY <1>0, <1>6, <2>2 DEF SendResponse
  <2> QED
    BY <1>0, <1>6, <2>1, <2>3 DEF SendResponse, Typed, dbVars, screenVars, countVars
<1>7. CASE LobbyLeave
  <2>1. Head(lobby_events) \in Events /\ lobby_events' \in Seq(Events)
    BY <1>0, <1>7, HeadTail DEF LobbyLeave
  <2>r. Head(lobby_events) \in Requests
    BY <1>7, <2>1 DEF LobbyLeave, Requests, IsTalk
  <2>2. /\ LoadJob(Head(lobby_events)) \in Saves \cup Loads
        /\ Response(Head(lobby_events), "UserNotFound") \in Answers \cup News
    BY <2>1, <2>r, Made, Names
  <2>3. jobs' \in Seq(Saves \cup Loads) /\ socket' \in Seq(Answers \cup News)
    <3>1. /\ Append(jobs, LoadJob(Head(lobby_events))) \in Seq(Saves \cup Loads)
          /\ Append(socket, Response(Head(lobby_events), "UserNotFound")) \in Seq(Answers \cup News)
      BY <1>0, <2>2
    <3>2. \/ jobs' = Append(jobs, LoadJob(Head(lobby_events))) /\ socket' = socket
          \/ socket' = Append(socket, Response(Head(lobby_events), "UserNotFound")) /\ jobs' = jobs
      BY <1>7, Zenon DEF LobbyLeave
    <3> QED
      BY <1>0, <3>1, <3>2
  <2> QED
    BY <1>0, <1>7, <2>1, <2>3 DEF LobbyLeave, Typed, screenVars, countVars
<1>8. CASE LobbyJoin
  <2>1. Head(lobby_events) \in Events /\ lobby_events' \in Seq(Events)
    BY <1>0, <1>8, HeadTail DEF LobbyJoin
  <2>2. [Head(lobby_events) EXCEPT !.next = "LEAVE_ROOM"] \in Events
    BY <2>1, GoesOn, Names
  <2>3. room_events' \in Seq(Events)
    BY <1>0, <1>8, <2>2 DEF LobbyJoin
  <2> QED
    BY <1>0, <1>8, <2>1, <2>3 DEF LobbyJoin, Typed, dbVars, screenVars, countVars
<1>9. CASE ProcessJob
  <2>1. jobs' \in Seq(Saves \cup Loads)
    BY <1>0, <1>9, HeadTail DEF ProcessJob
  <2>u. UNCHANGED <<lobby_events, socket, pages, live, oldest_message_id, sent, written>>
    BY <1>9 DEF ProcessJob, screenVars, countVars
  <2>2. CASE Head(jobs) \in Saves /\ UNCHANGED room_events /\
             \E n \in 0..2 : rows' = Added(n, Head(jobs).room, Head(jobs).msg)
    <3>1. PICK n \in 0..2 : rows' = Added(n, Head(jobs).room, Head(jobs).msg)
      BY <2>2
    <3>2. Head(jobs).room \in {Room, Elsewhere} /\ Head(jobs).msg \in Int
      BY <2>2 DEF Saves
    <3>3. PICK r \in {Room, Elsewhere}, m \in Int : rows' = Added(n, r, m)
      BY <3>1, <3>2
    <3>t. PICK t : t = rows'
      OBVIOUS
    <3>4. t \in Seq(TableRows) /\ \A i \in DOMAIN t : t[i].id = i
      <4>1. Extends(t, n, r, m)
        BY <3>3, <3>t, RowsAdded, Zenon
      <4> QED
        BY <4>1, Zenon DEF Extends
    <3> QED
      BY <1>0, <2>1, <2>2, <2>u, <3>t, <3>4 DEF Typed
  <2>3. CASE /\ Head(jobs) \in Loads
             /\ \E status \in Statuses, body \in Bodies :
                  room_events' = Append(room_events,
                    [Head(jobs).event EXCEPT !.next = "SEND_RESPONSE", !.status = status, !.body = body])
             /\ UNCHANGED rows
    <3>1. PICK status \in Statuses, body \in Bodies :
            room_events' = Append(room_events,
              [Head(jobs).event EXCEPT !.next = "SEND_RESPONSE", !.status = status, !.body = body])
      BY <2>3
    <3>2. Head(jobs).event \in Events
      BY <2>3 DEF Loads, Requests
    <3>3. PICK f \in Events :
            f = [Head(jobs).event EXCEPT !.next = "SEND_RESPONSE", !.status = status, !.body = body]
      BY <3>2, Answered, Zenon
    <3>4. room_events' \in Seq(Events)
      BY <1>0, <3>1, <3>3
    <3> QED
      BY <1>0, <2>1, <2>3, <2>u, <3>4 DEF Typed
  <2> QED
    BY <1>9, <2>2, <2>3, JobDone, Zenon
<1>10. CASE OtherSends
  <2>1. Event("CMD_SEND_MESSAGE", "SEND_MESSAGE", sent + 1) \in Events
    BY <1>0, Made, Names
  <2>2. room_events' \in Seq(Events)
    BY <1>0, <1>10, <2>1 DEF OtherSends
  <2> QED
    BY <1>0, <1>10, <2>2 DEF OtherSends, Typed, dbVars, screenVars
<1>11. CASE OtherRoomSaves
  <2>1. SaveJob(Elsewhere, written + 1) \in Saves \cup Loads
    BY <1>0, Made
  <2>2. jobs' \in Seq(Saves \cup Loads)
    BY <1>0, <1>11, <2>1 DEF OtherRoomSaves
  <2> QED
    BY <1>0, <1>11, <2>2 DEF OtherRoomSaves, Typed, workerVars, screenVars
<1>12. CASE Join
  <2>1. Event("CMD_JOIN_ROOM", "JOIN_ROOM", 0) \in Events
    BY Made, Names
  <2>2. room_events' \in Seq(Events)
    BY <1>0, <1>12, <2>1 DEF Join
  <2> QED
    BY <1>0, <1>12, <2>2 DEF Join, send_request, Typed, dbVars, screenVars
<1>13. CASE Load
  <2>1. Event("CMD_LOAD_MESSAGE", "REQUEST_DB_LOAD_MESSAGE", oldest_message_id) \in Events
    BY <1>0, Made, Names
  <2>2. room_events' \in Seq(Events)
    BY <1>0, <1>13, <2>1 DEF Load
  <2> QED
    BY <1>0, <1>13, <2>2 DEF Load, send_request, Typed, dbVars, screenVars
<1>14. CASE Leave
  <2>1. Event("CMD_LEAVE_ROOM", "JOIN_ROOM", 0) \in Events
    BY Made, Names
  <2>2. lobby_events' \in Seq(Events)
    BY <1>0, <1>14, <2>1 DEF Leave
  <2> QED
    BY <1>0, <1>14, <2>2 DEF Leave, send_request, Typed, dbVars, screenVars
<1>15. CASE HandleResponse
  <2>1. /\ socket # << >> /\ socket' = Tail(socket) /\ Head(socket).type = "PKT_RESPONSE"
        /\ UNCHANGED <<room_events, lobby_events, jobs, rows, sent, written>>
    BY <1>15 DEF HandleResponse, workerVars, dbVars, countVars
  <2>2. Head(socket) \in Answers \cup News /\ socket' \in Seq(Answers \cup News)
    BY <1>0, <2>1, HeadTail
  <2>3. Head(socket).body \in Bodies
    BY <2>1, <2>2 DEF Answers, News
  <2>4. PICK page \in Seq(Messages) : page = Shown(Head(socket).body)
    BY <2>3, ShownMessages
  <2>5. \A c \in Int : OldestOf(c, page) \in Int
    <3>1. page # << >> => Len(page) \in 1..Len(page)
      OBVIOUS
    <3>2. page # << >> => page[Len(page)] \in Messages
      BY <3>1
    <3> QED
      BY <3>2 DEF OldestOf, Messages
  <2>6. /\ pages' \in {pages, <<page>>, Append(pages, page), << >>}
        /\ live' \in {live, << >>}
        /\ oldest_message_id' \in {oldest_message_id, OldestOf(0, page), OldestOf(oldest_message_id, page), 0}
    BY <1>15, <2>4 DEF HandleResponse, screenVars
  <2>7. pages' \in Seq(Seq(Messages)) /\ live' \in Seq(Int)
    <3>1. <<page>> \in Seq(Seq(Messages)) /\ << >> \in Seq(Seq(Messages)) /\ << >> \in Seq(Int)
      OBVIOUS
    <3>2. Append(pages, page) \in Seq(Seq(Messages))
      BY <1>0
    <3> QED
      BY <1>0, <2>6, <3>1, <3>2
  <2>8. oldest_message_id' \in Int
    BY <1>0, <2>5, <2>6
  <2> QED
    BY <1>0, <2>1, <2>2, <2>7, <2>8 DEF Typed
<1>16. CASE HandleBroadcast
  <2>1. /\ socket # << >> /\ socket' = Tail(socket) /\ Head(socket).type = "PKT_BROADCAST"
        /\ UNCHANGED <<room_events, lobby_events, jobs, rows, sent, written, pages, oldest_message_id>>
    BY <1>16 DEF HandleBroadcast, workerVars, dbVars, countVars
  <2>2. Head(socket) \in Answers \cup News /\ socket' \in Seq(Answers \cup News)
    BY <1>0, <2>1, HeadTail
  <2>3. Head(socket).msg \in Int
    BY <2>1, <2>2 DEF Answers, News
  <2>4. live' \in Seq(Int)
    BY <1>0, <1>16, <2>3 DEF HandleBroadcast
  <2> QED
    BY <1>0, <2>1, <2>2, <2>4 DEF Typed
<1>17. CASE UNCHANGED vars
  BY <1>0, <1>17 DEF vars, Typed
<1> QED
  BY <1>1, <1>2, <1>3, <1>4, <1>5, <1>6, <1>7, <1>8, <1>9, <1>10, <1>11, <1>12, <1>13, <1>14,
     <1>15, <1>16, <1>17 DEF Next

-----------------------------------------------------------------------------
(***************************************************************************)
(* The order of the messages.                                              *)
(***************************************************************************)
\* The messages in the room's queue, and those among the jobs, are old ones, moved up by d.
TalkFrom(d) ==
  \A i \in DOMAIN room_events' :
    IsTalk(room_events'[i]) =>
      /\ i + d \in DOMAIN room_events /\ IsTalk(room_events[i + d])
      /\ room_events'[i].arg = room_events[i + d].arg

SavesFrom(d) ==
  \A i \in DOMAIN jobs' :
    IsSave(jobs'[i]) => i + d \in DOMAIN jobs /\ IsSave(jobs[i + d]) /\ jobs'[i].msg = jobs[i + d].msg

\* Indices and messages are numbers.
LEMMA Numbers ==
  ASSUME Typed
  PROVE  /\ DOMAIN room_events \subseteq Nat /\ DOMAIN jobs \subseteq Nat /\ DOMAIN rows \subseteq Nat
         /\ \A i \in DOMAIN room_events : room_events[i] \in Events /\ room_events[i].arg \in Int
         /\ \A i \in DOMAIN jobs : jobs[i] \in Saves \cup Loads /\ (IsSave(jobs[i]) => jobs[i].msg \in Int)
         /\ \A i \in DOMAIN rows : rows[i] \in TableRows /\ rows[i].msg \in Int
<1>1. room_events \in Seq(Events) /\ jobs \in Seq(Saves \cup Loads) /\ rows \in Seq(TableRows)
  BY DEF Typed
<1>2. DOMAIN room_events \subseteq Nat /\ \A i \in DOMAIN room_events : room_events[i] \in Events
  BY <1>1
<1>3. DOMAIN jobs \subseteq Nat /\ \A i \in DOMAIN jobs : jobs[i] \in Saves \cup Loads
  BY <1>1
<1>4. DOMAIN rows \subseteq Nat /\ \A i \in DOMAIN rows : rows[i] \in TableRows
  BY <1>1
<1>5. \A e \in Events : e.arg \in Int
  BY DEF Events
<1>6. \A r \in TableRows : r.msg \in Int
  BY DEF TableRows
<1>7. \A j \in Saves \cup Loads : IsSave(j) => j.msg \in Int
  BY DEF Saves, Loads, IsSave
<1> QED
  BY <1>2, <1>3, <1>4, <1>5, <1>6, <1>7

Ordered == InOrder /\ NoneAhead /\ StoredInOrder /\ TalkSteps

\* Messages that only move up stay in order.
LEMMA OrderKept ==
  ASSUME Typed, Typed', Ordered, NEW d \in 0..1, NEW c \in 0..1, TalkFrom(d), SavesFrom(c),
         rows' = rows, sent' = sent
  PROVE  InOrder' /\ NoneAhead' /\ StoredInOrder'
<1>1. StoredInOrder'
  BY DEF Ordered, StoredInOrder
<1>2. NoneAhead'
  BY DEF Ordered, NoneAhead, TalkFrom, SavesFrom
<1>3. /\ DOMAIN room_events' \subseteq Nat /\ DOMAIN jobs' \subseteq Nat
  <2>1. room_events' \in Seq(Events) /\ jobs' \in Seq(Saves \cup Loads)
    BY DEF Typed
  <2> QED
    BY <2>1
<1>4. \A i, j \in DOMAIN room_events' :
        i < j /\ IsTalk(room_events'[i]) /\ IsTalk(room_events'[j]) =>
          room_events'[i].arg < room_events'[j].arg
  <2> SUFFICES ASSUME NEW i \in DOMAIN room_events', NEW j \in DOMAIN room_events', i < j,
                      IsTalk(room_events'[i]), IsTalk(room_events'[j])
               PROVE  room_events'[i].arg < room_events'[j].arg
    OBVIOUS
  <2>1. PICK a \in DOMAIN room_events, b \in DOMAIN room_events :
          /\ a = i + d /\ b = j + d /\ IsTalk(room_events[a]) /\ IsTalk(room_events[b])
          /\ room_events'[i].arg = room_events[a].arg /\ room_events'[j].arg = room_events[b].arg
    BY DEF TalkFrom
  <2>2. a < b
    BY <1>3, <2>1
  <2> QED
    BY <2>1, <2>2 DEF Ordered, InOrder
<1>5. \A i, j \in DOMAIN jobs' : i < j /\ IsSave(jobs'[i]) /\ IsSave(jobs'[j]) => jobs'[i].msg < jobs'[j].msg
  <2> SUFFICES ASSUME NEW i \in DOMAIN jobs', NEW j \in DOMAIN jobs', i < j,
                      IsSave(jobs'[i]), IsSave(jobs'[j])
               PROVE  jobs'[i].msg < jobs'[j].msg
    OBVIOUS
  <2>1. PICK a \in DOMAIN jobs, b \in DOMAIN jobs :
          /\ a = i + c /\ b = j + c /\ IsSave(jobs[a]) /\ IsSave(jobs[b])
          /\ jobs'[i].msg = jobs[a].msg /\ jobs'[j].msg = jobs[b].msg
    BY DEF SavesFrom
  <2>2. a < b
    BY <1>3, <2>1
  <2> QED
    BY <2>1, <2>2 DEF Ordered, InOrder
<1>6. \A i \in DOMAIN jobs', j \in DOMAIN room_events' :
        IsSave(jobs'[i]) /\ IsTalk(room_events'[j]) => jobs'[i].msg < room_events'[j].arg
  BY DEF Ordered, InOrder, TalkFrom, SavesFrom
<1>7. \A i \in DOMAIN rows', j \in DOMAIN jobs' :
        rows'[i].room = Room /\ IsSave(jobs'[j]) => rows'[i].msg < jobs'[j].msg
  BY DEF Ordered, InOrder, SavesFrom
<1>8. \A i \in DOMAIN rows', j \in DOMAIN room_events' :
        rows'[i].room = Room /\ IsTalk(room_events'[j]) => rows'[i].msg < room_events'[j].arg
  BY DEF Ordered, InOrder, TalkFrom
<1> QED
  BY <1>1, <1>2, <1>4, <1>5, <1>6, <1>7, <1>8 DEF InOrder

\* What the changes of the queues do to the messages in them.
LEMMA TalkMoves ==
  ASSUME Typed
  PROVE  /\ UNCHANGED room_events => TalkFrom(0)
         /\ room_events # << >> /\ room_events' = Tail(room_events) => TalkFrom(1)
         /\ \A e : room_events' = Append(room_events, e) /\ ~IsTalk(e) => TalkFrom(0)
         /\ UNCHANGED jobs => SavesFrom(0)
         /\ jobs # << >> /\ jobs' = Tail(jobs) => SavesFrom(1)
         /\ \A e : jobs' = Append(jobs, e) /\ ~IsSave(e) => SavesFrom(0)
<1>1. IsSeq(room_events) /\ IsSeq(jobs)
  BY DEF Typed, IsSeq
<1>2. \A i \in DOMAIN room_events : i + 0 = i
  BY Numbers
<1>3. \A i \in DOMAIN jobs : i + 0 = i
  BY Numbers
<1>4. ASSUME UNCHANGED room_events PROVE TalkFrom(0)
  BY <1>2, <1>4 DEF TalkFrom
<1>5. ASSUME UNCHANGED jobs PROVE SavesFrom(0)
  BY <1>3, <1>5 DEF SavesFrom
<1>6. ASSUME room_events # << >>, room_events' = Tail(room_events) PROVE TalkFrom(1)
  <2>1. \A i \in DOMAIN Tail(room_events) :
          i + 1 \in DOMAIN room_events /\ Tail(room_events)[i] = room_events[i + 1]
    BY <1>1, <1>6, TailIs
  <2> QED
    BY <1>6, <2>1 DEF TalkFrom
<1>7. ASSUME jobs # << >>, jobs' = Tail(jobs) PROVE SavesFrom(1)
  <2>1. \A i \in DOMAIN Tail(jobs) : i + 1 \in DOMAIN jobs /\ Tail(jobs)[i] = jobs[i + 1]
    BY <1>1, <1>7, TailIs
  <2> QED
    BY <1>7, <2>1 DEF SavesFrom
<1>8. ASSUME NEW e, room_events' = Append(room_events, e), ~IsTalk(e) PROVE TalkFrom(0)
  <2>1. \A i \in DOMAIN room_events' : i \in DOMAIN room_events \/ room_events'[i] = e
    BY <1>1, <1>8, AppendIs
  <2>2. \A i \in DOMAIN room_events : room_events'[i] = room_events[i]
    BY <1>1, <1>8, AppendIs
  <2> QED
    BY <1>2, <1>8, <2>1, <2>2 DEF TalkFrom
<1>9. ASSUME NEW e, jobs' = Append(jobs, e), ~IsSave(e) PROVE SavesFrom(0)
  <2>1. \A i \in DOMAIN jobs' : i \in DOMAIN jobs \/ jobs'[i] = e
    BY <1>1, <1>9, AppendIs
  <2>2. \A i \in DOMAIN jobs : jobs'[i] = jobs[i]
    BY <1>1, <1>9, AppendIs
  <2> QED
    BY <1>3, <1>9, <2>1, <2>2 DEF SavesFrom
<1> QED
  BY <1>4, <1>5, <1>6, <1>7, <1>8, <1>9

\* A message passes from the room's queue to the jobs.
LEMMA OrderSaved ==
  ASSUME Typed, Typed', Ordered, SaveMessage
  PROVE  InOrder' /\ NoneAhead' /\ StoredInOrder'
<1>1. /\ room_events # << >> /\ room_events' = Tail(room_events)
      /\ IsTalk(Head(room_events))
      /\ jobs' = Append(jobs, SaveJob(Room, Head(room_events).arg))
      /\ rows' = rows /\ sent' = sent
  BY DEF SaveMessage, AtRoom, IsTalk, countVars
<1>2. IsSeq(room_events) /\ IsSeq(jobs) /\ room_events \in Seq(Events)
  BY DEF Typed, IsSeq
<1>3. Head(room_events) = room_events[1] /\ 1 \in DOMAIN room_events
  BY <1>1, <1>2, HeadTail
<1>4. PICK m \in Int : m = room_events[1].arg
  BY <1>3, Numbers
<1>5. PICK s : s = SaveJob(Room, m) /\ IsSave(s) /\ s.msg = m
  BY Made DEF IsSave
<1>6. /\ \A i \in DOMAIN jobs : jobs'[i] = jobs[i]
      /\ \A i \in DOMAIN jobs' : i \in DOMAIN jobs \/ (jobs'[i] = s /\ i = Len(jobs) + 1)
      /\ DOMAIN jobs = 1..Len(jobs) /\ Len(jobs) \in Nat
  BY <1>1, <1>2, <1>3, <1>4, <1>5, AppendIs
<1>7. /\ \A i \in DOMAIN room_events' :
           i + 1 \in DOMAIN room_events /\ room_events'[i] = room_events[i + 1] /\ i \in Nat /\ 1 < i + 1
  BY <1>1, <1>2, TailIs
<1>8. \A i \in DOMAIN room_events' : IsTalk(room_events'[i]) => m < room_events'[i].arg
  BY <1>1, <1>3, <1>4, <1>7 DEF Ordered, InOrder
<1>9. \A i \in DOMAIN jobs : IsSave(jobs[i]) => jobs[i].msg < m
  BY <1>1, <1>3, <1>4 DEF Ordered, InOrder
<1>10. \A i \in DOMAIN rows : rows[i].room = Room => rows[i].msg < m
  BY <1>1, <1>3, <1>4 DEF Ordered, InOrder
<1>11. m <= sent
  BY <1>1, <1>3, <1>4 DEF Ordered, NoneAhead
<1>12. \A i, j \in DOMAIN room_events' :
         i < j /\ IsTalk(room_events'[i]) /\ IsTalk(room_events'[j]) =>
           room_events'[i].arg < room_events'[j].arg
  BY <1>7 DEF Ordered, InOrder
<1>13. \A i, j \in DOMAIN jobs' : i < j /\ IsSave(jobs'[i]) /\ IsSave(jobs'[j]) => jobs'[i].msg < jobs'[j].msg
  <2> SUFFICES ASSUME NEW i \in DOMAIN jobs', NEW j \in DOMAIN jobs', i < j,
                      IsSave(jobs'[i]), IsSave(jobs'[j])
               PROVE  jobs'[i].msg < jobs'[j].msg
    OBVIOUS
  <2>1. i \in DOMAIN jobs
    BY <1>6
  <2>2. CASE j \in DOMAIN jobs
    BY <1>6, <2>1, <2>2 DEF Ordered, InOrder
  <2>3. CASE jobs'[j] = s
    BY <1>5, <1>6, <1>9, <2>1, <2>3
  <2> QED
    BY <1>6, <2>2, <2>3
<1>14. \A i \in DOMAIN jobs', j \in DOMAIN room_events' :
         IsSave(jobs'[i]) /\ IsTalk(room_events'[j]) => jobs'[i].msg < room_events'[j].arg
  <2> SUFFICES ASSUME NEW i \in DOMAIN jobs', NEW j \in DOMAIN room_events',
                      IsSave(jobs'[i]), IsTalk(room_events'[j])
               PROVE  jobs'[i].msg < room_events'[j].arg
    OBVIOUS
  <2>1. CASE i \in DOMAIN jobs
    BY <1>6, <1>7, <2>1 DEF Ordered, InOrder
  <2>2. CASE jobs'[i] = s
    BY <1>5, <1>8, <2>2
  <2> QED
    BY <1>6, <2>1, <2>2
<1>15. \A i \in DOMAIN rows', j \in DOMAIN jobs' :
         rows'[i].room = Room /\ IsSave(jobs'[j]) => rows'[i].msg < jobs'[j].msg
  BY <1>1, <1>5, <1>6, <1>10 DEF Ordered, InOrder
<1>16. \A i \in DOMAIN rows', j \in DOMAIN room_events' :
         rows'[i].room = Room /\ IsTalk(room_events'[j]) => rows'[i].msg < room_events'[j].arg
  BY <1>1, <1>7 DEF Ordered, InOrder
<1>17. StoredInOrder'
  BY <1>1 DEF Ordered, StoredInOrder
<1>18. NoneAhead'
  BY <1>1, <1>5, <1>6, <1>7, <1>11 DEF Ordered, NoneAhead
<1> QED
  BY <1>12, <1>13, <1>14, <1>15, <1>16, <1>17, <1>18 DEF InOrder

\* A message passes from the jobs to the table, once, twice or not at all.
LEMMA OrderStored ==
  ASSUME Typed, Typed', Ordered, NEW n \in 0..2, NEW r \in {Room, Elsewhere}, NEW m \in Int,
         jobs # << >>, Head(jobs) \in Saves, r = Head(jobs).room, m = Head(jobs).msg,
         jobs' = Tail(jobs), rows' = Added(n, r, m), UNCHANGED <<room_events, sent>>
  PROVE  InOrder' /\ NoneAhead' /\ StoredInOrder'
<1>1. IsSeq(jobs) /\ jobs \in Seq(Saves \cup Loads)
  BY DEF Typed, IsSeq
<1>2. Head(jobs) = jobs[1] /\ 1 \in DOMAIN jobs
  BY <1>1, HeadTail
<1>3. \A i \in DOMAIN jobs' :
        i + 1 \in DOMAIN jobs /\ jobs'[i] = jobs[i + 1] /\ i \in Nat /\ 1 < i + 1
  BY <1>1, TailIs
<1>4. r = Room => IsSave(jobs[1])
  BY <1>2 DEF Saves, IsSave
<1>5. PICK t : t = rows'
  OBVIOUS
<1>6. PICK L \in Nat : L = Len(rows)
  BY DEF Typed
<1>7. /\ DOMAIN t = 1..(L + n) /\ DOMAIN rows = 1..L
      /\ \A i \in 1..L : t[i] = rows[i]
      /\ \A i \in 1..(L + n) : i > L => t[i].room = r /\ t[i].msg = m
  <2>1. t = Added(n, r, m)
    BY <1>5
  <2>2. /\ DOMAIN t = 1..(Len(rows) + n) /\ DOMAIN rows = 1..Len(rows)
        /\ \A i \in DOMAIN rows : t[i] = rows[i]
        /\ \A i \in DOMAIN t : i > Len(rows) => t[i].room = r /\ t[i].msg = m
    <3>1. Extends(t, n, r, m)
      BY <2>1, RowsAdded, Zenon
    <3> QED
      BY <3>1, Zenon DEF Extends
  <2> QED
    BY <1>6, <2>2
<1>8. \A i \in 1..(L + n) : i \in 1..L \/ i > L
  OBVIOUS
<1>9. r = Room => /\ \A i \in DOMAIN rows : rows[i].room = Room => rows[i].msg < m
                  /\ \A i \in DOMAIN jobs' : IsSave(jobs'[i]) => m < jobs'[i].msg
                  /\ \A i \in DOMAIN room_events : IsTalk(room_events[i]) => m < room_events[i].arg
                  /\ m <= sent
  BY <1>2, <1>3, <1>4 DEF Ordered, InOrder, NoneAhead
<1>10. \A i, j \in DOMAIN jobs' : i < j /\ IsSave(jobs'[i]) /\ IsSave(jobs'[j]) => jobs'[i].msg < jobs'[j].msg
  BY <1>3 DEF Ordered, InOrder
<1>11. \A i \in DOMAIN jobs', j \in DOMAIN room_events :
         IsSave(jobs'[i]) /\ IsTalk(room_events[j]) => jobs'[i].msg < room_events[j].arg
  BY <1>3 DEF Ordered, InOrder
<1>12. \A i \in DOMAIN t, j \in DOMAIN jobs' :
         t[i].room = Room /\ IsSave(jobs'[j]) => t[i].msg < jobs'[j].msg
  <2> SUFFICES ASSUME NEW i \in DOMAIN t, NEW j \in DOMAIN jobs', t[i].room = Room, IsSave(jobs'[j])
               PROVE  t[i].msg < jobs'[j].msg
    OBVIOUS
  <2>1. CASE i \in 1..L
    BY <1>3, <1>7, <2>1 DEF Ordered, InOrder
  <2>2. CASE i > L
    BY <1>7, <1>9, <2>2
  <2> QED
    BY <1>7, <1>8, <2>1, <2>2
<1>13. \A i \in DOMAIN t, j \in DOMAIN room_events :
         t[i].room = Room /\ IsTalk(room_events[j]) => t[i].msg < room_events[j].arg
  <2> SUFFICES ASSUME NEW i \in DOMAIN t, NEW j \in DOMAIN room_events, t[i].room = Room,
                      IsTalk(room_events[j])
               PROVE  t[i].msg < room_events[j].arg
    OBVIOUS
  <2>1. CASE i \in 1..L
    BY <1>7, <2>1 DEF Ordered, InOrder
  <2>2. CASE i > L
    BY <1>7, <1>9, <2>2
  <2> QED
    BY <1>7, <1>8, <2>1, <2>2
<1>14. \A i, j \in DOMAIN t :
         i < j /\ t[i].room = Room /\ t[j].room = Room =>
           /\ t[i].msg <= t[j].msg
           /\ t[i].msg = t[j].msg => \A k \in (i + 1)..(j - 1) : t[k].room # Room
  <2> SUFFICES ASSUME NEW i \in DOMAIN t, NEW j \in DOMAIN t, i < j, t[i].room = Room, t[j].room = Room
               PROVE  /\ t[i].msg <= t[j].msg
                      /\ t[i].msg = t[j].msg => \A k \in (i + 1)..(j - 1) : t[k].room # Room
    OBVIOUS
  <2>0. i \in 1..(L + n) /\ j \in 1..(L + n)
    BY <1>7
  <2>1. CASE j \in 1..L
    <3>1. i \in 1..L /\ \A k \in (i + 1)..(j - 1) : k \in 1..L
      BY <2>0, <2>1
    <3>2. t[i] = rows[i] /\ t[j] = rows[j] /\ \A k \in (i + 1)..(j - 1) : t[k] = rows[k]
      BY <1>7, <2>1, <3>1
    <3> QED
      BY <1>7, <2>1, <3>1, <3>2 DEF Ordered, StoredInOrder
  <2>2. CASE j > L /\ i \in 1..L
    <3>1. r = Room /\ t[j].msg = m /\ t[i] = rows[i]
      BY <1>7, <2>0, <2>2
    <3>2. rows[i].msg < m /\ rows[i].msg \in Int
      BY <1>7, <1>9, <2>2, <3>1, Numbers
    <3> QED
      BY <3>1, <3>2
  <2>3. CASE i > L
    <3>1. t[i].msg = m /\ t[j].msg = m
      BY <1>7, <2>0, <2>3
    <3>2. (i + 1)..(j - 1) = {}
      BY <2>0, <2>3
    <3> QED
      BY <3>1, <3>2
  <2> QED
    BY <1>8, <2>0, <2>1, <2>2, <2>3
<1>15. StoredInOrder'
  BY <1>5, <1>14 DEF StoredInOrder
<1>16. \A i \in DOMAIN t : t[i].room = Room => t[i].msg <= sent
  BY <1>7, <1>8, <1>9 DEF Ordered, NoneAhead
<1>17. NoneAhead'
  BY <1>3, <1>5, <1>16 DEF Ordered, NoneAhead
<1>18. InOrder'
  BY <1>5, <1>10, <1>11, <1>12, <1>13 DEF Ordered, InOrder
<1> QED
  BY <1>15, <1>17, <1>18

\* A new message is the newest.
LEMMA OrderSent ==
  ASSUME Typed, Ordered, OtherSends
  PROVE  InOrder' /\ NoneAhead' /\ StoredInOrder'
<1>1. /\ sent' = sent + 1 /\ sent \in Nat
      /\ room_events' = Append(room_events, Event("CMD_SEND_MESSAGE", "SEND_MESSAGE", sent + 1))
      /\ jobs' = jobs /\ rows' = rows
  BY DEF OtherSends, dbVars, Typed
<1>2. PICK e : e = Event("CMD_SEND_MESSAGE", "SEND_MESSAGE", sent + 1) /\ e.arg = sent + 1
  BY <1>1, Made, Names
<1>3. IsSeq(room_events)
  BY DEF Typed, IsSeq
<1>4. /\ \A i \in DOMAIN room_events : room_events'[i] = room_events[i]
      /\ \A i \in DOMAIN room_events' :
           i \in DOMAIN room_events \/ (room_events'[i] = e /\ i = Len(room_events) + 1)
      /\ DOMAIN room_events = 1..Len(room_events) /\ Len(room_events) \in Nat
  BY <1>1, <1>2, <1>3, AppendIs
<1>5. StoredInOrder'
  BY <1>1 DEF Ordered, StoredInOrder
<1>6. NoneAhead'
  <2>1. \A i \in DOMAIN room_events' : IsTalk(room_events'[i]) => room_events'[i].arg <= sent + 1
    BY <1>1, <1>2, <1>4, Numbers DEF Ordered, NoneAhead
  <2>2. \A i \in DOMAIN jobs : IsSave(jobs[i]) => jobs[i].msg <= sent + 1
    BY <1>1, Numbers DEF Ordered, NoneAhead
  <2>3. \A i \in DOMAIN rows : rows[i].room = Room => rows[i].msg <= sent + 1
    BY <1>1, Numbers DEF Ordered, NoneAhead
  <2> QED
    BY <1>1, <2>1, <2>2, <2>3 DEF NoneAhead
<1>7. \A i, j \in DOMAIN room_events' :
        i < j /\ IsTalk(room_events'[i]) /\ IsTalk(room_events'[j]) =>
          room_events'[i].arg < room_events'[j].arg
  <2> SUFFICES ASSUME NEW i \in DOMAIN room_events', NEW j \in DOMAIN room_events', i < j,
                      IsTalk(room_events'[i]), IsTalk(room_events'[j])
               PROVE  room_events'[i].arg < room_events'[j].arg
    OBVIOUS
  <2>1. i \in DOMAIN room_events /\ room_events'[i] = room_events[i]
    BY <1>4
  <2>2. CASE j \in DOMAIN room_events
    BY <1>4, <2>1, <2>2 DEF Ordered, InOrder
  <2>3. CASE room_events'[j] = e
    <3>1. room_events[i].arg <= sent /\ room_events[i].arg \in Int
      BY <2>1, Numbers DEF Ordered, NoneAhead
    <3> QED
      BY <1>1, <1>2, <2>1, <2>3, <3>1
  <2> QED
    BY <1>4, <2>2, <2>3
<1>8. \A i \in DOMAIN jobs, j \in DOMAIN room_events' :
        IsSave(jobs[i]) /\ IsTalk(room_events'[j]) => jobs[i].msg < room_events'[j].arg
  <2> SUFFICES ASSUME NEW i \in DOMAIN jobs, NEW j \in DOMAIN room_events',
                      IsSave(jobs[i]), IsTalk(room_events'[j])
               PROVE  jobs[i].msg < room_events'[j].arg
    OBVIOUS
  <2>1. CASE j \in DOMAIN room_events
    BY <1>4, <2>1 DEF Ordered, InOrder
  <2>2. CASE room_events'[j] = e
    <3>1. jobs[i].msg <= sent /\ jobs[i].msg \in Int
      BY Numbers DEF Ordered, NoneAhead
    <3> QED
      BY <1>1, <1>2, <2>2, <3>1
  <2> QED
    BY <1>4, <2>1, <2>2
<1>9. \A i \in DOMAIN rows, j \in DOMAIN room_events' :
        rows[i].room = Room /\ IsTalk(room_events'[j]) => rows[i].msg < room_events'[j].arg
  <2> SUFFICES ASSUME NEW i \in DOMAIN rows, NEW j \in DOMAIN room_events',
                      rows[i].room = Room, IsTalk(room_events'[j])
               PROVE  rows[i].msg < room_events'[j].arg
    OBVIOUS
  <2>1. CASE j \in DOMAIN room_events
    BY <1>4, <2>1 DEF Ordered, InOrder
  <2>2. CASE room_events'[j] = e
    <3>1. rows[i].msg <= sent /\ rows[i].msg \in Int
      BY Numbers DEF Ordered, NoneAhead
    <3> QED
      BY <1>1, <1>2, <2>2, <3>1
  <2> QED
    BY <1>4, <2>1, <2>2
<1> QED
  BY <1>1, <1>5, <1>6, <1>7, <1>8, <1>9 DEF Ordered, InOrder

\* The steps of the messages in the room's queue.
LEMMA StepTalk ==
  ASSUME Typed, TalkSteps, [Next]_vars
  PROVE  TalkSteps'
<1>1. IsSeq(room_events) /\ room_events \in Seq(Events)
  BY DEF Typed, IsSeq
<1>2. ASSUME room_events # << >>, room_events' = Tail(room_events) PROVE TalkSteps'
  BY <1>1, <1>2, TailIs DEF TalkSteps
<1>3. ASSUME NEW e, room_events' = Append(room_events, e),
             IsTalk(e) => e.next \in {"SEND_MESSAGE", "SAVE_MESSAGE"}
      PROVE  TalkSteps'
  <2>1. /\ \A i \in DOMAIN room_events : room_events'[i] = room_events[i]
        /\ \A i \in DOMAIN room_events' : i \in DOMAIN room_events \/ room_events'[i] = e
    BY <1>1, <1>3, AppendIs
  <2> QED
    BY <1>3, <2>1 DEF TalkSteps
<1>4. ASSUME UNCHANGED room_events PROVE TalkSteps'
  BY <1>4 DEF TalkSteps
<1>5. CASE SendMessage
  <2>1. room_events # << >> /\ room_events' = [room_events EXCEPT ![1].next = "SAVE_MESSAGE"]
    BY <1>5 DEF SendMessage, AtRoom
  <2>2. PICK q : q = room_events'
    OBVIOUS
  <2>3. /\ DOMAIN q = DOMAIN room_events /\ 1 \in DOMAIN q /\ q[1].next = "SAVE_MESSAGE"
        /\ \A i \in DOMAIN q : i # 1 => q[i] = room_events[i]
    BY <2>1, <2>2, HeadGoesOn, Names
  <2> QED
    BY <2>2, <2>3 DEF TalkSteps
<1>6. CASE ProcessJob
  <2>1. ASSUME NEW status \in Statuses, NEW body \in Bodies, Head(jobs) \in Loads,
               room_events' = Append(room_events,
                 [Head(jobs).event EXCEPT !.next = "SEND_RESPONSE", !.status = status, !.body = body])
        PROVE  TalkSteps'
    <3>1. PICK e \in Events : e = Head(jobs).event /\ ~IsTalk(e)
      BY <2>1 DEF Loads, Requests
    <3>2. PICK f : f = [e EXCEPT !.next = "SEND_RESPONSE", !.status = status, !.body = body]
      OBVIOUS
    <3>c. f.command = e.command
      BY <3>2 DEF Events
    <3>3. ~IsTalk(f)
      BY <3>1, <3>c DEF IsTalk
    <3> QED
      BY <1>3, <2>1, <3>1, <3>2, <3>3
  <2> QED
    BY <1>4, <1>6, <2>1, JobDone, Zenon
<1>7. CASE OtherSends
  <2>1. PICK e : e = Event("CMD_SEND_MESSAGE", "SEND_MESSAGE", sent + 1)
    OBVIOUS
  <2>2. e.next = "SEND_MESSAGE"
    BY <2>1 DEF Event
  <2> QED
    BY <1>3, <1>7, <2>1, <2>2 DEF OtherSends
<1>8. CASE Join
  <2>1. ~IsTalk(Event("CMD_JOIN_ROOM", "JOIN_ROOM", 0))
    BY DEF Event, IsTalk
  <2> QED
    BY <1>3, <1>8, <2>1 DEF Join
<1>9. CASE Load
  <2>1. ~IsTalk(Event("CMD_LOAD_MESSAGE", "REQUEST_DB_LOAD_MESSAGE", oldest_message_id))
    BY DEF Event, IsTalk
  <2> QED
    BY <1>3, <1>9, <2>1 DEF Load
<1>10. CASE LobbyJoin
  <2>1. PICK e \in Events : e = Head(lobby_events) /\ ~IsTalk(e)
    BY <1>10, HeadTail DEF LobbyJoin, Typed, IsTalk
  <2>2. ~IsTalk([e EXCEPT !.next = "LEAVE_ROOM"])
    BY <2>1, GoesOn, Names DEF IsTalk
  <2> QED
    BY <1>3, <1>10, <2>1, <2>2 DEF LobbyJoin
<1>11. CASE SaveMessage \/ JoinRoom \/ LoadMessage \/ LeaveRoom \/ SendResponse
  BY <1>2, <1>11 DEF SaveMessage, JoinRoom, LoadMessage, LeaveRoom, SendResponse, AtRoom
<1>12. CASE \/ LobbyLeave \/ OtherRoomSaves \/ Leave \/ HandleResponse \/ HandleBroadcast
            \/ UNCHANGED vars
  BY <1>4, <1>12 DEF LobbyLeave, OtherRoomSaves, Leave, HandleResponse, HandleBroadcast, vars, workerVars
<1> QED
  BY <1>5, <1>6, <1>7, <1>8, <1>9, <1>10, <1>11, <1>12 DEF Next

\* Every step keeps the order.
LEMMA StepOrdered ==
  ASSUME Typed, Ordered, [Next]_vars
  PROVE  Ordered'
<1>t. Typed' /\ TalkSteps'
  BY StepTyped, StepTalk DEF Ordered
<1>k. ASSUME NEW d \in 0..1, NEW c \in 0..1, TalkFrom(d), SavesFrom(c), rows' = rows, sent' = sent
      PROVE  Ordered'
  BY <1>t, <1>k, OrderKept DEF Ordered
<1>n. 0 \in 0..1 /\ 1 \in 0..1
  OBVIOUS
<1>1. CASE SendMessage
  <2>1. /\ room_events # << >> /\ room_events' = [room_events EXCEPT ![1].next = "SAVE_MESSAGE"]
        /\ UNCHANGED <<jobs, rows, sent>>
    BY <1>1 DEF SendMessage, AtRoom, dbVars, countVars
  <2>2. PICK q : q = room_events'
    OBVIOUS
  <2>3. /\ DOMAIN q = DOMAIN room_events
        /\ \A i \in DOMAIN q : q[i].command = room_events[i].command /\ q[i].arg = room_events[i].arg
    BY <2>1, <2>2, HeadGoesOn, Names
  <2>4. \A i \in DOMAIN room_events : i + 0 = i
    BY Numbers
  <2>5. TalkFrom(0)
    BY <2>2, <2>3, <2>4 DEF TalkFrom, IsTalk
  <2> QED
    BY <1>k, <1>n, <2>1, <2>5, TalkMoves
<1>2. CASE SaveMessage
  BY <1>2, <1>t, OrderSaved DEF Ordered
<1>3. CASE OtherSends
  BY <1>3, <1>t, OrderSent DEF Ordered
<1>4. CASE ProcessJob
  <2>1. /\ jobs # << >> /\ jobs' = Tail(jobs) /\ SavesFrom(1) /\ sent' = sent
    BY <1>4, TalkMoves DEF ProcessJob, countVars
  <2>2. ASSUME NEW status \in Statuses, NEW body \in Bodies, Head(jobs) \in Loads, rows' = rows,
               room_events' = Append(room_events,
                 [Head(jobs).event EXCEPT !.next = "SEND_RESPONSE", !.status = status, !.body = body])
        PROVE  Ordered'
    <3>1. PICK e \in Events : e = Head(jobs).event /\ ~IsTalk(e)
      BY <2>2 DEF Loads, Requests
    <3>2. PICK f : f = [e EXCEPT !.next = "SEND_RESPONSE", !.status = status, !.body = body]
      OBVIOUS
    <3>c. f.command = e.command
      BY <3>2 DEF Events
    <3>3. ~IsTalk(f)
      BY <3>1, <3>c DEF IsTalk
    <3>4. TalkFrom(0)
      BY <2>2, <3>1, <3>2, <3>3, TalkMoves
    <3> QED
      BY <1>k, <1>n, <2>1, <2>2, <3>4
  <2>3. ASSUME NEW n \in 0..2, Head(jobs) \in Saves, UNCHANGED room_events,
               rows' = Added(n, Head(jobs).room, Head(jobs).msg)
        PROVE  Ordered'
    <3>1. PICK r \in {Room, Elsewhere}, m \in Int : r = Head(jobs).room /\ m = Head(jobs).msg
      BY <2>3 DEF Saves
    <3>2. InOrder' /\ NoneAhead' /\ StoredInOrder'
      BY <1>t, <2>1, <2>3, <3>1, OrderStored
    <3> QED
      BY <1>t, <3>2 DEF Ordered
  <2> QED
    BY <1>4, <2>2, <2>3, JobDone, Zenon
<1>5. CASE Join
  <2>1. ~IsTalk(Event("CMD_JOIN_ROOM", "JOIN_ROOM", 0))
    BY DEF Event, IsTalk
  <2>2. TalkFrom(0) /\ SavesFrom(0)
    BY <1>5, <2>1, TalkMoves DEF Join, dbVars
  <2> QED
    BY <1>k, <1>n, <1>5, <2>2 DEF Join, dbVars
<1>6. CASE Load
  <2>1. ~IsTalk(Event("CMD_LOAD_MESSAGE", "REQUEST_DB_LOAD_MESSAGE", oldest_message_id))
    BY DEF Event, IsTalk
  <2>2. TalkFrom(0) /\ SavesFrom(0)
    BY <1>6, <2>1, TalkMoves DEF Load, dbVars
  <2> QED
    BY <1>k, <1>n, <1>6, <2>2 DEF Load, dbVars
<1>7. CASE LobbyJoin
  <2>1. PICK e \in Events : e = Head(lobby_events) /\ ~IsTalk(e)
    BY <1>7, HeadTail DEF LobbyJoin, Typed, IsTalk
  <2>2. ~IsTalk([e EXCEPT !.next = "LEAVE_ROOM"])
    BY <2>1, GoesOn, Names DEF IsTalk
  <2>3. TalkFrom(0) /\ SavesFrom(0)
    BY <1>7, <2>1, <2>2, TalkMoves DEF LobbyJoin, dbVars
  <2> QED
    BY <1>k, <1>n, <1>7, <2>3 DEF LobbyJoin, dbVars, countVars
<1>8. CASE JoinRoom \/ LeaveRoom \/ SendResponse
  <2>1. TalkFrom(1) /\ SavesFrom(0)
    BY <1>8, TalkMoves DEF JoinRoom, LeaveRoom, SendResponse, AtRoom, dbVars
  <2> QED
    BY <1>k, <1>n, <1>8, <2>1 DEF JoinRoom, LeaveRoom, SendResponse, dbVars, countVars
<1>9. CASE LoadMessage
  <2>1. ~IsSave(LoadJob(Head(room_events)))
    BY DEF LoadJob, IsSave
  <2>2. TalkFrom(1) /\ SavesFrom(0)
    BY <1>9, <2>1, TalkMoves DEF LoadMessage, AtRoom
  <2> QED
    BY <1>k, <1>n, <1>9, <2>2 DEF LoadMessage, countVars
<1>10. CASE LobbyLeave
  <2>1. ~IsSave(LoadJob(Head(lobby_events)))
    BY DEF LoadJob, IsSave
  <2>2. jobs' = jobs \/ jobs' = Append(jobs, LoadJob(Head(lobby_events)))
    BY <1>10 DEF LobbyLeave
  <2>3. TalkFrom(0) /\ SavesFrom(0)
    BY <1>10, <2>1, <2>2, TalkMoves DEF LobbyLeave
  <2> QED
    BY <1>k, <1>n, <1>10, <2>3 DEF LobbyLeave, countVars
<1>11. CASE OtherRoomSaves
  <2>1. ~IsSave(SaveJob(Elsewhere, written + 1))
    BY RoomsAssumption DEF SaveJob, IsSave
  <2>2. TalkFrom(0) /\ SavesFrom(0)
    BY <1>11, <2>1, TalkMoves DEF OtherRoomSaves, workerVars
  <2> QED
    BY <1>k, <1>n, <1>11, <2>2 DEF OtherRoomSaves
<1>12. CASE Leave \/ HandleResponse \/ HandleBroadcast \/ UNCHANGED vars
  <2>1. UNCHANGED <<room_events, jobs, rows, sent>>
    BY <1>12 DEF Leave, HandleResponse, HandleBroadcast, vars, workerVars, dbVars, countVars
  <2>2. TalkFrom(0) /\ SavesFrom(0)
    BY <2>1, TalkMoves
  <2> QED
    BY <1>k, <1>n, <2>1, <2>2
<1> QED
  BY <1>1, <1>2, <1>3, <1>4, <1>5, <1>6, <1>7, <1>8, <1>9, <1>10, <1>11, <1>12 DEF Next

LEMMA InitOrdered ==
  ASSUME Init
  PROVE  Typed /\ Ordered
<1>1. /\ room_events = << >> /\ lobby_events = << >> /\ jobs = << >> /\ rows = << >> /\ socket = << >>
      /\ pages = << >> /\ live = << >> /\ oldest_message_id = 0 /\ sent = 0 /\ written = 0
  BY DEF Init
<1>2. DOMAIN << >> = {}
  OBVIOUS
<1>3. Typed
  BY <1>1 DEF Typed
<1> QED
  BY <1>1, <1>2, <1>3 DEF Ordered, InOrder, NoneAhead, StoredInOrder, TalkSteps

\* Types and order hold throughout.
LEMMA AlwaysOrdered == Spec => [](Typed /\ Ordered)
<1>1. Init => Typed /\ Ordered
  BY InitOrdered
<1>2. (Typed /\ Ordered) /\ [Next]_vars => (Typed /\ Ordered)'
  BY StepTyped, StepOrdered
<1> QED
  BY <1>1, <1>2, PTL DEF Spec

\* The table keeps the order in which the room's worker sent the messages, and a
\* message that a repeated statement stores twice stands in two neighbouring rows:
\* RoomWorker, the job queue and PostgreSQLDatabase::exec together.
THEOREM TableInOrder == Spec => []StoredInOrder
<1>1. Typed /\ Ordered => StoredInOrder
  BY DEF Ordered
<1> QED
  BY <1>1, AlwaysOrdered, PTL

\* Codec.h and Message.h: every body on its way to the client is read back by parse,
\* and refused wherever it is cut.
THEOREM CutsRefused == Spec => []CutBodiesRefused
<1>1. ASSUME Typed PROVE CutBodiesRefused
  <2> SUFFICES ASSUME NEW i \in DOMAIN socket, socket[i].type = "PKT_RESPONSE", socket[i].body # << >>
               PROVE  /\ parse(socket[i].body).ok
                      /\ \A n \in 0..(Len(socket[i].body) - 1) : ~parse(SubSeq(socket[i].body, 1, n)).ok
    BY DEF CutBodiesRefused
  <2>1. socket[i] \in Answers \cup News
    BY <1>1 DEF Typed
  <2>2. socket[i].body \in Bodies
    BY <2>1 DEF Answers, News
  <2>3. PICK in \in Seq(Messages) : socket[i].body = serialize(in)
    BY <2>2 DEF Bodies
  <2>4. PICK r : r = parse(serialize(in)) /\ r = [ok |-> TRUE, out |-> in]
    BY RoundTrip
  <2>5. r.ok
    BY <2>4
  <2>6. \A n \in 0..(Len(serialize(in)) - 1) : ~parse(SubSeq(serialize(in), 1, n)).ok
    BY CutShort
  <2> QED
    BY <2>3, <2>4, <2>5, <2>6, Zenon
<1> QED
  BY <1>1, AlwaysOrdered, PTL

-----------------------------------------------------------------------------
(***************************************************************************)
(* The one request of the client.                                          *)
(***************************************************************************)
\* B holds no more than A.
NoMore(B, A) == (AtMostOne(A) => AtMostOne(B)) /\ (A = {} => B = {})

\* The first of a queue goes.
LEMMA MarkedTail ==
  ASSUME NEW S, NEW q, IsSeq(q), q # << >>
  PROVE  /\ \A i \in Marked(Tail(q), S) : i + 1 \in Marked(q, S) /\ Tail(q)[i] = q[i + 1]
         /\ NoMore(Marked(Tail(q), S), Marked(q, S))
         /\ q[1] \in S => 1 \in Marked(q, S)
         /\ AtMostOne(Marked(q, S)) /\ q[1] \in S => Marked(Tail(q), S) = {}
<1>1. /\ \A i \in DOMAIN Tail(q) : i \in Nat \ {0} /\ i + 1 \in DOMAIN q /\ Tail(q)[i] = q[i + 1]
      /\ 1 \in DOMAIN q
  BY TailIs
<1>2. \A i \in Marked(Tail(q), S) : i + 1 \in Marked(q, S) /\ Tail(q)[i] = q[i + 1] /\ i \in Nat \ {0}
  BY <1>1 DEF Marked
<1>3. AtMostOne(Marked(q, S)) => AtMostOne(Marked(Tail(q), S))
  <2> SUFFICES ASSUME AtMostOne(Marked(q, S)), NEW i \in Marked(Tail(q), S), NEW j \in Marked(Tail(q), S)
               PROVE  i = j
    BY DEF AtMostOne
  <2>1. i + 1 \in Marked(q, S) /\ j + 1 \in Marked(q, S) /\ i \in Nat /\ j \in Nat
    BY <1>2
  <2>2. i + 1 = j + 1
    BY <2>1 DEF AtMostOne
  <2> QED
    BY <2>1, <2>2
<1>4. q[1] \in S => 1 \in Marked(q, S)
  BY <1>1 DEF Marked
<1>5. ASSUME AtMostOne(Marked(q, S)), q[1] \in S, NEW i \in Marked(Tail(q), S) PROVE FALSE
  <2>1. i + 1 \in Marked(q, S) /\ 1 \in Marked(q, S) /\ i \in Nat \ {0}
    BY <1>2, <1>4, <1>5
  <2>2. i + 1 = 1
    BY <1>5, <2>1 DEF AtMostOne
  <2> QED
    BY <2>1, <2>2
<1>6. Marked(q, S) = {} => Marked(Tail(q), S) = {}
  BY <1>2
<1> QED
  BY <1>2, <1>3, <1>4, <1>5, <1>6 DEF NoMore

\* One more in a queue.
LEMMA MarkedAppend ==
  ASSUME NEW S, NEW q, IsSeq(q), NEW e
  PROVE  /\ e \notin S => Marked(Append(q, e), S) = Marked(q, S)
         /\ e \in S => Marked(Append(q, e), S) # {}
         /\ Marked(q, S) = {} => AtMostOne(Marked(Append(q, e), S))
         /\ \A i \in Marked(Append(q, e), S) :
              \/ i \in Marked(q, S) /\ Append(q, e)[i] = q[i]
              \/ Append(q, e)[i] = e /\ e \in S
<1>1. /\ Len(q) \in Nat /\ DOMAIN q = 1..Len(q) /\ DOMAIN Append(q, e) = 1..(Len(q) + 1)
      /\ \A i \in DOMAIN q : Append(q, e)[i] = q[i]
      /\ Append(q, e)[Len(q) + 1] = e
  BY AppendIs
<1>2. \A i \in 1..(Len(q) + 1) : i \in 1..Len(q) \/ i = Len(q) + 1
  BY <1>1
<1>3. 1..Len(q) \subseteq 1..(Len(q) + 1) /\ Len(q) + 1 \in 1..(Len(q) + 1)
  BY <1>1
<1>4. \A i : i \in Marked(q, S) => i \in Marked(Append(q, e), S)
  BY <1>1, <1>3 DEF Marked
<1>5. \A i \in Marked(Append(q, e), S) :
        \/ i \in Marked(q, S) /\ Append(q, e)[i] = q[i]
        \/ i = Len(q) + 1 /\ Append(q, e)[i] = e /\ e \in S
  BY <1>1, <1>2 DEF Marked
<1>6. e \in S => Len(q) + 1 \in Marked(Append(q, e), S)
  BY <1>1, <1>3 DEF Marked
<1>7. e \notin S => Marked(Append(q, e), S) = Marked(q, S)
  BY <1>4, <1>5
<1>8. Marked(q, S) = {} => AtMostOne(Marked(Append(q, e), S))
  BY <1>5 DEF AtMostOne
<1> QED
  BY <1>5, <1>6, <1>7, <1>8

\* What is not marked.
LEMMA Unmarked ==
  /\ \A m \in Int : Broadcast(m) \notin Answers
  /\ \A r, m : SaveJob(r, m) \notin Loads
  /\ \A e \in Events : IsTalk(e) => e \notin Requests
  /\ \A e \in Events : ~IsTalk(e) => e \in Requests
  /\ \A p \in Answers \cup News : p \in Answers <=> p.type = "PKT_RESPONSE"
<1>1. \A m \in Int : Broadcast(m) \notin Answers
  BY DEF Broadcast, Answers
<1>2. \A r, m : SaveJob(r, m) \notin Loads
  BY DEF SaveJob, Loads
<1>3. \A p \in Answers \cup News : p \in Answers <=> p.type = "PKT_RESPONSE"
  BY DEF Answers, News
<1> QED
  BY <1>1, <1>2, <1>3 DEF Requests

\* The head's next step changes no place.
LEMMA MarkedHead ==
  ASSUME Typed, room_events # << >>,
         room_events' = [room_events EXCEPT ![1].next = "SAVE_MESSAGE"], IsTalk(Head(room_events))
  PROVE  /\ AtTheRoom' = AtTheRoom
         /\ \A i \in AtTheRoom : room_events'[i] = room_events[i]
<1>1. PICK q : q = room_events'
  OBVIOUS
<1>a. "SAVE_MESSAGE" \in Steps
  BY Names
<1>b. q \in Seq(Events)
  BY <1>1, <1>a, HeadGoesOn
<1>2. /\ q \in Seq(Events) /\ DOMAIN q = DOMAIN room_events /\ 1 \in DOMAIN q
      /\ \A i \in DOMAIN q : q[i].command = room_events[i].command
      /\ \A i \in DOMAIN q : i # 1 => q[i] = room_events[i]
  BY <1>1, <1>a, <1>b, HeadGoesOn
<1>3. room_events \in Seq(Events) /\ IsTalk(room_events[1])
  BY HeadTail DEF Typed
<1>4. \A i \in DOMAIN q : q[i] \in Events /\ room_events[i] \in Events
  BY <1>2, <1>3
<1>5. \A i \in DOMAIN q : q[i] \in Requests <=> room_events[i] \in Requests
  BY <1>2, <1>4 DEF Requests, IsTalk
<1>6. 1 \notin AtTheRoom
  BY <1>3 DEF AtTheRoom, Marked, Requests
<1> QED
  BY <1>1, <1>2, <1>5, <1>6 DEF AtTheRoom, Marked

\* The queues as sequences.
LEMMA Queues ==
  ASSUME Typed
  PROVE  /\ IsSeq(room_events) /\ IsSeq(lobby_events) /\ IsSeq(jobs) /\ IsSeq(socket)
         /\ room_events # << >> => Head(room_events) = room_events[1] /\ Head(room_events) \in Events
         /\ lobby_events # << >> => Head(lobby_events) = lobby_events[1] /\ Head(lobby_events) \in Events
         /\ jobs # << >> => Head(jobs) = jobs[1] /\ Head(jobs) \in Saves \cup Loads
         /\ socket # << >> => Head(socket) = socket[1] /\ Head(socket) \in Answers \cup News
<1>1. /\ room_events \in Seq(Events) /\ lobby_events \in Seq(Events)
      /\ jobs \in Seq(Saves \cup Loads) /\ socket \in Seq(Answers \cup News)
  BY DEF Typed
<1>2. IsSeq(room_events) /\ IsSeq(lobby_events) /\ IsSeq(jobs) /\ IsSeq(socket)
  BY <1>1 DEF IsSeq
<1> QED
  BY <1>1, <1>2, HeadTail

\* The request is taken from the head of a queue.
LEMMA FromRoom ==
  ASSUME Typed, OneRequest, room_events # << >>, ~IsTalk(Head(room_events)),
         room_events' = Tail(room_events)
  PROVE  /\ AtTheRoom # {} /\ AtTheRoom' = {} /\ 1 \in AtTheRoom
         /\ AtTheLobby = {} /\ AtTheDB = {} /\ OnTheWay = {} /\ pending # NONE
<1>1. room_events[1] \in Requests
  BY Queues, Unmarked
<1>2. 1 \in AtTheRoom
  BY <1>1, Queues, MarkedTail DEF AtTheRoom
<1>3. Marked(Tail(room_events), Requests) = {}
  BY <1>1, Queues, MarkedTail DEF AtTheRoom, OneRequest
<1> QED
  BY <1>2, <1>3 DEF OneRequest, AtTheRoom

LEMMA FromLobby ==
  ASSUME Typed, OneRequest, lobby_events # << >>, lobby_events' = Tail(lobby_events)
  PROVE  /\ AtTheLobby # {} /\ AtTheLobby' = {} /\ 1 \in AtTheLobby
         /\ AtTheRoom = {} /\ AtTheDB = {} /\ OnTheWay = {} /\ pending # NONE
<1>1. lobby_events[1] \in Events
  BY Queues
<1>2. 1 \in AtTheLobby
  BY <1>1, Queues, MarkedTail DEF AtTheLobby
<1>3. Marked(Tail(lobby_events), Events) = {}
  BY <1>1, Queues, MarkedTail DEF AtTheLobby, OneRequest
<1> QED
  BY <1>2, <1>3 DEF OneRequest, AtTheLobby

LEMMA FromDB ==
  ASSUME Typed, OneRequest, jobs # << >>, Head(jobs) \in Loads, jobs' = Tail(jobs)
  PROVE  /\ AtTheDB # {} /\ AtTheDB' = {} /\ 1 \in AtTheDB
         /\ AtTheRoom = {} /\ AtTheLobby = {} /\ OnTheWay = {} /\ pending # NONE
<1>1. jobs[1] \in Loads
  BY Queues
<1>2. 1 \in AtTheDB
  BY <1>1, Queues, MarkedTail DEF AtTheDB
<1>3. Marked(Tail(jobs), Loads) = {}
  BY <1>1, Queues, MarkedTail DEF AtTheDB, OneRequest
<1> QED
  BY <1>2, <1>3 DEF OneRequest, AtTheDB

LEMMA FromWay ==
  ASSUME Typed, OneRequest, socket # << >>, Head(socket).type = "PKT_RESPONSE", socket' = Tail(socket)
  PROVE  /\ OnTheWay # {} /\ OnTheWay' = {} /\ 1 \in OnTheWay
         /\ AtTheRoom = {} /\ AtTheLobby = {} /\ AtTheDB = {} /\ pending # NONE
<1>1. socket[1] \in Answers
  BY Queues, Unmarked
<1>2. 1 \in OnTheWay
  BY <1>1, Queues, MarkedTail DEF OnTheWay
<1>3. Marked(Tail(socket), Answers) = {}
  BY <1>1, Queues, MarkedTail DEF OnTheWay, OneRequest
<1> QED
  BY <1>2, <1>3 DEF OneRequest, OnTheWay

\* It is put into another queue, behind the messages there.
LEMMA IntoQueues ==
  ASSUME Typed, NEW e
  PROVE  /\ AtTheRoom = {} /\ room_events' = Append(room_events, e) =>
              AtMostOne(AtTheRoom') /\ \A i \in AtTheRoom' : room_events'[i] = e
         /\ AtTheLobby = {} /\ lobby_events' = Append(lobby_events, e) =>
              AtMostOne(AtTheLobby') /\ \A i \in AtTheLobby' : lobby_events'[i] = e
         /\ AtTheDB = {} /\ jobs' = Append(jobs, e) =>
              AtMostOne(AtTheDB') /\ \A i \in AtTheDB' : jobs'[i] = e
         /\ OnTheWay = {} /\ socket' = Append(socket, e) =>
              AtMostOne(OnTheWay') /\ \A i \in OnTheWay' : socket'[i] = e
<1>1. ASSUME AtTheRoom = {}, room_events' = Append(room_events, e)
      PROVE  AtMostOne(AtTheRoom') /\ \A i \in AtTheRoom' : room_events'[i] = e
  BY <1>1, Queues, MarkedAppend DEF AtTheRoom
<1>2. ASSUME AtTheLobby = {}, lobby_events' = Append(lobby_events, e)
      PROVE  AtMostOne(AtTheLobby') /\ \A i \in AtTheLobby' : lobby_events'[i] = e
  BY <1>2, Queues, MarkedAppend DEF AtTheLobby
<1>3. ASSUME AtTheDB = {}, jobs' = Append(jobs, e)
      PROVE  AtMostOne(AtTheDB') /\ \A i \in AtTheDB' : jobs'[i] = e
  BY <1>3, Queues, MarkedAppend DEF AtTheDB
<1>4. ASSUME OnTheWay = {}, socket' = Append(socket, e)
      PROVE  AtMostOne(OnTheWay') /\ \A i \in OnTheWay' : socket'[i] = e
  BY <1>4, Queues, MarkedAppend DEF OnTheWay
<1> QED
  BY <1>1, <1>2, <1>3, <1>4

\* Messages come and go, and the request stays where it is.
LEMMA Passing ==
  ASSUME Typed
  PROVE  /\ UNCHANGED room_events => AtTheRoom' = AtTheRoom
         /\ UNCHANGED lobby_events => AtTheLobby' = AtTheLobby
         /\ UNCHANGED jobs => AtTheDB' = AtTheDB
         /\ UNCHANGED socket => OnTheWay' = OnTheWay
         /\ \A e : room_events' = Append(room_events, e) /\ e \notin Requests =>
              AtTheRoom' = AtTheRoom /\ \A i \in AtTheRoom' : room_events'[i] = room_events[i]
         /\ \A e : jobs' = Append(jobs, e) /\ e \notin Loads =>
              AtTheDB' = AtTheDB /\ \A i \in AtTheDB' : jobs'[i] = jobs[i]
         /\ \A e : socket' = Append(socket, e) /\ e \notin Answers =>
              OnTheWay' = OnTheWay /\ \A i \in OnTheWay' : socket'[i] = socket[i]
         /\ room_events # << >> /\ room_events' = Tail(room_events) =>
              /\ NoMore(AtTheRoom', AtTheRoom)
              /\ \A i \in AtTheRoom' : i + 1 \in AtTheRoom /\ room_events'[i] = room_events[i + 1]
         /\ jobs # << >> /\ jobs' = Tail(jobs) =>
              /\ NoMore(AtTheDB', AtTheDB)
              /\ \A i \in AtTheDB' : i + 1 \in AtTheDB /\ jobs'[i] = jobs[i + 1]
         /\ socket # << >> /\ socket' = Tail(socket) =>
              /\ NoMore(OnTheWay', OnTheWay)
              /\ \A i \in OnTheWay' : i + 1 \in OnTheWay /\ socket'[i] = socket[i + 1]
<1>1. /\ UNCHANGED room_events => AtTheRoom' = AtTheRoom
      /\ UNCHANGED lobby_events => AtTheLobby' = AtTheLobby
      /\ UNCHANGED jobs => AtTheDB' = AtTheDB
      /\ UNCHANGED socket => OnTheWay' = OnTheWay
  BY DEF AtTheRoom, AtTheLobby, AtTheDB, OnTheWay
<1>2. ASSUME NEW e, room_events' = Append(room_events, e), e \notin Requests
      PROVE  AtTheRoom' = AtTheRoom /\ \A i \in AtTheRoom' : room_events'[i] = room_events[i]
  BY <1>2, Queues, MarkedAppend DEF AtTheRoom
<1>3. ASSUME NEW e, jobs' = Append(jobs, e), e \notin Loads
      PROVE  AtTheDB' = AtTheDB /\ \A i \in AtTheDB' : jobs'[i] = jobs[i]
  BY <1>3, Queues, MarkedAppend DEF AtTheDB
<1>4. ASSUME NEW e, socket' = Append(socket, e), e \notin Answers
      PROVE  OnTheWay' = OnTheWay /\ \A i \in OnTheWay' : socket'[i] = socket[i]
  BY <1>4, Queues, MarkedAppend DEF OnTheWay
<1>5. ASSUME room_events # << >>, room_events' = Tail(room_events)
      PROVE  /\ NoMore(AtTheRoom', AtTheRoom)
             /\ \A i \in AtTheRoom' : i + 1 \in AtTheRoom /\ room_events'[i] = room_events[i + 1]
  BY <1>5, Queues, MarkedTail DEF AtTheRoom
<1>6. ASSUME jobs # << >>, jobs' = Tail(jobs)
      PROVE  /\ NoMore(AtTheDB', AtTheDB)
             /\ \A i \in AtTheDB' : i + 1 \in AtTheDB /\ jobs'[i] = jobs[i + 1]
  BY <1>6, Queues, MarkedTail DEF AtTheDB
<1>7. ASSUME socket # << >>, socket' = Tail(socket)
      PROVE  /\ NoMore(OnTheWay', OnTheWay)
             /\ \A i \in OnTheWay' : i + 1 \in OnTheWay /\ socket'[i] = socket[i + 1]
  BY <1>7, Queues, MarkedTail DEF OnTheWay
<1> QED
  BY <1>1, <1>2, <1>3, <1>4, <1>5, <1>6, <1>7

\* The table only grows.
Grown ==
  /\ \A i \in DOMAIN rows : i \in DOMAIN rows' /\ rows'[i] = rows[i]
  /\ \A n \in DOMAIN rows' : n \in DOMAIN rows \/ (n \in Nat /\ n > Len(rows))
  /\ Len(rows) <= Len(rows')

LEMMA StepGrown ==
  ASSUME Typed, [Next]_vars
  PROVE  Grown
<1>1. Len(rows) \in Nat /\ rows \in Seq(TableRows)
  BY DEF Typed
<1>2. ASSUME UNCHANGED rows PROVE Grown
  BY <1>1, <1>2 DEF Grown
<1>3. CASE ProcessJob
  <2>1. ASSUME NEW n \in 0..2, Head(jobs) \in Saves, rows' = Added(n, Head(jobs).room, Head(jobs).msg)
        PROVE  Grown
    <3>1. PICK r \in {Room, Elsewhere}, m \in Int : rows' = Added(n, r, m)
      BY <2>1 DEF Saves
    <3>2. PICK t : t = rows' /\ Extends(t, n, r, m)
      BY <3>1, RowsAdded
    <3>3. /\ Len(t) = Len(rows) + n /\ DOMAIN t = 1..(Len(rows) + n) /\ DOMAIN rows = 1..Len(rows)
          /\ \A i \in DOMAIN rows : t[i] = rows[i]
      BY <3>2 DEF Extends
    <3>4. PICK L \in Nat : L = Len(rows)
      BY <1>1
    <3>5. /\ \A i \in 1..L : i \in 1..(L + n)
          /\ \A i \in 1..(L + n) : i \in 1..L \/ (i \in Nat /\ i > L)
          /\ L <= L + n
      OBVIOUS
    <3> QED
      BY <3>2, <3>3, <3>4, <3>5 DEF Grown
  <2> QED
    BY <1>2, <1>3, <2>1, JobDone, Zenon
<1>4. CASE ~ProcessJob
  <2>1. UNCHANGED rows
    BY <1>4 DEF Next, vars, SendMessage, SaveMessage, JoinRoom, LoadMessage, LeaveRoom, SendResponse,
                LobbyLeave, LobbyJoin, OtherSends, OtherRoomSaves, Join, Load, Leave,
                HandleResponse, HandleBroadcast, dbVars
  <2> QED
    BY <1>2, <2>1
<1> QED
  BY <1>3, <1>4

\* An entry of the room is one of its rows.
LEMMA EntryRow ==
  ASSUME Typed, NEW entry, OfTheRoom(entry)
  PROVE  /\ entry.id \in DOMAIN rows /\ entry.id \in 1..Len(rows) /\ Len(rows) \in Nat
         /\ rows[entry.id].room = Room /\ entry = ToMessage(rows[entry.id])
         /\ MessageOf(entry) = rows[entry.id].msg /\ MessageOf(entry) \in Int
<1>1. PICK n \in DOMAIN rows : rows[n].room = Room /\ entry = ToMessage(rows[n])
  BY DEF OfTheRoom
<1>2. PICK r \in TableRows : r = rows[n]
  BY <1>1, Numbers
<1>3. entry.id = r.id /\ MessageOf(entry) = r.msg /\ r.msg \in Int
  <2>1. ToMessage(r).id = r.id /\ MessageOf(ToMessage(r)) = r.msg
    BY RowAsMessage
  <2> QED
    BY <1>1, <1>2, <2>1 DEF TableRows
<1>4. r.id = n
  BY <1>1, <1>2 DEF Typed
<1>5. n \in 1..Len(rows) /\ Len(rows) \in Nat
  BY <1>1 DEF Typed
<1> QED
  BY <1>1, <1>2, <1>3, <1>4, <1>5

LEMMA RoomStable ==
  ASSUME Grown, NEW entry, OfTheRoom(entry)
  PROVE  OfTheRoom(entry)'
BY DEF OfTheRoom, Grown

\* A piece of the table stays one.
LEMMA PieceStable ==
  ASSUME Typed, Grown, NEW page \in Seq(Messages), NEW arg \in 0..Len(rows), Piece(page, arg)
  PROVE  Piece(page, arg)'
<1>1. PICK L \in Nat : L = Len(rows)
  BY DEF Typed
<1>2. \A k \in DOMAIN page : OfTheRoom(page[k])' /\ (arg # 0 => page[k].id < arg)
  <2> TAKE k \in DOMAIN page
  <2>1. PICK entry : entry = page[k]
    OBVIOUS
  <2>2. OfTheRoom(entry) /\ (arg # 0 => entry.id < arg)
    BY <2>1 DEF Piece
  <2>3. OfTheRoom(entry)'
    BY <2>2, RoomStable
  <2> QED
    BY <2>1, <2>2, <2>3
<1>3. ASSUME NEW n \in DOMAIN rows', rows'[n].room = Room, page # << >>, page[Len(page)].id <= n,
             n < arg \/ n <= page[1].id
      PROVE  \E k \in DOMAIN page : page[k] = ToMessage(rows'[n])
  <2>1. 1 \in DOMAIN page
    BY <1>3
  <2>2. page[1].id \in 1..L
    BY <1>1, <2>1, EntryRow DEF Piece
  <2>3. arg \in 0..L
    BY <1>1
  <2>4. n \in DOMAIN rows
    <3>1. ASSUME n \in Nat, n > L PROVE FALSE
      BY <1>3, <2>2, <2>3, <3>1
    <3> QED
      BY <1>1, <1>3, <3>1 DEF Grown
  <2>5. rows'[n] = rows[n]
    BY <2>4 DEF Grown
  <2> QED
    BY <1>3, <2>4, <2>5 DEF Piece
<1>4. \A k, l \in DOMAIN page : k < l => page[l].id < page[k].id
  BY DEF Piece
<1> QED
  BY <1>2, <1>3, <1>4 DEF Piece

\* What the client waits for, and what was brought, stay as the table grows.
LEMMA HasStable ==
  ASSUME Typed, Grown, oldest_message_id \in 0..Len(rows), UNCHANGED <<pending, oldest_message_id, state>>
  PROVE  /\ \A cmd, arg : Asked(cmd, arg) => Asked(cmd, arg)'
         /\ \A cmd, status : \A body \in Bodies : Brings(cmd, status, body) => Brings(cmd, status, body)'
         /\ \A e \in Events : RoomHas(e) => RoomHas(e)'
         /\ \A e : LobbyHas(e) => LobbyHas(e)'
         /\ \A job : DBHas(job) => DBHas(job)'
         /\ \A res \in Answers : WayHas(res) => WayHas(res)'
<1>1. \A cmd, arg : Asked(cmd, arg) => Asked(cmd, arg)'
  BY DEF Asked
<1>2. ASSUME NEW cmd, NEW status, NEW body \in Bodies, Brings(cmd, status, body)
      PROVE  Brings(cmd, status, body)'
  <2>1. PICK page \in Seq(Messages) : page = Shown(body)
    BY ShownMessages
  <2>2. 0 \in 0..Len(rows)
    BY DEF Typed
  <2>3. Piece(page, 0) => Piece(page, 0)'
    BY <2>2, PieceStable
  <2>4. PICK o \in 0..Len(rows) : o = oldest_message_id /\ o = oldest_message_id'
    OBVIOUS
  <2>5. Piece(page, o) => Piece(page, o)'
    BY PieceStable
  <2>6. status = "Success" => /\ cmd = "CMD_JOIN_ROOM" => Piece(page, 0)
                              /\ cmd = "CMD_LOAD_MESSAGE" => Piece(page, o)
    BY <1>2, <2>1, <2>4 DEF Brings
  <2>7. status = "Success" => /\ cmd = "CMD_JOIN_ROOM" => Piece(page, 0)'
                              /\ cmd = "CMD_LOAD_MESSAGE" => Piece(page, o)'
    BY <2>3, <2>5, <2>6
  <2> QED
    BY <2>1, <2>4, <2>7 DEF Brings
<1>3. \A e \in Events : e.body \in Bodies
  BY DEF Events
<1>4. \A res \in Answers : res.body \in Bodies
  BY DEF Answers
<1>5. \A e \in Events : RoomHas(e) => RoomHas(e)'
  BY <1>1, <1>2, <1>3 DEF RoomHas
<1>6. \A res \in Answers : WayHas(res) => WayHas(res)'
  BY <1>2, <1>4 DEF WayHas
<1>7. \A e : LobbyHas(e) => LobbyHas(e)'
  BY <1>1 DEF LobbyHas
<1>8. \A job : DBHas(job) => DBHas(job)'
  BY <1>1 DEF DBHas
<1> QED
  BY <1>1, <1>2, <1>5, <1>6, <1>7, <1>8

\* The request, if it is in this queue, is the same as before.
RoomStays  == /\ NoMore(AtTheRoom', AtTheRoom)
              /\ \A i \in AtTheRoom' : \E j \in AtTheRoom : room_events'[i] = room_events[j]
LobbyStays == /\ NoMore(AtTheLobby', AtTheLobby)
              /\ \A i \in AtTheLobby' : \E j \in AtTheLobby : lobby_events'[i] = lobby_events[j]
DBStays    == /\ NoMore(AtTheDB', AtTheDB)
              /\ \A i \in AtTheDB' : \E j \in AtTheDB : jobs'[i] = jobs[j]
WayStays   == /\ NoMore(OnTheWay', OnTheWay)
              /\ \A i \in OnTheWay' : \E j \in OnTheWay : socket'[i] = socket[j]

LEMMA Staying ==
  ASSUME Typed
  PROVE  /\ UNCHANGED room_events => RoomStays
         /\ \A e : room_events' = Append(room_events, e) /\ e \notin Requests => RoomStays
         /\ room_events # << >> /\ room_events' = Tail(room_events) => RoomStays
         /\ UNCHANGED lobby_events => LobbyStays
         /\ UNCHANGED jobs => DBStays
         /\ \A e : jobs' = Append(jobs, e) /\ e \notin Loads => DBStays
         /\ jobs # << >> /\ jobs' = Tail(jobs) => DBStays
         /\ UNCHANGED socket => WayStays
         /\ \A e : socket' = Append(socket, e) /\ e \notin Answers => WayStays
         /\ socket # << >> /\ socket' = Tail(socket) => WayStays
<1>0. \A A : NoMore(A, A)
  BY DEF NoMore
<1>1. UNCHANGED room_events => RoomStays
  BY <1>0, Passing DEF RoomStays
<1>2. UNCHANGED lobby_events => LobbyStays
  BY <1>0, Passing DEF LobbyStays
<1>3. UNCHANGED jobs => DBStays
  BY <1>0, Passing DEF DBStays
<1>4. UNCHANGED socket => WayStays
  BY <1>0, Passing DEF WayStays
<1>5. ASSUME NEW e, room_events' = Append(room_events, e), e \notin Requests PROVE RoomStays
  BY <1>0, <1>5, Passing DEF RoomStays
<1>6. ASSUME NEW e, jobs' = Append(jobs, e), e \notin Loads PROVE DBStays
  BY <1>0, <1>6, Passing DEF DBStays
<1>7. ASSUME NEW e, socket' = Append(socket, e), e \notin Answers PROVE WayStays
  BY <1>0, <1>7, Passing DEF WayStays
<1>8. room_events # << >> /\ room_events' = Tail(room_events) => RoomStays
  BY Passing DEF RoomStays
<1>9. jobs # << >> /\ jobs' = Tail(jobs) => DBStays
  BY Passing DEF DBStays
<1>10. socket # << >> /\ socket' = Tail(socket) => WayStays
  BY Passing DEF WayStays
<1> QED
  BY <1>1, <1>2, <1>3, <1>4, <1>5, <1>6, <1>7, <1>8, <1>9, <1>10

LEMMA RequestKept ==
  ASSUME Typed, Grown, oldest_message_id \in 0..Len(rows), OneRequest, Requested,
         UNCHANGED <<pending, oldest_message_id, state>>, RoomStays, LobbyStays, DBStays, WayStays
  PROVE  OneRequest' /\ Requested'
<1>1. OneRequest'
  BY DEF OneRequest, RoomStays, LobbyStays, DBStays, WayStays, NoMore
<1>2. ASSUME NEW i \in AtTheRoom' PROVE RoomHas(room_events[i])'
  <2>1. PICK j \in AtTheRoom, e \in Events : e = room_events[j] /\ e = room_events'[i]
    BY <1>2 DEF RoomStays, AtTheRoom, Marked, Requests
  <2>2. RoomHas(e)
    BY <2>1 DEF Requested
  <2>3. RoomHas(e)'
    BY <2>2, HasStable
  <2> QED
    BY <2>1, <2>3
<1>3. ASSUME NEW i \in AtTheLobby' PROVE LobbyHas(lobby_events[i])'
  <2>1. PICK j \in AtTheLobby, e \in Events : e = lobby_events[j] /\ e = lobby_events'[i]
    BY <1>3 DEF LobbyStays, AtTheLobby, Marked
  <2>2. LobbyHas(e)
    BY <2>1 DEF Requested
  <2>3. LobbyHas(e)'
    BY <2>2, HasStable
  <2> QED
    BY <2>1, <2>3
<1>4. ASSUME NEW i \in AtTheDB' PROVE DBHas(jobs[i])'
  <2>1. PICK j \in AtTheDB, e \in Loads : e = jobs[j] /\ e = jobs'[i]
    BY <1>4 DEF DBStays, AtTheDB, Marked
  <2>2. DBHas(e)
    BY <2>1 DEF Requested
  <2>3. DBHas(e)'
    BY <2>2, HasStable
  <2> QED
    BY <2>1, <2>3
<1>5. ASSUME NEW i \in OnTheWay' PROVE WayHas(socket[i])'
  <2>1. PICK j \in OnTheWay, e \in Answers : e = socket[j] /\ e = socket'[i]
    BY <1>5 DEF WayStays, OnTheWay, Marked
  <2>2. WayHas(e)
    BY <2>1 DEF Requested
  <2>3. WayHas(e)'
    BY <2>2, HasStable
  <2> QED
    BY <2>1, <2>3
<1> QED
  BY <1>1, <1>2, <1>3, <1>4, <1>5 DEF Requested

\* The request has moved, to the one place it is now in.
LEMMA NowAtRoom ==
  ASSUME pending' # NONE, NEW e, AtMostOne(AtTheRoom'), \A i \in AtTheRoom' : room_events'[i] = e,
         RoomHas(e)', AtTheLobby' = {}, AtTheDB' = {}, OnTheWay' = {}
  PROVE  OneRequest' /\ Requested'
<1>1. \A i \in AtTheRoom' : RoomHas(room_events[i])'
  OBVIOUS
<1> QED
  BY <1>1 DEF OneRequest, Requested, AtMostOne

LEMMA NowAtLobby ==
  ASSUME pending' # NONE, NEW e, AtMostOne(AtTheLobby'), \A i \in AtTheLobby' : lobby_events'[i] = e,
         LobbyHas(e)', AtTheRoom' = {}, AtTheDB' = {}, OnTheWay' = {}
  PROVE  OneRequest' /\ Requested'
<1>1. \A i \in AtTheLobby' : LobbyHas(lobby_events[i])'
  OBVIOUS
<1> QED
  BY <1>1 DEF OneRequest, Requested, AtMostOne

LEMMA NowAtDB ==
  ASSUME pending' # NONE, NEW e, AtMostOne(AtTheDB'), \A i \in AtTheDB' : jobs'[i] = e,
         DBHas(e)', AtTheRoom' = {}, AtTheLobby' = {}, OnTheWay' = {}
  PROVE  OneRequest' /\ Requested'
<1>1. \A i \in AtTheDB' : DBHas(jobs[i])'
  OBVIOUS
<1> QED
  BY <1>1 DEF OneRequest, Requested, AtMostOne

LEMMA NowOnTheWay ==
  ASSUME pending' # NONE, NEW e, AtMostOne(OnTheWay'), \A i \in OnTheWay' : socket'[i] = e,
         WayHas(e)', AtTheRoom' = {}, AtTheLobby' = {}, AtTheDB' = {}
  PROVE  OneRequest' /\ Requested'
<1>1. \A i \in OnTheWay' : WayHas(socket[i])'
  OBVIOUS
<1> QED
  BY <1>1 DEF OneRequest, Requested, AtMostOne

\* Every step keeps the request in one place, and what is known of it.
LEMMA StepRequest ==
  ASSUME Typed, TalkSteps, OneRequest, Requested, oldest_message_id \in 0..Len(rows), [Next]_vars
  PROVE  OneRequest' /\ Requested'
<1>g. Grown
  BY StepGrown
<1>k. ASSUME UNCHANGED <<pending, oldest_message_id, state>>, RoomStays, LobbyStays, DBStays, WayStays
      PROVE  OneRequest' /\ Requested'
  BY <1>g, <1>k, RequestKept
<1>1. CASE SendMessage
  <2>1. /\ room_events # << >> /\ room_events' = [room_events EXCEPT ![1].next = "SAVE_MESSAGE"]
        /\ IsTalk(Head(room_events))
        /\ UNCHANGED <<lobby_events, jobs, pending, oldest_message_id, state>>
        /\ socket' = socket \/ socket' = Append(socket, Broadcast(Head(room_events).arg))
    BY <1>1 DEF SendMessage, AtRoom, IsTalk, dbVars, screenVars
  <2>2. RoomStays
    BY <2>1, MarkedHead DEF RoomStays, NoMore
  <2>3. Head(room_events).arg \in Int
    BY <2>1, Queues DEF Events
  <2>4. WayStays
    BY <2>1, <2>3, Unmarked, Staying
  <2> QED
    BY <1>k, <2>1, <2>2, <2>4, Staying
<1>2. CASE SaveMessage
  <2>1. /\ room_events # << >> /\ room_events' = Tail(room_events)
        /\ jobs' = Append(jobs, SaveJob(Room, Head(room_events).arg))
        /\ UNCHANGED <<lobby_events, socket, pending, oldest_message_id, state>>
    BY <1>2 DEF SaveMessage, AtRoom, screenVars
  <2> QED
    BY <1>k, <2>1, Unmarked, Staying
<1>3. CASE JoinRoom
  <2>1. /\ room_events # << >> /\ room_events' = Tail(room_events) /\ ~IsTalk(Head(room_events))
        /\ lobby_events' = Append(lobby_events, [Head(room_events) EXCEPT !.next = "LEAVE_ROOM"])
        /\ UNCHANGED <<jobs, socket, pending, oldest_message_id, state>>
    BY <1>3 DEF JoinRoom, AtRoom, IsTalk, screenVars, dbVars
  <2>2. /\ AtTheRoom' = {} /\ 1 \in AtTheRoom /\ pending' # NONE
        /\ AtTheLobby = {} /\ AtTheDB' = {} /\ OnTheWay' = {}
    BY <2>1, FromRoom, Passing
  <2>3. PICK e \in Events : e = Head(room_events) /\ e = room_events[1]
    BY <2>1, Queues
  <2>4. PICK f : f = [e EXCEPT !.next = "LEAVE_ROOM"]
    OBVIOUS
  <2>5. f.command = e.command /\ f.arg = e.arg /\ f.next = "LEAVE_ROOM"
    BY <2>4, GoesOn, Names
  <2>6. Asked(e.command, e.arg)'
    BY <1>g, <2>1, <2>2, <2>3, HasStable DEF Requested, RoomHas
  <2>7. LobbyHas(f)'
    BY <2>5, <2>6 DEF LobbyHas
  <2>8. AtMostOne(AtTheLobby') /\ \A i \in AtTheLobby' : lobby_events'[i] = f
    BY <2>1, <2>2, <2>3, <2>4, IntoQueues
  <2> QED
    BY <2>2, <2>7, <2>8, NowAtLobby
<1>4. CASE LoadMessage
  <2>1. /\ room_events # << >> /\ room_events' = Tail(room_events) /\ ~IsTalk(Head(room_events))
        /\ Head(room_events).command = "CMD_LOAD_MESSAGE"
        /\ jobs' = Append(jobs, LoadJob(Head(room_events)))
        /\ UNCHANGED <<lobby_events, socket, pending, oldest_message_id, state>>
    BY <1>4 DEF LoadMessage, AtRoom, IsTalk, screenVars
  <2>2. /\ AtTheRoom' = {} /\ 1 \in AtTheRoom /\ pending' # NONE
        /\ AtTheLobby' = {} /\ AtTheDB = {} /\ OnTheWay' = {}
    BY <2>1, FromRoom, Passing
  <2>3. PICK e \in Requests : e = Head(room_events) /\ e = room_events[1]
    BY <2>1, Queues, Unmarked
  <2>4. PICK f : f = LoadJob(e)
    OBVIOUS
  <2>5. f.event = e /\ f.cursor = cursor_of(e.arg)
    BY <2>4, Made
  <2>6. Asked(e.command, e.arg)'
    BY <1>g, <2>1, <2>2, <2>3, HasStable DEF Requested, RoomHas
  <2>7. DBHas(f)'
    BY <2>1, <2>3, <2>5, <2>6 DEF DBHas
  <2>8. AtMostOne(AtTheDB') /\ \A i \in AtTheDB' : jobs'[i] = f
    BY <2>1, <2>2, <2>3, <2>4, IntoQueues
  <2> QED
    BY <2>2, <2>7, <2>8, NowAtDB
<1>5. CASE LeaveRoom
  <2>1. /\ room_events # << >> /\ room_events' = Tail(room_events) /\ ~IsTalk(Head(room_events))
        /\ Head(room_events).command = "CMD_LEAVE_ROOM"
        /\ socket' = Append(socket, Response(Head(room_events),
                                             IF in_room THEN "Success" ELSE "UserNotFound"))
        /\ UNCHANGED <<lobby_events, jobs, pending, oldest_message_id, state>>
    BY <1>5 DEF LeaveRoom, AtRoom, IsTalk, screenVars, dbVars
  <2>2. /\ AtTheRoom' = {} /\ 1 \in AtTheRoom /\ pending' # NONE
        /\ AtTheLobby' = {} /\ AtTheDB' = {} /\ OnTheWay = {}
    BY <2>1, FromRoom, Passing
  <2>3. PICK e \in Events : e = Head(room_events) /\ e = room_events[1]
    BY <2>1, Queues
  <2>4. PICK f : f = Response(e, IF in_room THEN "Success" ELSE "UserNotFound")
    OBVIOUS
  <2>5. f.command = "CMD_LEAVE_ROOM"
    BY <2>1, <2>3, <2>4 DEF Response
  <2>6. Asked(e.command, e.arg)'
    BY <1>g, <2>1, <2>2, <2>3, HasStable DEF Requested, RoomHas
  <2>7. WayHas(f)'
    BY <2>1, <2>3, <2>5, <2>6 DEF WayHas, Asked, Brings
  <2>8. AtMostOne(OnTheWay') /\ \A i \in OnTheWay' : socket'[i] = f
    BY <2>1, <2>2, <2>3, <2>4, IntoQueues
  <2> QED
    BY <2>2, <2>7, <2>8, NowOnTheWay
<1>6. CASE SendResponse
  <2>1. /\ room_events # << >> /\ room_events' = Tail(room_events)
        /\ Head(room_events).next = "SEND_RESPONSE"
        /\ socket' = Append(socket, Response(Head(room_events), Head(room_events).status))
        /\ UNCHANGED <<lobby_events, jobs, pending, oldest_message_id, state>>
    BY <1>6 DEF SendResponse, screenVars, dbVars
  <2>2. ~IsTalk(Head(room_events))
    BY <2>1, HeadTail DEF TalkSteps, Typed
  <2>3. /\ AtTheRoom' = {} /\ 1 \in AtTheRoom /\ pending' # NONE
        /\ AtTheLobby' = {} /\ AtTheDB' = {} /\ OnTheWay = {}
    BY <2>1, <2>2, FromRoom, Passing
  <2>4. PICK e \in Events : e = Head(room_events) /\ e = room_events[1]
    BY <2>1, Queues
  <2>5. PICK f : f = Response(e, e.status)
    OBVIOUS
  <2>6. f.command = e.command /\ f.status = e.status /\ f.body = e.body
    BY <2>5 DEF Response
  <2>7. RoomHas(e)'
    BY <1>g, <2>1, <2>3, <2>4, HasStable DEF Requested
  <2>8. WayHas(f)'
    BY <2>1, <2>4, <2>6, <2>7 DEF WayHas, RoomHas, Asked
  <2>9. AtMostOne(OnTheWay') /\ \A i \in OnTheWay' : socket'[i] = f
    BY <2>1, <2>3, <2>4, <2>5, IntoQueues
  <2> QED
    BY <2>3, <2>8, <2>9, NowOnTheWay
<1>7. CASE LobbyLeave
  <2>1. /\ lobby_events # << >> /\ lobby_events' = Tail(lobby_events)
        /\ Head(lobby_events).command = "CMD_JOIN_ROOM"
        /\ \/ jobs' = Append(jobs, LoadJob(Head(lobby_events))) /\ UNCHANGED socket
           \/ socket' = Append(socket, Response(Head(lobby_events), "UserNotFound")) /\ UNCHANGED jobs
        /\ UNCHANGED <<room_events, pending, oldest_message_id, state>>
    BY <1>7, Zenon DEF LobbyLeave, screenVars
  <2>2. /\ AtTheLobby' = {} /\ 1 \in AtTheLobby /\ pending' # NONE
        /\ AtTheRoom' = {} /\ AtTheDB = {} /\ OnTheWay = {}
    BY <2>1, FromLobby, Passing
  <2>3. PICK e \in Requests : e = Head(lobby_events) /\ e = lobby_events[1]
    BY <2>1, Queues DEF Requests, IsTalk
  <2>4. Asked(e.command, e.arg)'
    BY <1>g, <2>1, <2>2, <2>3, HasStable DEF Requested, LobbyHas
  <2>5. CASE jobs' = Append(jobs, LoadJob(Head(lobby_events))) /\ UNCHANGED socket
    <3>1. PICK f : f = LoadJob(e)
      OBVIOUS
    <3>2. f.event = e /\ f.cursor = cursor_of(e.arg)
      BY <3>1, Made
    <3>3. DBHas(f)'
      BY <2>1, <2>3, <2>4, <3>2 DEF DBHas
    <3>4. AtMostOne(AtTheDB') /\ \A i \in AtTheDB' : jobs'[i] = f
      BY <2>2, <2>3, <2>5, <3>1, IntoQueues
    <3>5. OnTheWay' = {}
      BY <2>2, <2>5, Passing
    <3> QED
      BY <2>2, <3>3, <3>4, <3>5, NowAtDB
  <2>6. CASE socket' = Append(socket, Response(Head(lobby_events), "UserNotFound")) /\ UNCHANGED jobs
    <3>1. PICK f : f = Response(e, "UserNotFound")
      OBVIOUS
    <3>2. f.command = "CMD_JOIN_ROOM" /\ f.status = "UserNotFound"
      BY <2>1, <2>3, <3>1 DEF Response
    <3>3. WayHas(f)'
      BY <2>1, <2>3, <2>4, <3>2 DEF WayHas, Asked, Brings
    <3>4. AtMostOne(OnTheWay') /\ \A i \in OnTheWay' : socket'[i] = f
      BY <2>2, <2>3, <2>6, <3>1, IntoQueues
    <3>5. AtTheDB' = {}
      BY <2>2, <2>6, Passing
    <3> QED
      BY <2>2, <3>3, <3>4, <3>5, NowOnTheWay
  <2> QED
    BY <2>1, <2>5, <2>6
<1>8. CASE LobbyJoin
  <2>1. /\ lobby_events # << >> /\ lobby_events' = Tail(lobby_events)
        /\ Head(lobby_events).command = "CMD_LEAVE_ROOM"
        /\ room_events' = Append(room_events, [Head(lobby_events) EXCEPT !.next = "LEAVE_ROOM"])
        /\ UNCHANGED <<jobs, socket, pending, oldest_message_id, state>>
    BY <1>8 DEF LobbyJoin, screenVars, dbVars
  <2>2. /\ AtTheLobby' = {} /\ 1 \in AtTheLobby /\ pending' # NONE
        /\ AtTheRoom = {} /\ AtTheDB' = {} /\ OnTheWay' = {}
    BY <2>1, FromLobby, Passing
  <2>3. PICK e \in Events : e = Head(lobby_events) /\ e = lobby_events[1]
    BY <2>1, Queues
  <2>4. PICK f : f = [e EXCEPT !.next = "LEAVE_ROOM"]
    OBVIOUS
  <2>5. f.command = e.command /\ f.arg = e.arg /\ f.next = "LEAVE_ROOM"
    BY <2>4, GoesOn, Names
  <2>6. Asked(e.command, e.arg)'
    BY <1>g, <2>1, <2>2, <2>3, HasStable DEF Requested, LobbyHas
  <2>7. RoomHas(f)'
    BY <2>5, <2>6 DEF RoomHas
  <2>8. AtMostOne(AtTheRoom') /\ \A i \in AtTheRoom' : room_events'[i] = f
    BY <2>1, <2>2, <2>3, <2>4, IntoQueues
  <2> QED
    BY <2>2, <2>7, <2>8, NowAtRoom
<1>9. CASE ProcessJob
  <2>1. /\ jobs # << >> /\ jobs' = Tail(jobs)
        /\ UNCHANGED <<lobby_events, socket, pending, oldest_message_id, state>>
    BY <1>9 DEF ProcessJob, screenVars
  <2>2. ASSUME UNCHANGED room_events PROVE OneRequest' /\ Requested'
    BY <1>k, <2>1, <2>2, Staying
  <2>3. ASSUME NEW status \in Statuses, NEW body \in Bodies, Head(jobs) \in Loads,
               room_events' = Append(room_events,
                 [Head(jobs).event EXCEPT !.next = "SEND_RESPONSE", !.status = status, !.body = body]),
               \/ body = << >> /\ status # "Success"
               \/ body = serialize(to_messages(Recent(Head(jobs).cursor)))
        PROVE  OneRequest' /\ Requested'
    <3>1. /\ AtTheDB' = {} /\ 1 \in AtTheDB /\ pending' # NONE
          /\ AtTheRoom = {} /\ AtTheLobby' = {} /\ OnTheWay' = {}
      BY <2>1, <2>3, FromDB, Passing
    <3>2. PICK job \in Loads : job = Head(jobs) /\ job = jobs[1]
      BY <2>1, <2>3, Queues
    <3>3. PICK e \in Events : e = job.event
      BY DEF Loads, Requests
    <3>4. DBHas(job)
      BY <3>1, <3>2 DEF Requested
    <3>5. Asked(e.command, e.arg) /\ job.cursor = cursor_of(e.arg) /\ e.command # "CMD_LEAVE_ROOM"
      BY <3>3, <3>4 DEF DBHas
    <3>6. PICK f : f = [e EXCEPT !.next = "SEND_RESPONSE", !.status = status, !.body = body]
      OBVIOUS
    <3>7. f.command = e.command /\ f.arg = e.arg /\ f.status = status /\ f.body = body
      BY <3>6 DEF Events
    <3>8. e.arg \in 0..Len(rows)
      BY <3>5 DEF Asked, Typed
    <3>9. Brings(e.command, status, body)
      <4>1. CASE status # "Success"
        BY <4>1 DEF Brings
      <4>2. CASE body = serialize(to_messages(Recent(cursor_of(e.arg))))
        <5>1. PICK page \in Seq(Messages) :
                page = to_messages(Recent(cursor_of(e.arg))) /\ Piece(page, e.arg)
          BY <3>8, RecentPiece
        <5>2. Shown(body) = page
          BY <4>2, <5>1, ShownMessages
        <5> QED
          BY <3>5, <5>1, <5>2 DEF Brings, Asked
      <4> QED
        BY <2>3, <3>2, <3>5, <4>1, <4>2
    <3>10. Asked(e.command, e.arg)' /\ Brings(e.command, status, body)'
      BY <1>g, <2>1, <3>5, <3>9, HasStable
    <3>11. RoomHas(f)'
      BY <3>7, <3>10 DEF RoomHas
    <3>12. AtMostOne(AtTheRoom') /\ \A i \in AtTheRoom' : room_events'[i] = f
      BY <2>3, <3>1, <3>2, <3>3, <3>6, IntoQueues
    <3> QED
      BY <3>1, <3>11, <3>12, NowAtRoom
  <2> QED
    BY <1>9, <2>2, <2>3, JobDone, Zenon
<1>10. CASE OtherSends
  <2>1. /\ room_events' = Append(room_events, Event("CMD_SEND_MESSAGE", "SEND_MESSAGE", sent + 1))
        /\ UNCHANGED <<lobby_events, jobs, socket, pending, oldest_message_id, state>>
    BY <1>10 DEF OtherSends, dbVars, screenVars
  <2>2. Event("CMD_SEND_MESSAGE", "SEND_MESSAGE", sent + 1) \notin Requests
    BY DEF Event, Requests, IsTalk
  <2> QED
    BY <1>k, <2>1, <2>2, Staying
<1>11. CASE OtherRoomSaves
  <2>1. /\ jobs' = Append(jobs, SaveJob(Elsewhere, written + 1))
        /\ UNCHANGED <<room_events, lobby_events, socket, pending, oldest_message_id, state>>
    BY <1>11 DEF OtherRoomSaves, workerVars, screenVars
  <2> QED
    BY <1>k, <2>1, Unmarked, Staying
<1>12. CASE Join
  <2>1. /\ pending = NONE /\ pending' = "CMD_JOIN_ROOM"
        /\ room_events' = Append(room_events, Event("CMD_JOIN_ROOM", "JOIN_ROOM", 0))
        /\ UNCHANGED <<lobby_events, jobs, socket>>
    BY <1>12 DEF Join, send_request, dbVars
  <2>2. AtTheRoom = {} /\ AtTheLobby' = {} /\ AtTheDB' = {} /\ OnTheWay' = {} /\ pending' # NONE
    BY <2>1, Passing DEF OneRequest, NONE
  <2>3. PICK f : f = Event("CMD_JOIN_ROOM", "JOIN_ROOM", 0)
    OBVIOUS
  <2>4. f.command = "CMD_JOIN_ROOM" /\ f.arg = 0 /\ f.next = "JOIN_ROOM"
    BY <2>3 DEF Event
  <2>5. RoomHas(f)'
    BY <2>1, <2>4 DEF RoomHas, Asked
  <2>6. AtMostOne(AtTheRoom') /\ \A i \in AtTheRoom' : room_events'[i] = f
    BY <2>1, <2>2, <2>3, IntoQueues
  <2> QED
    BY <2>2, <2>5, <2>6, NowAtRoom
<1>13. CASE Load
  <2>1. /\ pending = NONE /\ pending' = "CMD_LOAD_MESSAGE" /\ state = "IN_ROOM"
        /\ room_events' = Append(room_events,
             Event("CMD_LOAD_MESSAGE", "REQUEST_DB_LOAD_MESSAGE", oldest_message_id))
        /\ UNCHANGED <<lobby_events, jobs, socket, state, oldest_message_id>>
    BY <1>13 DEF Load, send_request, dbVars, screenVars
  <2>2. AtTheRoom = {} /\ AtTheLobby' = {} /\ AtTheDB' = {} /\ OnTheWay' = {} /\ pending' # NONE
    BY <2>1, Passing DEF OneRequest, NONE
  <2>3. PICK f : f = Event("CMD_LOAD_MESSAGE", "REQUEST_DB_LOAD_MESSAGE", oldest_message_id)
    OBVIOUS
  <2>4. f.command = "CMD_LOAD_MESSAGE" /\ f.arg = oldest_message_id /\ f.next = "REQUEST_DB_LOAD_MESSAGE"
    BY <2>3 DEF Event
  <2>5. RoomHas(f)'
    BY <2>1, <2>4 DEF RoomHas, Asked
  <2>6. AtMostOne(AtTheRoom') /\ \A i \in AtTheRoom' : room_events'[i] = f
    BY <2>1, <2>2, <2>3, IntoQueues
  <2> QED
    BY <2>2, <2>5, <2>6, NowAtRoom
<1>14. CASE Leave
  <2>1. /\ pending = NONE /\ pending' = "CMD_LEAVE_ROOM"
        /\ lobby_events' = Append(lobby_events, Event("CMD_LEAVE_ROOM", "JOIN_ROOM", 0))
        /\ UNCHANGED <<room_events, jobs, socket>>
    BY <1>14 DEF Leave, send_request, dbVars
  <2>2. AtTheLobby = {} /\ AtTheRoom' = {} /\ AtTheDB' = {} /\ OnTheWay' = {} /\ pending' # NONE
    BY <2>1, Passing DEF OneRequest, NONE
  <2>3. PICK f : f = Event("CMD_LEAVE_ROOM", "JOIN_ROOM", 0)
    OBVIOUS
  <2>4. f.command = "CMD_LEAVE_ROOM" /\ f.arg = 0 /\ f.next = "JOIN_ROOM"
    BY <2>3 DEF Event
  <2>5. LobbyHas(f)'
    BY <2>1, <2>4 DEF LobbyHas, Asked
  <2>6. AtMostOne(AtTheLobby') /\ \A i \in AtTheLobby' : lobby_events'[i] = f
    BY <2>1, <2>2, <2>3, IntoQueues
  <2> QED
    BY <2>2, <2>5, <2>6, NowAtLobby
<1>15. CASE HandleResponse
  <2>1. /\ socket # << >> /\ socket' = Tail(socket) /\ Head(socket).type = "PKT_RESPONSE"
        /\ UNCHANGED <<room_events, lobby_events, jobs>>
    BY <1>15 DEF HandleResponse, workerVars, dbVars
  <2>2. AtTheRoom' = {} /\ AtTheLobby' = {} /\ AtTheDB' = {} /\ OnTheWay' = {}
    BY <2>1, FromWay, Passing
  <2> QED
    BY <2>2 DEF OneRequest, Requested, AtMostOne
<1>16. CASE HandleBroadcast
  <2>1. /\ socket # << >> /\ socket' = Tail(socket)
        /\ UNCHANGED <<room_events, lobby_events, jobs, pending, oldest_message_id, state>>
    BY <1>16 DEF HandleBroadcast, workerVars, dbVars
  <2> QED
    BY <1>k, <2>1, Staying
<1>17. CASE UNCHANGED vars
  BY <1>k, <1>17, Staying DEF vars
<1> QED
  BY <1>1, <1>2, <1>3, <1>4, <1>5, <1>6, <1>7, <1>8, <1>9, <1>10, <1>11, <1>12, <1>13, <1>14,
     <1>15, <1>16, <1>17 DEF Next

-----------------------------------------------------------------------------
(***************************************************************************)
(* What is on the screen.                                                  *)
(***************************************************************************)
\* PagesExact, for pages and a cursor, and of one entry.
Shows(ps, oldest, i, k) ==
  /\ OfTheRoom(ps[i][k])
  /\ oldest <= ps[i][k].id
  /\ \A j \in DOMAIN ps : \A l \in DOMAIN ps[j] : Above(i, k, j, l) => ps[j][l].id < ps[i][k].id
  /\ \A n \in DOMAIN rows :
       rows[n].room = Room /\ oldest <= rows[n].id /\ rows[n].id <= ps[i][k].id =>
         \E j \in DOMAIN ps : \E l \in DOMAIN ps[j] : ps[j][l] = ToMessage(rows[n])

Exact(ps, oldest) == \A i \in DOMAIN ps : \A k \in DOMAIN ps[i] : Shows(ps, oldest, i, k)

LEMMA ExactPages == PagesExact <=> Exact(pages, oldest_message_id)
BY DEF PagesExact, Exact, Shows

\* The last of a page.
LEMMA LastOf ==
  ASSUME Typed, NEW page \in Seq(Messages), NEW arg \in 0..Len(rows), Piece(page, arg), page # << >>
  PROVE  /\ Len(page) \in DOMAIN page /\ 1 \in DOMAIN page /\ DOMAIN page = 1..Len(page)
         /\ page[Len(page)].id \in 1..Len(rows)
         /\ \A k \in DOMAIN page : page[k].id \in 1..Len(rows) /\ page[Len(page)].id <= page[k].id
         /\ arg # 0 => page[Len(page)].id < arg
         /\ \A n \in DOMAIN rows : \A k \in DOMAIN page :
              rows[n].room = Room /\ page[Len(page)].id <= n /\ (n < arg \/ n <= page[k].id) =>
                \E l \in DOMAIN page : page[l] = ToMessage(rows[n])
<1>1. PICK m \in Nat : m = Len(page) /\ DOMAIN page = 1..m /\ m # 0
  OBVIOUS
<1>2. m \in 1..m /\ 1 \in 1..m
  BY <1>1
<1>3. PICK L \in Nat : L = Len(rows) /\ DOMAIN rows = 1..L
  BY DEF Typed
<1>4. \A k \in 1..m : page[k].id \in 1..L
  BY <1>1, <1>3, EntryRow DEF Piece
<1>5. \A k, l \in 1..m : k < l => page[l].id < page[k].id
  BY <1>1 DEF Piece
<1>6. \A k \in 1..m : page[m].id <= page[k].id /\ page[k].id <= page[1].id
  <2> TAKE k \in 1..m
  <2>1. k = m \/ k < m
    BY <1>2
  <2>2. k = 1 \/ 1 < k
    BY <1>2
  <2>3. page[k].id \in Nat /\ page[m].id \in Nat /\ page[1].id \in Nat
    BY <1>2, <1>4
  <2> QED
    BY <1>2, <1>5, <2>1, <2>2, <2>3
<1>7. arg # 0 => page[m].id < arg
  BY <1>1, <1>2 DEF Piece
<1>8. ASSUME NEW n \in 1..L, NEW k \in 1..m, rows[n].room = Room, page[m].id <= n,
             n < arg \/ n <= page[k].id
      PROVE  \E l \in 1..m : page[l] = ToMessage(rows[n])
  <2>1. page[k].id \in Nat /\ page[1].id \in Nat /\ page[k].id <= page[1].id
    BY <1>2, <1>4, <1>6
  <2>2. n < arg \/ n <= page[1].id
    BY <1>8, <2>1
  <2> QED
    BY <1>1, <1>3, <1>8, <2>2 DEF Piece
<1> QED
  BY <1>1, <1>2, <1>3, <1>4, <1>6, <1>7, <1>8

\* JOIN's page alone.
LEMMA FirstPage ==
  ASSUME Typed, NEW page \in Seq(Messages), Piece(page, 0)
  PROVE  /\ Exact(<<page>>, OldestOf(0, page)) /\ OldestOf(0, page) \in 0..Len(rows)
         /\ OldestOf(0, page) = 0 => page = << >>
<1>1. PICK ps : ps = <<page>>
  OBVIOUS
<1>a. ps[1] = page
  BY <1>1
<1>b. DOMAIN ps = {1}
  <2>1. DOMAIN ps = 1..1
    BY <1>1
  <2> QED
    BY <2>1
<1>2. 0 \in 0..Len(rows)
  BY DEF Typed
<1>3. CASE page = << >>
  <2>1. OldestOf(0, page) = 0 /\ DOMAIN page = {}
    BY <1>3 DEF OldestOf
  <2>2. Exact(ps, 0)
    BY <1>a, <1>b, <2>1 DEF Exact, Shows
  <2> QED
    BY <1>1, <1>2, <1>3, <2>1, <2>2
<1>4. CASE page # << >>
  <2>1. PICK o \in 1..Len(rows) : o = page[Len(page)].id /\ o = OldestOf(0, page)
    BY <1>2, <1>4, LastOf DEF OldestOf
  <2>2. \A k \in DOMAIN page : OfTheRoom(page[k]) /\ o <= page[k].id
    BY <1>2, <1>4, <2>1, LastOf DEF Piece
  <2>3. \A i \in DOMAIN rows : rows[i].id = i
    BY DEF Typed
  <2>a. \A n \in DOMAIN rows : \A k \in DOMAIN page :
          rows[n].room = Room /\ page[Len(page)].id <= n /\ (n < 0 \/ n <= page[k].id) =>
            \E l \in DOMAIN page : page[l] = ToMessage(rows[n])
    BY <1>2, <1>4, LastOf
  <2>4. \A k \in DOMAIN page : \A n \in DOMAIN rows :
          rows[n].room = Room /\ o <= rows[n].id /\ rows[n].id <= page[k].id =>
            \E l \in DOMAIN page : page[l] = ToMessage(rows[n])
    BY <2>1, <2>3, <2>a
  <2>5. \A k, l \in DOMAIN page : Above(1, k, 1, l) => page[l].id < page[k].id
    BY DEF Piece, Above
  <2>6. Exact(ps, o)
    BY <1>a, <1>b, <2>2, <2>4, <2>5 DEF Exact, Shows
  <2> QED
    BY <1>1, <1>4, <2>1, <2>6
<1> QED
  BY <1>3, <1>4

\* An older page after the others.
LEMMA NextPage ==
  ASSUME Typed, NEW ps \in Seq(Seq(Messages)), NEW page \in Seq(Messages), NEW o \in 0..Len(rows),
         Exact(ps, o), o = 0 => \A i \in DOMAIN ps : ps[i] = << >>, Piece(page, o)
  PROVE  /\ Exact(Append(ps, page), OldestOf(o, page)) /\ OldestOf(o, page) \in 0..Len(rows)
         /\ OldestOf(o, page) = 0 => \A i \in DOMAIN Append(ps, page) : Append(ps, page)[i] = << >>
<1>1. PICK P \in Nat : P = Len(ps) /\ DOMAIN ps = 1..P
  OBVIOUS
<1>2. PICK qs : qs = Append(ps, page)
  OBVIOUS
<1>3. DOMAIN qs = 1..(P + 1) /\ qs[P + 1] = page /\ \A i \in 1..P : qs[i] = ps[i]
  BY <1>1, <1>2
<1>4. \A i \in 1..(P + 1) : i = P + 1 \/ i \in 1..P
  BY <1>1
<1>5. P + 1 \in 1..(P + 1) /\ \A i \in 1..P : i \in 1..(P + 1) /\ i < P + 1 /\ i # P + 1 /\ ~(P + 1 < i)
  BY <1>1
<1>a. rows \in Seq(TableRows) /\ \A n \in DOMAIN rows : rows[n].id = n
  BY DEF Typed
<1>b. PICK L \in Nat : L = Len(rows) /\ DOMAIN rows = 1..L
  BY <1>a
<1>6. L = Len(rows) /\ DOMAIN rows = 1..L /\ \A n \in 1..L : rows[n].id = n
  BY <1>a, <1>b
<1>c. \A i \in 1..P : \A k \in DOMAIN ps[i] : Shows(ps, o, i, k)
  BY <1>1 DEF Exact
<1>7. \A i \in 1..P : \A k \in DOMAIN ps[i] : ps[i][k].id \in 1..L /\ o <= ps[i][k].id
  BY <1>6, <1>c, EntryRow DEF Shows
<1>8. CASE page = << >>
  <2>1. OldestOf(o, page) = o /\ DOMAIN page = {}
    BY <1>8 DEF OldestOf
  <2>2. \A i \in 1..(P + 1) : \A k \in DOMAIN qs[i] : i \in 1..P
    BY <1>3, <1>4, <2>1
  <2>3. ASSUME NEW i \in 1..P, NEW k \in DOMAIN ps[i] PROVE Shows(qs, o, i, k)
    <3>1. Shows(ps, o, i, k)
      BY <1>c, <2>3
    <3>2. qs[i] = ps[i]
      BY <1>3
    <3>3. ASSUME NEW j \in 1..(P + 1), NEW l \in DOMAIN qs[j], Above(i, k, j, l)
          PROVE  qs[j][l].id < qs[i][k].id
      <4>1. j \in 1..P /\ qs[j] = ps[j]
        BY <1>3, <2>2, <3>3
      <4> QED
        BY <1>1, <3>1, <3>2, <3>3, <4>1 DEF Shows
    <3>4. ASSUME NEW n \in 1..L, rows[n].room = Room, o <= rows[n].id, rows[n].id <= qs[i][k].id
          PROVE  \E j \in 1..(P + 1) : \E l \in DOMAIN qs[j] : qs[j][l] = ToMessage(rows[n])
      <4>1. PICK j \in 1..P : \E l \in DOMAIN ps[j] : ps[j][l] = ToMessage(rows[n])
        BY <1>1, <1>6, <3>1, <3>2, <3>4 DEF Shows
      <4> QED
        BY <1>3, <1>5, <4>1
    <3> QED
      BY <1>3, <1>6, <3>1, <3>2, <3>3, <3>4 DEF Shows
  <2>4. Exact(qs, o)
    BY <1>3, <2>2, <2>3 DEF Exact
  <2>5. o = 0 => \A i \in 1..(P + 1) : qs[i] = << >>
    BY <1>1, <1>3, <1>4, <1>8
  <2> QED
    BY <1>2, <1>3, <2>1, <2>4, <2>5
<1>9. CASE page # << >>
  <2>1. PICK u \in 1..L : u = page[Len(page)].id /\ u = OldestOf(o, page)
    BY <1>6, <1>9, LastOf DEF OldestOf
  <2>b. \A k \in DOMAIN page : page[k].id \in 1..Len(rows) /\ page[Len(page)].id <= page[k].id
    BY <1>9, LastOf
  <2>a. \A k \in DOMAIN page : page[k].id \in 1..L /\ u <= page[k].id
    BY <1>6, <2>1, <2>b
  <2>2. \A k \in DOMAIN page : page[k].id \in 1..L /\ u <= page[k].id /\ OfTheRoom(page[k])
    BY <2>a DEF Piece
  <2>3. o # 0 => \A k \in DOMAIN page : page[k].id < o
    BY DEF Piece
  <2>4. \A n \in 1..L : \A k \in DOMAIN page :
          rows[n].room = Room /\ page[Len(page)].id <= n /\ (n < o \/ n <= page[k].id) =>
            \E l \in DOMAIN page : page[l] = ToMessage(rows[n])
    BY <1>6, <1>9, LastOf
  <2>5. \A n \in 1..L : \A k \in DOMAIN page :
          rows[n].room = Room /\ u <= n /\ (n < o \/ n <= page[k].id) =>
            \E l \in DOMAIN page : page[l] = ToMessage(rows[n])
    BY <2>1, <2>4
  <2>6. \A k, l \in DOMAIN page : k < l => page[l].id < page[k].id
    BY DEF Piece
  <2>7. \A i \in 1..P : \A k \in DOMAIN ps[i] : o # 0
    BY <1>1
  <2>8. u <= L /\ u >= 1 /\ o \in Nat
    BY <1>6
  <2>9. \A i \in 1..P : \A k \in DOMAIN ps[i] : u <= ps[i][k].id /\ u < o
    <3>1. Len(page) \in DOMAIN page
      BY <1>9
    <3>2. o # 0 => u < o
      BY <2>1, <2>3, <3>1
    <3> QED
      BY <1>7, <2>7, <2>8, <3>2
  <2>10. ASSUME NEW i \in 1..P, NEW k \in DOMAIN ps[i] PROVE Shows(qs, u, i, k)
    <3>1. qs[i] = ps[i] /\ o # 0 /\ u <= ps[i][k].id /\ o <= ps[i][k].id /\ ps[i][k].id \in 1..L
      BY <1>3, <1>7, <2>7, <2>9
    <3>2. Shows(ps, o, i, k)
      BY <1>c, <2>10
    <3>3. ASSUME NEW j \in 1..(P + 1), NEW l \in DOMAIN qs[j], Above(i, k, j, l)
          PROVE  qs[j][l].id < ps[i][k].id
      <4>1. CASE j \in 1..P
        BY <1>1, <1>3, <3>2, <3>3, <4>1 DEF Shows
      <4>2. CASE j = P + 1
        <5>1. qs[j] = page
          BY <1>3, <4>2
        <5>2. page[l].id < o /\ page[l].id \in 1..L
          BY <2>2, <2>3, <3>1, <3>3, <5>1
        <5> QED
          BY <2>8, <3>1, <5>1, <5>2
      <4> QED
        BY <1>4, <4>1, <4>2
    <3>4. ASSUME NEW n \in 1..L, rows[n].room = Room, u <= rows[n].id, rows[n].id <= ps[i][k].id
          PROVE  \E j \in 1..(P + 1) : \E l \in DOMAIN qs[j] : qs[j][l] = ToMessage(rows[n])
      <4>0. rows[n].id = n
        BY <1>6
      <4>1. CASE o <= n
        <5>1. PICK j \in 1..P : \E l \in DOMAIN ps[j] : ps[j][l] = ToMessage(rows[n])
          BY <1>1, <1>6, <3>2, <3>4, <4>0, <4>1 DEF Shows
        <5> QED
          BY <1>3, <1>5, <5>1
      <4>2. CASE n < o
        <5>1. Len(page) \in DOMAIN page
          BY <1>9
        <5>2. \E l \in DOMAIN page : page[l] = ToMessage(rows[n])
          BY <2>5, <3>4, <4>0, <4>2, <5>1
        <5> QED
          BY <1>3, <1>5, <5>2
      <4> QED
        BY <2>8, <4>1, <4>2
    <3> QED
      BY <1>3, <1>6, <3>1, <3>2, <3>3, <3>4 DEF Shows
  <2>11. ASSUME NEW k \in DOMAIN page PROVE Shows(qs, u, P + 1, k)
    <3>1. ASSUME NEW j \in 1..(P + 1), NEW l \in DOMAIN qs[j], Above(P + 1, k, j, l)
          PROVE  qs[j][l].id < page[k].id
      <4>1. j = P + 1 /\ k < l
        BY <1>1, <3>1 DEF Above
      <4> QED
        BY <1>3, <2>6, <3>1, <4>1
    <3>2. ASSUME NEW n \in 1..L, rows[n].room = Room, u <= rows[n].id, rows[n].id <= page[k].id
          PROVE  \E j \in 1..(P + 1) : \E l \in DOMAIN qs[j] : qs[j][l] = ToMessage(rows[n])
      <4>1. \E l \in DOMAIN page : page[l] = ToMessage(rows[n])
        BY <1>6, <2>5, <3>2
      <4> QED
        BY <1>3, <1>5, <4>1
    <3> QED
      BY <1>3, <1>6, <2>2, <3>1, <3>2 DEF Shows
  <2>12. Exact(qs, u)
    BY <1>3, <1>4, <2>10, <2>11 DEF Exact
  <2> QED
    BY <1>2, <1>6, <2>1, <2>8, <2>12
<1> QED
  BY <1>8, <1>9

\* What is on the screen stays right as the table grows.
LEMMA ScreenStable ==
  ASSUME Typed, Typed', Grown, Screen, UNCHANGED <<pages, oldest_message_id, state>>
  PROVE  Screen'
<1>0. rows \in Seq(TableRows) /\ rows' \in Seq(TableRows)
  BY DEF Typed
<1>1. PICK L \in Nat : L = Len(rows) /\ DOMAIN rows = 1..L
  BY <1>0
<1>2. oldest_message_id' \in 0..Len(rows')
  <2>1. PICK M \in Nat : M = Len(rows') /\ L <= M
    BY <1>0, <1>1 DEF Grown
  <2> QED
    BY <1>1, <2>1 DEF Screen
<1>3. ASSUME NEW i \in DOMAIN pages, NEW k \in DOMAIN pages[i]
      PROVE  /\ OfTheRoom(pages[i][k])' /\ oldest_message_id <= pages[i][k].id
             /\ \A j \in DOMAIN pages : \A l \in DOMAIN pages[j] :
                  Above(i, k, j, l) => pages[j][l].id < pages[i][k].id
             /\ \A n \in DOMAIN rows' :
                  rows'[n].room = Room /\ oldest_message_id <= rows'[n].id /\ rows'[n].id <= pages[i][k].id =>
                    \E j \in DOMAIN pages : \E l \in DOMAIN pages[j] : pages[j][l] = ToMessage(rows'[n])
  <2>1. PICK entry : entry = pages[i][k]
    OBVIOUS
  <2>2. /\ OfTheRoom(entry) /\ oldest_message_id <= entry.id
        /\ \A j \in DOMAIN pages : \A l \in DOMAIN pages[j] : Above(i, k, j, l) => pages[j][l].id < entry.id
        /\ \A n \in DOMAIN rows :
             rows[n].room = Room /\ oldest_message_id <= rows[n].id /\ rows[n].id <= entry.id =>
               \E j \in DOMAIN pages : \E l \in DOMAIN pages[j] : pages[j][l] = ToMessage(rows[n])
    BY <1>3, <2>1 DEF Screen, PagesExact
  <2>3. OfTheRoom(entry)'
    BY <2>2, RoomStable
  <2>4. entry.id \in 1..L
    BY <1>1, <2>2, EntryRow
  <2>5. ASSUME NEW n \in DOMAIN rows', rows'[n].room = Room, oldest_message_id <= rows'[n].id,
               rows'[n].id <= entry.id
        PROVE  \E j \in DOMAIN pages : \E l \in DOMAIN pages[j] : pages[j][l] = ToMessage(rows'[n])
    <3>1. rows'[n].id = n
      BY <2>5 DEF Typed
    <3>2. n \in DOMAIN rows
      <4>1. ASSUME n \in Nat, n > L PROVE FALSE
        BY <2>4, <2>5, <3>1, <4>1
      <4> QED
        BY <1>1, <2>5, <4>1 DEF Grown
    <3>3. rows'[n] = rows[n]
      BY <3>2 DEF Grown
    <3> QED
      BY <2>2, <2>5, <3>2, <3>3
  <2>6. OfTheRoom(pages[i][k])'
    BY <1>3, <2>1, <2>3
  <2> QED
    BY <2>1, <2>2, <2>5, <2>6
<1>4. PagesExact'
  BY <1>3 DEF PagesExact
<1> QED
  BY <1>2, <1>4 DEF Screen

\* New pages and a new cursor on the screen.
LEMMA NewPages ==
  ASSUME NEW ps, NEW o, Exact(ps, o), UNCHANGED rows, pages' = ps, oldest_message_id' = o
  PROVE  PagesExact'
<1>1. \A entry : OfTheRoom(entry) => OfTheRoom(entry)'
  BY DEF OfTheRoom
<1>2. \A i \in DOMAIN ps : \A k \in DOMAIN ps[i] : Shows(ps, o, i, k)
  BY DEF Exact
<1>3. ASSUME NEW i \in DOMAIN pages', NEW k \in DOMAIN pages'[i]
      PROVE  /\ OfTheRoom(pages[i][k])' /\ oldest_message_id' <= pages'[i][k].id
             /\ \A j \in DOMAIN pages' : \A l \in DOMAIN pages'[j] :
                  Above(i, k, j, l) => pages'[j][l].id < pages'[i][k].id
             /\ \A n \in DOMAIN rows' :
                  rows'[n].room = Room /\ oldest_message_id' <= rows'[n].id /\ rows'[n].id <= pages'[i][k].id =>
                    \E j \in DOMAIN pages' : \E l \in DOMAIN pages'[j] : pages'[j][l] = ToMessage(rows'[n])
  <2>1. PICK entry : entry = pages'[i][k] /\ entry = ps[i][k]
    OBVIOUS
  <2>2. Shows(ps, o, i, k)
    BY <1>2, <1>3
  <2>3. OfTheRoom(entry)'
    BY <1>1, <2>1, <2>2 DEF Shows
  <2>4. OfTheRoom(pages[i][k])'
    BY <2>1, <2>3
  <2> QED
    BY <2>1, <2>2, <2>4 DEF Shows
<1> QED
  BY <1>3 DEF PagesExact

\* The answer that is handled.
LEMMA AnswerHandled ==
  ASSUME Typed, OneRequest, Requested, HandleResponse
  PROVE  /\ Head(socket) \in Answers /\ Head(socket) = socket[1] /\ 1 \in DOMAIN socket
         /\ WayHas(Head(socket)) /\ Shown(Head(socket).body) \in Seq(Messages)
<1>1. socket # << >> /\ Head(socket).type = "PKT_RESPONSE" /\ socket' = Tail(socket)
  BY DEF HandleResponse
<1>2. 1 \in OnTheWay
  BY <1>1, FromWay
<1>3. Head(socket) = socket[1] /\ 1 \in DOMAIN socket
  BY <1>1, HeadTail DEF Typed
<1>4. socket[1] \in Answers
  BY <1>2 DEF OnTheWay, Marked
<1>5. WayHas(socket[1])
  BY <1>2 DEF Requested
<1>6. Shown(socket[1].body) \in Seq(Messages)
  BY <1>4, ShownMessages DEF Answers
<1> QED
  BY <1>3, <1>4, <1>5, <1>6

\* Every step keeps the screen right.
LEMMA StepScreen ==
  ASSUME Typed, Typed', OneRequest, Requested, Screen, [Next]_vars
  PROVE  Screen'
<1>1. CASE HandleResponse
  <2>1. PICK res \in Answers : /\ res = Head(socket) /\ WayHas(res)
                               /\ Shown(res.body) \in Seq(Messages)
    BY <1>1, AnswerHandled
  <2>2. PICK page \in Seq(Messages) : page = Shown(res.body)
    BY <2>1
  <2>3. UNCHANGED rows
    BY <1>1 DEF HandleResponse, dbVars
  <2>4. PICK o \in 0..Len(rows) : o = oldest_message_id
    BY DEF Screen
  <2>5. CASE UNCHANGED screenVars
    <3>1. Grown
      BY StepGrown
    <3> QED
      BY <2>5, <3>1, ScreenStable DEF screenVars
  <2>6. CASE /\ res.status = "Success" /\ res.command = "CMD_JOIN_ROOM" /\ state' = "IN_ROOM"
             /\ pages' = <<page>> /\ oldest_message_id' = OldestOf(0, page)
    <3>1. Piece(page, 0)
      BY <2>1, <2>2, <2>6 DEF WayHas, Brings
    <3>2. PICK u \in 0..Len(rows) : u = OldestOf(0, page) /\ Exact(<<page>>, u) /\ (u = 0 => page = << >>)
      BY <3>1, FirstPage
    <3>3. PICK ps : ps = <<page>>
      OBVIOUS
    <3>4. PagesExact'
      BY <2>3, <2>6, <3>2, <3>3, NewPages
    <3>5. ps # << >> /\ \A i \in DOMAIN ps : ps[i] = page
      BY <3>3
    <3> QED
      BY <2>3, <2>6, <3>2, <3>3, <3>4, <3>5 DEF Screen
  <2>7. CASE /\ res.status = "Success" /\ res.command = "CMD_LOAD_MESSAGE" /\ UNCHANGED state
             /\ pages' = Append(pages, page) /\ oldest_message_id' = OldestOf(oldest_message_id, page)
    <3>1. Piece(page, o)
      BY <2>1, <2>2, <2>4, <2>7 DEF WayHas, Brings
    <3>2. pages \in Seq(Seq(Messages))
      BY DEF Typed
    <3>3. Exact(pages, o) /\ (o = 0 => \A i \in DOMAIN pages : pages[i] = << >>)
      BY <2>4, ExactPages DEF Screen
    <3>4. PICK ps : ps = Append(pages, page)
      OBVIOUS
    <3>5. PICK u \in 0..Len(rows) : /\ u = OldestOf(o, page) /\ Exact(ps, u)
                                    /\ (u = 0 => \A i \in DOMAIN ps : ps[i] = << >>)
      BY <3>1, <3>2, <3>3, <3>4, NextPage
    <3>6. PagesExact'
      BY <2>3, <2>4, <2>7, <3>4, <3>5, NewPages
    <3>7. ps # << >>
      BY <3>2, <3>4
    <3> QED
      BY <2>3, <2>4, <2>7, <3>4, <3>5, <3>6, <3>7 DEF Screen
  <2>8. CASE state' = "LOBBY" /\ pages' = << >> /\ oldest_message_id' = 0
    <3>1. 0 \in 0..Len(rows')
      BY DEF Typed
    <3> QED
      BY <2>8, <3>1 DEF Screen, PagesExact
  <2> QED
    BY <1>1, <2>1, <2>2, <2>5, <2>6, <2>7, <2>8 DEF HandleResponse
<1>2. CASE ~HandleResponse
  <2>1. UNCHANGED <<pages, oldest_message_id, state>>
    BY <1>2 DEF Next, vars, SendMessage, SaveMessage, JoinRoom, LoadMessage, LeaveRoom, SendResponse,
                LobbyLeave, LobbyJoin, ProcessJob, OtherSends, OtherRoomSaves, Join, Load, Leave,
                HandleBroadcast, screenVars
  <2>2. Grown
    BY StepGrown
  <2> QED
    BY <2>1, <2>2, ScreenStable
<1> QED
  BY <1>1, <1>2

-----------------------------------------------------------------------------
(***************************************************************************)
(* Live messages are newer than JOIN's page.                               *)
(***************************************************************************)
\* The message at the room's worker is newer than every row of the room.
LEMMA TalkIsNewer ==
  ASSUME Typed, InOrder, room_events # << >>, IsTalk(Head(room_events)),
         NEW page, \A k \in DOMAIN page : OfTheRoom(page[k])
  PROVE  Older(page, Head(room_events).arg)
<1>1. Head(room_events) = room_events[1] /\ 1 \in DOMAIN room_events
  BY HeadTail DEF Typed
<1>2. ASSUME NEW k \in DOMAIN page PROVE MessageOf(page[k]) < room_events[1].arg
  <2>1. PICK entry : entry = page[k] /\ OfTheRoom(entry)
    BY <1>2
  <2>2. PICK n \in DOMAIN rows : rows[n].room = Room /\ MessageOf(entry) = rows[n].msg
    BY <2>1, EntryRow
  <2>3. IsTalk(room_events[1])
    BY <1>1
  <2>4. rows[n].msg < room_events[1].arg
    BY <1>1, <2>2, <2>3 DEF InOrder
  <2> QED
    BY <2>1, <2>2, <2>4
<1> QED
  BY <1>1, <1>2 DEF Older

\* One packet more.
LEMMA NewerAppend ==
  ASSUME Typed, Newer, NEW p, socket' = Append(socket, p), UNCHANGED <<pages, live>>,
         IsNews(p) => \A i \in DOMAIN socket : Welcome(socket[i]) => Older(Shown(socket[i].body), p.msg),
         IsNews(p) /\ pages # << >> => Older(pages[1], p.msg)
  PROVE  Newer'
<1>1. socket \in Seq(Answers \cup News)
  BY DEF Typed
<1>2. PICK n \in Nat : n = Len(socket) /\ DOMAIN socket = 1..n
  BY <1>1
<1>3. PICK q : q = socket'
  OBVIOUS
<1>4. DOMAIN q = 1..(n + 1) /\ q[n + 1] = p /\ \A i \in 1..n : q[i] = socket[i]
  BY <1>1, <1>2, <1>3
<1>5. \A i \in 1..(n + 1) : i = n + 1 \/ i \in 1..n
  BY <1>2
<1>6. ASSUME NEW i \in 1..(n + 1), NEW j \in 1..(n + 1), i < j, Welcome(q[i]), IsNews(q[j])
      PROVE  Older(Shown(q[i].body), q[j].msg)
  <2>1. i \in 1..n /\ q[i] = socket[i]
    BY <1>2, <1>4, <1>6
  <2>2. CASE j \in 1..n
    BY <1>2, <1>4, <1>6, <2>1, <2>2 DEF Newer
  <2>3. CASE j = n + 1
    BY <1>2, <1>4, <1>6, <2>1, <2>3
  <2> QED
    BY <1>5, <2>2, <2>3
<1>7. pages # << >> => \A j \in 1..(n + 1) : IsNews(q[j]) => Older(pages[1], q[j].msg)
  BY <1>2, <1>4, <1>5 DEF Newer
<1>8. pages # << >> => \A j \in DOMAIN live : Older(pages[1], live[j])
  BY DEF Newer
<1> QED
  BY <1>3, <1>4, <1>6, <1>7, <1>8 DEF Newer

\* One packet less.
LEMMA NewerTail ==
  ASSUME Typed, Newer, socket # << >>, NEW q, q = Tail(socket)
  PROVE  /\ \A i, j \in DOMAIN q :
              i < j /\ Welcome(q[i]) /\ IsNews(q[j]) => Older(Shown(q[i].body), q[j].msg)
         /\ pages # << >> => \A j \in DOMAIN q : IsNews(q[j]) => Older(pages[1], q[j].msg)
         /\ Welcome(socket[1]) => \A j \in DOMAIN q : IsNews(q[j]) => Older(Shown(socket[1].body), q[j].msg)
<1>1. socket \in Seq(Answers \cup News)
  BY DEF Typed
<1>2. PICK n \in Nat : n + 1 = Len(socket) /\ DOMAIN socket = 1..(n + 1)
  <2>1. Len(socket) \in Nat \ {0} /\ DOMAIN socket = 1..Len(socket)
    BY <1>1
  <2>2. Len(socket) - 1 \in Nat /\ (Len(socket) - 1) + 1 = Len(socket)
    BY <2>1
  <2> QED
    BY <2>1, <2>2
<1>3. DOMAIN q = 1..n /\ \A i \in 1..n : q[i] = socket[i + 1]
  BY <1>1, <1>2
<1>4. 1 \in 1..(n + 1) /\ \A i \in 1..n : i + 1 \in 1..(n + 1) /\ 1 < i + 1
  BY <1>2
<1>5. \A i, j \in 1..n : i < j => i + 1 < j + 1
  BY <1>2
<1>6. \A i, j \in 1..(n + 1) :
        i < j /\ Welcome(socket[i]) /\ IsNews(socket[j]) => Older(Shown(socket[i].body), socket[j].msg)
  BY <1>2 DEF Newer
<1>7. pages # << >> => \A j \in 1..(n + 1) : IsNews(socket[j]) => Older(pages[1], socket[j].msg)
  BY <1>2 DEF Newer
<1> QED
  BY <1>3, <1>4, <1>5, <1>6, <1>7

\* Every step keeps it so.
LEMMA StepNewer ==
  ASSUME Typed, Ordered, OneRequest, Requested, Screen, Newer, [Next]_vars
  PROVE  Newer'
<1>p. \A i \in DOMAIN pages : \A k \in DOMAIN pages[i] : OfTheRoom(pages[i][k])
  BY DEF Screen, PagesExact
<1>w. \A i \in DOMAIN socket :
        Welcome(socket[i]) => \A k \in DOMAIN Shown(socket[i].body) : OfTheRoom(Shown(socket[i].body)[k])
  <2> TAKE i \in DOMAIN socket
  <2> HAVE Welcome(socket[i])
  <2>1. PICK res : res = socket[i] /\ Welcome(res)
    OBVIOUS
  <2>2. res \in Answers \cup News
    BY <2>1 DEF Typed
  <2>3. res \in Answers
    BY <2>1, <2>2 DEF Welcome, News
  <2>4. WayHas(res)
    BY <2>1, <2>3 DEF Requested, OnTheWay, Marked
  <2>5. Piece(Shown(res.body), 0)
    BY <2>1, <2>4 DEF WayHas, Brings, Welcome
  <2> QED
    BY <2>1, <2>5 DEF Piece
<1>a. ASSUME NEW e \in Events, NEW s \in Statuses, socket' = Append(socket, Response(e, s)),
             UNCHANGED <<pages, live>>
      PROVE  Newer'
  <2>1. ~IsNews(Response(e, s))
    BY DEF IsNews, Response
  <2> QED
    BY <1>a, <2>1, NewerAppend
<1>u. ASSUME UNCHANGED <<socket, pages, live>> PROVE Newer'
  BY <1>u DEF Newer
<1>1. CASE SendMessage
  <2>1. /\ room_events # << >> /\ IsTalk(Head(room_events)) /\ UNCHANGED <<pages, live>>
        /\ socket' = socket \/ socket' = Append(socket, Broadcast(Head(room_events).arg))
    BY <1>1 DEF SendMessage, AtRoom, IsTalk, screenVars
  <2>2. CASE socket' = Append(socket, Broadcast(Head(room_events).arg))
    <3>a. PICK m : m = Head(room_events).arg
      OBVIOUS
    <3>b. Broadcast(m).msg = m
      BY DEF Broadcast
    <3>1. PICK p : p = Broadcast(Head(room_events).arg) /\ p.msg = Head(room_events).arg
      BY <3>a, <3>b
    <3>2. InOrder
      BY DEF Ordered
    <3>3. \A i \in DOMAIN socket : Welcome(socket[i]) => Older(Shown(socket[i].body), p.msg)
      BY <1>w, <2>1, <3>1, <3>2, TalkIsNewer
    <3>4. pages # << >> => 1 \in DOMAIN pages
      BY DEF Typed
    <3>5. pages # << >> => Older(pages[1], p.msg)
      BY <1>p, <2>1, <3>1, <3>2, <3>4, TalkIsNewer
    <3> QED
      BY <2>1, <2>2, <3>1, <3>3, <3>5, NewerAppend
  <2> QED
    BY <1>u, <2>1, <2>2
<1>2. CASE LeaveRoom
  <2>1. room_events # << >> /\ UNCHANGED <<pages, live>>
    BY <1>2 DEF LeaveRoom, AtRoom, screenVars
  <2>2. PICK s \in Statuses : socket' = Append(socket, Response(Head(room_events), s))
    BY <1>2 DEF LeaveRoom, Statuses
  <2>3. Head(room_events) \in Events
    BY <2>1, Queues
  <2> QED
    BY <1>a, <2>1, <2>2, <2>3
<1>3. CASE SendResponse
  <2>1. /\ room_events # << >> /\ UNCHANGED <<pages, live>>
        /\ socket' = Append(socket, Response(Head(room_events), Head(room_events).status))
    BY <1>3 DEF SendResponse, screenVars
  <2>2. Head(room_events) \in Events
    BY <2>1, Queues
  <2>3. Head(room_events).status \in Statuses
    BY <2>2 DEF Events
  <2> QED
    BY <1>a, <2>1, <2>2, <2>3
<1>4. CASE LobbyLeave
  <2>1. /\ lobby_events # << >> /\ UNCHANGED <<pages, live>>
        /\ UNCHANGED socket \/ socket' = Append(socket, Response(Head(lobby_events), "UserNotFound"))
    BY <1>4, Zenon DEF LobbyLeave, screenVars
  <2>2. Head(lobby_events) \in Events
    BY <2>1, Queues
  <2>3. "UserNotFound" \in Statuses
    BY DEF Statuses
  <2> QED
    BY <1>a, <1>u, <2>1, <2>2, <2>3
<1>5. CASE HandleResponse
  <2>1. PICK res \in Answers : res = Head(socket) /\ res = socket[1] /\ WayHas(res)
    BY <1>5, AnswerHandled
  <2>2. PICK page : page = Shown(res.body)
    OBVIOUS
  <2>3. socket # << >> /\ socket' = Tail(socket) /\ res.type = "PKT_RESPONSE"
    BY <1>5, <2>1 DEF HandleResponse
  <2>4. /\ \A i, j \in DOMAIN socket' :
             i < j /\ Welcome(socket'[i]) /\ IsNews(socket'[j]) => Older(Shown(socket'[i].body), socket'[j].msg)
        /\ pages # << >> => \A j \in DOMAIN socket' : IsNews(socket'[j]) => Older(pages[1], socket'[j].msg)
        /\ Welcome(socket[1]) =>
             \A j \in DOMAIN socket' : IsNews(socket'[j]) => Older(Shown(socket[1].body), socket'[j].msg)
    BY <2>3, NewerTail
  <2>5. CASE UNCHANGED screenVars
    BY <2>4, <2>5 DEF screenVars, Newer
  <2>6. CASE /\ res.status = "Success" /\ res.command = "CMD_JOIN_ROOM"
             /\ pages' = <<page>> /\ live' = << >>
    <3>1. Welcome(socket[1])
      BY <2>1, <2>3, <2>6 DEF Welcome
    <3>2. pages'[1] = page /\ DOMAIN live' = {}
      BY <2>6
    <3>3. \A j \in DOMAIN socket' : IsNews(socket'[j]) => Older(page, socket'[j].msg)
      BY <2>1, <2>2, <2>4, <3>1
    <3> QED
      BY <2>4, <3>2, <3>3 DEF Newer
  <2>7. CASE /\ res.status = "Success" /\ res.command = "CMD_LOAD_MESSAGE" /\ UNCHANGED live
             /\ pages' = Append(pages, page)
    <3>1. pages # << >>
      BY <2>1, <2>7 DEF WayHas, Screen
    <3>2. pages'[1] = pages[1]
      BY <2>7, <3>1 DEF Typed
    <3> QED
      BY <2>4, <2>7, <3>1, <3>2 DEF Newer
  <2>8. CASE pages' = << >>
    BY <2>4, <2>8 DEF Newer
  <2> QED
    BY <1>5, <2>1, <2>2, <2>5, <2>6, <2>7, <2>8 DEF HandleResponse
<1>6. CASE HandleBroadcast
  <2>1. /\ socket # << >> /\ socket' = Tail(socket) /\ UNCHANGED pages /\ IsNews(Head(socket))
        /\ live' = Append(live, Head(socket).msg) \/ live' = live
    BY <1>6 DEF HandleBroadcast, IsNews
  <2>2. /\ \A i, j \in DOMAIN socket' :
             i < j /\ Welcome(socket'[i]) /\ IsNews(socket'[j]) => Older(Shown(socket'[i].body), socket'[j].msg)
        /\ pages # << >> => \A j \in DOMAIN socket' : IsNews(socket'[j]) => Older(pages[1], socket'[j].msg)
    BY <2>1, NewerTail
  <2>3. Head(socket) = socket[1] /\ 1 \in DOMAIN socket
    BY <2>1, HeadTail DEF Typed
  <2>4. PICK m : m = Head(socket).msg
    OBVIOUS
  <2>5. pages # << >> => Older(pages[1], m) /\ \A j \in DOMAIN live : Older(pages[1], live[j])
    BY <2>1, <2>3, <2>4 DEF Newer
  <2>6. \A j \in DOMAIN live' : live'[j] = m \/ (j \in DOMAIN live /\ live'[j] = live[j])
    <3>1. CASE live' = live
      BY <3>1
    <3>2. CASE live' = Append(live, m)
      <4>2. live \in Seq(Int)
        BY DEF Typed
      <4>1. PICK n \in Nat : n = Len(live) /\ DOMAIN live = 1..n
        BY <4>2
      <4>3. DOMAIN live' = 1..(n + 1) /\ live'[n + 1] = m /\ \A j \in 1..n : live'[j] = live[j]
        BY <3>2, <4>1, <4>2
      <4>4. \A j \in 1..(n + 1) : j = n + 1 \/ j \in 1..n
        BY <4>1
      <4> QED
        BY <4>1, <4>3, <4>4
    <3> QED
      BY <2>1, <2>4, <3>1, <3>2
  <2>7. pages # << >> => \A j \in DOMAIN live' : Older(pages[1], live'[j])
    BY <2>5, <2>6
  <2> QED
    BY <2>1, <2>2, <2>7 DEF Newer
<1>7. CASE UNCHANGED vars
  BY <1>u, <1>7 DEF vars
<1>8. CASE SaveMessage \/ JoinRoom \/ LoadMessage \/ LobbyJoin \/ ProcessJob \/ OtherSends
           \/ OtherRoomSaves \/ Join \/ Load \/ Leave
  <2>1. UNCHANGED <<socket, pages, live>>
    BY <1>8 DEF SaveMessage, JoinRoom, LoadMessage, LobbyJoin, ProcessJob, OtherSends,
                OtherRoomSaves, Join, Load, Leave, screenVars
  <2> QED
    BY <1>u, <2>1
<1> QED
  BY <1>1, <1>2, <1>3, <1>4, <1>5, <1>6, <1>7, <1>8 DEF Next

-----------------------------------------------------------------------------
(***************************************************************************)
(* The theorems about the screen.                                          *)
(***************************************************************************)
\* The inductive invariant: what the queues hold, the order of the messages, the one
\* request, the screen, and what is still to come behind JOIN's page.
HistoryInv == Typed /\ Ordered /\ OneRequest /\ Requested /\ Screen /\ Newer

LEMMA InitHistory == Init => HistoryInv
<1> SUFFICES ASSUME Init PROVE HistoryInv
  OBVIOUS
<1>1. Typed /\ Ordered
  BY InitOrdered
<1>2. AtTheRoom = {} /\ AtTheLobby = {} /\ AtTheDB = {} /\ OnTheWay = {}
  BY DEF Init, AtTheRoom, AtTheLobby, AtTheDB, OnTheWay, Marked
<1>3. OneRequest /\ Requested
  BY <1>2 DEF OneRequest, Requested, AtMostOne
<1>4. Screen /\ Newer
  BY DEF Init, Screen, PagesExact, Newer
<1> QED
  BY <1>1, <1>3, <1>4 DEF HistoryInv

LEMMA StepHistory ==
  ASSUME HistoryInv, [Next]_vars
  PROVE  HistoryInv'
<1>1. Typed /\ Ordered /\ OneRequest /\ Requested /\ Screen /\ Newer
  BY DEF HistoryInv
<1>2. Typed'
  BY <1>1, StepTyped
<1>3. Ordered'
  BY <1>1, StepOrdered
<1>4. OneRequest' /\ Requested'
  BY <1>1, StepRequest DEF Ordered, Screen
<1>5. Screen'
  BY <1>1, <1>2, StepScreen
<1>6. Newer'
  BY <1>1, StepNewer
<1> QED
  BY <1>2, <1>3, <1>4, <1>5, <1>6 DEF HistoryInv

LEMMA AlwaysHistory == Spec => []HistoryInv
BY InitHistory, StepHistory, PTL DEF Spec

\* Whatever the client has paged through with JOIN and /load is one piece of the room's
\* table, none left out, shown twice or taken from another room (Client::print_history,
\* RoomWorker::request_db_load_message, MessageRepository): for every page size, and
\* however many messages are stored meanwhile, twice or not at all.
THEOREM PagesComplete == Spec => []PagesExact
<1>1. HistoryInv => PagesExact
  BY DEF HistoryInv, Screen
<1> QED
  BY <1>1, AlwaysHistory, PTL

\* A message seen live is not seen again in a page, when JOIN's own page was not empty
\* (the cursor that Client keeps, against the order of SEND_MESSAGE and the database).
THEOREM SeenOnce == Spec => []NoneShownTwice
<1>1. ASSUME HistoryInv, pages # << >>, Head(pages) # << >>, NEW i \in DOMAIN pages,
             NEW k \in DOMAIN pages[i], MessageOf(pages[i][k]) \in ToSet(live)
      PROVE  FALSE
  <2>1. pages \in Seq(Seq(Messages)) /\ live \in Seq(Int) /\ Typed /\ PagesExact /\ Newer /\ StoredInOrder
    BY <1>1 DEF HistoryInv, Typed, Screen, Ordered
  <2>2. 1 \in DOMAIN pages /\ pages[1] # << >> /\ pages[1] \in Seq(Messages)
    BY <1>1, <2>1
  <2>3. 1 \in DOMAIN pages[1]
    BY <2>2
  <2>4. PICK first : first = pages[1][1] /\ OfTheRoom(first)
    BY <2>1, <2>2, <2>3 DEF PagesExact
  <2>5. PICK entry : entry = pages[i][k] /\ OfTheRoom(entry)
    BY <1>1, <2>1 DEF PagesExact
  <2>6. PICK j \in DOMAIN live : live[j] = MessageOf(entry)
    BY <1>1, <2>5 DEF ToSet
  <2>7. MessageOf(first) < MessageOf(entry)
    BY <1>1, <2>1, <2>3, <2>4, <2>6 DEF Newer, Older
  <2>8. entry = first \/ entry.id < first.id
    <3>1. i \in Nat /\ i >= 1 /\ k \in Nat /\ k >= 1
      BY <1>1, <2>1
    <3>2. (i = 1 /\ k = 1) \/ Above(1, 1, i, k)
      BY <3>1 DEF Above
    <3> QED
      BY <1>1, <2>1, <2>2, <2>3, <2>4, <2>5, <3>2 DEF PagesExact
  <2>9. /\ first.id \in DOMAIN rows /\ rows[first.id].room = Room /\ MessageOf(first) = rows[first.id].msg
        /\ MessageOf(first) \in Int
    BY <2>1, <2>4, EntryRow
  <2>10. /\ entry.id \in DOMAIN rows /\ rows[entry.id].room = Room /\ MessageOf(entry) = rows[entry.id].msg
         /\ MessageOf(entry) \in Int
    BY <2>1, <2>5, EntryRow
  <2>11. MessageOf(entry) <= MessageOf(first)
    BY <2>1, <2>8, <2>9, <2>10 DEF StoredInOrder
  <2> QED
    BY <2>7, <2>9, <2>10, <2>11
<1>2. HistoryInv => NoneShownTwice
  BY <1>1 DEF NoneShownTwice
<1> QED
  BY <1>2, AlwaysHistory, PTL

-----------------------------------------------------------------------------
(***************************************************************************)
(* The bounds: no id is above MaxId.                                       *)
(***************************************************************************)
LEMMA MarkedFinite ==
  ASSUME NEW S, NEW q, IsSeq(q)
  PROVE  IsFiniteSet(Marked(q, S)) /\ Cardinality(Marked(q, S)) \in Nat
<1>1. Len(q) \in Nat /\ DOMAIN q = 1..Len(q)
  BY AppendIs
<1>2. IsFiniteSet(1..Len(q))
  BY <1>1, FS_Interval
<1>3. Marked(q, S) \in SUBSET (1..Len(q))
  BY <1>1 DEF Marked
<1>4. IsFiniteSet(Marked(q, S))
  BY <1>2, <1>3, FS_Subset
<1> QED
  BY <1>4, FS_CardinalityType

\* How many there are, with one more and with one less.
LEMMA CountAppend ==
  ASSUME NEW S, NEW q, IsSeq(q), NEW e
  PROVE  /\ e \notin S => Cardinality(Marked(Append(q, e), S)) = Cardinality(Marked(q, S))
         /\ Cardinality(Marked(Append(q, e), S)) <= Cardinality(Marked(q, S)) + 1
<1>1. e \notin S => Marked(Append(q, e), S) = Marked(q, S)
  BY MarkedAppend
<1>2. IsFiniteSet(Marked(q, S)) /\ Cardinality(Marked(q, S)) \in Nat
  BY MarkedFinite
<1>3. IsSeq(Append(q, e)) /\ Len(q) \in Nat /\ DOMAIN q = 1..Len(q)
  BY AppendIs
<1>4. PICK T : T = Marked(q, S) \cup {Len(q) + 1}
  OBVIOUS
<1>5. IsFiniteSet(T) /\ Cardinality(T) <= Cardinality(Marked(q, S)) + 1 /\ Cardinality(T) \in Nat
  BY <1>2, <1>4, FS_AddElement, FS_CardinalityType
<1>6. Marked(Append(q, e), S) \subseteq T
  <2>1. /\ DOMAIN Append(q, e) = 1..(Len(q) + 1)
        /\ \A i \in DOMAIN q : Append(q, e)[i] = q[i]
    BY AppendIs
  <2>2. \A i \in 1..(Len(q) + 1) : i \in 1..Len(q) \/ i = Len(q) + 1
    BY <1>3
  <2> QED
    BY <1>3, <1>4, <2>1, <2>2 DEF Marked
<1>7. Cardinality(Marked(Append(q, e), S)) <= Cardinality(T)
  BY <1>5, <1>6, FS_Subset
<1>8. Cardinality(Marked(Append(q, e), S)) \in Nat
  BY <1>3, MarkedFinite
<1> QED
  BY <1>1, <1>2, <1>5, <1>7, <1>8

LEMMA CountTail ==
  ASSUME NEW S, NEW q, IsSeq(q), q # << >>
  PROVE  /\ Cardinality(Marked(Tail(q), S)) <= Cardinality(Marked(q, S))
         /\ q[1] \in S => Cardinality(Marked(Tail(q), S)) + 1 <= Cardinality(Marked(q, S))
<1>1. IsFiniteSet(Marked(q, S)) /\ Cardinality(Marked(q, S)) \in Nat
  BY MarkedFinite
<1>2. PICK T : T = Marked(q, S) \ {1}
  OBVIOUS
<1>3. /\ IsFiniteSet(T) /\ Cardinality(T) \in Nat
      /\ Cardinality(T) = IF 1 \in Marked(q, S) THEN Cardinality(Marked(q, S)) - 1 ELSE Cardinality(Marked(q, S))
  BY <1>1, <1>2, FS_RemoveElement, FS_CardinalityType
<1>4. \A i \in Marked(Tail(q), S) : i + 1 \in T /\ i \in Nat
  <2>1. \A i \in Marked(Tail(q), S) : i + 1 \in Marked(q, S)
    BY MarkedTail
  <2>2. Len(q) \in Nat \ {0} /\ DOMAIN Tail(q) = 1..(Len(q) - 1)
    BY TailIs
  <2>3. \A i \in 1..(Len(q) - 1) : i \in Nat /\ i + 1 # 1
    BY <2>2
  <2> QED
    BY <1>2, <2>1, <2>2, <2>3 DEF Marked
<1>5. PICK f : f = [i \in Marked(Tail(q), S) |-> i + 1]
  OBVIOUS
<1>6. f \in [Marked(Tail(q), S) -> T] /\ \A a, b \in DOMAIN f : f[a] = f[b] => a = b
  BY <1>4, <1>5
<1>7. f \in Injection(Marked(Tail(q), S), T)
  BY <1>6 DEF Injection, IsInjective
<1>8. Cardinality(Marked(Tail(q), S)) <= Cardinality(T)
  BY <1>3, <1>7, FS_Injection
<1>9. IsSeq(Tail(q)) /\ (q[1] \in S => 1 \in Marked(q, S))
  BY TailIs, MarkedTail
<1>10. Cardinality(Marked(Tail(q), S)) \in Nat
  BY <1>9, MarkedFinite
<1> QED
  BY <1>1, <1>3, <1>8, <1>9, <1>10

Talks == {e \in Events : IsTalk(e)}

\* The messages still to be stored.
ToSend == Cardinality(Marked(room_events, Talks))
ToSave == Cardinality(Marked(jobs, Saves))

\* Each is stored twice at most.
Budget == Len(rows) + 2 * ToSave + 2 * ToSend <= 2 * (sent + written)

LEMMA BudgetTypes ==
  ASSUME Typed
  PROVE  ToSend \in Nat /\ ToSave \in Nat /\ Len(rows) \in Nat /\ sent \in Nat /\ written \in Nat
<1>1. IsSeq(room_events) /\ IsSeq(jobs)
  BY Queues
<1>2. ToSend \in Nat /\ ToSave \in Nat
  BY <1>1, MarkedFinite DEF ToSend, ToSave
<1> QED
  BY <1>2 DEF Typed

\* What is added to a queue or taken from it.
LEMMA BudgetParts ==
  ASSUME Typed
  PROVE  /\ UNCHANGED room_events => ToSend' = ToSend
         /\ UNCHANGED jobs => ToSave' = ToSave
         /\ room_events # << >> /\ room_events' = Tail(room_events) => ToSend' <= ToSend
         /\ room_events # << >> /\ room_events' = Tail(room_events) /\ IsTalk(Head(room_events)) =>
              ToSend' + 1 <= ToSend
         /\ jobs # << >> /\ jobs' = Tail(jobs) => ToSave' <= ToSave
         /\ jobs # << >> /\ jobs' = Tail(jobs) /\ Head(jobs) \in Saves => ToSave' + 1 <= ToSave
         /\ \A e : room_events' = Append(room_events, e) =>
              ToSend' <= ToSend + 1 /\ (e \notin Talks => ToSend' = ToSend)
         /\ \A e : jobs' = Append(jobs, e) => ToSave' <= ToSave + 1 /\ (e \notin Saves => ToSave' = ToSave)
<1>1. IsSeq(room_events) /\ IsSeq(jobs)
  BY Queues
<1>2. UNCHANGED room_events => ToSend' = ToSend
  BY DEF ToSend, Marked
<1>3. UNCHANGED jobs => ToSave' = ToSave
  BY DEF ToSave, Marked
<1>4. room_events # << >> /\ IsTalk(Head(room_events)) => room_events[1] \in Talks
  BY Queues DEF Talks
<1>5. jobs # << >> => Head(jobs) = jobs[1]
  BY Queues
<1>6. /\ room_events # << >> /\ room_events' = Tail(room_events) => ToSend' <= ToSend
      /\ room_events # << >> /\ room_events' = Tail(room_events) /\ room_events[1] \in Talks =>
           ToSend' + 1 <= ToSend
  BY <1>1, CountTail DEF ToSend
<1>7. /\ jobs # << >> /\ jobs' = Tail(jobs) => ToSave' <= ToSave
      /\ jobs # << >> /\ jobs' = Tail(jobs) /\ jobs[1] \in Saves => ToSave' + 1 <= ToSave
  BY <1>1, CountTail DEF ToSave
<1>8. \A e : room_events' = Append(room_events, e) =>
        ToSend' <= ToSend + 1 /\ (e \notin Talks => ToSend' = ToSend)
  BY <1>1, CountAppend DEF ToSend
<1>9. \A e : jobs' = Append(jobs, e) => ToSave' <= ToSave + 1 /\ (e \notin Saves => ToSave' = ToSave)
  BY <1>1, CountAppend DEF ToSave
<1> QED
  BY <1>2, <1>3, <1>4, <1>5, <1>6, <1>7, <1>8, <1>9

\* No message is stored more than twice.
LEMMA StepBudget ==
  ASSUME Typed, Typed', Budget, [Next]_vars
  PROVE  Budget'
<1>t. /\ ToSend \in Nat /\ ToSave \in Nat /\ Len(rows) \in Nat /\ sent \in Nat /\ written \in Nat
  BY BudgetTypes
<1>u. ToSend' \in Nat /\ ToSave' \in Nat /\ sent' \in Nat /\ written' \in Nat
  <2>1. IsSeq(room_events') /\ IsSeq(jobs')
    BY DEF Typed, IsSeq
  <2>2. ToSend' \in Nat /\ ToSave' \in Nat
    BY <2>1, MarkedFinite DEF ToSend, ToSave
  <2> QED
    BY <2>2 DEF Typed
<1>k. ASSUME UNCHANGED <<rows, sent, written>>, ToSave' <= ToSave, ToSend' <= ToSend PROVE Budget'
  BY <1>k, <1>t, <1>u DEF Budget
<1>1. CASE SendMessage
  <2>1. /\ room_events # << >> /\ room_events' = [room_events EXCEPT ![1].next = "SAVE_MESSAGE"]
        /\ UNCHANGED <<jobs, rows, sent, written>>
    BY <1>1 DEF SendMessage, AtRoom, dbVars, countVars
  <2>2. PICK q : q = room_events'
    OBVIOUS
  <2>3. "SAVE_MESSAGE" \in Steps
    BY Names
  <2>a. q \in Seq(Events)
    BY <2>1, <2>2, <2>3, HeadGoesOn
  <2>4. /\ q \in Seq(Events) /\ DOMAIN q = DOMAIN room_events
        /\ \A i \in DOMAIN q : q[i].command = room_events[i].command
    BY <2>1, <2>2, <2>3, <2>a, HeadGoesOn
  <2>5. \A i \in DOMAIN q : q[i] \in Events /\ room_events[i] \in Events
    BY <2>4 DEF Typed
  <2>6. Marked(q, Talks) = Marked(room_events, Talks)
    BY <2>4, <2>5 DEF Marked, Talks, IsTalk
  <2>7. ToSend' = ToSend
    BY <2>2, <2>6 DEF ToSend
  <2> QED
    BY <1>k, <1>t, <2>1, <2>7, BudgetParts
<1>2. CASE SaveMessage
  <2>1. /\ room_events # << >> /\ room_events' = Tail(room_events) /\ IsTalk(Head(room_events))
        /\ jobs' = Append(jobs, SaveJob(Room, Head(room_events).arg))
        /\ UNCHANGED <<rows, sent, written>>
    BY <1>2 DEF SaveMessage, AtRoom, IsTalk, countVars
  <2>2. ToSend' + 1 <= ToSend /\ ToSave' <= ToSave + 1
    BY <2>1, BudgetParts
  <2>3. PICK L, V, D, s, w, V1, D1 \in Nat :
          /\ L = Len(rows) /\ V = ToSave /\ D = ToSend /\ s = sent /\ w = written
          /\ V1 = ToSave' /\ D1 = ToSend'
    BY <1>t, <1>u
  <2>4. L + 2 * V + 2 * D <= 2 * (s + w)
    BY <2>3 DEF Budget
  <2>5. L + 2 * V1 + 2 * D1 <= 2 * (s + w)
    <3>1. D1 + 1 <= D /\ V1 <= V + 1
      BY <2>2, <2>3
    <3>2. 2 * D1 + 2 <= 2 * D /\ 2 * V1 <= 2 * V + 2
      BY <3>1
    <3>3. \A L0, v, d, v1, d1, r \in Nat : L0 + v + d <= r /\ d1 + 2 <= d /\ v1 <= v + 2 => L0 + v1 + d1 <= r
      OBVIOUS
    <3> QED
      BY <2>4, <3>2, <3>3
  <2>6. Len(rows') = L /\ sent' = s /\ written' = w
    BY <2>1, <2>3
  <2> QED
    BY <2>3, <2>5, <2>6 DEF Budget
<1>3. CASE JoinRoom \/ LeaveRoom \/ SendResponse
  <2>1. room_events # << >> /\ room_events' = Tail(room_events) /\ UNCHANGED <<jobs, rows, sent, written>>
    BY <1>3 DEF JoinRoom, LeaveRoom, SendResponse, AtRoom, dbVars, countVars
  <2> QED
    BY <1>k, <1>t, <2>1, BudgetParts
<1>j. \A e : LoadJob(e) \notin Saves
  BY DEF LoadJob, Saves
<1>4. CASE LoadMessage
  <2>1. /\ room_events # << >> /\ room_events' = Tail(room_events)
        /\ jobs' = Append(jobs, LoadJob(Head(room_events))) /\ UNCHANGED <<rows, sent, written>>
    BY <1>4 DEF LoadMessage, AtRoom, countVars
  <2>2. ToSend' <= ToSend /\ ToSave' = ToSave
    BY <1>j, <2>1, BudgetParts
  <2> QED
    BY <1>k, <1>t, <2>1, <2>2
<1>5. CASE LobbyLeave
  <2>1. /\ jobs' = Append(jobs, LoadJob(Head(lobby_events))) \/ UNCHANGED jobs
        /\ UNCHANGED <<room_events, rows, sent, written>>
    BY <1>5, Zenon DEF LobbyLeave, countVars
  <2>2. ToSend' = ToSend /\ ToSave' = ToSave
    BY <1>j, <2>1, BudgetParts
  <2> QED
    BY <1>k, <1>t, <2>1, <2>2
<1>6. CASE LobbyJoin
  <2>1. /\ lobby_events # << >> /\ Head(lobby_events).command = "CMD_LEAVE_ROOM"
        /\ room_events' = Append(room_events, [Head(lobby_events) EXCEPT !.next = "LEAVE_ROOM"])
        /\ UNCHANGED <<jobs, rows, sent, written>>
    BY <1>6 DEF LobbyJoin, dbVars, countVars
  <2>2. PICK e \in Events : e = Head(lobby_events)
    BY <2>1, Queues
  <2>3. [e EXCEPT !.next = "LEAVE_ROOM"] \notin Talks
    BY <2>1, <2>2, GoesOn, Names DEF Talks, IsTalk
  <2>4. ToSend' = ToSend /\ ToSave' = ToSave
    BY <2>1, <2>2, <2>3, BudgetParts
  <2> QED
    BY <1>k, <1>t, <2>1, <2>4
<1>7. CASE ProcessJob
  <2>1. jobs # << >> /\ jobs' = Tail(jobs) /\ UNCHANGED <<sent, written>>
    BY <1>7 DEF ProcessJob, countVars
  <2>2. ASSUME NEW n \in 0..2, Head(jobs) \in Saves, rows' = Added(n, Head(jobs).room, Head(jobs).msg),
               UNCHANGED room_events
        PROVE  Budget'
    <3>1. PICK r \in {Room, Elsewhere}, m \in Int : rows' = Added(n, r, m)
      BY <2>2 DEF Saves
    <3>2. PICK t : t = rows' /\ Extends(t, n, r, m)
      BY <3>1, RowsAdded
    <3>a. Len(rows') = Len(rows) + n
      BY <3>2 DEF Extends
    <3>b. ToSend' = ToSend /\ ToSave' + 1 <= ToSave
      BY <2>1, <2>2, BudgetParts
    <3>3. PICK L, V, D, s, w, V1, D1 \in Nat :
            /\ L = Len(rows) /\ V = ToSave /\ D = ToSend /\ s = sent /\ w = written
            /\ V1 = ToSave' /\ D1 = ToSend'
      BY <1>t, <1>u
    <3>4. L + 2 * V + 2 * D <= 2 * (s + w)
      BY <3>3 DEF Budget
    <3>5. L + n + 2 * V1 + 2 * D1 <= 2 * (s + w)
      <4>a. n <= 2 /\ n \in Nat
        BY <2>2
      <4>b. D1 = D /\ V1 + 1 <= V
        BY <3>b, <3>3
      <4>1. D1 = D /\ V1 + 1 <= V /\ n <= 2 /\ n \in Nat
        BY <4>a, <4>b
      <4>2. 2 * V1 + 2 <= 2 * V
        BY <4>1
      <4>3. \A L0, v, d, v1, x \in Nat : L0 + v + d <= x /\ v1 + 2 <= v => L0 + n + v1 + d <= x
        BY <4>1
      <4> QED
        BY <3>4, <4>1, <4>2, <4>3
    <3>6. Len(rows') = L + n /\ sent' = s /\ written' = w
      BY <2>1, <3>3, <3>a
    <3> QED
      BY <3>3, <3>5, <3>6 DEF Budget
  <2>3. ASSUME NEW status \in Statuses, NEW body \in Bodies, Head(jobs) \in Loads, UNCHANGED rows,
               room_events' = Append(room_events,
                 [Head(jobs).event EXCEPT !.next = "SEND_RESPONSE", !.status = status, !.body = body])
        PROVE  Budget'
    <3>1. PICK e \in Events : e = Head(jobs).event /\ ~IsTalk(e)
      BY <2>3 DEF Loads, Requests
    <3>2. PICK f : f = [e EXCEPT !.next = "SEND_RESPONSE", !.status = status, !.body = body]
      OBVIOUS
    <3>3. f.command = e.command
      BY <3>2 DEF Events
    <3>4. f \notin Talks
      BY <3>1, <3>3 DEF Talks, IsTalk
    <3>5. ToSend' = ToSend /\ ToSave' <= ToSave
      BY <2>1, <2>3, <3>1, <3>2, <3>4, BudgetParts
    <3> QED
      BY <1>k, <1>t, <2>1, <2>3, <3>5
  <2> QED
    BY <1>7, <2>2, <2>3, JobDone, Zenon
<1>8. CASE OtherSends
  <2>1. /\ room_events' = Append(room_events, Event("CMD_SEND_MESSAGE", "SEND_MESSAGE", sent + 1))
        /\ sent' = sent + 1 /\ UNCHANGED <<jobs, rows, written>>
    BY <1>8 DEF OtherSends, dbVars
  <2>2. ToSend' <= ToSend + 1 /\ ToSave' = ToSave
    BY <2>1, BudgetParts
  <2> QED
    BY <1>t, <1>u, <2>1, <2>2 DEF Budget
<1>9. CASE OtherRoomSaves
  <2>1. /\ jobs' = Append(jobs, SaveJob(Elsewhere, written + 1))
        /\ written' = written + 1 /\ UNCHANGED <<room_events, rows, sent>>
    BY <1>9 DEF OtherRoomSaves, workerVars
  <2>2. ToSend' = ToSend /\ ToSave' <= ToSave + 1
    BY <2>1, BudgetParts
  <2> QED
    BY <1>t, <1>u, <2>1, <2>2 DEF Budget
<1>10. CASE Join \/ Load
  <2>1. PICK e \in {Event("CMD_JOIN_ROOM", "JOIN_ROOM", 0),
                    Event("CMD_LOAD_MESSAGE", "REQUEST_DB_LOAD_MESSAGE", oldest_message_id)} :
          room_events' = Append(room_events, e) /\ UNCHANGED <<jobs, rows, sent, written>>
    BY <1>10, Zenon DEF Join, Load, send_request, dbVars
  <2>2. e \notin Talks
    BY <2>1 DEF Event, Talks, IsTalk
  <2>3. ToSend' = ToSend /\ ToSave' = ToSave
    BY <2>1, <2>2, BudgetParts
  <2> QED
    BY <1>k, <1>t, <2>1, <2>3
<1>11. CASE Leave \/ HandleResponse \/ HandleBroadcast \/ UNCHANGED vars
  <2>1. UNCHANGED <<room_events, jobs, rows, sent, written>>
    BY <1>11 DEF Leave, send_request, HandleResponse, HandleBroadcast, vars, workerVars, dbVars, countVars
  <2> QED
    BY <1>k, <1>t, <2>1, BudgetParts
<1> QED
  BY <1>1, <1>2, <1>3, <1>4, <1>5, <1>6, <1>7, <1>8, <1>9, <1>10, <1>11 DEF Next

Counted == 1..MaxMessages

\* Where the client and the connection are, and the counters.
Places ==
  /\ in_room \in BOOLEAN /\ in_lobby \in BOOLEAN /\ alive \in BOOLEAN
  /\ current_room \in {"lobby", "room"} /\ state \in {"LOBBY", "IN_ROOM"}
  /\ pending \in {NONE, "CMD_JOIN_ROOM", "CMD_LOAD_MESSAGE", "CMD_LEAVE_ROOM"}
  /\ sent \in 0..MaxMessages /\ written \in 0..MaxElsewhere /\ requests \in 0..MaxRequests

LEMMA TriesEnd ==
  ASSUME NEW up, NEW attempts \in exec(up)
  PROVE  attempts[Len(attempts)].alive \in BOOLEAN
<1>1. ASSUME NEW u, NEW a \in exec_once(u) PROVE a.alive \in BOOLEAN
  <2>1. /\ Attempt(TRUE, TRUE, TRUE).alive = TRUE /\ Attempt(FALSE, FALSE, TRUE).alive = TRUE
        /\ Attempt(FALSE, FALSE, FALSE).alive = FALSE /\ Attempt(TRUE, FALSE, FALSE).alive = FALSE
    BY DEF Attempt
  <2>2. \/ a = Attempt(TRUE, TRUE, TRUE) \/ a = Attempt(FALSE, FALSE, TRUE)
        \/ a = Attempt(FALSE, FALSE, FALSE) \/ a = Attempt(TRUE, FALSE, FALSE)
    BY Zenon DEF exec_once
  <2> QED
    BY <2>1, <2>2, Zenon
<1>2. PICK a \in exec_once(up) : attempts = <<a>> \/ \E b \in exec_once(TRUE) : attempts = <<a, b>>
  BY Zenon DEF exec
<1>3. CASE attempts = <<a>>
  BY <1>1, <1>2, <1>3
<1>4. ASSUME NEW b \in exec_once(TRUE), attempts = <<a, b>> PROVE attempts[Len(attempts)] = b
  BY <1>4
<1> QED
  BY <1>1, <1>2, <1>3, <1>4

LEMMA StepPlaces ==
  ASSUME Places, [Next]_vars
  PROVE  Places'
<1>0. MaxMessages \in Nat /\ MaxElsewhere \in Nat /\ MaxRequests \in Nat
  BY LimitsAssumption
<1>1. CASE SendMessage \/ SaveMessage \/ LoadMessage \/ SendResponse \/ UNCHANGED vars
  <2>1. UNCHANGED <<in_room, in_lobby, alive, current_room, state, pending, sent, written, requests>>
    BY <1>1 DEF SendMessage, SaveMessage, LoadMessage, SendResponse, vars, dbVars, screenVars, countVars
  <2> QED
    BY <2>1 DEF Places
<1>2. CASE JoinRoom
  BY <1>2 DEF JoinRoom, Places, dbVars, screenVars, countVars
<1>3. CASE LeaveRoom
  BY <1>3 DEF LeaveRoom, Places, dbVars, screenVars, countVars
<1>4. CASE LobbyLeave
  BY <1>4, Zenon DEF LobbyLeave, Places, screenVars, countVars
<1>5. CASE LobbyJoin
  BY <1>5 DEF LobbyJoin, Places, dbVars, screenVars, countVars
<1>6. CASE ProcessJob
  <2>1. PICK attempts \in exec(alive) : alive' = attempts[Len(attempts)].alive
    BY <1>6, Zenon DEF ProcessJob
  <2>2. alive' \in BOOLEAN
    BY <2>1, TriesEnd
  <2>3. UNCHANGED <<in_room, in_lobby, current_room, state, pending, sent, written, requests>>
    BY <1>6 DEF ProcessJob, screenVars, countVars
  <2> QED
    BY <2>2, <2>3 DEF Places
<1>7. CASE OtherSends \/ OtherRoomSaves
  <2>1. UNCHANGED <<in_room, in_lobby, alive, current_room, state, pending, requests>>
    BY <1>7 DEF OtherSends, OtherRoomSaves, workerVars, dbVars, screenVars
  <2>2. sent' \in 0..MaxMessages /\ written' \in 0..MaxElsewhere
    BY <1>0, <1>7 DEF OtherSends, OtherRoomSaves, Places
  <2> QED
    BY <2>1, <2>2 DEF Places
<1>8. CASE Join \/ Load \/ Leave
  <2>1. UNCHANGED <<in_room, in_lobby, alive, current_room, state, sent, written>>
    BY <1>8 DEF Join, Load, Leave, dbVars, screenVars
  <2>2. /\ pending' \in {"CMD_JOIN_ROOM", "CMD_LOAD_MESSAGE", "CMD_LEAVE_ROOM"}
        /\ requests < MaxRequests /\ requests' = requests + 1
    BY <1>8 DEF Join, Load, Leave, send_request
  <2>3. requests' \in 0..MaxRequests
    BY <1>0, <2>2 DEF Places
  <2> QED
    BY <2>1, <2>2, <2>3 DEF Places
<1>9. CASE HandleResponse
  <2>1. /\ UNCHANGED <<in_room, in_lobby, alive, current_room, sent, written, requests>>
        /\ pending' = NONE /\ state' \in {state, "IN_ROOM", "LOBBY"}
    BY <1>9 DEF HandleResponse, workerVars, dbVars, screenVars, countVars
  <2> QED
    BY <2>1 DEF Places
<1>10. CASE HandleBroadcast
  BY <1>10 DEF HandleBroadcast, Places, workerVars, dbVars, countVars
<1> QED
  BY <1>1, <1>2, <1>3, <1>4, <1>5, <1>6, <1>7, <1>8, <1>9, <1>10 DEF Next

\* The messages, by number, wherever they are.
Ranged ==
  /\ \A e \in ToSet(room_events) : IsTalk(e) => e.arg \in Counted
  /\ \A job \in ToSet(jobs) : job \in Saves => job.msg \in Nat
  /\ \A r \in ToSet(rows) : r.msg \in Nat
  /\ \A p \in ToSet(socket) : IsNews(p) => p.msg \in Counted
  /\ ToSet(live) \subseteq Counted /\ offered \subseteq Counted

\* What a queue holds.
LEMMA Holding ==
  ASSUME NEW q, IsSeq(q)
  PROVE  /\ \A e : ToSet(Append(q, e)) = ToSet(q) \cup {e}
         /\ q # << >> => ToSet(Tail(q)) \subseteq ToSet(q) /\ Head(q) \in ToSet(q)
<1>1. ASSUME NEW e PROVE ToSet(Append(q, e)) = ToSet(q) \cup {e}
  <2>1. /\ Len(q) \in Nat /\ DOMAIN q = 1..Len(q) /\ DOMAIN Append(q, e) = 1..(Len(q) + 1)
        /\ \A i \in DOMAIN q : Append(q, e)[i] = q[i]
        /\ Append(q, e)[Len(q) + 1] = e
    BY AppendIs
  <2>2. \A i : i \in 1..(Len(q) + 1) <=> i \in 1..Len(q) \/ i = Len(q) + 1
    BY <2>1
  <2> QED
    BY <2>1, <2>2 DEF ToSet
<1>2. ASSUME q # << >> PROVE ToSet(Tail(q)) \subseteq ToSet(q) /\ Head(q) \in ToSet(q)
  <2>1. /\ Len(q) \in Nat \ {0} /\ Head(q) = q[1]
        /\ DOMAIN q = 1..Len(q) /\ DOMAIN Tail(q) = 1..(Len(q) - 1)
        /\ \A i \in DOMAIN Tail(q) : Tail(q)[i] = q[i + 1]
    BY <1>2, TailIs
  <2>2. 1 \in 1..Len(q) /\ \A i \in 1..(Len(q) - 1) : i + 1 \in 1..Len(q)
    BY <2>1
  <2> QED
    BY <2>1, <2>2 DEF ToSet
<1> QED
  BY <1>1, <1>2

LEMMA StepRanged ==
  ASSUME Typed, Places, Ranged, [Next]_vars
  PROVE  Ranged'
<1> DEFINE RoomOK == \A e \in ToSet(room_events) : IsTalk(e) => e.arg \in Counted
           JobsOK == \A job \in ToSet(jobs) : job \in Saves => job.msg \in Nat
           RowsOK == \A r \in ToSet(rows) : r.msg \in Nat
           WayOK  == \A p \in ToSet(socket) : IsNews(p) => p.msg \in Counted
           SeenOK == ToSet(live) \subseteq Counted /\ offered \subseteq Counted
<1>0. RoomOK /\ JobsOK /\ RowsOK /\ WayOK /\ SeenOK
  BY DEF Ranged
<1>q. ASSUME RoomOK', JobsOK', RowsOK', WayOK', SeenOK' PROVE Ranged'
  BY <1>q DEF Ranged
<1>s. IsSeq(room_events) /\ IsSeq(jobs) /\ IsSeq(socket) /\ IsSeq(live)
  <2>1. IsSeq(live)
    BY DEF Typed, IsSeq
  <2> QED
    BY <2>1, Queues
<1>r. /\ UNCHANGED room_events => RoomOK'
      /\ room_events # << >> /\ room_events' = Tail(room_events) => RoomOK'
      /\ \A e : room_events' = Append(room_events, e) /\ (IsTalk(e) => e.arg \in Counted) => RoomOK'
  <2>1. \A e : ToSet(Append(room_events, e)) = ToSet(room_events) \cup {e}
    BY <1>s, Holding
  <2>2. room_events # << >> => ToSet(Tail(room_events)) \subseteq ToSet(room_events)
    BY <1>s, Holding
  <2>3. UNCHANGED room_events => RoomOK'
    BY <1>0
  <2>4. room_events # << >> /\ room_events' = Tail(room_events) => RoomOK'
    BY <1>0, <2>2
  <2> QED
    BY <1>0, <2>1, <2>3, <2>4
<1>j. /\ UNCHANGED jobs => JobsOK'
      /\ jobs # << >> /\ jobs' = Tail(jobs) => JobsOK'
      /\ \A e : jobs' = Append(jobs, e) /\ (e \in Saves => e.msg \in Nat) => JobsOK'
  <2>1. \A e : ToSet(Append(jobs, e)) = ToSet(jobs) \cup {e}
    BY <1>s, Holding
  <2>2. jobs # << >> => ToSet(Tail(jobs)) \subseteq ToSet(jobs)
    BY <1>s, Holding
  <2>3. UNCHANGED jobs => JobsOK'
    BY <1>0
  <2>4. jobs # << >> /\ jobs' = Tail(jobs) => JobsOK'
    BY <1>0, <2>2
  <2> QED
    BY <1>0, <2>1, <2>3, <2>4
<1>w. /\ UNCHANGED socket => WayOK'
      /\ socket # << >> /\ socket' = Tail(socket) => WayOK'
      /\ \A e : socket' = Append(socket, e) /\ (IsNews(e) => e.msg \in Counted) => WayOK'
  <2>1. \A e : ToSet(Append(socket, e)) = ToSet(socket) \cup {e}
    BY <1>s, Holding
  <2>2. socket # << >> => ToSet(Tail(socket)) \subseteq ToSet(socket)
    BY <1>s, Holding
  <2>3. UNCHANGED socket => WayOK'
    BY <1>0
  <2>4. socket # << >> /\ socket' = Tail(socket) => WayOK'
    BY <1>0, <2>2
  <2> QED
    BY <1>0, <2>1, <2>3, <2>4
<1>t. UNCHANGED rows => RowsOK'
  BY <1>0
<1>v. UNCHANGED <<live, offered>> => SeenOK'
  BY <1>0
<1>n. Counted \subseteq Nat
  BY DEF Counted
<1>h. /\ room_events # << >> => (IsTalk(Head(room_events)) => Head(room_events).arg \in Counted)
      /\ jobs # << >> => (Head(jobs) \in Saves => Head(jobs).msg \in Nat)
      /\ socket # << >> => (IsNews(Head(socket)) => Head(socket).msg \in Counted)
  BY <1>0, <1>s, Holding
<1>l. /\ \A e : ~IsNews(Response(e, "Success")) /\ ~IsNews(Response(e, "UserNotFound"))
      /\ \A e, s : ~IsNews(Response(e, s))
      /\ \A e : LoadJob(e) \notin Saves
  BY DEF Response, IsNews, LoadJob, Saves
<1> HIDE DEF RoomOK, JobsOK, RowsOK, WayOK, SeenOK
<1>1. CASE SendMessage
  <2>1. /\ room_events # << >> /\ room_events' = [room_events EXCEPT ![1].next = "SAVE_MESSAGE"]
        /\ IsTalk(Head(room_events)) /\ UNCHANGED <<jobs, rows, live>>
        /\ \/ socket' = Append(socket, Broadcast(Head(room_events).arg))
              /\ offered' = offered \cup {Head(room_events).arg}
           \/ UNCHANGED <<socket, offered>>
    BY <1>1 DEF SendMessage, AtRoom, IsTalk, dbVars, screenVars
  <2>2. PICK q : q = room_events'
    OBVIOUS
  <2>3. "SAVE_MESSAGE" \in Steps
    BY Names
  <2>a. q \in Seq(Events)
    BY <2>1, <2>2, <2>3, HeadGoesOn
  <2>4. /\ DOMAIN q = DOMAIN room_events
        /\ \A i \in DOMAIN q : q[i].command = room_events[i].command /\ q[i].arg = room_events[i].arg
    BY <2>1, <2>2, <2>3, <2>a, HeadGoesOn
  <2>5. RoomOK'
    BY <1>0, <2>2, <2>4 DEF RoomOK, ToSet, IsTalk
  <2>6. PICK m \in Counted : m = Head(room_events).arg
    BY <1>h, <2>1
  <2>7. Broadcast(m).msg = m
    BY DEF Broadcast
  <2>8. WayOK'
    BY <1>w, <2>1, <2>6, <2>7
  <2>9. SeenOK'
    BY <1>0, <2>1, <2>6 DEF SeenOK
  <2> QED
    BY <1>q, <1>j, <1>t, <2>1, <2>5, <2>8, <2>9
<1>2. CASE SaveMessage
  <2>1. /\ room_events # << >> /\ room_events' = Tail(room_events) /\ IsTalk(Head(room_events))
        /\ jobs' = Append(jobs, SaveJob(Room, Head(room_events).arg))
        /\ UNCHANGED <<socket, rows, live, offered>>
    BY <1>2 DEF SaveMessage, AtRoom, IsTalk, screenVars
  <2>2. PICK m \in Nat : m = Head(room_events).arg
    BY <1>h, <1>n, <2>1
  <2>3. SaveJob(Room, m).msg = m
    BY DEF SaveJob
  <2>4. JobsOK'
    BY <1>j, <2>1, <2>2, <2>3
  <2> QED
    BY <1>q, <1>r, <1>t, <1>w, <1>v, <2>1, <2>4
<1>3. CASE JoinRoom
  <2>1. room_events # << >> /\ room_events' = Tail(room_events) /\ UNCHANGED <<jobs, rows, socket, live, offered>>
    BY <1>3 DEF JoinRoom, AtRoom, dbVars, screenVars
  <2> QED
    BY <1>q, <1>r, <1>j, <1>t, <1>w, <1>v, <2>1
<1>4. CASE LoadMessage
  <2>1. /\ room_events # << >> /\ room_events' = Tail(room_events)
        /\ jobs' = Append(jobs, LoadJob(Head(room_events))) /\ UNCHANGED <<rows, socket, live, offered>>
    BY <1>4 DEF LoadMessage, AtRoom, screenVars
  <2>2. JobsOK'
    BY <1>j, <1>l, <2>1
  <2> QED
    BY <1>q, <1>r, <1>t, <1>w, <1>v, <2>1, <2>2
<1>5. CASE LeaveRoom
  <2>1. /\ room_events # << >> /\ room_events' = Tail(room_events) /\ UNCHANGED <<jobs, rows, live>>
        /\ offered' = {}
    BY <1>5 DEF LeaveRoom, AtRoom, dbVars, screenVars
  <2>2. PICK s : socket' = Append(socket, Response(Head(room_events), s))
    BY <1>5, Zenon DEF LeaveRoom
  <2>3. WayOK'
    BY <1>l, <1>w, <2>2
  <2>4. SeenOK'
    BY <1>0, <2>1 DEF SeenOK
  <2> QED
    BY <1>q, <1>r, <1>j, <1>t, <2>1, <2>3, <2>4
<1>6. CASE SendResponse
  <2>1. /\ room_events # << >> /\ room_events' = Tail(room_events)
        /\ socket' = Append(socket, Response(Head(room_events), Head(room_events).status))
        /\ UNCHANGED <<jobs, rows, live, offered>>
    BY <1>6 DEF SendResponse, dbVars, screenVars
  <2>2. WayOK'
    BY <1>l, <1>w, <2>1
  <2> QED
    BY <1>q, <1>r, <1>j, <1>t, <1>v, <2>1, <2>2
<1>7. CASE LobbyLeave
  <2>1. /\ \/ jobs' = Append(jobs, LoadJob(Head(lobby_events))) /\ UNCHANGED socket
           \/ socket' = Append(socket, Response(Head(lobby_events), "UserNotFound")) /\ UNCHANGED jobs
        /\ UNCHANGED <<room_events, rows, live, offered>>
    BY <1>7, Zenon DEF LobbyLeave, screenVars
  <2>2. JobsOK'
    BY <1>j, <1>l, <2>1
  <2>3. WayOK'
    BY <1>l, <1>w, <2>1
  <2> QED
    BY <1>q, <1>r, <1>t, <1>v, <2>1, <2>2, <2>3
<1>8. CASE LobbyJoin
  <2>1. /\ lobby_events # << >> /\ Head(lobby_events).command = "CMD_LEAVE_ROOM"
        /\ room_events' = Append(room_events, [Head(lobby_events) EXCEPT !.next = "LEAVE_ROOM"])
        /\ UNCHANGED <<jobs, rows, socket, live, offered>>
    BY <1>8 DEF LobbyJoin, dbVars, screenVars
  <2>2. PICK e \in Events : e = Head(lobby_events)
    BY <2>1, Queues
  <2>3. ~IsTalk([e EXCEPT !.next = "LEAVE_ROOM"])
    BY <2>1, <2>2, GoesOn, Names DEF IsTalk
  <2>4. RoomOK'
    BY <1>r, <2>1, <2>2, <2>3
  <2> QED
    BY <1>q, <1>j, <1>t, <1>w, <1>v, <2>1, <2>4
<1>9. CASE ProcessJob
  <2>1. jobs # << >> /\ jobs' = Tail(jobs) /\ UNCHANGED <<socket, live, offered>>
    BY <1>9 DEF ProcessJob, screenVars
  <2>2. ASSUME NEW n \in 0..2, Head(jobs) \in Saves, rows' = Added(n, Head(jobs).room, Head(jobs).msg),
               UNCHANGED room_events
        PROVE  Ranged'
    <3>1. PICK r \in {Room, Elsewhere}, m \in Nat : rows' = Added(n, r, m)
      BY <1>h, <2>1, <2>2 DEF Saves
    <3>2. PICK t : t = rows' /\ Extends(t, n, r, m)
      BY <3>1, RowsAdded
    <3>3. \A i \in DOMAIN t : t[i].msg = m \/ (i \in DOMAIN rows /\ t[i] = rows[i])
      <4>1. PICK L \in Nat : L = Len(rows)
        BY <3>2 DEF Extends
      <4>2. \A i \in 1..(L + n) : i > L \/ i \in 1..L
        OBVIOUS
      <4> QED
        BY <3>2, <4>1, <4>2 DEF Extends
    <3>4. RowsOK'
      BY <1>0, <3>2, <3>3 DEF RowsOK, ToSet
    <3> QED
      BY <1>q, <1>r, <1>j, <1>w, <1>v, <2>1, <2>2, <3>4
  <2>3. ASSUME NEW status \in Statuses, NEW body \in Bodies, Head(jobs) \in Loads, UNCHANGED rows,
               room_events' = Append(room_events,
                 [Head(jobs).event EXCEPT !.next = "SEND_RESPONSE", !.status = status, !.body = body])
        PROVE  Ranged'
    <3>1. PICK e \in Events : e = Head(jobs).event /\ ~IsTalk(e)
      BY <2>3 DEF Loads, Requests
    <3>2. PICK f : f = [e EXCEPT !.next = "SEND_RESPONSE", !.status = status, !.body = body]
      OBVIOUS
    <3>3. f.command = e.command
      BY <3>2 DEF Events
    <3>4. ~IsTalk(f)
      BY <3>1, <3>3 DEF IsTalk
    <3>5. RoomOK'
      BY <1>r, <2>3, <3>1, <3>2, <3>4
    <3> QED
      BY <1>q, <1>j, <1>t, <1>w, <1>v, <2>1, <2>3, <3>5
  <2> QED
    BY <1>9, <2>2, <2>3, JobDone, Zenon
<1>10. CASE OtherSends
  <2>1. /\ room_events' = Append(room_events, Event("CMD_SEND_MESSAGE", "SEND_MESSAGE", sent + 1))
        /\ sent < MaxMessages /\ UNCHANGED <<jobs, rows, socket, live, offered>>
    BY <1>10 DEF OtherSends, dbVars, screenVars
  <2>2. PICK m \in Counted : m = sent + 1
    BY <2>1, LimitsAssumption DEF Places, Counted
  <2>3. Event("CMD_SEND_MESSAGE", "SEND_MESSAGE", m).arg = m
    BY DEF Event
  <2>4. RoomOK'
    BY <1>r, <2>1, <2>2, <2>3
  <2> QED
    BY <1>q, <1>j, <1>t, <1>w, <1>v, <2>1, <2>4
<1>11. CASE OtherRoomSaves
  <2>1. /\ jobs' = Append(jobs, SaveJob(Elsewhere, written + 1))
        /\ UNCHANGED <<room_events, rows, socket, live, offered>>
    BY <1>11 DEF OtherRoomSaves, workerVars, screenVars
  <2>2. PICK m \in Nat : m = written + 1
    BY DEF Typed
  <2>3. SaveJob(Elsewhere, m).msg = m
    BY DEF SaveJob
  <2>4. JobsOK'
    BY <1>j, <2>1, <2>2, <2>3
  <2> QED
    BY <1>q, <1>r, <1>t, <1>w, <1>v, <2>1, <2>4
<1>12. CASE Join \/ Load
  <2>1. PICK e \in {Event("CMD_JOIN_ROOM", "JOIN_ROOM", 0),
                    Event("CMD_LOAD_MESSAGE", "REQUEST_DB_LOAD_MESSAGE", oldest_message_id)} :
          room_events' = Append(room_events, e)
    BY <1>12, Zenon DEF Join, Load
  <2>2. UNCHANGED <<jobs, rows, socket, live, offered>>
    BY <1>12 DEF Join, Load, dbVars, screenVars
  <2>3. ~IsTalk(e)
    BY <2>1 DEF Event, IsTalk
  <2>4. RoomOK'
    BY <1>r, <2>1, <2>3
  <2> QED
    BY <1>q, <1>j, <1>t, <1>w, <1>v, <2>2, <2>4
<1>13. CASE Leave \/ UNCHANGED vars
  <2>1. UNCHANGED <<room_events, jobs, rows, socket, live, offered>>
    BY <1>13 DEF Leave, vars, dbVars, screenVars
  <2> QED
    BY <1>q, <1>r, <1>j, <1>t, <1>w, <1>v, <2>1
<1>14. CASE HandleResponse
  <2>1. /\ socket # << >> /\ socket' = Tail(socket) /\ UNCHANGED <<room_events, jobs, rows, offered>>
        /\ live' \in {live, << >>}
    BY <1>14 DEF HandleResponse, workerVars, dbVars, screenVars
  <2>2. ToSet(<< >>) = {}
    BY DEF ToSet
  <2>3. SeenOK'
    BY <1>0, <2>1, <2>2 DEF SeenOK
  <2> QED
    BY <1>q, <1>r, <1>j, <1>t, <1>w, <2>1, <2>3
<1>15. CASE HandleBroadcast
  <2>1. /\ socket # << >> /\ socket' = Tail(socket) /\ IsNews(Head(socket))
        /\ UNCHANGED <<room_events, jobs, rows, offered>>
        /\ live' = Append(live, Head(socket).msg) \/ live' = live
    BY <1>15 DEF HandleBroadcast, IsNews, workerVars, dbVars
  <2>2. PICK m \in Counted : m = Head(socket).msg
    BY <1>h, <2>1
  <2>3. ToSet(Append(live, m)) = ToSet(live) \cup {m}
    BY <1>s, Holding
  <2>4. SeenOK'
    BY <1>0, <2>1, <2>2, <2>3 DEF SeenOK
  <2> QED
    BY <1>q, <1>r, <1>j, <1>t, <1>w, <2>1, <2>4
<1> QED
  BY <1>1, <1>2, <1>3, <1>4, <1>5, <1>6, <1>7, <1>8, <1>9, <1>10, <1>11, <1>12, <1>13, <1>14,
     <1>15 DEF Next

Bounded == Places /\ Ranged /\ Budget

LEMMA InitBounded == Init => Bounded
<1> SUFFICES ASSUME Init PROVE Bounded
  OBVIOUS
<1>1. MaxMessages \in Nat /\ MaxElsewhere \in Nat /\ MaxRequests \in Nat
  BY LimitsAssumption
<1>2. ToSet(<< >>) = {}
  BY DEF ToSet
<1>3. Marked(room_events, Talks) = {} /\ Marked(jobs, Saves) = {}
  BY DEF Init, Marked
<1>4. ToSend = 0 /\ ToSave = 0
  BY <1>3, FS_EmptySet DEF ToSend, ToSave
<1>5. Len(rows) = 0 /\ sent = 0 /\ written = 0
  BY DEF Init
<1>6. Places
  <2>1. sent \in 0..MaxMessages /\ written \in 0..MaxElsewhere /\ requests \in 0..MaxRequests
    BY <1>1 DEF Init
  <2>2. in_room \in BOOLEAN /\ in_lobby \in BOOLEAN /\ alive \in BOOLEAN
    BY Zenon DEF Init
  <2>3. /\ current_room \in {"lobby", "room"} /\ state \in {"LOBBY", "IN_ROOM"}
        /\ pending \in {NONE, "CMD_JOIN_ROOM", "CMD_LOAD_MESSAGE", "CMD_LEAVE_ROOM"}
    BY DEF Init
  <2> QED
    BY <2>1, <2>2, <2>3 DEF Places
<1>7. Ranged
  BY <1>2 DEF Init, Ranged
<1> QED
  BY <1>4, <1>5, <1>6, <1>7 DEF Bounded, Budget

\* The types, with the cursors and the ids: no id is above MaxId, so that the cursor for
\* "from the newest" (RoomWorker::request_db_load_message) is above every id, and a
\* cursor is never 0 or negative, although the client sends 0 for its empty page.
THEOREM HistoryTyped == Spec => []TypeOK
<1>1. ASSUME HistoryInv, Bounded PROVE TypeOK
  <2>1. /\ Typed /\ OneRequest /\ Requested /\ oldest_message_id \in 0..Len(rows) /\ Len(rows) \in Nat
        /\ Places /\ Ranged /\ Budget
    BY <1>1 DEF HistoryInv, Bounded, Screen, Typed
  <2>2. MaxMessages \in Nat /\ MaxElsewhere \in Nat
    BY LimitsAssumption
  <2>3. PICK M \in Nat : M = MaxId
    BY <2>2 DEF MaxId
  <2>4. Len(rows) <= M
    <3>1. PICK L, V, D, s, w \in Nat : /\ L = Len(rows) /\ V = ToSave /\ D = ToSend
                                       /\ s = sent /\ w = written
      BY <2>1, BudgetTypes
    <3>2. L + 2 * V + 2 * D <= 2 * (s + w)
      BY <2>1, <3>1 DEF Budget
    <3>3. s <= MaxMessages /\ w <= MaxElsewhere
      BY <2>1, <3>1 DEF Places
    <3>4. L <= 2 * (s + w)
      BY <3>2
    <3>5. 2 * (s + w) <= 2 * (MaxMessages + MaxElsewhere)
      BY <2>2, <3>3
    <3> QED
      BY <2>2, <2>3, <3>1, <3>4, <3>5 DEF MaxId
  <2>5. oldest_message_id \in 0..MaxId
    BY <2>1, <2>3, <2>4
  <2>6. ASSUME NEW i \in DOMAIN rows
        PROVE  rows[i] \in [id : 1..MaxId, room : {Room, Elsewhere}, msg : Nat]
    <3>1. rows \in Seq(TableRows) /\ rows[i].id = i
      BY <2>1 DEF Typed
    <3>2. rows[i] \in TableRows /\ i \in 1..Len(rows)
      BY <3>1
    <3>3. i \in 1..MaxId
      BY <2>1, <2>3, <2>4, <3>2
    <3>4. rows[i].msg \in Nat
      BY <2>1 DEF Ranged, ToSet
    <3> QED
      BY <3>1, <3>2, <3>3, <3>4 DEF TableRows
  <2>7. ASSUME NEW i \in DOMAIN jobs, jobs[i].type = "LoadHistory" PROVE jobs[i].cursor \in 1..NewestCursor
    <3>1. jobs[i] \in Saves \cup Loads
      BY <2>1, Numbers
    <3>2. jobs[i] \in Loads
      BY <2>7, <3>1 DEF Saves
    <3>3. i \in AtTheDB
      BY <3>2 DEF AtTheDB, Marked
    <3>4. DBHas(jobs[i])
      BY <2>1, <3>3 DEF Requested
    <3>5. PICK a \in 0..M : jobs[i].cursor = cursor_of(a)
      BY <2>3, <2>5, <3>4 DEF DBHas, Asked
    <3>6. NewestCursor = M + 1
      BY <2>3 DEF NewestCursor
    <3> QED
      BY <3>5, <3>6 DEF cursor_of
  <2> QED
    BY <2>1, <2>5, <2>6, <2>7 DEF TypeOK, Places, Ranged, Counted
<1>2. ASSUME HistoryInv, Bounded, [Next]_vars PROVE Bounded'
  <2>1. Typed /\ Places /\ Ranged /\ Budget
    BY <1>2 DEF HistoryInv, Bounded
  <2>2. Typed'
    BY <1>2, <2>1, StepTyped
  <2>3. Places' /\ Ranged' /\ Budget'
    BY <1>2, <2>1, <2>2, StepPlaces, StepRanged, StepBudget
  <2> QED
    BY <2>3 DEF Bounded
<1> QED
  BY <1>1, <1>2, InitBounded, AlwaysHistory, PTL DEF Spec
=============================================================================
