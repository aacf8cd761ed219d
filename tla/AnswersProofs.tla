--------------------------- MODULE AnswersProofs ---------------------------
(***************************************************************************)
(* Proof that no request is answered twice, for every number of sessions,  *)
(* workers, rooms and requests.                                            *)
(*                                                                         *)
(* An event is moved and never copied: a step takes it from one place and  *)
(* puts it into one other place, or drops it.  The places that hold a      *)
(* request of a session are therefore counted exactly, one change at a     *)
(* time: what one change takes away, another change of the same step, or   *)
(* the answer that the step sends, adds again.                             *)
(***************************************************************************)
EXTENDS RoomServerProofs

-----------------------------------------------------------------------------
(***************************************************************************)
(* The places, as a function of what the threads hold.                     *)
(***************************************************************************)
RoutingPlaces(rt, s) == {<<"routing", t, 0>> : t \in {u \in Threads : IsRequestOf(rt[u].event, s)}}
HandPlaces(hs, s)    == {<<"event", w, 0>> : w \in {v \in Workers : IsRequestOf(hs[v], s)}}
QueuePlaces(qs, s)   ==
  UNION {{<<"queue", w, i>> : i \in {j \in DOMAIN qs[w] : IsRequestOf(qs[w][j], s)}} : w \in Workers}
JobPlaces(js, s)     == {<<"job", 0, i>> : i \in {j \in DOMAIN js : IsRequestOf(js[j].event, s)}}

Places(rt, qs, hs, js, s) ==
  RoutingPlaces(rt, s) \cup HandPlaces(hs, s) \cup QueuePlaces(qs, s) \cup JobPlaces(js, s)

\* What an event counts for.
Weight(e, s) == IF IsRequestOf(e, s) THEN 1 ELSE 0

\* The answers among the packets of a session.
AnswersOf(q) == {i \in DOMAIN q : IsResponse(q[i]) /\ q[i].command # UNINITIALIZED}

\* The changes of the state, each under a name of its own.
With(f, i, x)      == [f EXCEPT ![i] = x]
Posted(qs, w, e)   == [qs EXCEPT ![w] = Append(qs[w], e)]
Taken(qs, w)       == [qs EXCEPT ![w] = Tail(qs[w])]
JobPosted(js, j)   == Append(js, j)
JobTaken(js)       == Tail(js)
QueuesOK(qs)       == qs \in [Workers -> Seq(RunnableEvents)]
JobsOK(js)         == js \in Seq(RunnableJobs)

\* The invariant: the sets that OneResponseEach counts are finite.
CountsInv ==
  \A s \in Sessions :
    /\ IsFiniteSet(Outstanding(s))
    /\ IsFiniteSet(Answers(s))
    /\ Cardinality(Answers(s)) + Cardinality(Outstanding(s)) <= received[s]

-----------------------------------------------------------------------------
(***************************************************************************)
(* Counting.                                                               *)
(***************************************************************************)
\* Two sets that differ in one element at most.
LEMMA SameBut ==
  ASSUME NEW S, NEW T, NEW p, IsFiniteSet(S), S \ {p} = T \ {p}
  PROVE  /\ IsFiniteSet(T)
         /\ Cardinality(S) \in Nat /\ Cardinality(T) \in Nat
         /\ Cardinality(T) = Cardinality(S) - (IF p \in S THEN 1 ELSE 0) + (IF p \in T THEN 1 ELSE 0)
<1> DEFINE B == S \ {p}
<1>1. /\ IsFiniteSet(B) /\ Cardinality(S) \in Nat
      /\ Cardinality(B) = IF p \in S THEN Cardinality(S) - 1 ELSE Cardinality(S)
  BY FS_RemoveElement, FS_CardinalityType
<1>2. p \notin B /\ (p \in T => T = B \cup {p}) /\ (p \notin T => T = B)
  OBVIOUS
<1> HIDE DEF B
<1>3. Cardinality(B) \in Nat
  BY <1>1, FS_CardinalityType
<1>4. CASE p \in T
  <2>1. IsFiniteSet(B \cup {p}) /\ Cardinality(B \cup {p}) = Cardinality(B) + 1
    BY <1>1, <1>2, FS_AddElement
  <2>2. T = B \cup {p}
    BY <1>2, <1>4
  <2>3. IsFiniteSet(T) /\ Cardinality(T) = Cardinality(B) + 1
    BY <2>1, <2>2
  <2> QED
    BY <1>1, <1>3, <1>4, <2>3
<1>5. CASE p \notin T
  BY <1>1, <1>2, <1>3, <1>5
<1> QED
  BY <1>4, <1>5

\* The place of an event says where it is.
LEMMA PlaceFacts ==
  ASSUME NEW rt, NEW qs, NEW hs, NEW js, NEW s
  PROVE  /\ \A t : <<"routing", t, 0>> \in Places(rt, qs, hs, js, s)
                     <=> t \in Threads /\ IsRequestOf(rt[t].event, s)
         /\ \A w : <<"event", w, 0>> \in Places(rt, qs, hs, js, s)
                     <=> w \in Workers /\ IsRequestOf(hs[w], s)
         /\ \A w, i : <<"queue", w, i>> \in Places(rt, qs, hs, js, s)
                        <=> w \in Workers /\ i \in DOMAIN qs[w] /\ IsRequestOf(qs[w][i], s)
         /\ \A i : <<"job", 0, i>> \in Places(rt, qs, hs, js, s)
                     <=> i \in DOMAIN js /\ IsRequestOf(js[i].event, s)
         /\ \A p \in Places(rt, qs, hs, js, s) :
              \/ \E t \in Threads : p = <<"routing", t, 0>>
              \/ \E w \in Workers : p = <<"event", w, 0>>
              \/ \E w \in Workers : \E i \in DOMAIN qs[w] : p = <<"queue", w, i>>
              \/ \E i \in DOMAIN js : p = <<"job", 0, i>>
BY DEF Places, RoutingPlaces, HandPlaces, QueuePlaces, JobPlaces

\* A thread routes another event than before.
LEMMA RouteCounts ==
  ASSUME NEW rt, DOMAIN rt = Threads, NEW t \in Threads, NEW x,
         NEW qs, NEW hs, NEW js, NEW s, IsFiniteSet(Places(rt, qs, hs, js, s))
  PROVE  /\ IsFiniteSet(Places(With(rt, t, x), qs, hs, js, s))
         /\ Cardinality(Places(rt, qs, hs, js, s)) \in Nat
         /\ Cardinality(Places(With(rt, t, x), qs, hs, js, s)) \in Nat
         /\ Cardinality(Places(With(rt, t, x), qs, hs, js, s)) =
              Cardinality(Places(rt, qs, hs, js, s)) - Weight(rt[t].event, s) + Weight(x.event, s)
<1> DEFINE rt2 == With(rt, t, x)
           S == Places(rt, qs, hs, js, s)
           T == Places(rt2, qs, hs, js, s)
           p == <<"routing", t, 0>>
<1>0. rt2 = [rt EXCEPT ![t] = x]
  BY DEF With
<1> HIDE DEF rt2
<1>1. rt2[t] = x /\ \A u \in Threads : u # t => rt2[u] = rt[u]
  BY <1>0
<1>2. p \in S <=> IsRequestOf(rt[t].event, s)
  BY PlaceFacts
<1>3. p \in T <=> IsRequestOf(x.event, s)
  <2>1. p \in T <=> IsRequestOf(rt2[t].event, s)
    BY PlaceFacts
  <2> QED
    BY <1>1, <2>1
<1>4. S \ {p} = T \ {p}
  BY <1>1 DEF Places, RoutingPlaces
<1> HIDE DEF S, T, p
<1>5. /\ IsFiniteSet(T) /\ Cardinality(S) \in Nat /\ Cardinality(T) \in Nat
      /\ Cardinality(T) = Cardinality(S) - (IF p \in S THEN 1 ELSE 0) + (IF p \in T THEN 1 ELSE 0)
  BY <1>4, SameBut DEF S
<1> QED
  BY <1>2, <1>3, <1>5 DEF S, T, Weight, rt2

\* A worker holds another event than before.
LEMMA HandCounts ==
  ASSUME NEW hs, DOMAIN hs = Workers, NEW w \in Workers, NEW e,
         NEW rt, NEW qs, NEW js, NEW s, IsFiniteSet(Places(rt, qs, hs, js, s))
  PROVE  /\ IsFiniteSet(Places(rt, qs, With(hs, w, e), js, s))
         /\ Cardinality(Places(rt, qs, hs, js, s)) \in Nat
         /\ Cardinality(Places(rt, qs, With(hs, w, e), js, s)) \in Nat
         /\ Cardinality(Places(rt, qs, With(hs, w, e), js, s)) =
              Cardinality(Places(rt, qs, hs, js, s)) - Weight(hs[w], s) + Weight(e, s)
<1> DEFINE hs2 == With(hs, w, e)
           S == Places(rt, qs, hs, js, s)
           T == Places(rt, qs, hs2, js, s)
           p == <<"event", w, 0>>
<1>0. hs2 = [hs EXCEPT ![w] = e]
  BY DEF With
<1> HIDE DEF hs2
<1>1. hs2[w] = e /\ \A v \in Workers : v # w => hs2[v] = hs[v]
  BY <1>0
<1>2. p \in S <=> IsRequestOf(hs[w], s)
  BY PlaceFacts
<1>3. p \in T <=> IsRequestOf(e, s)
  <2>1. p \in T <=> IsRequestOf(hs2[w], s)
    BY PlaceFacts
  <2> QED
    BY <1>1, <2>1
<1>4. S \ {p} = T \ {p}
  BY <1>1 DEF Places, HandPlaces
<1> HIDE DEF S, T, p
<1>5. /\ IsFiniteSet(T) /\ Cardinality(S) \in Nat /\ Cardinality(T) \in Nat
      /\ Cardinality(T) = Cardinality(S) - (IF p \in S THEN 1 ELSE 0) + (IF p \in T THEN 1 ELSE 0)
  BY <1>4, SameBut DEF S
<1> QED
  BY <1>2, <1>3, <1>5 DEF S, T, Weight, hs2

\* An event is appended to a queue.
LEMMA PostCounts ==
  ASSUME NEW qs, QueuesOK(qs), NEW w \in Workers, NEW e \in RunnableEvents,
         NEW rt, NEW hs, NEW js, NEW s, IsFiniteSet(Places(rt, qs, hs, js, s))
  PROVE  /\ IsFiniteSet(Places(rt, Posted(qs, w, e), hs, js, s))
         /\ Cardinality(Places(rt, qs, hs, js, s)) \in Nat
         /\ Cardinality(Places(rt, Posted(qs, w, e), hs, js, s)) \in Nat
         /\ Cardinality(Places(rt, Posted(qs, w, e), hs, js, s)) =
              Cardinality(Places(rt, qs, hs, js, s)) + Weight(e, s)
<1> DEFINE qs2 == Posted(qs, w, e)
           S == Places(rt, qs, hs, js, s)
           T == Places(rt, qs2, hs, js, s)
           n == Len(qs[w]) + 1
           p == <<"queue", w, n>>
<1>0. qs \in [Workers -> Seq(RunnableEvents)] /\ qs2 = [qs EXCEPT ![w] = Append(qs[w], e)]
  BY DEF Posted, QueuesOK
<1> HIDE DEF qs2
<1>1. qs2[w] = Append(qs[w], e) /\ \A v \in Workers : v # w => qs2[v] = qs[v]
  BY <1>0
<1>2. /\ DOMAIN qs2[w] = DOMAIN qs[w] \cup {n}
      /\ \A i \in DOMAIN qs[w] : qs2[w][i] = qs[w][i]
      /\ qs2[w][n] = e /\ n \notin DOMAIN qs[w]
  <2>1. qs[w] \in Seq(RunnableEvents)
    BY <1>0
  <2> QED
    BY <1>1, <2>1
<1> HIDE DEF n
<1>3. p \notin S
  BY <1>2, PlaceFacts
<1>4. p \in T <=> IsRequestOf(e, s)
  <2>1. p \in T <=> n \in DOMAIN qs2[w] /\ IsRequestOf(qs2[w][n], s)
    BY PlaceFacts
  <2> QED
    BY <1>2, <2>1
<1>5. S \ {p} = T \ {p}
  <2>1. \A x : x \in QueuePlaces(qs, s) <=>
          \E v \in Workers : \E i \in DOMAIN qs[v] : x = <<"queue", v, i>> /\ IsRequestOf(qs[v][i], s)
    BY DEF QueuePlaces
  <2>2. \A x : x \in QueuePlaces(qs2, s) <=>
          \E v \in Workers : \E i \in DOMAIN qs2[v] : x = <<"queue", v, i>> /\ IsRequestOf(qs2[v][i], s)
    BY DEF QueuePlaces
  <2>3. ASSUME NEW x, x # p PROVE x \in QueuePlaces(qs, s) <=> x \in QueuePlaces(qs2, s)
    <3>1. ASSUME NEW v \in Workers, NEW i \in DOMAIN qs[v], IsRequestOf(qs[v][i], s)
          PROVE  i \in DOMAIN qs2[v] /\ IsRequestOf(qs2[v][i], s)
      BY <1>1, <1>2, <3>1
    <3>2. ASSUME NEW v \in Workers, NEW i \in DOMAIN qs2[v], IsRequestOf(qs2[v][i], s),
                 ~(v = w /\ i = n)
          PROVE  i \in DOMAIN qs[v] /\ IsRequestOf(qs[v][i], s)
      BY <1>1, <1>2, <3>2
    <3>3. CASE x \in QueuePlaces(qs, s)
      BY <2>1, <2>2, <3>1, <3>3
    <3>4. CASE x \in QueuePlaces(qs2, s)
      <4>1. PICK v \in Workers : \E i \in DOMAIN qs2[v] :
              x = <<"queue", v, i>> /\ IsRequestOf(qs2[v][i], s)
        BY <2>2, <3>4
      <4>2. PICK i \in DOMAIN qs2[v] : x = <<"queue", v, i>> /\ IsRequestOf(qs2[v][i], s)
        BY <4>1
      <4>3. ~(v = w /\ i = n)
        BY <2>3, <4>2
      <4>4. i \in DOMAIN qs[v] /\ IsRequestOf(qs[v][i], s)
        BY <3>2, <4>2, <4>3
      <4>5. x \in QueuePlaces(qs, s)
        BY <2>1, <4>2, <4>4
      <4> QED
        BY <3>4, <4>5
    <3> QED
      BY <3>3, <3>4
  <2> HIDE DEF p
  <2> QED
    BY <2>3 DEF Places
<1> HIDE DEF S, T, p
<1>6. /\ IsFiniteSet(T) /\ Cardinality(S) \in Nat /\ Cardinality(T) \in Nat
      /\ Cardinality(T) = Cardinality(S) - (IF p \in S THEN 1 ELSE 0) + (IF p \in T THEN 1 ELSE 0)
  BY <1>5, SameBut DEF S
<1> QED
  BY <1>3, <1>4, <1>6 DEF S, T, Weight, qs2

\* A job is appended to the queue of the database thread.
LEMMA PostJobCounts ==
  ASSUME NEW js, JobsOK(js), NEW j \in RunnableJobs,
         NEW rt, NEW qs, NEW hs, NEW s, IsFiniteSet(Places(rt, qs, hs, js, s))
  PROVE  /\ IsFiniteSet(Places(rt, qs, hs, JobPosted(js, j), s))
         /\ Cardinality(Places(rt, qs, hs, js, s)) \in Nat
         /\ Cardinality(Places(rt, qs, hs, JobPosted(js, j), s)) \in Nat
         /\ Cardinality(Places(rt, qs, hs, JobPosted(js, j), s)) =
              Cardinality(Places(rt, qs, hs, js, s)) + Weight(j.event, s)
<1> DEFINE js2 == JobPosted(js, j)
           S == Places(rt, qs, hs, js, s)
           T == Places(rt, qs, hs, js2, s)
           n == Len(js) + 1
           p == <<"job", 0, n>>
<1>0. js \in Seq(RunnableJobs) /\ js2 = Append(js, j)
  BY DEF JobPosted, JobsOK
<1> HIDE DEF js2
<1>1. /\ DOMAIN js2 = DOMAIN js \cup {n}
      /\ \A i \in DOMAIN js : js2[i] = js[i]
      /\ js2[n] = j /\ n \notin DOMAIN js
  BY <1>0
<1> HIDE DEF n
<1>2. p \notin S
  BY <1>1, PlaceFacts
<1>3. p \in T <=> IsRequestOf(j.event, s)
  BY <1>1, PlaceFacts
<1>4. S \ {p} = T \ {p}
  BY <1>1 DEF Places, JobPlaces
<1> HIDE DEF S, T, p
<1>5. /\ IsFiniteSet(T) /\ Cardinality(S) \in Nat /\ Cardinality(T) \in Nat
      /\ Cardinality(T) = Cardinality(S) - (IF p \in S THEN 1 ELSE 0) + (IF p \in T THEN 1 ELSE 0)
  BY <1>4, SameBut DEF S
<1> QED
  BY <1>2, <1>3, <1>5 DEF S, T, Weight, js2

\* An answer is one packet more.
LEMMA SentCounts ==
  ASSUME NEW P, NEW q \in Seq(P), NEW p \in P, NEW q2, q2 = Append(q, p),
         IsFiniteSet(AnswersOf(q))
  PROVE  /\ IsFiniteSet(AnswersOf(q2))
         /\ Cardinality(AnswersOf(q)) \in Nat /\ Cardinality(AnswersOf(q2)) \in Nat
         /\ Cardinality(AnswersOf(q2)) = Cardinality(AnswersOf(q))
              + (IF IsResponse(p) /\ p.command # UNINITIALIZED THEN 1 ELSE 0)
<1> DEFINE S == AnswersOf(q)
           T == AnswersOf(q2)
           n == Len(q) + 1
<1>1. /\ DOMAIN q2 = DOMAIN q \cup {n}
      /\ \A i \in DOMAIN q : q2[i] = q[i]
      /\ q2[n] = p /\ n \notin DOMAIN q
  OBVIOUS
<1> HIDE DEF n
<1>2. n \notin S /\ (n \in T <=> IsResponse(p) /\ p.command # UNINITIALIZED)
  BY <1>1 DEF AnswersOf
<1>3. S \ {n} = T \ {n}
  BY <1>1 DEF AnswersOf
<1> HIDE DEF S, T
<1>4. /\ IsFiniteSet(T) /\ Cardinality(S) \in Nat /\ Cardinality(T) \in Nat
      /\ Cardinality(T) = Cardinality(S) - (IF n \in S THEN 1 ELSE 0) + (IF n \in T THEN 1 ELSE 0)
  BY <1>3, SameBut DEF S
<1> QED
  BY <1>2, <1>4 DEF S, T

\* The places with these numbers.
Indexed(k, w, I) == {<<k, w, i>> : i \in I}

\* Other places and the numbered ones.
Along(A, k, w, I) == A \cup Indexed(k, w, I)

\* The numbers I, once the first position is gone.
Shifted(I, I2) ==
  /\ I \subseteq Nat \ {0} /\ I2 \subseteq Nat \ {0}
  /\ \A i \in Nat \ {0} : i \in I2 <=> i + 1 \in I

\* No place of the set is a numbered one.
Apart(A, k, w) == \A i \in Nat : <<k, w, i>> \notin A

\* The first element of a queue is taken and the others move up by one.
LEMMA ShiftCounts ==
  ASSUME NEW A, NEW k, NEW w, NEW I, NEW I2, Shifted(I, I2), Apart(A, k, w),
         IsFiniteSet(Along(A, k, w, I))
  PROVE  /\ IsFiniteSet(Along(A, k, w, I2))
         /\ Cardinality(Along(A, k, w, I)) \in Nat /\ Cardinality(Along(A, k, w, I2)) \in Nat
         /\ Cardinality(Along(A, k, w, I2)) =
              Cardinality(Along(A, k, w, I)) - (IF 1 \in I THEN 1 ELSE 0)
<1> USE DEF Along, Indexed, Shifted, Apart
<1> DEFINE S == Along(A, k, w, I)
           T == Along(A, k, w, I2)
           p == <<k, w, 1>>
           U == S \ {p}
           F == [x \in T |-> IF x \in A THEN x ELSE <<k, w, x[3] + 1>>]
<1>1. p \in S <=> 1 \in I
  OBVIOUS
<1>2. \A x \in A : x # p
  OBVIOUS
<1>3. /\ \A x \in T : x \notin A => \E i \in I2 : x = <<k, w, i>>
      /\ \A x \in S : x \notin A => \E i \in I : x = <<k, w, i>>
  OBVIOUS
<1>4. \A x \in A : x \in T /\ x \in U /\ F[x] = x
  BY <1>2
<1>5. \A i \in I2 : /\ <<k, w, i>> \in T /\ F[<<k, w, i>>] = <<k, w, i + 1>>
                    /\ <<k, w, i + 1>> \in U /\ <<k, w, i + 1>> \notin A
  <2> SUFFICES ASSUME NEW i \in I2
               PROVE  /\ <<k, w, i>> \in T /\ F[<<k, w, i>>] = <<k, w, i + 1>>
                      /\ <<k, w, i + 1>> \in U /\ <<k, w, i + 1>> \notin A
    OBVIOUS
  <2>1. i \in Nat \ {0} /\ i + 1 \in I /\ i + 1 \in Nat /\ i + 1 # 1
    OBVIOUS
  <2>2. <<k, w, i>> \in T /\ <<k, w, i>> \notin A /\ <<k, w, i + 1>> \notin A
    BY <2>1
  <2>3. F[<<k, w, i>>] = <<k, w, i + 1>>
    BY <2>2
  <2>4. <<k, w, i + 1>> \in S /\ <<k, w, i + 1>> # p
    BY <2>1
  <2> QED
    BY <2>2, <2>3, <2>4
<1>6. F \in [T -> U]
  <2>1. \A x \in T : F[x] \in U
    BY <1>3, <1>4, <1>5
  <2> HIDE DEF U
  <2> QED
    BY <2>1
<1>7. \A x \in U : \E y \in T : F[y] = x
  <2> SUFFICES ASSUME NEW x \in U PROVE \E y \in T : F[y] = x
    OBVIOUS
  <2>1. CASE x \in A
    BY <1>4, <2>1
  <2>2. CASE x \notin A
    <3>1. PICK i \in I : x = <<k, w, i>>
      BY <1>3, <2>2
    <3>2. i \in Nat \ {0} /\ i # 1
      BY <3>1
    <3>3. i - 1 \in Nat \ {0} /\ (i - 1) + 1 = i
      BY <3>2
    <3>4. i - 1 \in I2
      BY <3>3
    <3>5. <<k, w, i - 1>> \in T /\ F[<<k, w, i - 1>>] = x
      BY <1>5, <3>1, <3>3, <3>4
    <3> HIDE DEF F
    <3> QED
      BY <3>5
  <2> QED
    BY <2>1, <2>2
<1> HIDE DEF F
<1>8. \A x, y \in T : F[x] = F[y] => x = y
  <2> SUFFICES ASSUME NEW x \in T, NEW y \in T, F[x] = F[y] PROVE x = y
    OBVIOUS
  <2>1. CASE x \in A /\ y \in A
    BY <1>4, <2>1
  <2>2. CASE x \in A /\ y \notin A
    <3>1. PICK j \in I2 : y = <<k, w, j>>
      BY <1>3, <2>2
    <3>2. F[x] \in A /\ F[y] = <<k, w, j + 1>>
      BY <1>4, <1>5, <2>2, <3>1
    <3>3. <<k, w, j + 1>> \notin A
      BY <1>5
    <3> QED
      BY <3>2, <3>3
  <2>3. CASE x \notin A /\ y \in A
    <3>1. PICK i \in I2 : x = <<k, w, i>>
      BY <1>3, <2>3
    <3>2. F[y] \in A /\ F[x] = <<k, w, i + 1>>
      BY <1>4, <1>5, <2>3, <3>1
    <3>3. <<k, w, i + 1>> \notin A
      BY <1>5
    <3> QED
      BY <3>2, <3>3
  <2>4. CASE x \notin A /\ y \notin A
    <3>1. PICK i \in I2 : x = <<k, w, i>>
      BY <1>3, <2>4
    <3>2. PICK j \in I2 : y = <<k, w, j>>
      BY <1>3, <2>4
    <3>3. <<k, w, i + 1>> = <<k, w, j + 1>>
      BY <1>5, <3>1, <3>2
    <3>4. i + 1 = j + 1 /\ i \in Nat /\ j \in Nat
      BY <3>3
    <3> QED
      BY <3>1, <3>2, <3>4
  <2> QED
    BY <2>1, <2>2, <2>3, <2>4
<1> HIDE DEF Along, Indexed, Shifted, Apart
<1>9. /\ IsFiniteSet(U) /\ Cardinality(S) \in Nat
      /\ Cardinality(U) = IF p \in S THEN Cardinality(S) - 1 ELSE Cardinality(S)
  BY FS_RemoveElement, FS_CardinalityType
<1> HIDE DEF U, p
<1>10. F \in Bijection(T, U)
  BY <1>6, <1>7, <1>8 DEF Bijection, Injection, Surjection, IsInjective
<1>11. F \in Injection(T, U) /\ F \in Surjection(T, U)
  BY <1>10 DEF Bijection
<1>12. IsFiniteSet(T) /\ Cardinality(T) = Cardinality(U)
  BY <1>9, <1>11, FS_Injection
<1>13. Cardinality(T) \in Nat
  BY <1>12, FS_CardinalityType
<1> QED
  BY <1>1, <1>9, <1>12, <1>13

\* A worker takes the event at the head of its queue.
LEMMA TakeCounts ==
  ASSUME NEW qs, QueuesOK(qs), NEW w \in Workers, qs[w] # << >>,
         NEW rt, NEW hs, NEW js, NEW s, IsFiniteSet(Places(rt, qs, hs, js, s))
  PROVE  /\ IsFiniteSet(Places(rt, Taken(qs, w), hs, js, s))
         /\ Cardinality(Places(rt, qs, hs, js, s)) \in Nat
         /\ Cardinality(Places(rt, Taken(qs, w), hs, js, s)) \in Nat
         /\ Cardinality(Places(rt, Taken(qs, w), hs, js, s)) =
              Cardinality(Places(rt, qs, hs, js, s)) - Weight(Head(qs[w]), s)
<1> DEFINE qs2 == Taken(qs, w)
           S == Places(rt, qs, hs, js, s)
           T == Places(rt, qs2, hs, js, s)
           q == qs[w]
           I == {j \in DOMAIN q : IsRequestOf(q[j], s)}
           I2 == {j \in DOMAIN Tail(q) : IsRequestOf(Tail(q)[j], s)}
           Others == UNION {{<<"queue", v, i>> : i \in {j \in DOMAIN qs[v] : IsRequestOf(qs[v][j], s)}}
                              : v \in Workers \ {w}}
           A == RoutingPlaces(rt, s) \cup HandPlaces(hs, s) \cup JobPlaces(js, s) \cup Others
           k == "queue"
<1>0. qs \in [Workers -> Seq(RunnableEvents)] /\ qs2 = [qs EXCEPT ![w] = Tail(qs[w])]
  BY DEF Taken, QueuesOK
<1> HIDE DEF qs2
<1>1. q \in Seq(RunnableEvents) /\ q # << >>
  BY <1>0
<1>2. /\ DOMAIN q \subseteq Nat \ {0} /\ DOMAIN Tail(q) \subseteq Nat \ {0}
      /\ \A i \in Nat \ {0} : i \in DOMAIN Tail(q) <=> i + 1 \in DOMAIN q
      /\ \A i \in DOMAIN Tail(q) : Tail(q)[i] = q[i + 1]
      /\ 1 \in DOMAIN q /\ Head(q) = q[1]
  <2> HIDE DEF q
  <2> QED
    BY <1>1
<1>3. qs2[w] = Tail(q) /\ \A v \in Workers \ {w} : qs2[v] = qs[v]
  BY <1>0
<1>4. Shifted(I, I2) /\ (1 \in I <=> IsRequestOf(Head(q), s))
  BY <1>2 DEF Shifted
<1>5. Apart(A, k, w)
  BY DEF Apart, RoutingPlaces, HandPlaces, JobPlaces
<1>6. QueuePlaces(qs, s) = Others \cup Indexed(k, w, I)
  BY DEF QueuePlaces, Indexed
<1>7. QueuePlaces(qs2, s) = Others \cup Indexed(k, w, I2)
  <2>1. Others = UNION {{<<"queue", v, i>> : i \in {j \in DOMAIN qs2[v] : IsRequestOf(qs2[v][j], s)}}
                          : v \in Workers \ {w}}
    BY <1>3
  <2>2. I2 = {j \in DOMAIN qs2[w] : IsRequestOf(qs2[w][j], s)}
    BY <1>3
  <2> HIDE DEF I2, Others
  <2> QED
    BY <2>1, <2>2 DEF QueuePlaces, Indexed
<1> HIDE DEF I, I2, Others, k, q
<1>8. /\ S = Along(A, k, w, I)
      /\ T = Along(A, k, w, I2)
  BY <1>6, <1>7 DEF Places, Along
<1> HIDE DEF S, T, A
<1>9. /\ IsFiniteSet(T) /\ Cardinality(S) \in Nat /\ Cardinality(T) \in Nat
      /\ Cardinality(T) = Cardinality(S) - (IF 1 \in I THEN 1 ELSE 0)
  <2>1. IsFiniteSet(S)
    BY DEF S
  <2> QED
    BY <1>4, <1>5, <1>8, <2>1, ShiftCounts
<1> QED
  BY <1>4, <1>9 DEF S, T, Weight, qs2, q

\* The database thread takes the job at the head of its queue.
LEMMA TakeJobCounts ==
  ASSUME NEW js, JobsOK(js), js # << >>,
         NEW rt, NEW qs, NEW hs, NEW s, IsFiniteSet(Places(rt, qs, hs, js, s))
  PROVE  /\ IsFiniteSet(Places(rt, qs, hs, JobTaken(js), s))
         /\ Cardinality(Places(rt, qs, hs, js, s)) \in Nat
         /\ Cardinality(Places(rt, qs, hs, JobTaken(js), s)) \in Nat
         /\ Cardinality(Places(rt, qs, hs, JobTaken(js), s)) =
              Cardinality(Places(rt, qs, hs, js, s)) - Weight(Head(js).event, s)
<1> DEFINE js2 == JobTaken(js)
           S == Places(rt, qs, hs, js, s)
           T == Places(rt, qs, hs, js2, s)
           I == {j \in DOMAIN js : IsRequestOf(js[j].event, s)}
           I2 == {j \in DOMAIN js2 : IsRequestOf(js2[j].event, s)}
           A == RoutingPlaces(rt, s) \cup HandPlaces(hs, s) \cup QueuePlaces(qs, s)
           k == "job"
           z == 0
<1>0. js \in Seq(RunnableJobs) /\ js2 = Tail(js)
  BY DEF JobTaken, JobsOK
<1> HIDE DEF js2
<1>1. /\ DOMAIN js \subseteq Nat \ {0} /\ DOMAIN js2 \subseteq Nat \ {0}
      /\ \A i \in Nat \ {0} : i \in DOMAIN js2 <=> i + 1 \in DOMAIN js
      /\ \A i \in DOMAIN js2 : js2[i] = js[i + 1]
      /\ 1 \in DOMAIN js /\ Head(js) = js[1]
  BY <1>0
<1>2. Shifted(I, I2) /\ (1 \in I <=> IsRequestOf(Head(js).event, s))
  BY <1>1 DEF Shifted
<1>3. Apart(A, k, z)
  BY DEF Apart, RoutingPlaces, HandPlaces, QueuePlaces
<1>4. /\ S = Along(A, k, z, I)
      /\ T = Along(A, k, z, I2)
  BY DEF Places, JobPlaces, Along, Indexed
<1> HIDE DEF I, I2, k, z, A, S, T
<1>5. /\ IsFiniteSet(T) /\ Cardinality(S) \in Nat /\ Cardinality(T) \in Nat
      /\ Cardinality(T) = Cardinality(S) - (IF 1 \in I THEN 1 ELSE 0)
  <2>1. IsFiniteSet(S)
    BY DEF S
  <2> QED
    BY <1>2, <1>3, <1>4, <2>1, ShiftCounts
<1> QED
  BY <1>2, <1>5 DEF S, T, Weight, js2

-----------------------------------------------------------------------------
(***************************************************************************)
(* The changes that steps are made of, as changes of a balance.            *)
(***************************************************************************)
\* The answers of s and its requests under way are at most n.
Balanced(rt, qs, hs, js, q, n, s) ==
  /\ IsFiniteSet(Places(rt, qs, hs, js, s))
  /\ IsFiniteSet(AnswersOf(q))
  /\ Cardinality(AnswersOf(q)) + Cardinality(Places(rt, qs, hs, js, s)) <= n

\* So are they in the present state.
Kept(n, s) == Balanced(routing, event_queue, event, job_queue, sent[s], n, s)

\* The balance is what CountsInv says of every session.
LEMMA CountsAreKept == CountsInv <=> \A s \in Sessions : Kept(received[s], s)
<1>1. ASSUME NEW s PROVE Outstanding(s) = Places(routing, event_queue, event, job_queue, s)
  BY DEF Outstanding, Places, RoutingPlaces, HandPlaces, QueuePlaces, JobPlaces
<1>2. ASSUME NEW s PROVE Answers(s) = AnswersOf(sent[s])
  BY DEF Answers, AnswersOf
<1> QED
  BY <1>1, <1>2 DEF CountsInv, Kept, Balanced

\* An event counts for one session, and RoomEvent{} for none.
LEMMA WeightFacts ==
  /\ \A e, s : Weight(e, s) \in {0, 1}
  /\ \A s \in Sessions : Weight(EmptyEvent, s) = 0
  /\ \A e, f, s : e.session = f.session /\ e.initial_command = f.initial_command
                    => Weight(e, s) = Weight(f, s)
  /\ \A e, s : e.initial_command = UNINITIALIZED => Weight(e, s) = 0
BY SessionAssumption DEF Weight, IsRequestOf, EmptyEvent

\* What is allowed to be larger may be larger.
LEMMA MoreAllowed ==
  ASSUME NEW rt, NEW qs, NEW hs, NEW js, NEW q, NEW s, NEW n \in Int, NEW m \in Int,
         Balanced(rt, qs, hs, js, q, n, s), n <= m
  PROVE  Balanced(rt, qs, hs, js, q, m, s)
<1>1. Cardinality(AnswersOf(q)) \in Nat /\ Cardinality(Places(rt, qs, hs, js, s)) \in Nat
  BY FS_CardinalityType DEF Balanced
<1> QED
  BY <1>1 DEF Balanced

\* A thread routes another event.
LEMMA RouteBalance ==
  ASSUME NEW rt, DOMAIN rt = Threads, NEW t \in Threads, NEW x,
         NEW qs, NEW hs, NEW js, NEW q, NEW s, NEW n \in Int, Balanced(rt, qs, hs, js, q, n, s)
  PROVE  /\ n - Weight(rt[t].event, s) + Weight(x.event, s) \in Int
         /\ Balanced(With(rt, t, x), qs, hs, js, q, n - Weight(rt[t].event, s) + Weight(x.event, s), s)
<1>0. IsFiniteSet(Places(rt, qs, hs, js, s))
  BY DEF Balanced
<1>1. /\ IsFiniteSet(Places(With(rt, t, x), qs, hs, js, s))
      /\ Cardinality(Places(rt, qs, hs, js, s)) \in Nat
      /\ Cardinality(Places(With(rt, t, x), qs, hs, js, s)) \in Nat
      /\ Cardinality(Places(With(rt, t, x), qs, hs, js, s)) =
           Cardinality(Places(rt, qs, hs, js, s)) - Weight(rt[t].event, s) + Weight(x.event, s)
  BY <1>0, RouteCounts
<1>2. Cardinality(AnswersOf(q)) \in Nat
  BY FS_CardinalityType DEF Balanced
<1>3. Weight(rt[t].event, s) \in {0, 1} /\ Weight(x.event, s) \in {0, 1}
  BY WeightFacts
<1> QED
  BY <1>1, <1>2, <1>3 DEF Balanced

\* A worker holds another event.
LEMMA HandBalance ==
  ASSUME NEW hs, DOMAIN hs = Workers, NEW w \in Workers, NEW e,
         NEW rt, NEW qs, NEW js, NEW q, NEW s, NEW n \in Int, Balanced(rt, qs, hs, js, q, n, s)
  PROVE  /\ n - Weight(hs[w], s) + Weight(e, s) \in Int
         /\ Balanced(rt, qs, With(hs, w, e), js, q, n - Weight(hs[w], s) + Weight(e, s), s)
<1>0. IsFiniteSet(Places(rt, qs, hs, js, s))
  BY DEF Balanced
<1>1. /\ IsFiniteSet(Places(rt, qs, With(hs, w, e), js, s))
      /\ Cardinality(Places(rt, qs, hs, js, s)) \in Nat
      /\ Cardinality(Places(rt, qs, With(hs, w, e), js, s)) \in Nat
      /\ Cardinality(Places(rt, qs, With(hs, w, e), js, s)) =
           Cardinality(Places(rt, qs, hs, js, s)) - Weight(hs[w], s) + Weight(e, s)
  BY <1>0, HandCounts
<1>2. Cardinality(AnswersOf(q)) \in Nat
  BY FS_CardinalityType DEF Balanced
<1>3. Weight(hs[w], s) \in {0, 1} /\ Weight(e, s) \in {0, 1}
  BY WeightFacts
<1> QED
  BY <1>1, <1>2, <1>3 DEF Balanced

\* An event is posted; one that is posted to no worker is lost.
LEMMA PostBalance ==
  ASSUME NEW qs, QueuesOK(qs), NEW w, NEW e \in RunnableEvents,
         NEW rt, NEW hs, NEW js, NEW q, NEW s, NEW n \in Int, Balanced(rt, qs, hs, js, q, n, s)
  PROVE  /\ n + Weight(e, s) \in Int
         /\ Balanced(rt, Posted(qs, w, e), hs, js, q, n + Weight(e, s), s)
<1>0. IsFiniteSet(Places(rt, qs, hs, js, s))
  BY DEF Balanced
<1>1. Cardinality(AnswersOf(q)) \in Nat
  BY FS_CardinalityType DEF Balanced
<1>2. Weight(e, s) \in {0, 1}
  BY WeightFacts
<1>3. CASE w \in Workers
  <2>1. /\ IsFiniteSet(Places(rt, Posted(qs, w, e), hs, js, s))
        /\ Cardinality(Places(rt, qs, hs, js, s)) \in Nat
        /\ Cardinality(Places(rt, Posted(qs, w, e), hs, js, s)) \in Nat
        /\ Cardinality(Places(rt, Posted(qs, w, e), hs, js, s)) =
             Cardinality(Places(rt, qs, hs, js, s)) + Weight(e, s)
    BY <1>0, <1>3, PostCounts
  <2> QED
    BY <1>1, <1>2, <2>1 DEF Balanced
<1>4. CASE w \notin Workers
  <2>1. Posted(qs, w, e) = qs
    BY <1>4 DEF Posted, QueuesOK
  <2>2. n \in Int /\ n + Weight(e, s) \in Int /\ n <= n + Weight(e, s)
    BY <1>2
  <2>3. Balanced(rt, qs, hs, js, q, n + Weight(e, s), s)
    BY <2>2, MoreAllowed
  <2> QED
    BY <2>1, <2>2, <2>3
<1> QED
  BY <1>3, <1>4

\* A job is posted.
LEMMA PostJobBalance ==
  ASSUME NEW js, JobsOK(js), NEW j \in RunnableJobs,
         NEW rt, NEW qs, NEW hs, NEW q, NEW s, NEW n \in Int, Balanced(rt, qs, hs, js, q, n, s)
  PROVE  /\ n + Weight(j.event, s) \in Int
         /\ Balanced(rt, qs, hs, JobPosted(js, j), q, n + Weight(j.event, s), s)
<1>0. IsFiniteSet(Places(rt, qs, hs, js, s))
  BY DEF Balanced
<1>1. /\ IsFiniteSet(Places(rt, qs, hs, JobPosted(js, j), s))
      /\ Cardinality(Places(rt, qs, hs, js, s)) \in Nat
      /\ Cardinality(Places(rt, qs, hs, JobPosted(js, j), s)) \in Nat
      /\ Cardinality(Places(rt, qs, hs, JobPosted(js, j), s)) =
           Cardinality(Places(rt, qs, hs, js, s)) + Weight(j.event, s)
  BY <1>0, PostJobCounts
<1>2. Cardinality(AnswersOf(q)) \in Nat
  BY FS_CardinalityType DEF Balanced
<1>3. Weight(j.event, s) \in {0, 1}
  BY WeightFacts
<1> QED
  BY <1>1, <1>2, <1>3 DEF Balanced

\* An event is taken from a queue.
LEMMA TakeBalance ==
  ASSUME NEW qs, QueuesOK(qs), NEW w \in Workers, qs[w] # << >>,
         NEW rt, NEW hs, NEW js, NEW q, NEW s, NEW n \in Int, Balanced(rt, qs, hs, js, q, n, s)
  PROVE  /\ n - Weight(Head(qs[w]), s) \in Int
         /\ Balanced(rt, Taken(qs, w), hs, js, q, n - Weight(Head(qs[w]), s), s)
<1>0. IsFiniteSet(Places(rt, qs, hs, js, s))
  BY DEF Balanced
<1>1. /\ IsFiniteSet(Places(rt, Taken(qs, w), hs, js, s))
      /\ Cardinality(Places(rt, qs, hs, js, s)) \in Nat
      /\ Cardinality(Places(rt, Taken(qs, w), hs, js, s)) \in Nat
      /\ Cardinality(Places(rt, Taken(qs, w), hs, js, s)) =
           Cardinality(Places(rt, qs, hs, js, s)) - Weight(Head(qs[w]), s)
  BY <1>0, TakeCounts
<1>2. Cardinality(AnswersOf(q)) \in Nat
  BY FS_CardinalityType DEF Balanced
<1>3. Weight(Head(qs[w]), s) \in {0, 1}
  BY WeightFacts
<1> QED
  BY <1>1, <1>2, <1>3 DEF Balanced

\* A job is taken.
LEMMA TakeJobBalance ==
  ASSUME NEW js, JobsOK(js), js # << >>,
         NEW rt, NEW qs, NEW hs, NEW q, NEW s, NEW n \in Int, Balanced(rt, qs, hs, js, q, n, s)
  PROVE  /\ n - Weight(Head(js).event, s) \in Int
         /\ Balanced(rt, qs, hs, JobTaken(js), q, n - Weight(Head(js).event, s), s)
<1>0. IsFiniteSet(Places(rt, qs, hs, js, s))
  BY DEF Balanced
<1>1. /\ IsFiniteSet(Places(rt, qs, hs, JobTaken(js), s))
      /\ Cardinality(Places(rt, qs, hs, js, s)) \in Nat
      /\ Cardinality(Places(rt, qs, hs, JobTaken(js), s)) \in Nat
      /\ Cardinality(Places(rt, qs, hs, JobTaken(js), s)) =
           Cardinality(Places(rt, qs, hs, js, s)) - Weight(Head(js).event, s)
  BY <1>0, TakeJobCounts
<1>2. Cardinality(AnswersOf(q)) \in Nat
  BY FS_CardinalityType DEF Balanced
<1>3. Weight(Head(js).event, s) \in {0, 1}
  BY WeightFacts
<1> QED
  BY <1>1, <1>2, <1>3 DEF Balanced


-----------------------------------------------------------------------------
(***************************************************************************)
(* The helpers of the actions.                                             *)
(***************************************************************************)
\* The types that the balance is kept under.
LEMMA StateFacts ==
  ASSUME IInv
  PROVE  /\ DOMAIN routing = Threads /\ DOMAIN event = Workers
         /\ QueuesOK(event_queue) /\ JobsOK(job_queue)
         /\ \A s \in Sessions : received[s] \in Int
         /\ \A t \in Threads : routing[t].event \in RunnableEvents
         /\ \A w \in Workers : event[w] \in RunnableEvents
BY RequestAssumption DEF IInv, StateTypeOK, EventInv, QueuesOK, JobsOK

\* A worker answers the event it holds.
LEMMA SendBalance ==
  ASSUME IInv, NEW w \in Workers, NEW res \in Results, send_response(event[w], res),
         NEW s \in Sessions, NEW rt, NEW qs, NEW hs, NEW js, NEW n \in Int,
         Balanced(rt, qs, hs, js, sent[s], n, s)
  PROVE  /\ n + Weight(event[w], s) \in Int
         /\ Balanced(rt, qs, hs, js, sent'[s], n + Weight(event[w], s), s)
<1> DEFINE e == event[w]
           p == Response(e.initial_command, res, e.response_data)
<1>1. e \in RunnableEvents /\ p \in Packets
  BY StateFacts, ResponseFacts
<1>2. IsResponse(p) /\ p.command = e.initial_command
  BY DEF Response, IsResponse
<1>3. sent \in [Sessions -> Seq(Packets)] /\ sent' = [sent EXCEPT ![e.session] = Append(sent[e.session], p)]
  BY DEF IInv, StateTypeOK, send_response
<1>4. Weight(e, s) \in {0, 1}
  BY WeightFacts
<1> HIDE DEF p, e
<1>5. CASE s = e.session
  <2>1. sent'[s] = Append(sent[s], p) /\ sent[s] \in Seq(Packets)
    BY <1>3, <1>5
  <2>2. IsFiniteSet(AnswersOf(sent[s]))
    BY DEF Balanced
  <2>3. /\ IsFiniteSet(AnswersOf(sent'[s]))
        /\ Cardinality(AnswersOf(sent[s])) \in Nat /\ Cardinality(AnswersOf(sent'[s])) \in Nat
        /\ Cardinality(AnswersOf(sent'[s])) = Cardinality(AnswersOf(sent[s]))
             + (IF IsResponse(p) /\ p.command # UNINITIALIZED THEN 1 ELSE 0)
    BY <1>1, <2>1, <2>2, SentCounts
  <2>4. (IF IsResponse(p) /\ p.command # UNINITIALIZED THEN 1 ELSE 0) = Weight(e, s)
    BY <1>2, <1>5 DEF Weight, IsRequestOf
  <2>5. Cardinality(Places(rt, qs, hs, js, s)) \in Nat
    BY FS_CardinalityType DEF Balanced
  <2>6. Balanced(rt, qs, hs, js, sent'[s], n + Weight(e, s), s)
    BY <1>4, <2>3, <2>4, <2>5 DEF Balanced
  <2> QED
    BY <1>4, <2>6 DEF e
<1>6. CASE s # e.session
  <2>1. sent'[s] = sent[s]
    BY <1>3, <1>6
  <2>2. Weight(e, s) = 0
    BY <1>6 DEF Weight, IsRequestOf
  <2>3. n + Weight(e, s) = n
    BY <2>2
  <2> QED
    BY <2>1, <2>3 DEF e
<1> QED
  BY <1>5, <1>6

\* The event is dropped.
LEMMA DropKeeps ==
  ASSUME IInv, NEW w \in Workers, event' = [event EXCEPT ![w] = EmptyEvent],
         NEW s \in Sessions, NEW rt, NEW qs, NEW js, NEW q, NEW n \in Int,
         Balanced(rt, qs, event, js, q, n, s)
  PROVE  /\ n - Weight(event[w], s) \in Int
         /\ Balanced(rt, qs, event', js, q, n - Weight(event[w], s), s)
<1>1. event' = With(event, w, EmptyEvent)
  BY DEF With
<1>2. Balanced(rt, qs, event', js, q, n - Weight(event[w], s) + Weight(EmptyEvent, s), s)
  <2>1. DOMAIN event = Workers
    BY StateFacts
  <2>2. Balanced(rt, qs, With(event, w, EmptyEvent), js, q, n - Weight(event[w], s) + Weight(EmptyEvent, s), s)
    BY <2>1, HandBalance
  <2> QED
    BY <1>1, <2>2
<1>3. Weight(EmptyEvent, s) = 0 /\ Weight(event[w], s) \in {0, 1}
  BY WeightFacts
<1>4. n - Weight(event[w], s) + Weight(EmptyEvent, s) = n - Weight(event[w], s)
  BY <1>3
<1> QED
  BY <1>2, <1>3, <1>4

\* A worker that drops its event, answered or not.
LEMMA EndKeeps ==
  ASSUME IInv, NEW w \in Workers, NEW res \in Results,
         send_response(event[w], res) \/ UNCHANGED sent,
         Return(w), UNCHANGED <<routing, event_queue, job_queue, received>>,
         NEW s \in Sessions, NEW n \in Int, Kept(n, s)
  PROVE  Kept(n, s)'
<1> DEFINE k == Weight(event[w], s)
<1>0. /\ Balanced(routing, event_queue, event, job_queue, sent[s], n, s)
      /\ n \in Int /\ k \in {0, 1}
  BY StateFacts, WeightFacts DEF Kept
<1>1. /\ n - k \in Int
      /\ Balanced(routing, event_queue, event', job_queue, sent[s], n - k, s)
  BY <1>0, DropKeeps DEF Return
<1>2. Balanced(routing, event_queue, event', job_queue, sent'[s], n, s)
  <2>1. CASE UNCHANGED sent
    <3>1. n - k <= n
      BY <1>0
    <3> HIDE DEF k
    <3>2. Balanced(routing, event_queue, event', job_queue, sent[s], n, s)
      BY <1>0, <1>1, <3>1, MoreAllowed
    <3> QED
      BY <2>1, <3>2
  <2>2. CASE send_response(event[w], res)
    <3>1. Balanced(routing, event_queue, event', job_queue, sent'[s], (n - k) + k, s)
      BY <1>1, <2>2, SendBalance
    <3>2. (n - k) + k = n
      BY <1>0
    <3> QED
      BY <3>1, <3>2
  <2> QED
    BY <2>1, <2>2
<1> QED
  BY <1>2 DEF Kept

\* A worker goes on with the event it holds.
LEMMA ContinueKeeps ==
  ASSUME IInv, NEW w \in Workers, NEW e, event' = [event EXCEPT ![w] = e],
         e.session = event[w].session, e.initial_command = event[w].initial_command,
         NEW rt, NEW qs, NEW js, NEW q, NEW n \in Int, NEW s \in Sessions,
         Balanced(rt, qs, event, js, q, n, s)
  PROVE  Balanced(rt, qs, event', js, q, n, s)
<1>1. event' = With(event, w, e)
  BY DEF With
<1>2. Balanced(rt, qs, event', js, q, n - Weight(event[w], s) + Weight(e, s), s)
  <2>1. DOMAIN event = Workers
    BY StateFacts
  <2>2. Balanced(rt, qs, With(event, w, e), js, q, n - Weight(event[w], s) + Weight(e, s), s)
    BY <2>1, HandBalance
  <2> QED
    BY <1>1, <2>2
<1>3. Weight(e, s) = Weight(event[w], s) /\ Weight(event[w], s) \in {0, 1}
  BY WeightFacts
<1>4. n - Weight(event[w], s) + Weight(e, s) = n
  BY <1>3
<1> QED
  BY <1>2, <1>4

\* An action that succeeds does not change whose request it runs.
LEMMA AdvancedSame ==
  ASSUME NEW e \in RunnableEvents, NEW res
  PROVE  /\ Advanced(e, res).session = e.session
         /\ Advanced(e, res).initial_command = e.initial_command
BY DEF Advanced, RunnableEvents, FormedEvents, RoomEvents

\* What does not move an event.
LEMMA UnmovedKeeps ==
  ASSUME IInv, UNCHANGED <<routing, event_queue, job_queue, received>>,
         NEW s \in Sessions, NEW n \in Int, sent'[s] = sent[s],
         \/ UNCHANGED event
         \/ \E w \in Workers, res \in Results : Continue(w, res),
         Kept(n, s)
  PROVE  Kept(n, s)'
<1>1. CASE UNCHANGED event
  BY <1>1 DEF Kept
<1>2. CASE \E w \in Workers, res \in Results : Continue(w, res)
  <2>1. PICK w \in Workers, res \in Results : Continue(w, res)
    BY <1>2
  <2> DEFINE e == Advanced(event[w], res)
  <2>2. event' = [event EXCEPT ![w] = e]
    BY <2>1 DEF Continue
  <2>3. e.session = event[w].session /\ e.initial_command = event[w].initial_command
    BY StateFacts, AdvancedSame
  <2>4. n \in Int
    BY StateFacts
  <2>5. Balanced(routing, event_queue, event, job_queue, sent[s], n, s)
    BY DEF Kept
  <2> HIDE DEF e
  <2>6. Balanced(routing, event_queue, event', job_queue, sent[s], n, s)
    BY <2>2, <2>3, <2>4, <2>5, ContinueKeeps
  <2> QED
    BY <2>6 DEF Kept
<1> QED
  BY <1>1, <1>2


\* A thread is given an event to route, in the place of the one it had.
LEMMA GivenBalance ==
  ASSUME IInv, NEW t \in Threads, NEW x, routing' = [routing EXCEPT ![t] = x],
         NEW s \in Sessions, NEW qs, NEW hs, NEW js, NEW q, NEW n \in Int,
         Balanced(routing, qs, hs, js, q, n, s)
  PROVE  /\ n + Weight(x.event, s) \in Int
         /\ Balanced(routing', qs, hs, js, q, n + Weight(x.event, s), s)
<1>1. routing' = With(routing, t, x)
  BY DEF With
<1> DEFINE m == n - Weight(routing[t].event, s) + Weight(x.event, s)
<1>2. m \in Int /\ Balanced(routing', qs, hs, js, q, m, s)
  <2>1. DOMAIN routing = Threads
    BY StateFacts
  <2>2. m \in Int /\ Balanced(With(routing, t, x), qs, hs, js, q, m, s)
    BY <2>1, RouteBalance
  <2> QED
    BY <1>1, <2>2
<1>3. Weight(routing[t].event, s) \in {0, 1} /\ Weight(x.event, s) \in {0, 1}
  BY WeightFacts
<1>4. n + Weight(x.event, s) \in Int /\ m <= n + Weight(x.event, s)
  BY <1>3
<1> HIDE DEF m
<1> QED
  BY <1>2, <1>4, MoreAllowed

\* route_event keeps the event or loses it.
LEMMA RouteEventBalance ==
  ASSUME IInv, NEW t \in Threads, NEW e, NEW room, route_event(t, e, room),
         NEW s \in Sessions, NEW qs, NEW hs, NEW js, NEW q, NEW n \in Int,
         Balanced(routing, qs, hs, js, q, n, s)
  PROVE  /\ n + Weight(e, s) \in Int
         /\ Balanced(routing', qs, hs, js, q, n + Weight(e, s), s)
<1> DEFINE x == [to |-> find_worker(room), event |-> e]
<1>1. routing' = routing \/ routing' = [routing EXCEPT ![t] = x]
  BY DEF route_event
<1>2. x.event = e
  OBVIOUS
<1>3. Weight(e, s) \in {0, 1}
  BY WeightFacts
<1> HIDE DEF x
<1>4. CASE routing' = routing
  <2>1. n + Weight(e, s) \in Int /\ n <= n + Weight(e, s)
    BY <1>3
  <2> QED
    BY <1>4, <2>1, MoreAllowed
<1>5. CASE routing' = [routing EXCEPT ![t] = x]
  BY <1>2, <1>5, GivenBalance
<1> QED
  BY <1>1, <1>4, <1>5

\* post_event adds one event to one queue.
LEMMA PostEventBalance ==
  ASSUME IInv, NEW w, NEW e \in RunnableEvents, post_event(w, e),
         NEW s, NEW rt, NEW hs, NEW js, NEW q, NEW n \in Int,
         Balanced(rt, event_queue, hs, js, q, n, s)
  PROVE  /\ n + Weight(e, s) \in Int
         /\ Balanced(rt, event_queue', hs, js, q, n + Weight(e, s), s)
<1>1. event_queue' = Posted(event_queue, w, e)
  BY DEF post_event, Posted
<1>2. QueuesOK(event_queue)
  BY StateFacts
<1> QED
  BY <1>1, <1>2, PostBalance

-----------------------------------------------------------------------------
(***************************************************************************)
(* The actions.                                                            *)
(***************************************************************************)
\* The event that accept_client posts answers nothing.
LEMMA AcceptKeeps ==
  ASSUME IInv, NEW c \in Sessions, AcceptClient(c), NEW s \in Sessions, NEW n \in Int, Kept(n, s)
  PROVE  Kept(n, s)'
<1> DEFINE e == AcceptEvent(c)
<1>1. e \in RunnableEvents
  BY AcceptRunnable
<1>2. Weight(e, s) = 0
  <2>1. e.initial_command = UNINITIALIZED
    BY DEF AcceptEvent, NewEvent, EmptyEvent
  <2> QED
    BY <2>1, WeightFacts
<1>3. /\ Balanced(routing, event_queue, event, job_queue, sent[s], n, s) /\ n \in Int
      /\ n + Weight(e, s) = n
  BY <1>2, StateFacts DEF Kept
<1>4. post_event(LOBBY_WORKER_ID, e)
  BY DEF AcceptClient
<1> HIDE DEF e
<1>5. Balanced(routing, event_queue', event, job_queue, sent[s], n + Weight(e, s), s)
  BY <1>1, <1>3, <1>4, PostEventBalance
<1>6. Balanced(routing, event_queue', event, job_queue, sent[s], n, s)
  BY <1>3, <1>5
<1>7. UNCHANGED <<routing, event, job_queue, sent, received>>
  BY DEF AcceptClient, workerVars, dbVars
<1> QED
  BY <1>6, <1>7 DEF Kept

\* One packet is read, and one event is made from it.
LEMMA DispatchKeeps ==
  ASSUME IInv, NEW c \in Sessions, NEW cmd \in Commands, NEW room \in RoomIds,
         DispatchPacket(c, cmd, room), NEW s \in Sessions, NEW n \in Int, Kept(n, s)
  PROVE  Kept(n + (IF s = c THEN 1 ELSE 0), s)'
<1> DEFINE e == PacketEvent(cmd, c, room)
           f == RoomNotFoundEvent(cmd, c)
           one == IF s = c THEN 1 ELSE 0
<1>1. e.session = c /\ f.session = c
  BY DEF PacketEvent, RoomNotFoundEvent, NewEvent, EmptyEvent
<1>2. Weight(e, s) <= one /\ Weight(f, s) <= one /\ Weight(e, s) \in Int /\ Weight(f, s) \in Int
  <2>1. c # s => Weight(e, s) = 0 /\ Weight(f, s) = 0
    BY <1>1 DEF Weight, IsRequestOf
  <2>2. Weight(e, s) \in {0, 1} /\ Weight(f, s) \in {0, 1}
    BY WeightFacts
  <2> HIDE DEF e, f
  <2> QED
    BY <2>1, <2>2
<1>3. Balanced(routing, event_queue, event, job_queue, sent[s], n, s) /\ n \in Int
  BY StateFacts DEF Kept
<1>5. f \in RunnableEvents /\ MAIN_THREAD \in Threads
  BY RoomNotFoundRunnable, ConstantFacts
<1>6. UNCHANGED <<event, job_queue, sent>>
  BY DEF DispatchPacket, workerVars, dbVars
<1>7. \/ /\ routing' = routing
         /\ post_event(LOBBY_WORKER_ID, f)
      \/ /\ route_event(MAIN_THREAD, e, FirstRoom(cmd, room))
         /\ event_queue' = event_queue
  BY DEF DispatchPacket, route_event
<1> HIDE DEF e, f, one
<1>8. n + one \in Int
  BY <1>3 DEF one
<1>9. CASE routing' = routing /\ post_event(LOBBY_WORKER_ID, f)
  <2>1. /\ n + Weight(f, s) \in Int
        /\ Balanced(routing, event_queue', event, job_queue, sent[s], n + Weight(f, s), s)
    BY <1>3, <1>5, <1>9, PostEventBalance
  <2>2. n + Weight(f, s) <= n + one
    BY <1>2, <1>3, <1>8 DEF one
  <2>3. Balanced(routing, event_queue', event, job_queue, sent[s], n + one, s)
    BY <1>8, <2>1, <2>2, MoreAllowed
  <2> QED
    BY <1>6, <1>9, <2>3 DEF Kept, one
<1>10. CASE route_event(MAIN_THREAD, e, FirstRoom(cmd, room)) /\ event_queue' = event_queue
  <2>1. /\ n + Weight(e, s) \in Int
        /\ Balanced(routing', event_queue, event, job_queue, sent[s], n + Weight(e, s), s)
    BY <1>3, <1>5, <1>10, RouteEventBalance
  <2>2. n + Weight(e, s) <= n + one
    BY <1>2, <1>3, <1>8 DEF one
  <2>3. Balanced(routing', event_queue, event, job_queue, sent[s], n + one, s)
    BY <1>8, <2>1, <2>2, MoreAllowed
  <2> QED
    BY <1>6, <1>10, <2>3 DEF Kept, one
<1> QED
  BY <1>7, <1>9, <1>10

\* The events that close_session routes answer nothing.
LEMMA CloseKeeps ==
  ASSUME IInv, MainStep \/ (\E c \in Sessions : CloseSession(c)),
         NEW s \in Sessions, NEW n \in Int, Kept(n, s)
  PROVE  Kept(n, s)'
<1>1. UNCHANGED <<event_queue, event, job_queue, sent, received>>
  BY DEF MainStep, DisconnectRoom, DisconnectLobby, RemoveSession, CloseSession, workerVars, dbVars
<1>2. \/ routing' = routing
      \/ \E r \in RoomIds : route_event(MAIN_THREAD, DisconnectEvent(main.fd, r), r)
  <2>1. main.room \in RoomIds /\ LOBBY_ROOM_ID \in RoomIds
    BY ConstantFacts DEF IInv, StateTypeOK
  <2> QED
    BY <2>1 DEF MainStep, DisconnectRoom, DisconnectLobby, RemoveSession, CloseSession
<1>3. CASE routing' = routing
  BY <1>1, <1>3 DEF Kept
<1>4. CASE \E r \in RoomIds : route_event(MAIN_THREAD, DisconnectEvent(main.fd, r), r)
  <2>1. PICK r \in RoomIds : route_event(MAIN_THREAD, DisconnectEvent(main.fd, r), r)
    BY <1>4
  <2> DEFINE e == DisconnectEvent(main.fd, r)
  <2>2. e.initial_command = UNINITIALIZED
    BY DEF DisconnectEvent, NewEvent, EmptyEvent
  <2>3. Weight(e, s) = 0 /\ n \in Int /\ MAIN_THREAD \in Threads
    BY <2>2, WeightFacts, StateFacts, ConstantFacts
  <2>4. Balanced(routing, event_queue, event, job_queue, sent[s], n, s)
    BY DEF Kept
  <2> HIDE DEF e
  <2>5. Balanced(routing', event_queue, event, job_queue, sent[s], n + Weight(e, s), s)
    BY <2>1, <2>3, <2>4, RouteEventBalance DEF e
  <2>6. n + Weight(e, s) = n
    BY <2>3
  <2> QED
    BY <1>1, <2>5, <2>6 DEF Kept
<1> QED
  BY <1>2, <1>3, <1>4

\* The routed event is posted, by the thread that routed it.
LEMMA PostRoutedKeeps ==
  ASSUME IInv, NEW t \in Threads, PostRouted(t), NEW s \in Sessions, NEW n \in Int, Kept(n, s)
  PROVE  Kept(n, s)'
<1> DEFINE e == routing[t].event
           m == n - Weight(e, s) + Weight(NotRouting.event, s)
<1>1. UNCHANGED <<event, job_queue, sent, received>>
  BY DEF PostRouted, mainVars, workerVars, dbVars
<1>2. /\ post_event(routing[t].to, e) /\ e \in RunnableEvents
      /\ routing' = With(routing, t, NotRouting)
      /\ DOMAIN routing = Threads
  BY StateFacts DEF PostRouted, With
<1>3. Balanced(routing, event_queue, event, job_queue, sent[s], n, s) /\ n \in Int
  BY StateFacts DEF Kept
<1>4. Weight(e, s) \in {0, 1} /\ Weight(NotRouting.event, s) = 0
  BY WeightFacts DEF NotRouting
<1>5. m \in Int /\ m + Weight(e, s) = n
  BY <1>3, <1>4
<1>6. Balanced(With(routing, t, NotRouting), event_queue, event, job_queue, sent[s], m, s)
  BY <1>2, <1>3, RouteBalance
<1> HIDE DEF m, e
<1>7. Balanced(With(routing, t, NotRouting), event_queue', event, job_queue, sent[s], m + Weight(e, s), s)
  BY <1>2, <1>5, <1>6, PostEventBalance
<1> QED
  BY <1>1, <1>2, <1>5, <1>7 DEF Kept


\* The worker takes the event from its queue and holds it.
LEMMA TakeEventKeeps ==
  ASSUME IInv, NEW w \in Workers, TakeEvent(w), NEW s \in Sessions, NEW n \in Int, Kept(n, s)
  PROVE  Kept(n, s)'
<1> DEFINE e == Head(event_queue[w])
           m == n - Weight(e, s)
           k == m - Weight(event[w], s) + Weight(e, s)
<1>1. UNCHANGED <<routing, job_queue, sent, received>>
  BY DEF TakeEvent, mainVars, dbVars
<1>2. /\ event_queue' = Taken(event_queue, w) /\ event_queue[w] # << >>
      /\ event' = With(event, w, e)
      /\ DOMAIN event = Workers /\ QueuesOK(event_queue)
  BY StateFacts DEF TakeEvent, Taken, With
<1>3. Balanced(routing, event_queue, event, job_queue, sent[s], n, s) /\ n \in Int
  BY StateFacts DEF Kept
<1>4. Weight(e, s) \in {0, 1} /\ Weight(event[w], s) \in {0, 1}
  BY WeightFacts
<1>5. m \in Int /\ k \in Int /\ k <= n
  BY <1>3, <1>4
<1>6. Balanced(routing, Taken(event_queue, w), event, job_queue, sent[s], m, s)
  BY <1>2, <1>3, TakeBalance
<1> HIDE DEF m, e
<1>7. Balanced(routing, Taken(event_queue, w), With(event, w, e), job_queue, sent[s], k, s)
  BY <1>2, <1>5, <1>6, HandBalance
<1> HIDE DEF k
<1>8. Balanced(routing, Taken(event_queue, w), With(event, w, e), job_queue, sent[s], n, s)
  BY <1>3, <1>5, <1>7, MoreAllowed
<1> QED
  BY <1>1, <1>2, <1>8 DEF Kept

\* REQUEST_LEAVE_ROOM hands the event over, or loses it.
LEMMA RequestLeaveKeeps ==
  ASSUME IInv, NEW w \in Workers, RequestLeaveRoom(w), NEW s \in Sessions, NEW n \in Int, Kept(n, s)
  PROVE  Kept(n, s)'
<1> DEFINE e == Advanced(event[w], event[w].result_code)
           room == NextAction(event[w]).target_room_id
           m == n - Weight(event[w], s)
<1>1. UNCHANGED <<event_queue, job_queue, sent, received>>
  BY DEF RequestLeaveRoom, mainVars, dbVars
<1>2. /\ route_event(w, e, room) /\ event' = [event EXCEPT ![w] = EmptyEvent]
      /\ w \in Threads
  BY ConstantFacts DEF RequestLeaveRoom, Return
<1>3. Balanced(routing, event_queue, event, job_queue, sent[s], n, s) /\ n \in Int
  BY StateFacts DEF Kept
<1>4. e.session = event[w].session /\ e.initial_command = event[w].initial_command
  BY StateFacts, AdvancedSame
<1> HIDE DEF e, room
<1>5. Weight(e, s) = Weight(event[w], s) /\ Weight(event[w], s) \in {0, 1}
  BY <1>4, WeightFacts
<1>6. m \in Int /\ m + Weight(e, s) = n
  BY <1>3, <1>5
<1>7. Balanced(routing, event_queue, event', job_queue, sent[s], m, s)
  BY <1>2, <1>3, DropKeeps
<1> HIDE DEF m
<1>8. Balanced(routing', event_queue, event', job_queue, sent[s], m + Weight(e, s), s)
  BY <1>2, <1>6, <1>7, RouteEventBalance
<1> QED
  BY <1>1, <1>6, <1>8 DEF Kept

\* A job takes the event with it.
LEMMA RequestDbKeeps ==
  ASSUME IInv, NEW w \in Workers, RequestDbCreateRoom(w) \/ RequestDbLoadMessage(w),
         IInv', NEW s \in Sessions, NEW n \in Int, Kept(n, s)
  PROVE  Kept(n, s)'
<1> DEFINE e == Advanced(event[w], event[w].result_code)
           m == n - Weight(event[w], s)
<1>1. UNCHANGED <<routing, event_queue, sent, received>>
  BY DEF RequestDbCreateRoom, RequestDbLoadMessage, mainVars
<1>2. event' = [event EXCEPT ![w] = EmptyEvent]
  BY DEF RequestDbCreateRoom, RequestDbLoadMessage, Return
<1>3. \E type, room : job_queue' = JobPosted(job_queue, [type |-> type, event |-> e, room |-> room,
                                                         sender |-> NoSession])
  BY DEF RequestDbCreateRoom, RequestDbLoadMessage, post_job, JobPosted
<1>4. PICK j : job_queue' = JobPosted(job_queue, j) /\ j.event = e
  BY <1>3
<1>5. JobsOK(job_queue) /\ j \in RunnableJobs
  <2>1. job_queue \in Seq(RunnableJobs) /\ job_queue' \in Seq(RunnableJobs)
    BY DEF IInv, EventInv
  <2>2. job_queue' = Append(job_queue, j)
    BY <1>4 DEF JobPosted
  <2>3. Len(job_queue) \in Nat /\ Len(job_queue') = Len(job_queue) + 1
        /\ job_queue'[Len(job_queue) + 1] = j
    BY <2>1, <2>2
  <2>4. j \in RunnableJobs
    BY <2>1, <2>3
  <2> QED
    BY <2>1, <2>4 DEF JobsOK
<1>6. Balanced(routing, event_queue, event, job_queue, sent[s], n, s) /\ n \in Int
  BY StateFacts DEF Kept
<1>7. e.session = event[w].session /\ e.initial_command = event[w].initial_command
  BY StateFacts, AdvancedSame
<1> HIDE DEF e
<1>8. Weight(j.event, s) = Weight(event[w], s) /\ Weight(event[w], s) \in {0, 1}
  BY <1>4, <1>7, WeightFacts
<1>9. m \in Int /\ m + Weight(j.event, s) = n
  BY <1>6, <1>8
<1>10. Balanced(routing, event_queue, event', job_queue, sent[s], m, s)
  BY <1>2, <1>6, DropKeeps
<1> HIDE DEF m
<1>11. Balanced(routing, event_queue, event', JobPosted(job_queue, j), sent[s], m + Weight(j.event, s), s)
  BY <1>5, <1>9, <1>10, PostJobBalance
<1> QED
  BY <1>1, <1>4, <1>9, <1>11 DEF Kept

\* SAVE_MESSAGE posts a job that has no callback, and goes on.
LEMMA SaveKeeps ==
  ASSUME IInv, NEW w \in Workers, SaveMessage(w), IInv', NEW s \in Sessions, NEW n \in Int, Kept(n, s)
  PROVE  Kept(n, s)'
<1> DEFINE e == Advanced(event[w], event[w].result_code)
           j == [type |-> "SaveMessage", event |-> EmptyEvent,
                 room |-> NextAction(event[w]).target_room_id,
                 sender |-> get_user_id(event[w].session)]
<1>1. UNCHANGED <<routing, event_queue, sent, received>>
  BY DEF SaveMessage, mainVars
<1>2. event' = [event EXCEPT ![w] = e]
  BY DEF SaveMessage, Continue
<1>3. job_queue' = JobPosted(job_queue, j)
  BY DEF SaveMessage, post_job, JobPosted
<1>4. j.event = EmptyEvent
  OBVIOUS
<1> HIDE DEF j
<1>5. JobsOK(job_queue) /\ j \in RunnableJobs
  <2>1. job_queue \in Seq(RunnableJobs) /\ job_queue' \in Seq(RunnableJobs)
    BY DEF IInv, EventInv
  <2>2. job_queue' = Append(job_queue, j)
    BY <1>3 DEF JobPosted
  <2>3. Len(job_queue) \in Nat /\ Len(job_queue') = Len(job_queue) + 1
        /\ job_queue'[Len(job_queue) + 1] = j
    BY <2>1, <2>2
  <2>4. j \in RunnableJobs
    BY <2>1, <2>3
  <2> QED
    BY <2>1, <2>4 DEF JobsOK
<1>6. Balanced(routing, event_queue, event, job_queue, sent[s], n, s) /\ n \in Int
  BY StateFacts DEF Kept
<1>7. e.session = event[w].session /\ e.initial_command = event[w].initial_command
  BY StateFacts, AdvancedSame
<1> HIDE DEF e
<1>8. Weight(j.event, s) = 0
  BY <1>4, WeightFacts
<1>9. n + Weight(j.event, s) = n
  BY <1>6, <1>8
<1>10. Balanced(routing, event_queue, event', job_queue, sent[s], n, s)
  BY <1>2, <1>6, <1>7, ContinueKeeps
<1>11. Balanced(routing, event_queue, event', JobPosted(job_queue, j), sent[s], n + Weight(j.event, s), s)
  BY <1>5, <1>6, <1>10, PostJobBalance
<1> QED
  BY <1>1, <1>3, <1>9, <1>11 DEF Kept

\* A broadcast is no answer.
LEMMA SendToKeeps ==
  ASSUME IInv, NEW w \in Workers, NEW c \in Sessions, SendTo(w, c), IInv',
         NEW s \in Sessions, NEW n \in Int, Kept(n, s)
  PROVE  Kept(n, s)'
<1> DEFINE p == Broadcast(audience[w].sender, NextAction(event[w]).target_room_id)
<1>1. UNCHANGED <<routing, event_queue, event, job_queue, received>>
  BY DEF SendTo, mainVars, dbVars
<1>2. ~IsResponse(p)
  BY DEF Broadcast, IsResponse
<1>3. sent \in [Sessions -> Seq(Packets)] /\ sent' \in [Sessions -> Seq(Packets)]
  BY DEF IInv, StateTypeOK
<1>4. sent'[s] = sent[s] \/ sent'[s] = Append(sent[s], p)
  BY <1>3 DEF SendTo
<1> HIDE DEF p
<1>5. CASE sent'[s] = sent[s]
  BY <1>1, <1>5 DEF Kept
<1>6. CASE sent'[s] = Append(sent[s], p)
  <2>1. sent[s] \in Seq(Packets) /\ sent'[s] \in Seq(Packets)
    BY <1>3
  <2>2. /\ DOMAIN sent'[s] = DOMAIN sent[s] \cup {Len(sent[s]) + 1}
        /\ \A i \in DOMAIN sent[s] : sent'[s][i] = sent[s][i]
        /\ sent'[s][Len(sent[s]) + 1] = p
    BY <1>6, <2>1
  <2>3. AnswersOf(sent'[s]) = AnswersOf(sent[s])
    BY <1>2, <2>2 DEF AnswersOf
  <2> QED
    BY <1>1, <2>3 DEF Kept, Balanced
<1> QED
  BY <1>4, <1>5, <1>6


\* The other actions of a worker keep its event, or drop it with one answer at most.
LEMMA LocalKeeps ==
  ASSUME IInv, NEW w \in Workers,
         \/ FinishEvent(w)    \/ AnswerFailed(w)      \/ SendResponse(w)
         \/ CreateRoom(w)     \/ JoinRoom(w)          \/ SetCurrentRoom(w)
         \/ LeaveRoom(w)      \/ DisconnectSession(w) \/ SendMessage(w)
         \/ SentToAll(w),
         NEW s \in Sessions, NEW n \in Int, Kept(n, s)
  PROVE  Kept(n, s)'
<1> DEFINE Moves == \/ \E res \in Results : /\ send_response(event[w], res) \/ UNCHANGED sent
                                            /\ Return(w)
                    \/ /\ UNCHANGED sent
                       /\ UNCHANGED event \/ \E res \in Results : Continue(w, res)
<1>1. UNCHANGED <<routing, event_queue, job_queue, received>>
  BY DEF FinishEvent, AnswerFailed, SendResponse, CreateRoom, JoinRoom, SetCurrentRoom, LeaveRoom,
         DisconnectSession, SendMessage, SentToAll, mainVars, dbVars
<1>2. event[w].result_code \in Results
  BY StateFacts DEF RunnableEvents, FormedEvents, RoomEvents
<1>3. \A res : Fail(w, res) => send_response(event[w], res) /\ Return(w)
  BY DEF Fail
<1>4. {"Success", "RoomNotFound", "RoomAlreadyExists", "RoomFull", "UserNotFound"} \subseteq Results
  BY DEF Results
<1>5. ASSUME FinishEvent(w) \/ DisconnectSession(w) PROVE Moves
  BY <1>2, <1>5 DEF FinishEvent, DisconnectSession
<1>6. ASSUME AnswerFailed(w) \/ SendResponse(w) PROVE Moves
  BY <1>2, <1>6 DEF AnswerFailed, SendResponse
<1>7. ASSUME CreateRoom(w) PROVE Moves
  <2>1. Fail(w, "RoomAlreadyExists") \/ (Continue(w, "Success") /\ UNCHANGED sent)
    BY <1>7 DEF CreateRoom
  <2> QED
    BY <1>3, <1>4, <2>1
<1>8. ASSUME JoinRoom(w) PROVE Moves
  <2>1. \/ Fail(w, "RoomNotFound") \/ Fail(w, "RoomFull") \/ Fail(w, "UserNotFound")
        \/ UNCHANGED event /\ UNCHANGED sent
    BY <1>8 DEF JoinRoom
  <2> QED
    BY <1>3, <1>4, <2>1
<1>9. ASSUME SetCurrentRoom(w) \/ SentToAll(w) PROVE Moves
  <2>1. Continue(w, "Success") /\ UNCHANGED sent
    BY <1>9 DEF SetCurrentRoom, SentToAll
  <2> QED
    BY <1>4, <2>1
<1>10. ASSUME LeaveRoom(w) PROVE Moves
  <2> DEFINE res == LeaveResult(w, event[w].session, NextAction(event[w]).target_room_id)
  <2>1. res \in Results
    BY <1>4 DEF LeaveResult
  <2>2. Fail(w, res) \/ (Continue(w, "Success") /\ UNCHANGED sent)
    BY <1>10 DEF LeaveRoom
  <2> HIDE DEF res
  <2> QED
    BY <1>3, <1>4, <2>1, <2>2
<1>11. ASSUME SendMessage(w) PROVE Moves
  <2>1. Fail(w, "RoomNotFound") \/ (UNCHANGED event /\ UNCHANGED sent)
    BY <1>11 DEF SendMessage
  <2> QED
    BY <1>3, <1>4, <2>1
<1>12. Moves
  BY <1>5, <1>6, <1>7, <1>8, <1>9, <1>10, <1>11
<1>13. CASE \E res \in Results : (send_response(event[w], res) \/ UNCHANGED sent) /\ Return(w)
  BY <1>1, <1>13, EndKeeps
<1>14. CASE UNCHANGED sent /\ (UNCHANGED event \/ \E res \in Results : Continue(w, res))
  <2>1. sent'[s] = sent[s]
    BY <1>14
  <2> QED
    BY <1>1, <1>14, <2>1, UnmovedKeeps
<1> QED
  BY <1>12, <1>13, <1>14

\* The database thread takes a job, and its callback routes or posts the event.
LEMMA DbKeeps ==
  ASSUME IInv, IInv', DbStep, NEW s \in Sessions, NEW n \in Int, Kept(n, s)
  PROVE  Kept(n, s)'
<1> DEFINE e == Head(job_queue).event
           m == n - Weight(e, s)
<1>1. UNCHANGED <<event, sent, received>>
  BY DEF DbStep, DbCreateRoom, DbCreateRoomFails, DbLoadHistory, DbSaveMessage, mainVars, workerVars
<1>2. job_queue # << >> /\ job_queue' = JobTaken(job_queue) /\ JobsOK(job_queue)
  BY StateFacts DEF DbStep, DbCreateRoom, DbCreateRoomFails, DbLoadHistory, DbSaveMessage,
                    TakeJob, JobTaken
<1>3. e \in RoomEvents
  <2>1. job_queue \in Seq(RunnableJobs) /\ job_queue # << >>
    BY <1>2 DEF JobsOK
  <2>2. Head(job_queue) \in RunnableJobs
    BY <2>1
  <2> QED
    BY <2>2 DEF RunnableJobs, FormedEvents
<1>4. Balanced(routing, event_queue, event, job_queue, sent[s], n, s) /\ n \in Int
  BY StateFacts DEF Kept
<1>5. Weight(e, s) \in {0, 1}
  BY WeightFacts
<1>6. Balanced(routing, event_queue, event, JobTaken(job_queue), sent[s], m, s)
  BY <1>2, <1>4, TakeJobBalance
<1>7. m \in Int /\ m <= n /\ m + Weight(e, s) = n
  <2> HIDE DEF e
  <2> QED
    BY <1>4, <1>5
<1>8. DB_THREAD \in Threads /\ LOBBY_WORKER_ID \in Workers
  BY ConstantFacts
<1>9. \A f : f.session = e.session /\ f.initial_command = e.initial_command
               => m + Weight(f, s) = n
  <2> HIDE DEF m
  <2> QED
    BY <1>7, WeightFacts
<1> HIDE DEF m
<1>10. CASE DbCreateRoom
  <2>1. PICK w \in RoomWorkers :
          routing' = [routing EXCEPT ![DB_THREAD] =
            [to    |-> w,
             event |-> [resolve_room_id(e, room_seq)
                          EXCEPT !.result_code = "Success",
                                 !.response_data = RoomIdBody(room_seq)]]]
    BY <1>10 DEF DbCreateRoom
  <2> DEFINE f == [resolve_room_id(e, room_seq) EXCEPT !.result_code = "Success",
                                                       !.response_data = RoomIdBody(room_seq)]
             x == [to |-> w, event |-> f]
  <2>2. f.session = e.session /\ f.initial_command = e.initial_command
    BY <1>3 DEF resolve_room_id, RoomEvents
  <2>3. routing' = [routing EXCEPT ![DB_THREAD] = x] /\ x.event = f
    BY <2>1
  <2>4. event_queue' = event_queue
    BY <1>10 DEF DbCreateRoom
  <2> HIDE DEF f, x, e
  <2>5. Balanced(routing', event_queue, event, JobTaken(job_queue), sent[s], m + Weight(x.event, s), s)
    BY <1>6, <1>7, <1>8, <2>3, GivenBalance
  <2>6. m + Weight(x.event, s) = n
    BY <1>9, <2>2, <2>3
  <2> QED
    BY <1>1, <1>2, <2>4, <2>5, <2>6 DEF Kept
<1>11. CASE DbCreateRoomFails
  <2> DEFINE f == [e EXCEPT !.result_code = "DBError"]
  <2>1. post_event(LOBBY_WORKER_ID, f) /\ routing' = routing
    BY <1>11 DEF DbCreateRoomFails
  <2>2. f.session = e.session /\ f.initial_command = e.initial_command
    BY <1>3 DEF RoomEvents
  <2> HIDE DEF f, e
  <2>3. f \in RunnableEvents
    <3> DEFINE q == event_queue[LOBBY_WORKER_ID]
               r == event_queue'[LOBBY_WORKER_ID]
    <3>1. q \in Seq(RunnableEvents) /\ r \in Seq(RunnableEvents)
      BY <1>8 DEF IInv, EventInv
    <3>2. r = Append(q, f)
      BY <1>8, <2>1 DEF post_event, IInv, EventInv
    <3> HIDE DEF q, r
    <3>3. Len(q) \in Nat /\ Len(r) = Len(q) + 1 /\ r[Len(q) + 1] = f
      BY <3>1, <3>2
    <3> QED
      BY <3>1, <3>3
  <2>4. Balanced(routing, event_queue', event, JobTaken(job_queue), sent[s], m + Weight(f, s), s)
    BY <1>6, <1>7, <2>1, <2>3, PostEventBalance
  <2>5. m + Weight(f, s) = n
    BY <1>9, <2>2
  <2> QED
    BY <1>1, <1>2, <2>1, <2>4, <2>5 DEF Kept
<1>12. CASE DbLoadHistory
  <2>1. event_queue' = event_queue
    BY <1>12 DEF DbLoadHistory
  <2> DEFINE room == LastAction(e).target_room_id
             f == [e EXCEPT !.result_code = "Success", !.response_data = HistoryBody]
             g == [e EXCEPT !.result_code = "DBError"]
  <2>2. route_event(DB_THREAD, f, room) \/ route_event(DB_THREAD, g, room)
    BY <1>12 DEF DbLoadHistory
  <2>3. /\ f.session = e.session /\ f.initial_command = e.initial_command
        /\ g.session = e.session /\ g.initial_command = e.initial_command
    BY <1>3 DEF RoomEvents
  <2> HIDE DEF f, g, e, room
  <2>4. PICK h : /\ route_event(DB_THREAD, h, room)
                 /\ h.session = e.session /\ h.initial_command = e.initial_command
    BY <2>2, <2>3
  <2>5. Balanced(routing', event_queue, event, JobTaken(job_queue), sent[s], m + Weight(h, s), s)
    BY <1>6, <1>7, <1>8, <2>4, RouteEventBalance
  <2>6. m + Weight(h, s) = n
    BY <1>9, <2>4
  <2> QED
    BY <1>1, <1>2, <2>1, <2>5, <2>6 DEF Kept
<1>13. CASE DbSaveMessage
  <2>1. UNCHANGED <<routing, event_queue>>
    BY <1>13 DEF DbSaveMessage
  <2>2. Balanced(routing, event_queue, event, JobTaken(job_queue), sent[s], n, s)
    BY <1>4, <1>6, <1>7, MoreAllowed
  <2> QED
    BY <1>1, <1>2, <2>1, <2>2 DEF Kept
<1> QED
  BY <1>10, <1>11, <1>12, <1>13 DEF DbStep


-----------------------------------------------------------------------------
(***************************************************************************)
(* The theorem.                                                            *)
(***************************************************************************)
\* At the start nothing is under way and nothing has been answered.
LEMMA InitCounts == Init => CountsInv
<1> SUFFICES ASSUME Init, NEW s \in Sessions PROVE Kept(received[s], s)
  BY CountsAreKept
<1>1. Places(routing, event_queue, event, job_queue, s) = {}
  <2>1. ~IsRequestOf(EmptyEvent, s)
    BY SessionAssumption DEF IsRequestOf, EmptyEvent
  <2>2. \A t \in Threads : routing[t].event = EmptyEvent
    BY DEF Init, NotRouting
  <2>3. \A w \in Workers : event[w] = EmptyEvent /\ DOMAIN event_queue[w] = {}
    BY DEF Init
  <2>4. DOMAIN job_queue = {}
    BY DEF Init
  <2> QED
    BY <2>1, <2>2, <2>3, <2>4 DEF Places, RoutingPlaces, HandPlaces, QueuePlaces, JobPlaces
<1>2. AnswersOf(sent[s]) = {} /\ received[s] = 0
  BY DEF Init, AnswersOf
<1> QED
  BY <1>1, <1>2, FS_EmptySet DEF Kept, Balanced

\* Every step but the reading of a packet keeps every balance.
LEMMA StepCounts ==
  ASSUME IInv, IInv', NEW s \in Sessions, NEW n \in Int, Kept(n, s),
         ServerStep \/ \E c \in Sessions : AcceptClient(c) \/ CloseSession(c)
  PROVE  Kept(n, s)'
<1>1. CASE MainStep \/ \E c \in Sessions : CloseSession(c)
  BY <1>1, CloseKeeps
<1>2. CASE \E t \in Threads : PostRouted(t)
  BY <1>2, PostRoutedKeeps
<1>3. CASE \E w \in Workers : WorkerStep(w)
  <2>1. PICK w \in Workers : WorkerStep(w)
    BY <1>3
  <2>2. CASE TakeEvent(w)
    BY <2>2, TakeEventKeeps
  <2>3. CASE RequestLeaveRoom(w)
    BY <2>3, RequestLeaveKeeps
  <2>4. CASE RequestDbCreateRoom(w) \/ RequestDbLoadMessage(w)
    BY <2>4, RequestDbKeeps
  <2>5. CASE SaveMessage(w)
    BY <2>5, SaveKeeps
  <2>6. CASE \E c \in Sessions : SendTo(w, c)
    BY <2>6, SendToKeeps
  <2>7. CASE \/ FinishEvent(w)    \/ AnswerFailed(w)      \/ SendResponse(w)
             \/ CreateRoom(w)     \/ JoinRoom(w)          \/ SetCurrentRoom(w)
             \/ LeaveRoom(w)      \/ DisconnectSession(w) \/ SendMessage(w)
             \/ SentToAll(w)
    BY <2>7, LocalKeeps
  <2> QED
    BY <2>1, <2>2, <2>3, <2>4, <2>5, <2>6, <2>7 DEF WorkerStep
<1>4. CASE DbStep
  BY <1>4, DbKeeps
<1>5. CASE \E c \in Sessions : AcceptClient(c)
  BY <1>5, AcceptKeeps
<1> QED
  BY <1>1, <1>2, <1>3, <1>4, <1>5 DEF ServerStep

\* Every step keeps the balance of every session.
LEMMA NextCounts == IInv /\ CountsInv /\ [Next]_vars => CountsInv'
<1> SUFFICES ASSUME IInv, CountsInv, [Next]_vars PROVE CountsInv'
  OBVIOUS
<1>1. IInv'
  BY NextInv
<1>2. ASSUME NEW s \in Sessions, Kept(received[s], s) PROVE Kept(received[s], s)'
  <2>1. PICK n \in Int : n = received[s]
    BY StateFacts
  <2>2. Kept(n, s)
    BY <1>2, <2>1
  <2>3. CASE ServerStep \/ \E c \in Sessions : AcceptClient(c) \/ CloseSession(c)
    <3>1. Kept(n, s)'
      BY <1>1, <2>2, <2>3, StepCounts
    <3>2. received' = received
      BY <2>3 DEF ServerStep, MainStep, DisconnectRoom, DisconnectLobby, RemoveSession, PostRouted,
         WorkerStep, TakeEvent, FinishEvent, AnswerFailed, SendResponse, RequestLeaveRoom, CreateRoom,
         JoinRoom, SetCurrentRoom, LeaveRoom, DisconnectSession, SendMessage, SentToAll, SaveMessage,
         RequestDbCreateRoom, RequestDbLoadMessage, SendTo, DbStep, DbCreateRoom, DbCreateRoomFails,
         DbLoadHistory, DbSaveMessage, AcceptClient, CloseSession, mainVars
    <3> QED
      BY <2>1, <3>1, <3>2 DEF Kept
  <2>4. CASE \E c \in Sessions, req \in PeerRequests : DispatchPacket(c, req[1], req[2])
    <3>1. PICK c \in Sessions, req \in PeerRequests : DispatchPacket(c, req[1], req[2])
      BY <2>4
    <3>2. req[1] \in Commands /\ req[2] \in RoomIds
      BY PeerAssumption
    <3>3. Kept(n + (IF s = c THEN 1 ELSE 0), s)'
      BY <2>2, <3>1, <3>2, DispatchKeeps
    <3>4. received'[s] = n + (IF s = c THEN 1 ELSE 0)
      BY <2>1, <3>1 DEF DispatchPacket, IInv, StateTypeOK
    <3> QED
      BY <3>3, <3>4 DEF Kept
  <2>5. CASE UNCHANGED vars
    BY <1>2, <2>5 DEF vars, Kept
  <2> QED
    BY <2>3, <2>4, <2>5 DEF Next
<1>3. \A s \in Sessions : Kept(received[s], s)'
  BY <1>2, CountsAreKept
<1>4. CountsInv' <=> (\A s \in Sessions : Kept(received[s], s))'
  BY CountsAreKept, PTL
<1> QED
  BY <1>3, <1>4

\* No request is answered twice: an event is in one place at a time, on every path
\* through the queues, the look-ups, the database callbacks and the failures, and an
\* answer uses it up.
THEOREM AnsweredOnce == Spec => []OneResponseEach
<1>1. CountsInv => OneResponseEach
  BY DEF CountsInv, OneResponseEach
<1> QED
  BY <1>1, InitCounts, NextCounts, Invariance, PTL DEF Spec

=============================================================================
