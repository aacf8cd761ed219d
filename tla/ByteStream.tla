----------------------------- MODULE ByteStream -----------------------------
(***************************************************************************)
(* What a session promises its client: a stream.  The bytes packed for one *)
(* connection are numbered from 0 in the order they were packed, and the   *)
(* client reads them one after the other, none left out, repeated or       *)
(* reordered.  Nothing says when, or that all of them are read.            *)
(***************************************************************************)
EXTENDS Naturals, Sequences

CONSTANT Sizes          \* the sizes a packet may have

VARIABLES
  packed,               \* how many bytes have been packed
  got                   \* the bytes the client has read, in order

Init == packed = 0 /\ got = << >>

Pack == \E n \in Sizes : packed' = packed + n /\ UNCHANGED got

Read ==
  /\ Len(got) < packed
  /\ got' = Append(got, Len(got))
  /\ UNCHANGED packed

\* The next connection starts afresh.
Connect == packed' = 0 /\ got' = << >>

Next == Pack \/ Read \/ Connect

Spec == Init /\ [][Next]_<<packed, got>>
=============================================================================
