----------------------------- MODULE MCSendPath -----------------------------
(***************************************************************************)
(* Model values for SendPath.                                              *)
(***************************************************************************)
EXTENDS SendPath

CONSTANTS w1, w2

MCWorkers == {w1, w2}
=============================================================================
