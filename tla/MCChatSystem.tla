---------------------------- MODULE MCChatSystem ----------------------------
(***************************************************************************)
(* Model values and symmetry for ChatSystem.                               *)
(***************************************************************************)
EXTENDS ChatSystem, TLC

CONSTANTS s1, s2, noSession

MCSessions == {s1, s2}
MCNobody   == {}

\* Sessions are only compared with each other, and both behave alike.
Symmetry == Permutations(MCSessions)
=============================================================================
