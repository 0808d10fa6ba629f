---------------------------- MODULE MCCallState ----------------------------
(* The life cycle of a call with two interchangeable end reasons and a     *)
(* four-second clock: enough for accept, connect, hold and end to happen   *)
(* at different times.                                                     *)
EXTENDS CallState, TLC

Symmetry == Permutations(Reasons)
=============================================================================
