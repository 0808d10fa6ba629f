----------------------------- MODULE MCSctpRelay -----------------------------
(* Bounded instances of SctpRelay.                                          *)
EXTENDS SctpRelay, TLC

CONSTANTS i1, c1, c2, c3

MCSymmetry == Permutations(Conns) \cup Permutations(Ids)
==============================================================================
