--------------------------- MODULE MCCallManager ---------------------------
(* Bounded instances of CallManager: two threads, one usable relay         *)
(* endpoint and one without a token.                                       *)
EXTENDS CallManager, TLC

Symmetry == Permutations(Threads)
=============================================================================
