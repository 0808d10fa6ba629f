------------------------------ MODULE MCSessions ------------------------------
(* Bounded instances of Sessions.                                           *)
EXTENDS Sessions, TLC

CONSTANTS i1, i2, s1, s2, t1, t2, g1, g2

MCSymmetry == Permutations(Threads)
===============================================================================
