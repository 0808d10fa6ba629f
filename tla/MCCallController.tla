--------------------------- MODULE MCCallController ---------------------------
(* A bounded instance of CallController: two calls, or one call and browsers  *)
(* whose bridges replace each other.                                         *)
EXTENDS CallController, TLC

CONSTANTS i1, i2, a1, a2, b1, b2, t1, t2

VARIABLE browsers

MCInit == Init /\ browsers \in BOOLEAN
MCNext ==
    /\ Next
    /\ UNCHANGED browsers
    /\ IF browsers THEN Cardinality({a \in ActiveCalls : id'[a] # None}) <= 1 ELSE open' = {}
MCSpec == MCInit /\ [][MCNext]_<<vars, browsers>>

MCSymmetry ==
    Permutations(ActiveCalls) \cup Permutations(Bridges) \cup Permutations(Threads)
        \cup Permutations(CallIds)
===============================================================================
