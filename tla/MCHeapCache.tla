----------------------------- MODULE MCHeapCache -----------------------------
(* HeapCache with two buckets and an arena of two priors.  p1 and p2 share a  *)
(* hash but not the number of moves, p3 is in the other bucket.               *)
EXTENDS HeapCache, TLC

CONSTANTS t1, t2, p1, p2, p3

MCThreads == {t1, t2}
MCPositions == {p1, p2, p3}
MCHashOf == (p1 :> 2) @@ (p2 :> 2) @@ (p3 :> 3)
MCMovesOf == (p1 :> 1) @@ (p2 :> 2) @@ (p3 :> 1)
ThreadSymmetry == Permutations(MCThreads)
=============================================================================
