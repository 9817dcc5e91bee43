----------------------------- MODULE MCSearchTree -----------------------------
(* SearchTree on two small game trees: a forced mate, and a position where a  *)
(* repetition may follow.                                                     *)
EXTENDS SearchTree, TLC

CONSTANTS v1, v2, nr, nx, ny, nm, nq, na, nt, nz

MCWorkers == {v1, v2}
WorkerSymmetry == Permutations(MCWorkers)

\* nr - nx - ny - nm: nm is mate, so ny is lost and nx won.
\* nq - na - {nt, nz}: nt repeats nq, so it is a draw for a search that starts
\* at nq and none for one that starts at na; nz is a draw by rule.
MCNodes == {nr, nx, ny, nm, nq, na, nt, nz}
MCRoots == {nr, nq}
MCParent ==
  (nx :> nr) @@ (ny :> nx) @@ (nm :> ny) @@ (na :> nq) @@ (nt :> na) @@ (nz :> na)
MCEnd == nm :> 1
MCCycle == nt :> 2
MCEval == [p \in MCNodes |->
  IF p \in {ny, nt, nq, nz} THEN 1 ELSE IF p = na THEN -1 ELSE 0]
=============================================================================
