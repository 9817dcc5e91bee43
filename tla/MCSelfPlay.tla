----------------------------- MODULE MCSelfPlay -----------------------------
(* SelfPlay with two workers that play two short games; in the first
   one, which Black opens, a side may resign.                   *)
EXTENDS SelfPlay

CONSTANTS w1, w2

MCWorkers == {w1, w2}
MCBlackStarts == {0}
MCMayResign == {0}
=============================================================================
