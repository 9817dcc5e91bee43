-------------------------- MODULE MCSearchLifecycle --------------------------
(* SearchLifecycle with two workers.                                          *)
EXTENDS SearchLifecycle

CONSTANTS w1, w2

MCWorkers == {w1, w2}
=============================================================================
