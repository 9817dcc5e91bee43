--------------------------- MODULE SearchContract ---------------------------
(***************************************************************************)
(* What the users of a classic::Search count on (the UCI engine, self-play *)
(* and the arena): it ends with one bestmove, or with none if it was       *)
(* aborted first, and RunBlocking returns only after that.                 *)
(***************************************************************************)
VARIABLES outcome, returned

CInit == outcome = "searching" /\ returned = FALSE

\* No more iterations, but nobody has asked for the answer yet.
Halt ==
  /\ outcome = "searching"
  /\ outcome' = "halted"
  /\ UNCHANGED returned

Answer ==
  /\ outcome \in {"searching", "halted"}
  /\ outcome' = "answered"
  /\ UNCHANGED returned

Silence ==
  /\ outcome \in {"searching", "halted"}
  /\ outcome' = "silenced"
  /\ UNCHANGED returned

Return ==
  /\ outcome \in {"answered", "silenced"}
  /\ ~returned /\ returned' = TRUE
  /\ UNCHANGED outcome

CNext == Halt \/ Answer \/ Silence \/ Return
CSpec == CInit /\ [][CNext]_<<outcome, returned>>
=============================================================================
