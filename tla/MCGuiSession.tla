---------------------------- MODULE MCGuiSession ----------------------------
(* GuiSession with short games of three moves.                              *)
EXTENDS GuiSession

CONSTANTS startpos, badfen, ma, mb, mc, c1, c2

MCFens == {startpos}
MCMoves == {ma, mb, mc}
MCTasks == {c1, c2}
=============================================================================
