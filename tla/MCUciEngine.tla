----------------------------- MODULE MCUciEngine -----------------------------
(* UciEngine with two games to start from, one unreadable FEN and two moves.  *)
EXTENDS UciEngine

CONSTANTS startpos, fen1, badfen, a, b

MCFens == {startpos, fen1, badfen}
MCMoves == {a, b}
=============================================================================
