\* A client whose games may contain an illegal move.
SPECIFICATION Spec
CONSTANTS
  startpos = startpos
  fen1 = fen1
  badfen = badfen
  a = a
  b = b
  StartPos = startpos
  Fens <- MCFens
  BadFen = badfen
  Moves <- MCMoves
  MaxPly = 3
  ClientPlaysLegal = FALSE
  ClientSetsWhenIdle = TRUE
INVARIANTS PositionHonoured
