\* A client that plays legal games and sets options between searches.
SPECIFICATION FairSpec
CONSTANTS
  startpos = startpos
  fen1 = fen1
  badfen = badfen
  a = a
  b = b
  StartPos = startpos
  Fens <- MCFens
  BadFen = badfen
  Moves <- MCMoves
  MaxPly = 2
  ClientPlaysLegal = TRUE
  ClientSetsWhenIdle = TRUE
INVARIANTS PositionHonoured OneAnswerPerGo
PROPERTIES SearchUndisturbed CommandReturns
