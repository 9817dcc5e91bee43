\* A user who moves again before the board shows the first move.
SPECIFICATION SessionSpec
CONSTANTS
  startpos = startpos
  badfen = badfen
  ma = ma
  mb = mb
  mc = mc
  c1 = c1
  c2 = c2
  StartPos = startpos
  Fens <- MCFens
  BadFen = badfen
  Moves <- MCMoves
  Tasks <- MCTasks
  ClientPlaysLegal = FALSE
  ClientSetsWhenIdle = TRUE
  MaxPly = 4
  GameLength = 3
  MaxTimeouts = 0
  PatientUser = FALSE
INVARIANTS FensAligned
