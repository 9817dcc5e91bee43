\* A user who waits for the board, and a late answer.
SPECIFICATION FairSessionSpec
CONSTANTS
  startpos = startpos
  badfen = badfen
  ma = ma
  mb = mb
  mc = mc
  c1 = c1
  c2 = c2
  StartPos = startpos
  Fens <- MCFens
  BadFen = badfen
  Moves <- MCMoves
  Tasks <- MCTasks
  ClientPlaysLegal = FALSE
  ClientSetsWhenIdle = TRUE
  MaxPly = 4
  GameLength = 3
  MaxTimeouts = 1
  PatientUser = TRUE
INVARIANTS InStep
PROPERTIES MoveForThisPosition ComesToRest
