\* Games of up to 18 moves, trimmed several times, and lines of up to 5 moves from
\* each of their positions.  A game may stop.
SPECIFICATION Spec
CONSTANTS
  Positions <- MCPositions
  MovesOf <- MCMovesOf
  Stage <- MCStage
  Zeroing <- MCZeroing
  BlackToMove <- MCBlackToMove
  UnderCheck <- MCUnderCheck
  WonBy <- MCWonBy
  Starts <- MCStarts
  Rule50 = 9
  KeepCount = 9
  TrimAt = 12
  Capacity = 17
  MaxPlies = 18
  MaxDepth = 5
INVARIANTS HistoryIsSuffix RepetitionsCounted VerdictsAgree
