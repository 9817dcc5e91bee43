\* Two workers with two threads each, a kill and a failing operation.
SPECIFICATION FairSpec
CONSTANTS
  w1 = w1
  w2 = w2
  Workers <- MCWorkers
  NumGames = 2
  ThreadsPerGame = 2
  MaxMoves = 3
  ResignConsecutive = 2
  ResignEarliest = 0
  BlackStarts <- MCBlackStarts
  MayResign <- MCMayResign
  ShowNps = TRUE
  MaxKills = 1
  MaxFaults = 1
INVARIANTS FilesAreWhole GamesAccounted ProducersCounted ResignationEarned
PROPERTIES RunReturns
