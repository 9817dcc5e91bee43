\* Two workers, one gathering at a time, two playouts.
SPECIFICATION FairSpec
CONSTANTS
  w1 = w1
  w2 = w2
  Workers <- MCWorkers
  MaxConcurrentSearchers = 1
  PlayoutLimit = 2
INVARIANTS SearcherLedger RootIsVisited AnswerIsDue
PROPERTIES ContractSpec SearchEnds
