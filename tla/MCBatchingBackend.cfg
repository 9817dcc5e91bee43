SPECIFICATION FairSpec
CONSTANTS
  g1 = g1
  g2 = g2
  t1 = t1
  t2 = t2
  t3 = t3
  NoGroup = NoGroup
  Groups <- TwoWorkers
  Threads <- ThreeThreads
  GroupOf <- WorkerOf
  MaxBatchSize = 2
  MinibatchSize = 3
  expected_producers = 0
  timeout_us = 1
INVARIANTS TypeOK NoDangling SlotLedger WaitingCount WindowOpen
PROPERTIES ServiceSpec FlushReturns RoomComes
