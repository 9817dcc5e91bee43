\* Two threads, four evaluations, plain and compact mode.
SPECIFICATION Spec
CONSTANTS
  t1 = t1
  t2 = t2
  p1 = p1
  p2 = p2
  p3 = p3
  Threads <- MCThreads
  Positions <- MCPositions
  HashOf <- MCHashOf
  MovesOf <- MCMovesOf
  CacheSize = 2
  ArenaSize = 2
  MaxEvals = 4
SYMMETRY ThreadSymmetry
INVARIANTS HitIsWhole BucketIsWhole
