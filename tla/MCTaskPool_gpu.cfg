\* Task threads beside a GPU backend: they are woken when gathering starts.
SPECIFICATION FairSpec
CONSTANTS
  t1 = t1
  t2 = t2
  Threads <- MCThreads
  MAX_TASKS = 2
  runs_on_cpu = FALSE
INVARIANTS TaskOwned JoinedMeansDone
PROPERTIES ForkJoinSpec TasksDoneSoon DestructorReturns
