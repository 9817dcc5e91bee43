\* Task threads asked for beside a CPU backend: nothing wakes them.
SPECIFICATION FairSpec
CONSTANTS
  t1 = t1
  t2 = t2
  Threads <- MCThreads
  MAX_TASKS = 2
  runs_on_cpu = TRUE
PROPERTIES TasksDoneSoon
