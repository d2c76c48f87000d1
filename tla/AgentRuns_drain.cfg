\* One API process, two conversations, a pool of one recovery worker, one crash.
SPECIFICATION FairSpec
CONSTANTS
  t1 = t1
  t2 = t2
  NumRuns = 2
  Kinds = {"message"}
  Threads = {t1, t2}
  ThreadOf <- TwoThreads
  Procs = {p1}
  NumSlots = 2
  Workers = 1
  MaxActivity = 0
  MaxCrashes = 1
  MaxFaults = 0
PROPERTIES
  OldWorkDrains
CHECK_DEADLOCK FALSE
