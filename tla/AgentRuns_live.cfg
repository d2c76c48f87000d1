\* One API process, two commands of one conversation, two crashes: liveness and refinement.
SPECIFICATION FairSpec
CONSTANTS
  t1 = t1
  t2 = t2
  NumRuns = 2
  Kinds = {"message", "resume"}
  Threads = {t1}
  ThreadOf <- OneThread
  Procs = {p1}
  NumSlots = 2
  Workers = 1
  MaxActivity = 0
  MaxCrashes = 2
  MaxFaults = 0
PROPERTIES
  EveryRunEnds
  StreamProtocol
CHECK_DEADLOCK FALSE
