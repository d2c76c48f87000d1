\* One API process that never crashes, three messages of one conversation.
SPECIFICATION Spec
CONSTANTS
  t1 = t1
  t2 = t2
  NumRuns = 3
  Kinds = {"message"}
  Threads = {t1}
  ThreadOf <- OneThread
  Procs = {p1}
  NumSlots = 3
  Workers = 1
  MaxActivity = 0
  MaxCrashes = 0
  MaxFaults = 0
INVARIANTS
  OneTurnAtATime
CHECK_DEADLOCK FALSE
