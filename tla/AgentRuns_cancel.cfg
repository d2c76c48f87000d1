\* One API process, one message, one crash after its answer is committed.
SPECIFICATION Spec
CONSTANTS
  t1 = t1
  t2 = t2
  NumRuns = 1
  Kinds = {"message"}
  Threads = {t1}
  ThreadOf <- OneThread
  Procs = {p1}
  NumSlots = 2
  Workers = 1
  MaxActivity = 0
  MaxCrashes = 1
  MaxFaults = 0
INVARIANTS
  CompletedAnswerReturned
CHECK_DEADLOCK FALSE
