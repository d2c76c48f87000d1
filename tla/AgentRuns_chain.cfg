\* One API process, a chain of three messages, one crash, no failing call.
SPECIFICATION Spec
CONSTANTS
  t1 = t1
  t2 = t2
  NumRuns = 3
  Kinds = {"message"}
  Threads = {t1}
  ThreadOf <- OneThread
  Procs = {p1}
  NumSlots = 3
  Workers = 1
  MaxActivity = 0
  MaxCrashes = 1
  MaxFaults = 0
INVARIANTS
  OneExecutorPerRun
  OverlapNeedsSkip
  CancelKeepsAnswer
PROPERTIES
  TerminalIsFinal
CHECK_DEADLOCK FALSE
