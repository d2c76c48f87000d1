\* Two API processes on one database, crashes and failing calls, one run.
SPECIFICATION Spec
CONSTANTS
  t1 = t1
  t2 = t2
  NumRuns = 1
  Kinds = {"message", "action"}
  Threads = {t1}
  ThreadOf <- OneThread
  Procs = {p1, p2}
  NumSlots = 3
  Workers = 1
  MaxActivity = 1
  MaxCrashes = 2
  MaxFaults = 2
INVARIANTS
  TypeOK
  IInv
  TurnAtMostOnce
  TerminalMatchesLog
  AnswerStands
CHECK_DEADLOCK FALSE
