\* Three requests and three cards of one conversation with one failure and one
\* upload; three sources of one purchase, two of them ingested at once.
SPECIFICATION LedgerSideSpec
CONSTANTS
  MaxRequests = 3
  MaxCards = 3
  MaxFaults = 1
  MaxUploads = 1
  ManualObs = {m1}
  SmsObs = {x1}
  BankObs = {b1}
  Identified = {x1, b1}
  Sessions = {s1, s2}
  MaxTxs = 2
  MaxVersion = 3
SYMMETRY Alike
INVARIANTS
  LedgerSideTypeOK
  PostedOnce
  RepeatNeedsFailure
  DeclinedPostsNothing
  TwoQuestionsNeedQueue
  UnanswerableHasCause
  ObservationCountedOnce
  TwinsNeedOverlap
  EditsSeeEdits
PROPERTIES
  ClosedStaysClosed
CHECK_DEADLOCK FALSE
