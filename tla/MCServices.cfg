\* One run of three events and two lost connections; one job and three workers;
\* two callers and two notices; one file of each kind and two uploads.
SPECIFICATION ServicesSpec
CONSTANTS
  MaxEvents = 3
  MaxDrops = 2
  EnrichWorkers = {w1, w2, w3}
  MaxAttempts = 4
  MaxCardActions = 2
  Callers = {c1, c2}
  Asks <- SomeAsks
  MaxNotices = 2
  MaxWindows = 1
  MaxDeliveries = 2
  MaxLosses = 1
  Attachments = {f1}
  Documents = {f2}
  Copies = {k1}
  Uploaders = {u1, u2}
  Reservers = {r1, r2}
  NoBytes = NoBytes
  UnfinishedLimit = 1
INVARIANTS
  ServicesTypeOK
  HeardIsPrefix
  ClosedHeardAll
  SuggestedOnce
  LostOnlyByOverlap
  OneEffectPerKey
  RemindersSpaced
  ConfirmedOnce
  CompleteHasBytes
  BytesAccountedFor
  UnfinishedBounded
PROPERTIES
  StreamEnds
  EnrichmentEnds
CHECK_DEADLOCK FALSE
