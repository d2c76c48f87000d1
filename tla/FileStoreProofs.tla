--------------------------- MODULE FileStoreProofs ---------------------------
(***************************************************************************)
(* For every number of files, uploads and reservations: a file its row     *)
(* calls complete has the bytes its row recorded, reserved bytes can be    *)
(* found again, and unfinished files stay within their limit.              *)
(***************************************************************************)
EXTENDS FileStore, FiniteSetTheorems, TLAPS

Writing(u) == uploads[u].pc \in {"saving", "written"}

(* An upload writes under its row's lock, alone, a file that is not        *)
(* complete and whose outbox entry is not due; once written the object     *)
(* holds its contents.                                                     *)
WritersHoldTheirRow ==
    /\ \A u \in Uploaders : uploads[u].pc # "idle" => uploads[u].key \in Files
    /\ \A u \in Uploaders : Writing(u) =>
          /\ rows[uploads[u].key].state = "uploading"
          /\ outbox[uploads[u].key] # "due"
          /\ age[uploads[u].key] # "overdue"
          /\ uploads[u].pc = "written" => bytes[uploads[u].key] = u
    /\ \A u, v \in Uploaders :
          Writing(u) /\ Writing(v) /\ uploads[u].key = uploads[v].key => u = v

(* An entry is due when its row is removed or its 25 hours are over.       *)
DueIsOver ==
    \A k \in Keys : /\ outbox[k] = "due" => rows[k].state = "removed" \/ age[k] = "overdue"
                    /\ rows[k].state = "none" => rows[k] = NoRow /\ age[k] = "fresh"

(* The object of a copy in hand is its document's, which stays locked; no  *)
(* entry is ever made for a copy.                                          *)
CopyIsFaithful ==
    /\ \A c \in Copies : outbox[c] = "none" /\ rows[c].state \in {"none", "attached"}
    /\ copying.pc = "copied" =>
          /\ copying.from \in Documents /\ rows[copying.from].state = "ready"
          /\ copying.to \in Copies /\ rows[copying.to] = NoRow
          /\ bytes[copying.to] = rows[copying.from].digest

(* What the cleaner swept and has not committed holds no bytes unless its  *)
(* row is live.                                                            *)
SweptIsEmpty ==
    /\ cleaner.done \subseteq Files /\ (cleaner.pc = "idle" => cleaner.done = {})
    /\ \A k \in cleaner.done : Live(k) \/ bytes[k] = NoBytes

(* Whoever counted holds the only lock and found room.                     *)
CountedUnderLock ==
    /\ \A r, s \in counting : r = s
    /\ counting # {} => Cardinality(Unfinished) < UnfinishedLimit

(* What holds of rows, objects and entries, whoever counts.                *)
RowsInv ==
    /\ FileTypeOK /\ WritersHoldTheirRow /\ DueIsOver /\ CopyIsFaithful /\ SweptIsEmpty
    /\ CompleteHasBytes /\ BytesAccountedFor

FileInv == RowsInv /\ CountedUnderLock /\ UnfinishedBounded

LEMMA KeysApart ==
  /\ Attachments \subseteq Files /\ Documents \subseteq Files /\ Files \subseteq Keys
  /\ Copies \subseteq Keys /\ Keys = Files \cup Copies /\ Files \cap Copies = {}
  /\ Attachments \cap Documents = {}
  /\ NoBytes \notin Uploaders
BY FileBounds DEF Files, Keys

LEMMA FileInvInit == FileInit => FileInv
<1> SUFFICES ASSUME FileInit PROVE FileInv
  OBVIOUS
<1>1. RowsInv
  BY KeysApart DEF FileInit, RowsInv, FileTypeOK, WritersHoldTheirRow, DueIsOver, CopyIsFaithful,
     SweptIsEmpty, CompleteHasBytes, BytesAccountedFor, NoRow, IdleUpload, NotCopying,
     IdleCleaner, Writing
<1>2. Unfinished = {} /\ counting = {}
  BY DEF FileInit, Unfinished, NoRow
<1> QED
  BY <1>1, <1>2, FS_EmptySet, FileBounds DEF FileInv, CountedUnderLock, UnfinishedBounded

LEMMA CountFilesRows ==
  ASSUME RowsInv, NEW r \in Reservers, CountFiles(r)
  PROVE  RowsInv'
<1>1. FileTypeOK'
  BY KeysApart DEF RowsInv, FileTypeOK, CountFiles
<1>2. WritersHoldTheirRow'
  BY KeysApart DEF RowsInv, WritersHoldTheirRow, Writing, CountFiles
<1>3. DueIsOver'
  BY KeysApart DEF RowsInv, DueIsOver, CountFiles
<1>4. CopyIsFaithful'
  BY KeysApart DEF RowsInv, CopyIsFaithful, CountFiles
<1>5. SweptIsEmpty'
  BY KeysApart DEF RowsInv, SweptIsEmpty, Live, CountFiles
<1>6. CompleteHasBytes'
  BY KeysApart DEF RowsInv, CompleteHasBytes, Complete, CountFiles
<1>7. BytesAccountedFor'
  BY KeysApart DEF RowsInv, BytesAccountedFor, Live, CountFiles
<1> QED
  BY <1>1, <1>2, <1>3, <1>4, <1>5, <1>6, <1>7 DEF RowsInv

LEMMA ReserveRows ==
  ASSUME RowsInv, NEW r, NEW k \in Files, Reserve(r, k)
  PROVE  RowsInv'
<1>1. FileTypeOK'
  BY KeysApart DEF RowsInv, FileTypeOK, Reserve
<1>2. WritersHoldTheirRow'
  BY KeysApart DEF RowsInv, WritersHoldTheirRow, Writing, Reserve
<1>3. DueIsOver'
  BY KeysApart DEF RowsInv, DueIsOver, NoRow, Reserve
<1>4. CopyIsFaithful'
  BY KeysApart DEF RowsInv, CopyIsFaithful, Reserve
<1>5. SweptIsEmpty'
  BY KeysApart DEF RowsInv, SweptIsEmpty, Live, Reserve
<1>6. CompleteHasBytes'
  BY KeysApart DEF RowsInv, CompleteHasBytes, Complete, Reserve
<1>7. BytesAccountedFor'
  BY KeysApart DEF RowsInv, BytesAccountedFor, Live, Reserve
<1> QED
  BY <1>1, <1>2, <1>3, <1>4, <1>5, <1>6, <1>7 DEF RowsInv

LEMMA GiveUpReservingRows ==
  ASSUME RowsInv, NEW r, GiveUpReserving(r)
  PROVE  RowsInv'
<1>1. FileTypeOK'
  BY KeysApart DEF RowsInv, FileTypeOK, GiveUpReserving
<1>2. WritersHoldTheirRow'
  BY KeysApart DEF RowsInv, WritersHoldTheirRow, Writing, GiveUpReserving
<1>3. DueIsOver'
  BY KeysApart DEF RowsInv, DueIsOver, GiveUpReserving
<1>4. CopyIsFaithful'
  BY KeysApart DEF RowsInv, CopyIsFaithful, GiveUpReserving
<1>5. SweptIsEmpty'
  BY KeysApart DEF RowsInv, SweptIsEmpty, Live, GiveUpReserving
<1>6. CompleteHasBytes'
  BY KeysApart DEF RowsInv, CompleteHasBytes, Complete, GiveUpReserving
<1>7. BytesAccountedFor'
  BY KeysApart DEF RowsInv, BytesAccountedFor, Live, GiveUpReserving
<1> QED
  BY <1>1, <1>2, <1>3, <1>4, <1>5, <1>6, <1>7 DEF RowsInv

LEMMA StartUploadRows ==
  ASSUME RowsInv, NEW u \in Uploaders, NEW k \in Files, StartUpload(u, k)
  PROVE  RowsInv'
<1>1. FileTypeOK'
  BY KeysApart DEF RowsInv, FileTypeOK, StartUpload
<1>2. WritersHoldTheirRow'
  BY KeysApart DEF RowsInv, WritersHoldTheirRow, Writing, StartUpload
<1>3. DueIsOver'
  BY KeysApart DEF RowsInv, DueIsOver, StartUpload
<1>4. CopyIsFaithful'
  BY KeysApart DEF RowsInv, CopyIsFaithful, StartUpload
<1>5. SweptIsEmpty'
  BY KeysApart DEF RowsInv, SweptIsEmpty, Live, StartUpload
<1>6. CompleteHasBytes'
  BY KeysApart DEF RowsInv, CompleteHasBytes, Complete, StartUpload
<1>7. BytesAccountedFor'
  BY KeysApart DEF RowsInv, BytesAccountedFor, Live, StartUpload
<1> QED
  BY <1>1, <1>2, <1>3, <1>4, <1>5, <1>6, <1>7 DEF RowsInv

LEMMA LoadForSavingRows ==
  ASSUME RowsInv, NEW u \in Uploaders, LoadForSaving(u)
  PROVE  RowsInv'
<1>1. FileTypeOK'
  BY KeysApart DEF RowsInv, FileTypeOK, IdleUpload, LoadForSaving
<1>2. WritersHoldTheirRow'
  <2> DEFINE k == uploads[u].key
  <2>1. k \in Files /\ k \in Keys /\ ~RowLocked(k)
    BY KeysApart DEF LoadForSaving, RowsInv, WritersHoldTheirRow
  <2>2. CASE Live(k) /\ ~Expired(k) /\ ~Complete(k)
    <3>1. /\ uploads' = [uploads EXCEPT ![u].pc = "saving"]
          /\ UNCHANGED <<rows, bytes, outbox, age>>
      BY <2>2 DEF LoadForSaving
    <3>2. rows[k].state = "uploading" /\ age[k] = "fresh" /\ outbox[k] # "due"
      BY <2>1, <2>2 DEF Live, Complete, Expired, RowsInv, DueIsOver
    <3>3. \A v \in Uploaders : Writing(v) => uploads[v].key # k
      BY <2>1 DEF RowLocked, Writing
    <3>4. /\ uploads'[u].pc = "saving" /\ uploads'[u].key = k
          /\ \A v \in Uploaders \ {u} : uploads'[v] = uploads[v]
      BY <3>1 DEF RowsInv, FileTypeOK
    <3> QED
      BY <2>1, <3>1, <3>2, <3>3, <3>4 DEF RowsInv, WritersHoldTheirRow, Writing
  <2>3. CASE ~(Live(k) /\ ~Expired(k) /\ ~Complete(k))
    <3>1. /\ uploads' = [uploads EXCEPT ![u] = IdleUpload]
          /\ UNCHANGED <<rows, bytes, outbox, age>>
      BY <2>3 DEF LoadForSaving
    <3> QED
      BY <3>1 DEF RowsInv, WritersHoldTheirRow, Writing, IdleUpload
  <2> QED
    BY <2>2, <2>3
<1>3. DueIsOver'
  BY KeysApart DEF RowsInv, DueIsOver, LoadForSaving
<1>4. CopyIsFaithful'
  BY KeysApart DEF RowsInv, CopyIsFaithful, LoadForSaving
<1>5. SweptIsEmpty'
  BY KeysApart DEF RowsInv, SweptIsEmpty, Live, LoadForSaving
<1>6. CompleteHasBytes'
  BY KeysApart DEF RowsInv, CompleteHasBytes, Complete, LoadForSaving
<1>7. BytesAccountedFor'
  BY KeysApart DEF RowsInv, BytesAccountedFor, Live, LoadForSaving
<1> QED
  BY <1>1, <1>2, <1>3, <1>4, <1>5, <1>6, <1>7 DEF RowsInv

LEMMA WriteObjectRows ==
  ASSUME RowsInv, NEW u \in Uploaders, WriteObject(u)
  PROVE  RowsInv'
<1>1. FileTypeOK'
  BY KeysApart DEF RowsInv, FileTypeOK, WritersHoldTheirRow, WriteObject
<1>2. WritersHoldTheirRow'
  BY KeysApart DEF RowsInv, FileTypeOK, WritersHoldTheirRow, Writing, WriteObject
<1>3. DueIsOver'
  BY KeysApart DEF RowsInv, DueIsOver, WriteObject
<1>4. CopyIsFaithful'
  BY KeysApart DEF RowsInv, WritersHoldTheirRow, CopyIsFaithful, WriteObject
<1>5. SweptIsEmpty'
  BY KeysApart DEF RowsInv, WritersHoldTheirRow, SweptIsEmpty, Writing, Live, WriteObject
<1>6. CompleteHasBytes'
  BY KeysApart DEF RowsInv, WritersHoldTheirRow, CompleteHasBytes, Writing, Complete, WriteObject
<1>7. BytesAccountedFor'
  BY KeysApart DEF RowsInv, WritersHoldTheirRow, BytesAccountedFor, Writing, Live, WriteObject
<1> QED
  BY <1>1, <1>2, <1>3, <1>4, <1>5, <1>6, <1>7 DEF RowsInv

LEMMA CommitUploadRows ==
  ASSUME RowsInv, NEW u \in Uploaders, CommitUpload(u)
  PROVE  RowsInv'
<1>1. FileTypeOK'
  BY KeysApart DEF RowsInv, FileTypeOK, WritersHoldTheirRow, IdleUpload, CommitUpload
<1>2. WritersHoldTheirRow'
  BY KeysApart DEF RowsInv, FileTypeOK, WritersHoldTheirRow, CompleteHasBytes, Writing,
     IdleUpload, CommitUpload
<1>3. DueIsOver'
  BY KeysApart DEF RowsInv, FileTypeOK, WritersHoldTheirRow, DueIsOver, Writing, CommitUpload
<1>4. CopyIsFaithful'
  BY KeysApart DEF RowsInv, FileTypeOK, WritersHoldTheirRow, CopyIsFaithful, CompleteHasBytes,
     CommitUpload
<1>5. SweptIsEmpty'
  BY KeysApart DEF RowsInv, FileTypeOK, SweptIsEmpty, Live, CommitUpload
<1>6. CompleteHasBytes'
  BY KeysApart DEF RowsInv, FileTypeOK, WritersHoldTheirRow, CompleteHasBytes, Writing, Complete,
     CommitUpload
<1>7. BytesAccountedFor'
  BY KeysApart DEF RowsInv, FileTypeOK, BytesAccountedFor, Live, CommitUpload
<1> QED
  BY <1>1, <1>2, <1>3, <1>4, <1>5, <1>6, <1>7 DEF RowsInv

LEMMA AbortUploadRows ==
  ASSUME RowsInv, NEW u \in Uploaders, AbortUpload(u)
  PROVE  RowsInv'
<1>1. FileTypeOK'
  BY KeysApart DEF RowsInv, FileTypeOK, IdleUpload, AbortUpload
<1>2. WritersHoldTheirRow'
  BY KeysApart DEF RowsInv, WritersHoldTheirRow, Writing, IdleUpload, AbortUpload
<1>3. DueIsOver'
  BY KeysApart DEF RowsInv, DueIsOver, AbortUpload
<1>4. CopyIsFaithful'
  BY KeysApart DEF RowsInv, CopyIsFaithful, AbortUpload
<1>5. SweptIsEmpty'
  BY KeysApart DEF RowsInv, SweptIsEmpty, Live, AbortUpload
<1>6. CompleteHasBytes'
  BY KeysApart DEF RowsInv, CompleteHasBytes, Complete, AbortUpload
<1>7. BytesAccountedFor'
  BY KeysApart DEF RowsInv, BytesAccountedFor, Live, AbortUpload
<1> QED
  BY <1>1, <1>2, <1>3, <1>4, <1>5, <1>6, <1>7 DEF RowsInv

LEMMA BindToMessageRows ==
  ASSUME RowsInv, NEW k \in Files, BindToMessage(k)
  PROVE  RowsInv'
<1>1. FileTypeOK'
  BY KeysApart DEF RowsInv, FileTypeOK, BindToMessage
<1>2. WritersHoldTheirRow'
  BY KeysApart DEF RowsInv, WritersHoldTheirRow, Writing, BindToMessage
<1>3. DueIsOver'
  BY KeysApart DEF RowsInv, DueIsOver, BindToMessage
<1>4. CopyIsFaithful'
  BY KeysApart DEF RowsInv, CopyIsFaithful, BindToMessage
<1>5. SweptIsEmpty'
  BY KeysApart DEF RowsInv, SweptIsEmpty, Live, BindToMessage
<1>6. CompleteHasBytes'
  BY KeysApart DEF RowsInv, CompleteHasBytes, Complete, BindToMessage
<1>7. BytesAccountedFor'
  BY KeysApart DEF RowsInv, BytesAccountedFor, Live, BindToMessage
<1> QED
  BY <1>1, <1>2, <1>3, <1>4, <1>5, <1>6, <1>7 DEF RowsInv

LEMMA CopyForRevisionRows ==
  ASSUME RowsInv, NEW k \in Files, NEW c \in Copies, CopyForRevision(k, c)
  PROVE  RowsInv'
<1>1. FileTypeOK'
  BY KeysApart DEF RowsInv, FileTypeOK, CopyForRevision
<1>2. WritersHoldTheirRow'
  BY KeysApart DEF RowsInv, WritersHoldTheirRow, Writing, CopyForRevision
<1>3. DueIsOver'
  BY KeysApart DEF RowsInv, DueIsOver, CopyForRevision
<1>4. CopyIsFaithful'
  BY KeysApart DEF RowsInv, FileTypeOK, CopyIsFaithful, CompleteHasBytes, Complete,
     CopyForRevision
<1>5. SweptIsEmpty'
  BY KeysApart DEF RowsInv, SweptIsEmpty, Live, CopyForRevision
<1>6. CompleteHasBytes'
  BY KeysApart DEF RowsInv, CompleteHasBytes, Complete, NoRow, CopyForRevision
<1>7. BytesAccountedFor'
  BY KeysApart DEF RowsInv, BytesAccountedFor, Live, CopyForRevision
<1> QED
  BY <1>1, <1>2, <1>3, <1>4, <1>5, <1>6, <1>7 DEF RowsInv

LEMMA CommitRevisionRows ==
  ASSUME RowsInv, CommitRevision
  PROVE  RowsInv'
<1>1. FileTypeOK'
  BY KeysApart DEF RowsInv, FileTypeOK, CopyIsFaithful, NotCopying, CommitRevision
<1>2. WritersHoldTheirRow'
  BY KeysApart DEF RowsInv, WritersHoldTheirRow, CopyIsFaithful, Writing, CommitRevision
<1>3. DueIsOver'
  BY KeysApart DEF RowsInv, DueIsOver, CopyIsFaithful, CommitRevision
<1>4. CopyIsFaithful'
  BY KeysApart DEF RowsInv, CopyIsFaithful, NotCopying, CommitRevision
<1>5. SweptIsEmpty'
  BY KeysApart DEF RowsInv, SweptIsEmpty, Live, CommitRevision
<1>6. CompleteHasBytes'
  BY KeysApart DEF RowsInv, CopyIsFaithful, CompleteHasBytes, Complete, CommitRevision
<1>7. BytesAccountedFor'
  BY KeysApart DEF RowsInv, BytesAccountedFor, Live, CommitRevision
<1> QED
  BY <1>1, <1>2, <1>3, <1>4, <1>5, <1>6, <1>7 DEF RowsInv

LEMMA AbandonRevisionRows ==
  ASSUME RowsInv, AbandonRevision
  PROVE  RowsInv'
<1>1. FileTypeOK'
  BY KeysApart DEF RowsInv, FileTypeOK, NotCopying, AbandonRevision
<1>2. WritersHoldTheirRow'
  BY KeysApart DEF RowsInv, WritersHoldTheirRow, Writing, AbandonRevision
<1>3. DueIsOver'
  BY KeysApart DEF RowsInv, DueIsOver, AbandonRevision
<1>4. CopyIsFaithful'
  BY KeysApart DEF RowsInv, CopyIsFaithful, NotCopying, AbandonRevision
<1>5. SweptIsEmpty'
  BY KeysApart DEF RowsInv, SweptIsEmpty, Live, AbandonRevision
<1>6. CompleteHasBytes'
  BY KeysApart DEF RowsInv, CompleteHasBytes, Complete, AbandonRevision
<1>7. BytesAccountedFor'
  BY KeysApart DEF RowsInv, BytesAccountedFor, Live, AbandonRevision
<1> QED
  BY <1>1, <1>2, <1>3, <1>4, <1>5, <1>6, <1>7 DEF RowsInv

LEMMA RemoveRows ==
  ASSUME RowsInv, NEW k \in Files, Remove(k)
  PROVE  RowsInv'
<1>1. FileTypeOK'
  BY KeysApart DEF RowsInv, FileTypeOK, NoRow, Remove, ScheduleDeletion
<1>2. WritersHoldTheirRow'
  BY KeysApart DEF RowsInv, WritersHoldTheirRow, Writing, RowLocked, Remove, ScheduleDeletion
<1>3. DueIsOver'
  BY KeysApart DEF RowsInv, DueIsOver, Remove, ScheduleDeletion
<1>4. CopyIsFaithful'
  BY KeysApart DEF RowsInv, CopyIsFaithful, RowLocked, Remove, ScheduleDeletion
<1>5. SweptIsEmpty'
  BY KeysApart DEF RowsInv, SweptIsEmpty, Live, OutboxLocked, Remove, ScheduleDeletion
<1>6. CompleteHasBytes'
  BY KeysApart DEF RowsInv, CompleteHasBytes, Complete, Remove, ScheduleDeletion
<1>7. BytesAccountedFor'
  BY KeysApart DEF RowsInv, BytesAccountedFor, Live, Remove, ScheduleDeletion
<1> QED
  BY <1>1, <1>2, <1>3, <1>4, <1>5, <1>6, <1>7 DEF RowsInv

LEMMA PassDayRows ==
  ASSUME RowsInv, NEW k \in Files, PassDay(k)
  PROVE  RowsInv'
<1>1. FileTypeOK'
  BY KeysApart DEF RowsInv, FileTypeOK, PassDay
<1>2. WritersHoldTheirRow'
  BY KeysApart DEF RowsInv, WritersHoldTheirRow, Writing, PassDay
<1>3. DueIsOver'
  BY KeysApart DEF RowsInv, DueIsOver, PassDay
<1>4. CopyIsFaithful'
  BY KeysApart DEF RowsInv, CopyIsFaithful, PassDay
<1>5. SweptIsEmpty'
  BY KeysApart DEF RowsInv, SweptIsEmpty, Live, PassDay
<1>6. CompleteHasBytes'
  BY KeysApart DEF RowsInv, CompleteHasBytes, Complete, PassDay
<1>7. BytesAccountedFor'
  BY KeysApart DEF RowsInv, BytesAccountedFor, Live, PassDay
<1> QED
  BY <1>1, <1>2, <1>3, <1>4, <1>5, <1>6, <1>7 DEF RowsInv

LEMMA PassHourRows ==
  ASSUME RowsInv, NEW k \in Files, PassHour(k)
  PROVE  RowsInv'
<1>1. FileTypeOK'
  BY KeysApart DEF RowsInv, FileTypeOK, PassHour
<1>2. WritersHoldTheirRow'
  BY KeysApart DEF RowsInv, WritersHoldTheirRow, Writing, PassHour
<1>3. DueIsOver'
  BY KeysApart DEF RowsInv, FileTypeOK, DueIsOver, PassHour
<1>4. CopyIsFaithful'
  BY KeysApart DEF RowsInv, CopyIsFaithful, PassHour
<1>5. SweptIsEmpty'
  BY KeysApart DEF RowsInv, SweptIsEmpty, Live, PassHour
<1>6. CompleteHasBytes'
  BY KeysApart DEF RowsInv, CompleteHasBytes, Complete, PassHour
<1>7. BytesAccountedFor'
  BY KeysApart DEF RowsInv, BytesAccountedFor, Live, PassHour
<1> QED
  BY <1>1, <1>2, <1>3, <1>4, <1>5, <1>6, <1>7 DEF RowsInv

LEMMA RemoveExpiredRows ==
  ASSUME RowsInv, RemoveExpired
  PROVE  RowsInv'
<1>1. FileTypeOK'
  BY KeysApart DEF RowsInv, FileTypeOK, NoRow, RemoveExpired, ScheduleDeletion
<1>2. WritersHoldTheirRow'
  BY KeysApart DEF RowsInv, FileTypeOK, WritersHoldTheirRow, Writing, Complete, RowLocked,
     RemoveExpired, ScheduleDeletion, ExpiredRows
<1>3. DueIsOver'
  BY KeysApart DEF RowsInv, DueIsOver, RemoveExpired, ScheduleDeletion
<1>4. CopyIsFaithful'
  BY KeysApart DEF RowsInv, CopyIsFaithful, RemoveExpired, ScheduleDeletion, ExpiredRows, Expired
<1>5. SweptIsEmpty'
  BY KeysApart DEF RowsInv, SweptIsEmpty, RemoveExpired
<1>6. CompleteHasBytes'
  BY KeysApart DEF RowsInv, CompleteHasBytes, Complete, RemoveExpired, ScheduleDeletion
<1>7. BytesAccountedFor'
  BY KeysApart DEF RowsInv, BytesAccountedFor, Live, RemoveExpired, ScheduleDeletion
<1> QED
  BY <1>1, <1>2, <1>3, <1>4, <1>5, <1>6, <1>7 DEF RowsInv

LEMMA SweepDueRows ==
  ASSUME RowsInv, NEW failing, SweepDue(failing)
  PROVE  RowsInv'
<1>1. FileTypeOK'
  BY KeysApart DEF RowsInv, FileTypeOK, SweepDue, DueKeys
<1>2. WritersHoldTheirRow'
  BY KeysApart DEF RowsInv, WritersHoldTheirRow, Writing, SweepDue, DueKeys
<1>3. DueIsOver'
  BY KeysApart DEF RowsInv, DueIsOver, SweepDue
<1>4. CopyIsFaithful'
  BY KeysApart DEF RowsInv, CopyIsFaithful, SweepDue, DueKeys
<1>5. SweptIsEmpty'
  BY KeysApart DEF RowsInv, CopyIsFaithful, SweptIsEmpty, Live, Complete, SweepDue, DueKeys
<1>6. CompleteHasBytes'
  BY KeysApart DEF RowsInv, CompleteHasBytes, Complete, SweepDue
<1>7. BytesAccountedFor'
  BY KeysApart DEF RowsInv, BytesAccountedFor, Live, SweepDue
<1> QED
  BY <1>1, <1>2, <1>3, <1>4, <1>5, <1>6, <1>7 DEF RowsInv

LEMMA CommitSweepRows ==
  ASSUME RowsInv, CommitSweep
  PROVE  RowsInv'
<1>1. FileTypeOK'
  BY KeysApart DEF RowsInv, FileTypeOK, IdleCleaner, CommitSweep
<1>2. WritersHoldTheirRow'
  BY KeysApart DEF RowsInv, WritersHoldTheirRow, Writing, CommitSweep
<1>3. DueIsOver'
  BY KeysApart DEF RowsInv, DueIsOver, CommitSweep
<1>4. CopyIsFaithful'
  BY KeysApart DEF RowsInv, CopyIsFaithful, CommitSweep
<1>5. SweptIsEmpty'
  BY KeysApart DEF SweptIsEmpty, IdleCleaner, CommitSweep
<1>6. CompleteHasBytes'
  BY KeysApart DEF RowsInv, CompleteHasBytes, Complete, CommitSweep
<1>7. BytesAccountedFor'
  BY KeysApart DEF RowsInv, SweptIsEmpty, BytesAccountedFor, Live, CommitSweep
<1> QED
  BY <1>1, <1>2, <1>3, <1>4, <1>5, <1>6, <1>7 DEF RowsInv

LEMMA FileCrashRows ==
  ASSUME RowsInv, FileCrash
  PROVE  RowsInv'
<1>1. FileTypeOK'
  BY KeysApart DEF RowsInv, FileTypeOK, IdleUpload, NotCopying, IdleCleaner, FileCrash
<1>2. WritersHoldTheirRow'
  BY KeysApart DEF WritersHoldTheirRow, Writing, IdleUpload, FileCrash
<1>3. DueIsOver'
  BY KeysApart DEF RowsInv, DueIsOver, FileCrash
<1>4. CopyIsFaithful'
  BY KeysApart DEF RowsInv, CopyIsFaithful, NotCopying, FileCrash
<1>5. SweptIsEmpty'
  BY KeysApart DEF SweptIsEmpty, IdleCleaner, FileCrash
<1>6. CompleteHasBytes'
  BY KeysApart DEF RowsInv, CompleteHasBytes, Complete, FileCrash
<1>7. BytesAccountedFor'
  BY KeysApart DEF RowsInv, BytesAccountedFor, Live, FileCrash
<1> QED
  BY <1>1, <1>2, <1>3, <1>4, <1>5, <1>6, <1>7 DEF RowsInv

LEMMA UnfinishedIsFinite == IsFiniteSet(Unfinished) /\ Cardinality(Unfinished) \in Nat
<1>1. Unfinished \subseteq Keys /\ IsFiniteSet(Keys)
  BY FileBounds DEF Unfinished, Keys, Files
<1> QED
  BY <1>1, FS_Subset, FS_CardinalityType

\* A step that begins no file and counts none keeps the count.
LEMMA NoMoreUnfinished ==
  ASSUME FileInv, counting' \subseteq counting, Unfinished' \subseteq Unfinished
  PROVE  CountedUnderLock' /\ UnfinishedBounded'
<1>1. Cardinality(Unfinished') <= Cardinality(Unfinished)
  BY UnfinishedIsFinite, FS_Subset
<1>2. Cardinality(Unfinished') \in Nat
  BY UnfinishedIsFinite, FS_Subset, FS_CardinalityType
<1> QED
  BY <1>1, <1>2, UnfinishedIsFinite, FileBounds DEF FileInv, CountedUnderLock, UnfinishedBounded

LEMMA RowsKept ==
  ASSUME FileInv, counting' \subseteq counting, UNCHANGED rows
  PROVE  CountedUnderLock' /\ UnfinishedBounded'
<1>1. Unfinished' = Unfinished
  BY DEF Unfinished
<1> QED
  BY <1>1, NoMoreUnfinished

LEMMA ReserveCounted ==
  ASSUME FileInv, NEW r, NEW k \in Files, Reserve(r, k)
  PROVE  CountedUnderLock' /\ UnfinishedBounded'
<1>1. counting' = {} /\ Cardinality(Unfinished) < UnfinishedLimit
  BY DEF Reserve, FileInv, CountedUnderLock
<1>2. Unfinished' \subseteq Unfinished \cup {k}
  BY KeysApart DEF Reserve, Unfinished
<1>3. /\ IsFiniteSet(Unfinished \cup {k})
      /\ Cardinality(Unfinished \cup {k}) \in Nat
      /\ Cardinality(Unfinished \cup {k}) <= Cardinality(Unfinished) + 1
  <2>1. /\ IsFiniteSet(Unfinished \cup {k})
        /\ Cardinality(Unfinished \cup {k}) = IF k \in Unfinished THEN Cardinality(Unfinished)
                                               ELSE Cardinality(Unfinished) + 1
    BY UnfinishedIsFinite, FS_AddElement
  <2> QED
    BY <2>1, UnfinishedIsFinite
<1>4. /\ Cardinality(Unfinished') \in Nat
      /\ Cardinality(Unfinished') <= Cardinality(Unfinished \cup {k})
  BY <1>2, <1>3, FS_Subset, FS_CardinalityType
<1> QED
  BY <1>1, <1>3, <1>4, UnfinishedIsFinite, FileBounds DEF CountedUnderLock, UnfinishedBounded

LEMMA CountFilesCounted ==
  ASSUME FileInv, NEW r, CountFiles(r)
  PROVE  CountedUnderLock' /\ UnfinishedBounded'
<1>1. Unfinished' = Unfinished /\ counting' = {r}
  BY DEF CountFiles, Unfinished
<1> QED
  BY <1>1 DEF FileInv, CountedUnderLock, UnfinishedBounded, CountFiles

\* The steps that write a row make no other file unfinished.
LEMMA RowsWritten ==
  ASSUME FileInv, \/ \E u \in Uploaders : CommitUpload(u)
                  \/ \E k \in Files : BindToMessage(k) \/ Remove(k)
                  \/ CommitRevision \/ RemoveExpired
  PROVE  CountedUnderLock' /\ UnfinishedBounded'
<1>1. CASE \E u \in Uploaders : CommitUpload(u)
  <2>1. PICK u \in Uploaders : CommitUpload(u)
    BY <1>1
  <2>2. rows[uploads[u].key].state = "uploading"
    BY <2>1 DEF CommitUpload, FileInv, RowsInv, WritersHoldTheirRow, Writing
  <2>3. Unfinished' \subseteq Unfinished /\ counting' = counting
    BY <2>1, <2>2 DEF CommitUpload, Unfinished, FileInv, RowsInv, FileTypeOK
  <2> QED
    BY <2>3, NoMoreUnfinished
<1>2. CASE \E k \in Files : BindToMessage(k) \/ Remove(k)
  <2>1. PICK k \in Files : BindToMessage(k) \/ Remove(k)
    BY <1>2
  <2>2. counting' = counting
    BY <2>1 DEF BindToMessage, Remove
  <2>3. \A j \in Keys : rows'[j] = rows[j] \/ rows'[j].state \in {"sent", "removed"}
    BY <2>1, KeysApart DEF BindToMessage, Remove, ScheduleDeletion, NoRow, FileInv, RowsInv,
       FileTypeOK
  <2>4. Unfinished' \subseteq Unfinished
    BY <2>3 DEF Unfinished
  <2> QED
    BY <2>2, <2>4, NoMoreUnfinished
<1>3. CASE CommitRevision
  <2>1. Unfinished' \subseteq Unfinished /\ counting' = counting
    BY <1>3 DEF CommitRevision, Unfinished
  <2> QED
    BY <2>1, NoMoreUnfinished
<1>4. CASE RemoveExpired
  <2>1. Unfinished' \subseteq Unfinished /\ counting' = counting
    BY <1>4 DEF RemoveExpired, ScheduleDeletion, Unfinished
  <2> QED
    BY <2>1, NoMoreUnfinished
<1> QED
  BY <1>1, <1>2, <1>3, <1>4

LEMMA FileInvNext == FileInv /\ [FileNext]_fileVars => FileInv'
<1> SUFFICES ASSUME FileInv, [FileNext]_fileVars
             PROVE  RowsInv' /\ CountedUnderLock' /\ UnfinishedBounded'
  BY DEF FileInv
<1>1. RowsInv
  BY DEF FileInv
<1>2. ASSUME NEW r \in Reservers, CountFiles(r)
      PROVE  RowsInv' /\ CountedUnderLock' /\ UnfinishedBounded'
  BY <1>1, <1>2, CountFilesRows, CountFilesCounted
<1>3. ASSUME NEW r \in Reservers, NEW k \in Files, Reserve(r, k)
      PROVE  RowsInv' /\ CountedUnderLock' /\ UnfinishedBounded'
  BY <1>1, <1>3, ReserveRows, ReserveCounted
<1>4. ASSUME NEW r \in Reservers, GiveUpReserving(r)
      PROVE  RowsInv' /\ CountedUnderLock' /\ UnfinishedBounded'
  BY <1>1, <1>4, GiveUpReservingRows, RowsKept DEF GiveUpReserving
<1>5. ASSUME NEW u \in Uploaders, NEW k \in Files, StartUpload(u, k)
      PROVE  RowsInv' /\ CountedUnderLock' /\ UnfinishedBounded'
  BY <1>1, <1>5, StartUploadRows, RowsKept DEF StartUpload
<1>6. ASSUME NEW u \in Uploaders, Saving(u)
      PROVE  RowsInv' /\ CountedUnderLock' /\ UnfinishedBounded'
  <2>1. CASE LoadForSaving(u)
    BY <1>1, <2>1, LoadForSavingRows, RowsKept DEF LoadForSaving
  <2>2. CASE WriteObject(u)
    BY <1>1, <2>2, WriteObjectRows, RowsKept DEF WriteObject
  <2>3. CASE CommitUpload(u)
    BY <1>1, <2>3, CommitUploadRows, RowsWritten
  <2> QED
    BY <1>6, <2>1, <2>2, <2>3 DEF Saving
<1>7. ASSUME NEW u \in Uploaders, AbortUpload(u)
      PROVE  RowsInv' /\ CountedUnderLock' /\ UnfinishedBounded'
  BY <1>1, <1>7, AbortUploadRows, RowsKept DEF AbortUpload
<1>8. ASSUME NEW k \in Files, BindToMessage(k)
      PROVE  RowsInv' /\ CountedUnderLock' /\ UnfinishedBounded'
  BY <1>1, <1>8, BindToMessageRows, RowsWritten
<1>9. ASSUME NEW k \in Files, Remove(k)
      PROVE  RowsInv' /\ CountedUnderLock' /\ UnfinishedBounded'
  BY <1>1, <1>9, RemoveRows, RowsWritten
<1>10. ASSUME NEW k \in Files, PassDay(k) \/ PassHour(k)
       PROVE  RowsInv' /\ CountedUnderLock' /\ UnfinishedBounded'
  BY <1>1, <1>10, PassDayRows, PassHourRows, RowsKept DEF PassDay, PassHour
<1>11. ASSUME NEW k \in Files, NEW c \in Copies, CopyForRevision(k, c)
       PROVE  RowsInv' /\ CountedUnderLock' /\ UnfinishedBounded'
  BY <1>1, <1>11, CopyForRevisionRows, RowsKept DEF CopyForRevision
<1>12. ASSUME CommitRevision
       PROVE  RowsInv' /\ CountedUnderLock' /\ UnfinishedBounded'
  BY <1>1, <1>12, CommitRevisionRows, RowsWritten
<1>13. ASSUME AbandonRevision
       PROVE  RowsInv' /\ CountedUnderLock' /\ UnfinishedBounded'
  BY <1>1, <1>13, AbandonRevisionRows, RowsKept DEF AbandonRevision
<1>14. ASSUME Cleaning
       PROVE  RowsInv' /\ CountedUnderLock' /\ UnfinishedBounded'
  <2>1. CASE RemoveExpired
    BY <1>1, <2>1, RemoveExpiredRows, RowsWritten
  <2>2. CASE CommitSweep
    BY <1>1, <2>2, CommitSweepRows, RowsKept DEF CommitSweep
  <2>3. ASSUME NEW failing \in SUBSET Keys, SweepDue(failing)
        PROVE  RowsInv' /\ CountedUnderLock' /\ UnfinishedBounded'
    BY <1>1, <2>3, SweepDueRows, RowsKept DEF SweepDue
  <2> QED
    BY <1>14, <2>1, <2>2, <2>3 DEF Cleaning
<1>15. ASSUME FileCrash
       PROVE  RowsInv' /\ CountedUnderLock' /\ UnfinishedBounded'
  BY <1>1, <1>15, FileCrashRows, RowsKept DEF FileCrash
<1>16. ASSUME UNCHANGED fileVars
       PROVE  RowsInv' /\ CountedUnderLock' /\ UnfinishedBounded'
  <2>1. RowsInv'
    BY <1>1, <1>16 DEF fileVars, RowsInv, FileTypeOK, WritersHoldTheirRow, DueIsOver,
       CopyIsFaithful, SweptIsEmpty, CompleteHasBytes, BytesAccountedFor, Writing, Live, Complete
  <2> QED
    BY <1>16, <2>1, RowsKept DEF fileVars
<1> QED
  BY <1>2, <1>3, <1>4, <1>5, <1>6, <1>7, <1>8, <1>9, <1>10, <1>11, <1>12, <1>13, <1>14, <1>15,
     <1>16 DEF FileNext

(* Every reachable state of the file store satisfies the invariant.        *)
THEOREM FileInvariant == FileSpec => []FileInv
BY FileInvInit, FileInvNext, PTL DEF FileSpec

(* A file its row calls complete has the bytes its row recorded, whatever  *)
(* uploads, copies, removals, crashes and passes of the cleaner interleave.*)
THEOREM CompleteFilesAreStored == FileSpec => []CompleteHasBytes
<1>1. FileInv => CompleteHasBytes
  BY DEF FileInv, RowsInv
<1> QED
  BY <1>1, FileInvariant, PTL

(* Bytes of a reserved file are always found again: by its row while it    *)
(* lives, by an outbox entry after that.                                   *)
THEOREM NoLostBytes == FileSpec => []BytesAccountedFor
<1>1. FileInv => BytesAccountedFor
  BY DEF FileInv, RowsInv
<1> QED
  BY <1>1, FileInvariant, PTL

(* However many reservations count at once, an owner's unfinished files    *)
(* stay within the limit.                                                  *)
THEOREM UnfinishedWithinLimit == FileSpec => []UnfinishedBounded
<1>1. FileInv => UnfinishedBounded
  BY DEF FileInv
<1> QED
  BY <1>1, FileInvariant, PTL

=============================================================================
