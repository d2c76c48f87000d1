------------------------------ MODULE FileStore ------------------------------
(***************************************************************************)
(* One owner's files: rows (ConversationAttachment, DocumentAsset), bytes  *)
(* in the object store, and the deletion outbox (ObjectDeletion) that is   *)
(* promised to clean up after both.  services/files.py, attachments.py,    *)
(* file_cleanup.py, document_assets.py, api_files.py.                      *)
(*                                                                         *)
(* Rows and outbox change in transactions, bytes do not.  A row is under   *)
(* lock from the step that loads it for writing to the commit.             *)
(***************************************************************************)
EXTENDS Naturals, FiniteSets

CONSTANTS Attachments,      \* keys of conversation files
          Documents,        \* keys of library documents
          Copies,           \* keys of the copies a loan's revision makes
          Uploaders,        \* upload requests, each with contents of its own
          Reservers,
          NoBytes,
          UnfinishedLimit   \* files.reserve's 20

ASSUME FileBounds ==
    /\ UnfinishedLimit \in Nat
    /\ NoBytes \notin Uploaders
    /\ Attachments \cap Documents = {}
    /\ Copies \cap (Attachments \cup Documents) = {}
    /\ IsFiniteSet(Attachments \cup Documents \cup Copies)

VARIABLES
    rows,      \* per key: state and digest of the row
    bytes,     \* per key: what the object store holds
    outbox,    \* per key: the deletion entry: "none", "later" or "due"
    age,       \* of the reservation: "fresh", "expired" (24 h), "overdue" (25 h)
    uploads,   \* per uploader: the request with its row and content
    counting,  \* reservers that counted under the owner's lock and have not inserted
    copying,   \* attach_draft_assets between the copy and the commit
    cleaner    \* the second transaction of cleanup_files

fileVars == <<rows, bytes, outbox, age, uploads, counting, copying, cleaner>>

Files == Attachments \cup Documents
Keys  == Files \cup Copies
NoRow       == [state |-> "none", digest |-> NoBytes]
IdleUpload  == [pc |-> "idle", key |-> "none"]
NotCopying  == [pc |-> "idle", from |-> "none", to |-> "none"]
IdleCleaner == [pc |-> "idle", done |-> {}]

Live(k)     == rows[k].state \in {"uploading", "ready", "sent", "attached"}
Complete(k) == rows[k].state \in {"ready", "sent", "attached"}

FileInit ==
    /\ rows = [k \in Keys |-> NoRow]
    /\ bytes = [k \in Keys |-> NoBytes]
    /\ outbox = [k \in Keys |-> "none"]
    /\ age = [k \in Keys |-> "fresh"]
    /\ uploads = [u \in Uploaders |-> IdleUpload]
    /\ counting = {}
    /\ copying = NotCopying
    /\ cleaner = IdleCleaner

RowLocked(k) ==
    \/ \E u \in Uploaders : uploads[u].key = k /\ uploads[u].pc \in {"saving", "written"}
    \/ copying.pc # "idle" /\ copying.from = k

OutboxLocked(k) == k \in cleaner.done

(***************************************************************************)
(* Reserving, under the owner's lock: count, then insert row and outbox    *)
(* entry in one commit.                                                    *)
(***************************************************************************)
Unfinished == {k \in Keys : \/ rows[k].state = "uploading"
                            \/ rows[k].state = "ready" /\ k \in Attachments}

\* Mutant: counting does not lock the owner.
CountFiles_Unlocked(r) ==
    /\ r \notin counting
    /\ Cardinality(Unfinished) < UnfinishedLimit
    /\ counting' = counting \cup {r}
    /\ UNCHANGED <<rows, bytes, outbox, age, uploads, copying, cleaner>>

CountFiles(r) ==
    /\ counting = {}
    /\ Cardinality(Unfinished) < UnfinishedLimit
    /\ counting' = counting \cup {r}
    /\ UNCHANGED <<rows, bytes, outbox, age, uploads, copying, cleaner>>

Reserve(r, k) ==
    /\ r \in counting /\ rows[k] = NoRow
    /\ rows' = [rows EXCEPT ![k] = [NoRow EXCEPT !.state = "uploading"]]
    /\ outbox' = [outbox EXCEPT ![k] = "later"]
    /\ counting' = counting \ {r}
    /\ UNCHANGED <<bytes, age, uploads, copying, cleaner>>

GiveUpReserving(r) ==
    /\ r \in counting
    /\ counting' = counting \ {r}
    /\ UNCHANGED <<rows, bytes, outbox, age, uploads, copying, cleaner>>

(***************************************************************************)
(* Uploading.  The request is admitted without a lock, streams, and then   *)
(* loads the row under lock, writes the bytes and commits.                 *)
(***************************************************************************)
StartUpload(u, k) ==
    /\ uploads[u].pc = "idle" /\ Live(k)
    /\ uploads' = [uploads EXCEPT ![u] = [pc |-> "streaming", key |-> k]]
    /\ UNCHANGED <<rows, bytes, outbox, age, counting, copying, cleaner>>

Expired(k) ==
    /\ age[k] # "fresh"
    /\ \/ rows[k].state = "uploading"
       \/ rows[k].state = "ready" /\ k \in Attachments

\* Mutant: a completed file is not noticed under the lock.
LoadForSaving_Blind(u) ==
    /\ uploads[u].pc = "streaming"
    /\ LET k == uploads[u].key IN
       /\ ~RowLocked(k)
       /\ uploads' = [uploads EXCEPT ![u] =
                         IF Live(k) /\ ~Expired(k) THEN [@ EXCEPT !.pc = "saving"] ELSE IdleUpload]
    /\ UNCHANGED <<rows, bytes, outbox, age, counting, copying, cleaner>>

(* A row that is gone, expired or complete needs no bytes. *)
LoadForSaving(u) ==
    /\ uploads[u].pc = "streaming"
    /\ LET k == uploads[u].key IN
       /\ ~RowLocked(k)
       /\ uploads' = [uploads EXCEPT ![u] =
                         IF Live(k) /\ ~Expired(k) /\ ~Complete(k)
                         THEN [@ EXCEPT !.pc = "saving"] ELSE IdleUpload]
    /\ UNCHANGED <<rows, bytes, outbox, age, counting, copying, cleaner>>

WriteObject(u) ==
    /\ uploads[u].pc = "saving"
    /\ bytes' = [bytes EXCEPT ![uploads[u].key] = u]
    /\ uploads' = [uploads EXCEPT ![u].pc = "written"]
    /\ UNCHANGED <<rows, outbox, age, counting, copying, cleaner>>

CommitUpload(u) ==
    /\ uploads[u].pc = "written"
    /\ rows' = [rows EXCEPT ![uploads[u].key].state = "ready",
                            ![uploads[u].key].digest = u]
    /\ uploads' = [uploads EXCEPT ![u] = IdleUpload]
    /\ UNCHANGED <<bytes, outbox, age, counting, copying, cleaner>>

(* A disconnect, a timeout, a storage error, a rollback or a crash. *)
AbortUpload(u) ==
    /\ uploads[u].pc # "idle"
    /\ uploads' = [uploads EXCEPT ![u] = IdleUpload]
    /\ UNCHANGED <<rows, bytes, outbox, age, counting, copying, cleaner>>

(***************************************************************************)
(* What becomes of a complete file.                                        *)
(***************************************************************************)
BindToMessage(k) ==
    /\ ~RowLocked(k)
    /\ rows[k].state = "ready" /\ k \in Attachments /\ ~Expired(k)
    /\ rows' = [rows EXCEPT ![k].state = "sent"]
    /\ UNCHANGED <<bytes, outbox, age, uploads, counting, copying, cleaner>>

CopyForRevision(k, c) ==
    /\ copying.pc = "idle" /\ ~RowLocked(k)
    /\ rows[k].state = "ready" /\ k \in Documents
    /\ rows[c] = NoRow /\ bytes[c] = NoBytes
    /\ bytes' = [bytes EXCEPT ![c] = bytes[k]]
    /\ copying' = [pc |-> "copied", from |-> k, to |-> c]
    /\ UNCHANGED <<rows, outbox, age, uploads, counting, cleaner>>

CommitRevision ==
    /\ copying.pc = "copied"
    /\ rows' = [rows EXCEPT ![copying.to] = [state |-> "attached", digest |-> rows[copying.from].digest]]
    /\ copying' = NotCopying
    /\ UNCHANGED <<bytes, outbox, age, uploads, counting, cleaner>>

(* The copy has no outbox entry: what rolls back here is never reclaimed. *)
AbandonRevision ==
    /\ copying.pc = "copied"
    /\ copying' = NotCopying
    /\ UNCHANGED <<rows, bytes, outbox, age, uploads, counting, cleaner>>

\* Mutant: a removal leaves the outbox as it is.
ScheduleDeletion_RowOnly(ks) ==
    /\ rows' = [k \in Keys |-> IF k \in ks THEN [NoRow EXCEPT !.state = "removed"] ELSE rows[k]]
    /\ UNCHANGED outbox

ScheduleDeletion(ks) ==
    /\ rows' = [k \in Keys |-> IF k \in ks THEN [NoRow EXCEPT !.state = "removed"] ELSE rows[k]]
    /\ outbox' = [k \in Keys |-> IF k \in ks THEN "due" ELSE outbox[k]]

(* The owner removes an unsent or library file; deleting the thread or the *)
(* account removes the sent ones too, never what a revision holds.         *)
Remove(k) ==
    /\ ~RowLocked(k) /\ ~OutboxLocked(k)
    /\ Live(k) /\ rows[k].state # "attached"
    /\ ScheduleDeletion({k})
    /\ UNCHANGED <<bytes, age, uploads, counting, copying, cleaner>>

(***************************************************************************)
(* Time, and the cleaner: first transaction, second transaction.  Nothing  *)
(* saves for an hour: the transfer is limited to two minutes, the store's  *)
(* calls to seconds.                                                       *)
(***************************************************************************)
PassDay(k) ==
    /\ rows[k].state # "none" /\ age[k] = "fresh"
    /\ age' = [age EXCEPT ![k] = "expired"]
    /\ UNCHANGED <<rows, bytes, outbox, uploads, counting, copying, cleaner>>

PassHour(k) ==
    /\ age[k] = "expired"
    /\ ~\E u \in Uploaders : uploads[u].key = k /\ uploads[u].pc \in {"saving", "written"}
    /\ age' = [age EXCEPT ![k] = "overdue"]
    /\ outbox' = [outbox EXCEPT ![k] = IF @ = "later" THEN "due" ELSE @]
    /\ UNCHANGED <<rows, bytes, uploads, counting, copying, cleaner>>

ExpiredRows == {k \in Keys : Live(k) /\ Expired(k) /\ ~RowLocked(k)}

RemoveExpired ==
    /\ cleaner.pc = "idle" /\ ExpiredRows # {}
    /\ ScheduleDeletion(ExpiredRows)
    /\ UNCHANGED <<bytes, age, uploads, counting, copying, cleaner>>

DueKeys == {k \in Keys : outbox[k] = "due"}

(* One pass over the due entries, which do not depend on each other: the   *)
(* entry of a complete file is dropped, any other one's object deleted;    *)
(* one whose deletion fails is due again later.                            *)
SweepDue(failing) ==
    /\ cleaner.pc = "idle" /\ DueKeys \ failing # {}
    /\ failing \subseteq {k \in DueKeys : ~Complete(k)}
    /\ bytes' = [k \in Keys |-> IF k \in DueKeys \ failing /\ ~Complete(k)
                                THEN NoBytes ELSE bytes[k]]
    /\ cleaner' = [pc |-> "swept", done |-> DueKeys \ failing]
    /\ UNCHANGED <<rows, outbox, age, uploads, counting, copying>>

CommitSweep ==
    /\ cleaner.pc = "swept"
    /\ outbox' = [k \in Keys |-> IF k \in cleaner.done THEN "none" ELSE outbox[k]]
    /\ cleaner' = IdleCleaner
    /\ UNCHANGED <<rows, bytes, age, uploads, counting, copying>>

FileCrash ==
    /\ uploads' = [u \in Uploaders |-> IdleUpload]
    /\ counting' = {}
    /\ copying' = NotCopying
    /\ cleaner' = IdleCleaner
    /\ UNCHANGED <<rows, bytes, outbox, age>>

Cleaning == RemoveExpired \/ CommitSweep \/ \E failing \in SUBSET Keys : SweepDue(failing)

Saving(u) == LoadForSaving(u) \/ WriteObject(u) \/ CommitUpload(u)

FileNext ==
    \/ \E r \in Reservers : \/ CountFiles(r) \/ GiveUpReserving(r)
                            \/ \E k \in Files : Reserve(r, k)
    \/ \E u \in Uploaders : \/ Saving(u) \/ AbortUpload(u)
                            \/ \E k \in Files : StartUpload(u, k)
    \/ \E k \in Files : BindToMessage(k) \/ Remove(k) \/ PassDay(k) \/ PassHour(k)
    \/ \E k \in Files, c \in Copies : CopyForRevision(k, c)
    \/ CommitRevision \/ AbandonRevision \/ Cleaning \/ FileCrash

FileSpec == FileInit /\ [][FileNext]_fileVars

-----------------------------------------------------------------------------
(* Rows, objects and outbox entries have the states their columns allow. *)
FileTypeOK ==
    /\ rows \in [Keys -> [state : {"none", "uploading", "ready", "sent", "attached", "removed"},
                 digest : Uploaders \cup {NoBytes}]]
    /\ bytes \in [Keys -> Uploaders \cup {NoBytes}]
    /\ outbox \in [Keys -> {"none", "later", "due"}]
    /\ age \in [Keys -> {"fresh", "expired", "overdue"}]
    /\ uploads \in [Uploaders -> [pc : {"idle", "streaming", "saving", "written"}, key : Keys \cup {"none"}]]
    /\ counting \subseteq Reservers
    /\ copying \in [pc : {"idle", "copied"}, from : Keys \cup {"none"}, to : Keys \cup {"none"}]
    /\ cleaner \in [pc : {"idle", "swept"}, done : SUBSET Keys]

(* A file its row calls complete is in the store with the contents its row *)
(* recorded: no second upload, no cleanup and no deletion took or changed  *)
(* them.                                                                   *)
CompleteHasBytes == \A k \in Keys : Complete(k) => bytes[k] = rows[k].digest

(* Bytes of a reserved file always have a row or an outbox entry to be     *)
(* found by.                                                               *)
BytesAccountedFor ==
    \A k \in Files : bytes[k] # NoBytes => Live(k) \/ outbox[k] # "none"

(* Concurrent reservations do not pass the limit of unfinished files. *)
UnfinishedBounded == Cardinality(Unfinished) <= UnfinishedLimit
=============================================================================
