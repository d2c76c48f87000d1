------------------------------- MODULE Ledger -------------------------------
(***************************************************************************)
(* The canonical ledger of one user for one real purchase: observations    *)
(* of it that several sources report, the transactions they become         *)
(* (services/reconciliation.py), and the edits, removals and restores that *)
(* meet them (services/transactions.py, services/conversation.py).         *)
(*                                                                         *)
(* All observations agree on amount, direction and date, so every live     *)
(* transaction is a candidate for every observation; merchants decide.     *)
(***************************************************************************)
EXTENDS Naturals, Sequences, FiniteSets

CONSTANTS ManualObs, SmsObs, BankObs,   \* observations, by the source that reports them
          Identified,                   \* those that carry their source's own id of the purchase
          Sessions,                     \* database sessions that ingest or resolve
          MaxTxs, MaxVersion

ASSUME LedgerBounds ==
    /\ MaxTxs \in Nat /\ MaxVersion \in Nat \ {0}
    /\ ManualObs \cap SmsObs = {} /\ ManualObs \cap BankObs = {} /\ SmsObs \cap BankObs = {}

VARIABLES
    observations,  \* processing state of each observation row
    txs,           \* the transactions, in the order they were committed
    revisions,     \* per transaction: its last TransactionRevision row, and how far its
                   \* author's screen was behind: versions skipped, row unlike
    sources,       \* TransactionSource rows: observation, transaction, decision
    sessions,      \* per session: the work in hand and what it has read
    screen,        \* the open editor: its transaction, the row and version it shows, and
                   \* the version and merchant its save has loaded (version 0: not sent)
    together       \* pairs of observations whose ingestions overlapped

ledgerVars == <<observations, txs, revisions, sources, sessions, screen, together>>

Observations == ManualObs \cup SmsObs \cup BankObs
Typed        == {"typed", "edited"}   \* merchant names a person enters
Merchants    == Typed \cup {"reported"}
Rows == [merchant : Merchants, status : {"provisional", "confirmed"}, removed : BOOLEAN]

NoRow    == [merchant |-> "typed", status |-> "provisional", removed |-> FALSE]
NoScreen == [tx |-> 0, version |-> 0, row |-> NoRow, read |-> 0, found |-> "typed"]
NoWork   == [pc |-> "idle", obs |-> "none", tx |-> 0, how |-> "none"]

LedgerInit ==
    /\ observations = [o \in Observations |-> "none"]
    /\ txs = <<>> /\ revisions = <<>>
    /\ sources = {}
    /\ sessions = [s \in Sessions |-> NoWork]
    /\ screen = NoScreen
    /\ together = {}

LiveTxs       == {t \in DOMAIN txs : ~txs[t].row.removed}
SourcesOf(o)  == {src \in sources : src.obs = o}
Ingesting     == {sessions[s].obs : s \in {z \in Sessions : sessions[z].pc = "ingesting"}}

(* What create_transaction writes and its first revision records ... *)
CreatedRow(o) ==
    [merchant |-> IF o \in ManualObs THEN "typed" ELSE "reported",
     status   |-> IF o \in BankObs THEN "confirmed" ELSE "provisional",
     removed  |-> FALSE]

(* ... and what attach_observation makes of a row: any other source        *)
(* confirms it, and may write its own name of a merchant whose name it     *)
(* read to be alike.  No version counts this and no revision records it.   *)
AttachedRows(o, row) ==
    LET confirmed == [row EXCEPT !.status = "confirmed"] IN
    IF o \in ManualObs THEN {row}
    ELSE {confirmed, [confirmed EXCEPT !.merchant = "reported"]}

Attach(o, t, how) ==
    /\ \E row \in AttachedRows(o, txs[t].row) : txs' = [txs EXCEPT ![t].row = row]
    /\ sources' = sources \cup {[obs |-> o, tx |-> t, how |-> how]}
    /\ UNCHANGED revisions

\* Mutant: a new transaction has no first revision.
Create_Unrecorded(o, how) ==
    /\ Len(txs) < MaxTxs
    /\ txs' = Append(txs, [version |-> 1, row |-> CreatedRow(o)])
    /\ sources' = sources \cup {[obs |-> o, tx |-> Len(txs) + 1, how |-> how]}
    /\ UNCHANGED revisions

Create(o, how) ==
    /\ Len(txs) < MaxTxs
    /\ LET row == CreatedRow(o) IN
       /\ \E attached \in AttachedRows(o, row) :
            txs' = Append(txs, [version |-> 1, row |-> attached])
       /\ revisions' = Append(revisions, [number |-> 1, skips |-> 0, blind |-> FALSE])
    /\ sources' = sources \cup {[obs |-> o, tx |-> Len(txs) + 1, how |-> how]}

(***************************************************************************)
(* Ingestion: insert the observation, read the candidates, ask for advice, *)
(* and commit.  The unique keys of an observation hold a second insert     *)
(* until the first commits, and then make it a replay.                     *)
(***************************************************************************)
Strong(o, t) == o \notin ManualObs /\ txs[t].row.merchant = "reported"

(* A transaction that already has another purchase of this very source is  *)
(* scored zero: it still counts as a candidate, and is never the best one. *)
SameSource(o, p) == {o, p} \subseteq SmsObs \/ {o, p} \subseteq BankObs
Conflicting(o, t) ==
    \E src \in sources : /\ src.tx = t /\ src.obs # o /\ SameSource(src.obs, o)
                         /\ {src.obs, o} \subseteq Identified
Comparable(o) == {t \in LiveTxs : ~Conflicting(o, t)}

AsNew(how) == [how |-> how, tx |-> 0]
Scored(o)  == [how : {"match"}, tx : Comparable(o)] \cup {AsNew("new"), AsNew("review")}

\* Mutant: a lone strong candidate is scored like any other.
Decisions_Weak(o) == IF Comparable(o) = {} THEN {AsNew("new")} ELSE Scored(o)

Decisions(o) ==
    IF Comparable(o) = {} THEN {AsNew("new")}
    ELSE IF Cardinality(LiveTxs) = 1 /\ \A t \in LiveTxs : Strong(o, t)
         THEN [how : {"match"}, tx : LiveTxs]
         ELSE Scored(o)

BeginIngest(s, o) ==
    /\ sessions[s].pc = "idle" /\ o \notin ManualObs
    /\ observations[o] = "none" /\ o \notin Ingesting
    /\ \E d \in Decisions(o) :
         sessions' = [sessions EXCEPT ![s] =
                         [pc |-> "ingesting", obs |-> o, tx |-> d.tx, how |-> d.how]]
    /\ together' = together \cup {{o, p} : p \in Ingesting}
    /\ UNCHANGED <<observations, txs, revisions, sources, screen>>

CommitIngest(s) ==
    LET work == sessions[s] IN
    /\ work.pc = "ingesting"
    /\ \/ work.how = "match" /\ Attach(work.obs, work.tx, "match")
       \/ work.how = "new" /\ Create(work.obs, "new")
       \/ work.how = "review" /\ UNCHANGED <<txs, revisions, sources>>
    /\ observations' = [observations EXCEPT ![work.obs] =
                            IF work.how = "review" THEN "needs_review" ELSE "attached"]
    /\ sessions' = [sessions EXCEPT ![s] = NoWork]
    /\ UNCHANGED <<screen, together>>

(* A draft saved in chat is an observation of its own, never reconciled. *)
RecordManually(o) ==
    /\ o \in ManualObs /\ observations[o] = "none"
    /\ Create(o, "new")
    /\ observations' = [observations EXCEPT ![o] = "attached"]
    /\ UNCHANGED <<sessions, screen, together>>

(***************************************************************************)
(* Resolving a review.  The source is looked up without a lock; its unique *)
(* observation refuses whoever commits second.                             *)
(***************************************************************************)
LoadResolution(s, o, t, how) ==
    /\ sessions[s].pc = "idle"
    /\ observations[o] = "needs_review" /\ SourcesOf(o) = {} /\ t \in LiveTxs
    /\ sessions' = [sessions EXCEPT ![s] =
                       [pc |-> "resolving", obs |-> o, tx |-> t, how |-> how]]
    /\ UNCHANGED <<observations, txs, revisions, sources, screen, together>>

\* Mutant: an observation may have two sources.
CommitResolution_NotUnique(s) ==
    LET work == sessions[s] IN
    /\ work.pc = "resolving"
    /\ \/ work.how = "same" /\ Attach(work.obs, work.tx, "same")
       \/ work.how = "separate" /\ Create(work.obs, "separate")
    /\ observations' = [observations EXCEPT ![work.obs] = "attached"]
    /\ sessions' = [sessions EXCEPT ![s] = NoWork]
    /\ UNCHANGED <<screen, together>>

CommitResolution(s) ==
    LET work == sessions[s] IN
    /\ work.pc = "resolving" /\ SourcesOf(work.obs) = {}
    /\ \/ work.how = "same" /\ Attach(work.obs, work.tx, "same")
       \/ work.how = "separate" /\ Create(work.obs, "separate")
    /\ observations' = [observations EXCEPT ![work.obs] = "attached"]
    /\ sessions' = [sessions EXCEPT ![s] = NoWork]
    /\ UNCHANGED <<screen, together>>

(* A refused insert, a failure or a lost process. *)
RollBackWork(s) ==
    /\ sessions[s].pc # "idle"
    /\ sessions' = [sessions EXCEPT ![s] = NoWork]
    /\ UNCHANGED <<observations, txs, revisions, sources, screen, together>>

(***************************************************************************)
(* Edits, removals and restores lock the row, count a version and record   *)
(* a revision, whose number is unique.  The removal confirmed in chat does *)
(* none of these.                                                          *)
(***************************************************************************)
Current(t) == [NoScreen EXCEPT !.tx = t, !.version = txs[t].version, !.row = txs[t].row]

(* "loaded" is the version the writer found, "saw" what its author had     *)
(* before them.                                                            *)
Revise(t, loaded, row, saw) ==
    /\ loaded < MaxVersion /\ loaded + 1 > revisions[t].number
    /\ txs' = [txs EXCEPT ![t] = [version |-> loaded + 1, row |-> row]]
    /\ revisions' = [revisions EXCEPT ![t] =
          [number |-> loaded + 1, skips |-> txs[t].version - saw.version,
           blind |-> saw.row # txs[t].row]]
    /\ UNCHANGED <<observations, sources, sessions, together>>

OpenEditor(t) ==
    /\ screen = NoScreen /\ t \in LiveTxs
    /\ screen' = Current(t)
    /\ UNCHANGED <<observations, txs, revisions, sources, sessions, together>>

(* A save reads the row before it locks it, and the session keeps the      *)
(* object it has: the lock refreshes nothing but whether the row is live.  *)
SendEdit ==
    /\ screen # NoScreen /\ screen.read = 0 /\ screen.tx \in LiveTxs
    /\ screen' = [screen EXCEPT !.read = txs[screen.tx].version,
                                !.found = txs[screen.tx].row.merchant]
    /\ UNCHANGED <<observations, txs, revisions, sources, sessions, together>>

(* Every save names the version its editor shows: the HTTP interface       *)
(* refuses one that does not, and a card's action takes it from the card.  *)
NamedVersion == screen.version

\* Mutant: the version an editor names is not compared.
Edit_AnyVersion(t, merchant) ==
    /\ screen.tx = t /\ screen.read # 0 /\ t \in LiveTxs /\ merchant # screen.found
    /\ Revise(t, screen.read, [txs[t].row EXCEPT !.merchant = merchant], screen)
    /\ screen' = NoScreen

Edit(t, merchant) ==
    /\ screen.tx = t /\ screen.read # 0 /\ t \in LiveTxs /\ merchant # screen.found
    /\ NamedVersion = screen.read
    /\ Revise(t, screen.read, [txs[t].row EXCEPT !.merchant = merchant], screen)
    /\ screen' = NoScreen

(* The row is gone, was changed since the editor opened or while its save  *)
(* was under way, or is left as is.                                        *)
LeaveEditor ==
    /\ screen # NoScreen
    /\ screen' = NoScreen
    /\ UNCHANGED <<observations, txs, revisions, sources, sessions, together>>

RemoveTx(t) ==
    /\ t \in LiveTxs
    /\ Revise(t, txs[t].version, [txs[t].row EXCEPT !.removed = TRUE], Current(t))
    /\ UNCHANGED screen

RestoreTx(t) ==
    /\ t \in DOMAIN txs \ LiveTxs
    /\ Revise(t, txs[t].version, [txs[t].row EXCEPT !.removed = FALSE], Current(t))
    /\ UNCHANGED screen

RemoveInChat(t) ==
    /\ t \in LiveTxs
    /\ txs' = [txs EXCEPT ![t].row.removed = TRUE]
    /\ UNCHANGED <<observations, revisions, sources, sessions, screen, together>>

LedgerNext ==
    \/ \E s \in Sessions :
          \/ CommitIngest(s) \/ CommitResolution(s) \/ RollBackWork(s)
          \/ \E o \in Observations : BeginIngest(s, o)
          \/ \E o \in Observations, t \in DOMAIN txs, how \in {"same", "separate"} :
                LoadResolution(s, o, t, how)
    \/ \E o \in Observations : RecordManually(o)
    \/ SendEdit \/ LeaveEditor
    \/ \E t \in DOMAIN txs : \/ OpenEditor(t) \/ RemoveTx(t) \/ RestoreTx(t) \/ RemoveInChat(t)
                             \/ \E merchant \in Typed : Edit(t, merchant)

LedgerSpec == LedgerInit /\ [][LedgerNext]_ledgerVars

-----------------------------------------------------------------------------
Screens == [tx : 0..MaxTxs, version : 0..MaxVersion, row : Rows,
            read : 0..MaxVersion, found : Merchants]

(* Rows, revisions and sources have the columns their models declare. *)
LedgerTypeOK ==
    /\ observations \in [Observations -> {"none", "needs_review", "attached"}]
    /\ txs \in Seq([version : 1..MaxVersion, row : Rows]) /\ Len(txs) <= MaxTxs
    /\ revisions \in Seq([number : 1..MaxVersion, skips : 0..MaxVersion, blind : BOOLEAN])
    /\ Len(revisions) = Len(txs)
    /\ sources \subseteq [obs : Observations, tx : DOMAIN txs,
                          how : {"new", "match", "same", "separate"}]
    /\ screen \in Screens
    /\ together \subseteq SUBSET Observations

(* However ingestions, their repeats and two people's resolutions of one   *)
(* review interleave, an observation counts in one transaction, and no     *)
(* transaction is left behind by an attempt that lost.                     *)
ObservationCountedOnce ==
    /\ \A o \in Observations :
          Cardinality(SourcesOf(o)) = IF observations[o] = "attached" THEN 1 ELSE 0
    /\ \A t \in DOMAIN txs : \E src \in sources : src.tx = t

(* Two sources that report one purchase make two transactions only if      *)
(* their ingestions overlapped, neither seeing the other's row, unless     *)
(* somebody typed, renamed or removed one meanwhile, or one source itself  *)
(* told the purchases apart.                                               *)
Untouched(t) ==
    /\ txs[t].version = 1 /\ ~txs[t].row.removed
    /\ \A src \in sources : src.tx = t => src.obs \notin ManualObs

TwinsNeedOverlap ==
    \A a, b \in sources :
        (/\ a.tx # b.tx /\ a.how = "new" /\ b.how = "new"
         /\ DOMAIN txs = {a.tx, b.tx} /\ \A t \in DOMAIN txs : Untouched(t)
         /\ ~Conflicting(a.obs, b.tx) /\ ~Conflicting(b.obs, a.tx))
        => {a.obs, b.obs} \in together

(* An edit is made from the version it directly follows: no edit, removal  *)
(* or restore its author had not seen is overwritten, whoever commits      *)
(* between the reads of a save and its lock, and a row that one source     *)
(* reported is exactly what was on the screen.                             *)
EditsSeeEdits ==
    \A t \in DOMAIN txs :
        /\ revisions[t].number = txs[t].version
        /\ revisions[t].skips = 0
        /\ revisions[t].blind => Cardinality({src \in sources : src.tx = t}) > 1
=============================================================================
