---------------------------- MODULE LedgerProofs ----------------------------
(***************************************************************************)
(* The ledger of one purchase, for every number of sources, sessions,      *)
(* transactions and versions: an observation counts once, edits follow     *)
(* what their author saw, and two transactions of one purchase need        *)
(* ingestions that overlapped.  Last, the ledger beside the conversations. *)
(***************************************************************************)
EXTENDS MCLedger, InterruptsProofs

Reported == Observations \ ManualObs   \* what BeginIngest and reviews are about

TxRows    == [version : 1..MaxVersion, row : Rows]
Revisions == [number : 1..MaxVersion, skips : 0..MaxVersion, blind : BOOLEAN]
SourceRows == [obs : Observations, tx : DOMAIN txs, how : {"new", "match", "same", "separate"}]

(* What a session in the middle of its transaction holds.                  *)
IngestsSoundly(s) ==
    /\ sessions[s].obs \in Reported /\ observations[sessions[s].obs] = "none"
    /\ sessions[s].how \in {"match", "new", "review"}
    /\ sessions[s].how = "match" => sessions[s].tx \in DOMAIN txs

ResolvesSoundly(s) ==
    /\ sessions[s].obs \in Reported /\ observations[sessions[s].obs] # "none"
    /\ sessions[s].how \in {"same", "separate"} /\ sessions[s].tx \in DOMAIN txs

Work == [pc : {"idle", "ingesting", "resolving"}, obs : Observations \cup {"none"}, tx : Nat,
         how : {"none", "match", "new", "review", "same", "separate"}]

SessionsSound ==
    /\ sessions \in [Sessions -> Work]
    /\ \A s \in Sessions : /\ sessions[s].pc = "ingesting" => IngestsSoundly(s)
                           /\ sessions[s].pc = "resolving" => ResolvesSoundly(s)
    /\ \A o \in ManualObs : observations[o] # "needs_review"

(* An observation has a source exactly when it is attached, and one only.  *)
SourcesSound ==
    /\ IsFiniteSet(sources)
    /\ \A a, b \in sources : a.obs = b.obs => a = b
    /\ \A o \in Observations : observations[o] = "attached" <=> \E a \in sources : a.obs = o
    /\ \A t \in DOMAIN txs : \E a \in sources : a.tx = t

(* An open editor that names the present version of a live row shows it,   *)
(* unless another source was attached to the row meanwhile; what its save  *)
(* has read is a version the row once had.                                 *)
Corroborated(t) == \E a, b \in sources : a.tx = t /\ b.tx = t /\ a # b

ScreenSound ==
    screen.tx # 0 =>
        /\ screen.tx \in DOMAIN txs /\ screen.version <= txs[screen.tx].version
        /\ screen.read <= txs[screen.tx].version
        /\ screen.tx \in LiveTxs /\ screen.version = txs[screen.tx].version
              => screen.row = txs[screen.tx].row \/ Corroborated(screen.tx)

EditsSound ==
    \A t \in DOMAIN txs : /\ revisions[t].number = txs[t].version
                          /\ revisions[t].skips = 0
                          /\ revisions[t].blind => Corroborated(t)

(* A row nobody touched carries the reported merchant, so whoever begins   *)
(* to ingest after it was committed matches it; whoever is at it already   *)
(* overlapped the session that committed it.  The exception is a row that  *)
(* holds another purchase of the same source.                              *)
OverlapSound ==
    /\ \A t \in DOMAIN txs : Untouched(t) => txs[t].row.merchant = "reported"
    /\ \A s, z \in Sessions :
          s # z /\ sessions[s].pc = "ingesting" /\ sessions[z].pc = "ingesting" =>
             /\ sessions[s].obs # sessions[z].obs
             /\ {sessions[s].obs, sessions[z].obs} \in together
    /\ \A s \in Sessions, a \in sources :
          (/\ sessions[s].pc = "ingesting" /\ sessions[s].how = "new"
           /\ a.how = "new" /\ Len(txs) = 1 /\ Untouched(1)
           /\ ~Conflicting(sessions[s].obs, 1))
          => {a.obs, sessions[s].obs} \in together

LedgerInv ==
    /\ LedgerTypeOK /\ SessionsSound /\ SourcesSound
    /\ ScreenSound /\ EditsSound
    /\ OverlapSound /\ TwinsNeedOverlap

-----------------------------------------------------------------------------
(* What the building blocks of the steps do to the rows.                   *)

LEMMA Shapes ==
  ASSUME LedgerInv
  PROVE  /\ txs \in Seq(TxRows) /\ Len(txs) \in Nat /\ DOMAIN txs = 1..Len(txs)
         /\ revisions \in Seq(Revisions) /\ Len(revisions) = Len(txs)
         /\ sources \subseteq SourceRows
BY LenProperties DEF LedgerInv, LedgerTypeOK, TxRows, Revisions, SourceRows

LEMMA AttachedRow ==
  ASSUME NEW o \in Observations, NEW row \in Rows, NEW new \in AttachedRows(o, row)
  PROVE  /\ new \in Rows /\ new.removed = row.removed
         /\ o \in Reported /\ row.merchant = "reported" => new.merchant = "reported"
BY DEF AttachedRows, Rows, Merchants, Typed, Reported

LEMMA CreatedRows ==
  ASSUME NEW o \in Observations
  PROVE  /\ CreatedRow(o) \in Rows /\ ~CreatedRow(o).removed
         /\ o \in Reported => CreatedRow(o).merchant = "reported"
BY DEF CreatedRow, Rows, Merchants, Typed, Reported

LEMMA AttachEffect ==
  ASSUME LedgerInv, NEW o \in Reported, NEW t \in DOMAIN txs, NEW how, Attach(o, t, how)
  PROVE  /\ txs' \in Seq(TxRows) /\ Len(txs') = Len(txs) /\ DOMAIN txs' = DOMAIN txs
         /\ \A u \in DOMAIN txs :
              /\ txs'[u].version = txs[u].version
              /\ txs'[u].row.removed = txs[u].row.removed
              /\ txs[u].row.merchant = "reported" => txs'[u].row.merchant = "reported"
              /\ u # t => txs'[u] = txs[u]
         /\ UNCHANGED revisions
         /\ sources' = sources \cup {[obs |-> o, tx |-> t, how |-> how]}
<1>1. PICK row \in AttachedRows(o, txs[t].row) : txs' = [txs EXCEPT ![t].row = row]
  BY DEF Attach
<1>2. txs \in Seq(TxRows) /\ t \in 1..Len(txs) /\ txs[t] \in TxRows /\ o \in Observations
  BY Shapes, ElementOfSeq DEF Reported
<1>3. /\ row \in Rows /\ row.removed = txs[t].row.removed
      /\ txs[t].row.merchant = "reported" => row.merchant = "reported"
  BY <1>2, AttachedRow DEF TxRows
<1> DEFINE e == [txs[t] EXCEPT !.row = row]
<1>4. e \in TxRows /\ e.version = txs[t].version /\ e.row = row
  BY <1>2, <1>3 DEF TxRows
<1>5. txs' = [txs EXCEPT ![t] = e]
  BY <1>1
<1> HIDE DEF e
<1>6. /\ txs' \in Seq(TxRows) /\ Len(txs') = Len(txs)
      /\ \A u \in 1..Len(txs) : txs'[u] = IF u = t THEN e ELSE txs[u]
  BY <1>2, <1>4, <1>5, ExceptSeq
<1> QED
  BY <1>2, <1>3, <1>4, <1>6, Shapes, LenProperties DEF Attach

LEMMA CreateEffect ==
  ASSUME LedgerInv, NEW o \in Observations, NEW how, Create(o, how)
  PROVE  LET n == Len(txs) + 1 IN
         /\ n <= MaxTxs
         /\ txs' \in Seq(TxRows) /\ Len(txs') = n /\ DOMAIN txs' = 1..n
         /\ \A u \in DOMAIN txs : txs'[u] = txs[u]
         /\ txs'[n].version = 1 /\ ~txs'[n].row.removed
         /\ o \in Reported => txs'[n].row.merchant = "reported"
         /\ revisions' \in Seq(Revisions) /\ Len(revisions') = n
         /\ \A u \in DOMAIN txs : revisions'[u] = revisions[u]
         /\ revisions'[n].number = 1 /\ revisions'[n].skips = 0 /\ ~revisions'[n].blind
         /\ sources' = sources \cup {[obs |-> o, tx |-> n, how |-> how]}
<1> DEFINE row == CreatedRow(o)
<1>1. PICK attached \in AttachedRows(o, row) :
         txs' = Append(txs, [version |-> 1, row |-> attached])
  BY DEF Create
<1>2. row \in Rows /\ ~row.removed /\ (o \in Reported => row.merchant = "reported")
  BY CreatedRows
<1>3. /\ attached \in Rows /\ ~attached.removed
      /\ o \in Reported => attached.merchant = "reported"
  BY <1>2, AttachedRow
<1> DEFINE tx  == [version |-> 1, row |-> attached]
           rev == [number |-> 1, skips |-> 0, blind |-> FALSE]
<1>4. tx \in TxRows /\ rev \in Revisions
  BY <1>2, <1>3, LedgerBounds DEF TxRows, Revisions
<1>5. txs' = Append(txs, tx) /\ revisions' = Append(revisions, rev)
  BY <1>1 DEF Create
<1>6. /\ tx.version = 1 /\ tx.row = attached
      /\ rev.number = 1 /\ rev.skips = 0 /\ rev.blind = FALSE
  OBVIOUS
<1> HIDE DEF tx, rev, row
<1>7. /\ txs' \in Seq(TxRows) /\ Len(txs') = Len(txs) + 1
      /\ \A u \in 1..Len(txs) : txs'[u] = txs[u]
      /\ txs'[Len(txs) + 1] = tx
  BY <1>4, <1>5, Shapes
<1>8. /\ revisions' \in Seq(Revisions) /\ Len(revisions') = Len(txs) + 1
      /\ \A u \in 1..Len(txs) : revisions'[u] = revisions[u]
      /\ revisions'[Len(txs) + 1] = rev
  BY <1>4, <1>5, Shapes
<1>9. Len(txs) + 1 <= MaxTxs
  BY Shapes, LedgerBounds DEF Create
<1> QED
  BY <1>3, <1>6, <1>7, <1>8, <1>9, Shapes, LenProperties DEF Create

LEMMA ReviseEffect ==
  ASSUME LedgerInv, NEW t \in DOMAIN txs, NEW row \in Rows, NEW saw,
         saw.version = txs[t].version, Revise(t, txs[t].version, row, saw)
  PROVE  /\ txs' \in Seq(TxRows) /\ Len(txs') = Len(txs) /\ DOMAIN txs' = DOMAIN txs
         /\ \A u \in DOMAIN txs : u # t => txs'[u] = txs[u] /\ revisions'[u] = revisions[u]
         /\ txs'[t].version = txs[t].version + 1 /\ txs'[t].row = row
         /\ txs[t].version \in 1..MaxVersion
         /\ revisions' \in Seq(Revisions) /\ Len(revisions') = Len(txs)
         /\ revisions'[t].number = txs[t].version + 1 /\ revisions'[t].skips = 0
         /\ revisions'[t].blind => saw.row # txs[t].row
<1> DEFINE tx  == [version |-> txs[t].version + 1, row |-> row]
           rev == [number |-> txs[t].version + 1,
                   skips |-> txs[t].version - saw.version, blind |-> saw.row # txs[t].row]
<1>1. txs \in Seq(TxRows) /\ t \in 1..Len(txs) /\ txs[t] \in TxRows
  BY Shapes, ElementOfSeq
<1>2. txs[t].version \in 1..MaxVersion /\ txs[t].version < MaxVersion
  BY <1>1 DEF Revise, TxRows
<1>3. txs[t].version - saw.version = 0 /\ txs[t].version + 1 \in 1..MaxVersion
  BY <1>2, LedgerBounds
<1>4. tx \in TxRows /\ rev \in Revisions /\ rev.skips = 0
  <2>1. (saw.row # txs[t].row) \in BOOLEAN
    OBVIOUS
  <2> QED
    BY <1>3, <2>1, LedgerBounds DEF TxRows, Revisions
<1>5. txs' = [txs EXCEPT ![t] = tx] /\ revisions' = [revisions EXCEPT ![t] = rev]
  BY DEF Revise
<1>6. /\ tx.version = txs[t].version + 1 /\ tx.row = row
      /\ rev.number = txs[t].version + 1 /\ rev.blind = (saw.row # txs[t].row)
  OBVIOUS
<1> HIDE DEF tx, rev
<1>7. /\ txs' \in Seq(TxRows) /\ Len(txs') = Len(txs)
      /\ \A u \in 1..Len(txs) : txs'[u] = IF u = t THEN tx ELSE txs[u]
  BY <1>1, <1>4, <1>5, ExceptSeq
<1>8. /\ revisions' \in Seq(Revisions) /\ Len(revisions') = Len(txs)
      /\ \A u \in 1..Len(txs) : revisions'[u] = IF u = t THEN rev ELSE revisions[u]
  BY <1>1, <1>4, <1>5, Shapes, ExceptSeq
<1> QED
  BY <1>1, <1>2, <1>4, <1>6, <1>7, <1>8, Shapes, LenProperties

-----------------------------------------------------------------------------
(* What keeps each part of the invariant.                                  *)

\* Rows, revisions and sources of the right shape, whoever wrote them.
LEMMA TypesKept ==
  ASSUME LedgerInv, txs' \in Seq(TxRows), Len(txs') <= MaxTxs,
         revisions' \in Seq(Revisions), Len(revisions') = Len(txs'),
         sources' \subseteq SourceRows', screen' \in Screens,
         observations' \in [Observations -> {"none", "needs_review", "attached"}],
         together' \subseteq SUBSET Observations
  PROVE  LedgerTypeOK'
BY DEF LedgerTypeOK, TxRows, Revisions, SourceRows

\* A session that commits its observation leaves the others what they hold.
LEMMA CommitSessions ==
  ASSUME LedgerInv, NEW s \in Sessions, sessions[s].pc # "idle",
         NEW st \in {"attached", "needs_review"}, DOMAIN txs \subseteq DOMAIN txs',
         observations' = [observations EXCEPT ![sessions[s].obs] = st],
         sessions' = [sessions EXCEPT ![s] = NoWork]
  PROVE  /\ SessionsSound'
         /\ observations' \in [Observations -> {"none", "needs_review", "attached"}]
         /\ \A z \in Sessions : sessions'[z].pc = "ingesting" =>
               z # s /\ sessions'[z] = sessions[z]
<1> DEFINE o == sessions[s].obs
<1>1. /\ sessions \in [Sessions -> Work] /\ NoWork \in Work /\ NoWork.pc = "idle"
      /\ observations \in [Observations -> {"none", "needs_review", "attached"}]
  BY DEF LedgerInv, LedgerTypeOK, SessionsSound, Work, NoWork, Merchants, Typed
<1>2. /\ o \in Reported
      /\ sessions[s].pc = "ingesting" \/ observations[o] # "none"
  BY <1>1 DEF LedgerInv, SessionsSound, IngestsSoundly, ResolvesSoundly, Work
<1>3. /\ sessions' \in [Sessions -> Work] /\ sessions'[s] = NoWork
      /\ \A z \in Sessions \ {s} : sessions'[z] = sessions[z]
  BY <1>1
<1>4. /\ observations' \in [Observations -> {"none", "needs_review", "attached"}]
      /\ observations'[o] = st
      /\ \A p \in Observations \ {o} : observations'[p] = observations[p]
  BY <1>1, <1>2 DEF Reported
<1> HIDE DEF o
<1>5. ASSUME NEW z \in Sessions, z # s, sessions[z].pc = "ingesting" PROVE IngestsSoundly(z)'
  <2>1. IngestsSoundly(z)
    BY <1>5 DEF LedgerInv, SessionsSound
  <2>2. sessions[z].obs # o
    BY <1>2, <1>5, <2>1 DEF LedgerInv, OverlapSound, IngestsSoundly, o
  <2> QED
    BY <1>3, <1>4, <1>5, <2>1, <2>2 DEF IngestsSoundly, Reported
<1>6. ASSUME NEW z \in Sessions, z # s, sessions[z].pc = "resolving" PROVE ResolvesSoundly(z)'
  <2>1. ResolvesSoundly(z)
    BY <1>6 DEF LedgerInv, SessionsSound
  <2> QED
    BY <1>3, <1>4, <1>6, <2>1 DEF ResolvesSoundly, Reported
<1>7. \A p \in ManualObs : observations'[p] # "needs_review"
  BY <1>2, <1>4 DEF LedgerInv, SessionsSound, Reported, Observations
<1> QED
  BY <1>1, <1>3, <1>4, <1>5, <1>6, <1>7 DEF SessionsSound

\* A source for an observation that had none.
LEMMA SourceAdded ==
  ASSUME LedgerInv, NEW o \in Observations, NEW t \in Nat, NEW how,
         observations[o] # "attached",
         observations' = [observations EXCEPT ![o] = "attached"],
         sources' = sources \cup {[obs |-> o, tx |-> t, how |-> how]},
         DOMAIN txs' \subseteq DOMAIN txs \cup {t}
  PROVE  /\ SourcesSound'
         /\ \A u : Corroborated(u) => Corroborated(u)'
         /\ t \in DOMAIN txs => Corroborated(t)'
<1> DEFINE src == [obs |-> o, tx |-> t, how |-> how]
<1>1. src.obs = o /\ src.tx = t /\ sources' = sources \cup {src}
  OBVIOUS
<1>2. /\ IsFiniteSet(sources) /\ \A a, b \in sources : a.obs = b.obs => a = b
      /\ \A p \in Observations : observations[p] = "attached" <=> \E a \in sources : a.obs = p
      /\ \A u \in DOMAIN txs : \E a \in sources : a.tx = u
      /\ observations \in [Observations -> {"none", "needs_review", "attached"}]
  BY DEF LedgerInv, SourcesSound, LedgerTypeOK
<1> HIDE DEF src
<1>3. \A a \in sources : a.obs # o
  BY <1>2
<1>4. IsFiniteSet(sources')
  BY <1>1, <1>2, FS_AddElement
<1>5. \A a, b \in sources' : a.obs = b.obs => a = b
  BY <1>1, <1>2, <1>3
<1>6. \A p \in Observations : observations'[p] = "attached" <=> \E a \in sources' : a.obs = p
  BY <1>1, <1>2
<1>7. \A u \in DOMAIN txs' : \E a \in sources' : a.tx = u
  BY <1>1, <1>2
<1>8. \A u : Corroborated(u) => Corroborated(u)'
  BY <1>1 DEF Corroborated
<1>9. t \in DOMAIN txs => Corroborated(t)'
  BY <1>1, <1>2, <1>3 DEF Corroborated
<1> QED
  BY <1>4, <1>5, <1>6, <1>7, <1>8, <1>9 DEF SourcesSound

\* Nothing makes a row untouched again: versions and sources only grow, and a
\* removed row comes back with a new version.
LEMMA UntouchedBefore ==
  ASSUME LedgerInv, NEW u \in DOMAIN txs, sources \subseteq sources', Untouched(u)',
         \/ txs'[u].version = txs[u].version /\ (txs[u].row.removed => txs'[u].row.removed)
         \/ txs'[u].version = txs[u].version + 1
  PROVE  Untouched(u)
<1>1. txs[u] \in TxRows
  BY Shapes, ElementOfSeq
<1>2. txs[u].version \in Nat \ {0} /\ txs[u].row.removed \in BOOLEAN
  BY <1>1, LedgerBounds DEF TxRows, Rows
<1> QED
  BY <1>2 DEF Untouched

\* Sources only grow, and with them the purchases a source tells apart.
LEMMA ConflictingStays ==
  ASSUME sources \subseteq sources', NEW o, NEW t, Conflicting(o, t)
  PROVE  Conflicting(o, t)'
BY DEF Conflicting

\* Another source is attached to a row.
LEMMA AttachKept ==
  ASSUME LedgerInv, NEW s \in Sessions, sessions[s].pc # "idle",
         NEW t \in DOMAIN txs, NEW how \in {"match", "same"},
         observations[sessions[s].obs] # "attached",
         Attach(sessions[s].obs, t, how),
         observations' = [observations EXCEPT ![sessions[s].obs] = "attached"],
         sessions' = [sessions EXCEPT ![s] = NoWork],
         UNCHANGED <<screen, together>>
  PROVE  LedgerInv'
<1> DEFINE o == sessions[s].obs
<1>1. o \in Reported
  BY DEF LedgerInv, SessionsSound, IngestsSoundly, ResolvesSoundly, Work
<1>2. /\ txs' \in Seq(TxRows) /\ Len(txs') = Len(txs) /\ DOMAIN txs' = DOMAIN txs
      /\ \A u \in DOMAIN txs :
           /\ txs'[u].version = txs[u].version
           /\ txs'[u].row.removed = txs[u].row.removed
           /\ txs[u].row.merchant = "reported" => txs'[u].row.merchant = "reported"
           /\ u # t => txs'[u] = txs[u]
      /\ UNCHANGED revisions
      /\ sources' = sources \cup {[obs |-> o, tx |-> t, how |-> how]}
  BY <1>1, AttachEffect
<1>3. /\ SessionsSound'
      /\ observations' \in [Observations -> {"none", "needs_review", "attached"}]
      /\ \A z \in Sessions : sessions'[z].pc = "ingesting" =>
            z # s /\ sessions'[z] = sessions[z]
  BY <1>2, CommitSessions
<1>4. o \in Observations /\ t \in Nat
  BY <1>1, Shapes DEF Reported
<1>5. /\ SourcesSound' /\ Corroborated(t)'
      /\ \A u : Corroborated(u) => Corroborated(u)'
  BY <1>2, <1>4, SourceAdded
<1>6. LedgerTypeOK'
  <2>1. [obs |-> o, tx |-> t, how |-> how] \in SourceRows
    BY <1>4 DEF SourceRows
  <2>2. sources' \subseteq SourceRows'
    BY <1>2, <2>1, Shapes DEF SourceRows
  <2> QED
    BY <1>2, <1>3, <2>2, Shapes, TypesKept DEF LedgerInv, LedgerTypeOK
<1>7. \A u \in DOMAIN txs : Untouched(u)' => Untouched(u)
  BY <1>2, UntouchedBefore
<1>8. /\ \A a \in sources' : a.how = "new" => a \in sources
      /\ sources \subseteq sources'
  BY <1>2
<1>9. LiveTxs' = LiveTxs
  BY <1>2 DEF LiveTxs
<1> HIDE DEF o
<1>10. ScreenSound'
  BY <1>2, <1>5, <1>9 DEF LedgerInv, ScreenSound
<1>11. EditsSound'
  BY <1>2, <1>5 DEF LedgerInv, EditsSound
<1>12. OverlapSound'
  <2>1. \A u \in DOMAIN txs' : Untouched(u)' => txs'[u].row.merchant = "reported"
    BY <1>2, <1>7 DEF LedgerInv, OverlapSound
  <2>2. \A z, y \in Sessions :
          z # y /\ sessions'[z].pc = "ingesting" /\ sessions'[y].pc = "ingesting" =>
             /\ sessions'[z].obs # sessions'[y].obs
             /\ {sessions'[z].obs, sessions'[y].obs} \in together'
    BY <1>3 DEF LedgerInv, OverlapSound
  <2>3. ASSUME NEW z \in Sessions, NEW a \in sources', sessions'[z].pc = "ingesting",
               sessions'[z].how = "new", a.how = "new", Len(txs') = 1, Untouched(1)',
               ~Conflicting(sessions[z].obs, 1)'
        PROVE  {a.obs, sessions'[z].obs} \in together'
    <3>1. Untouched(1) /\ ~Conflicting(sessions[z].obs, 1)
      BY <1>2, <1>3, <1>7, <1>8, <2>3, Shapes, ConflictingStays
    <3> QED
      BY <1>2, <1>3, <1>8, <2>3, <3>1 DEF LedgerInv, OverlapSound
  <2> QED
    BY <2>1, <2>2, <2>3 DEF OverlapSound
<1>13. TwinsNeedOverlap'
  BY <1>2, <1>7, <1>8, ConflictingStays DEF LedgerInv, TwinsNeedOverlap
<1> QED
  BY <1>3, <1>5, <1>6, <1>10, <1>11, <1>12, <1>13 DEF LedgerInv

LEMMA TwoNumbers ==
  ASSUME NEW n \in Nat, NEW a, NEW b, a # b, 1..n = {a, b}
  PROVE  n = 2
<1>1. n # 0 /\ n # 1
  <2>1. ASSUME n = 0 PROVE FALSE
    BY <2>1
  <2>2. ASSUME n = 1 PROVE FALSE
    <3>1. a \in 1..1 /\ b \in 1..1
      BY <2>2
    <3> QED
      BY <3>1
  <2> QED
    BY <2>1, <2>2
<1>2. ASSUME n > 2 PROVE FALSE
  <2>1. 1 \in {a, b} /\ 2 \in {a, b} /\ 3 \in {a, b}
    BY <1>2
  <2> QED
    BY <2>1
<1> QED
  BY <1>1, <1>2

LEMMA ScreenKept ==
  ASSUME ScreenSound, UNCHANGED screen,
         \A u \in DOMAIN txs : /\ u \in DOMAIN txs' /\ txs'[u] = txs[u]
                               /\ u \in LiveTxs' => u \in LiveTxs
                               /\ Corroborated(u) => Corroborated(u)'
  PROVE  ScreenSound'
BY DEF ScreenSound, Corroborated

\* A new row for an observation that had none.  A session that still ingests as
\* new must have overlapped this one.
LEMMA CreateKept ==
  ASSUME LedgerInv, NEW o \in Observations, NEW how \in {"new", "separate"},
         observations[o] # "attached", Create(o, how),
         observations' = [observations EXCEPT ![o] = "attached"], SessionsSound',
         \A z \in Sessions : sessions'[z].pc = "ingesting" => sessions'[z] = sessions[z],
         how = "new" /\ o \in Reported =>
            /\ \A a \in sources : (/\ a.how = "new" /\ Len(txs) = 1 /\ Untouched(1)
                                   /\ ~Conflicting(o, 1)) => {a.obs, o} \in together
            /\ \A z \in Sessions : sessions'[z].pc = "ingesting" => {o, sessions'[z].obs} \in together,
         UNCHANGED <<screen, together>>
  PROVE  LedgerInv'
<1>0. PICK n : n = Len(txs) + 1
  OBVIOUS
<1> DEFINE src == [obs |-> o, tx |-> n, how |-> how]
<1>1. /\ n <= MaxTxs
      /\ txs' \in Seq(TxRows) /\ Len(txs') = n /\ DOMAIN txs' = 1..n
      /\ \A u \in DOMAIN txs : txs'[u] = txs[u]
      /\ txs'[n].version = 1 /\ ~txs'[n].row.removed
      /\ o \in Reported => txs'[n].row.merchant = "reported"
      /\ revisions' \in Seq(Revisions) /\ Len(revisions') = n
      /\ \A u \in DOMAIN txs : revisions'[u] = revisions[u]
      /\ revisions'[n].number = 1 /\ revisions'[n].skips = 0 /\ ~revisions'[n].blind
      /\ sources' = sources \cup {src}
  BY <1>0, CreateEffect
<1>2. /\ n \in Nat \ {0} /\ DOMAIN txs = 1..Len(txs) /\ Len(txs) \in Nat
      /\ DOMAIN txs' = DOMAIN txs \cup {n} /\ n \notin DOMAIN txs
  BY <1>0, <1>1, Shapes
<1>3. src.obs = o /\ src.tx = n /\ src.how = how /\ src \in sources'
  BY <1>1
<1>4. SourcesSound' /\ \A u : Corroborated(u) => Corroborated(u)'
  BY <1>1, <1>2, SourceAdded
<1>5. LedgerTypeOK'
  <2>1. src \in SourceRows'
    BY <1>2 DEF SourceRows
  <2>2. sources' \subseteq SourceRows'
    BY <1>1, <1>2, <2>1, Shapes DEF SourceRows
  <2>3. observations' \in [Observations -> {"none", "needs_review", "attached"}]
    BY DEF LedgerInv, LedgerTypeOK
  <2> QED
    BY <1>1, <2>2, <2>3, TypesKept DEF LedgerInv, LedgerTypeOK
<1> HIDE DEF src
<1>a. \A u \in DOMAIN txs : u \in DOMAIN txs' /\ txs'[u] = txs[u] /\ u # n
  BY <1>1, <1>2
<1>b. \A a \in sources' : a \in sources \/ a = src
  BY <1>1
<1>6. \A u \in DOMAIN txs : Untouched(u)' => Untouched(u)
  BY <1>1, UntouchedBefore
<1>7. Untouched(n)' => o \in Reported
  BY <1>3 DEF Untouched, Reported
<1>8. \A u \in DOMAIN txs : u \in LiveTxs' <=> u \in LiveTxs
  BY <1>1, <1>2 DEF LiveTxs
<1>9. ScreenSound'
  <2>1. \A u \in DOMAIN txs : /\ u \in DOMAIN txs' /\ txs'[u] = txs[u]
                              /\ u \in LiveTxs' => u \in LiveTxs
                              /\ Corroborated(u) => Corroborated(u)'
    BY <1>a, <1>4, <1>8
  <2> QED
    BY <2>1, ScreenKept DEF LedgerInv
<1>10. EditsSound'
  <2>1. \A u \in DOMAIN txs : revisions'[u] = revisions[u]
    BY <1>1
  <2>2. EditsSound
    BY DEF LedgerInv
  <2>3. txs'[n].version = 1 /\ revisions'[n].number = 1
        /\ revisions'[n].skips = 0 /\ ~revisions'[n].blind
    BY <1>1
  <2> QED
    BY <1>2, <1>4, <1>a, <2>1, <2>2, <2>3 DEF EditsSound
<1>11. \A a \in sources' : a.tx = n => a = src
  <2>1. \A a \in sources : a.tx \in DOMAIN txs
    BY <1>2, Shapes DEF SourceRows
  <2> QED
    BY <1>a, <1>b, <2>1
<1>12. OverlapSound'
  <2>1. \A u \in DOMAIN txs' : Untouched(u)' => txs'[u].row.merchant = "reported"
    <3>1. \A u \in DOMAIN txs : Untouched(u)' => txs'[u].row.merchant = "reported"
      BY <1>a, <1>6 DEF LedgerInv, OverlapSound
    <3>2. Untouched(n)' => txs'[n].row.merchant = "reported"
      BY <1>1, <1>7
    <3> QED
      BY <1>2, <3>1, <3>2
  <2>2. \A z, y \in Sessions :
          z # y /\ sessions'[z].pc = "ingesting" /\ sessions'[y].pc = "ingesting" =>
             /\ sessions'[z].obs # sessions'[y].obs
             /\ {sessions'[z].obs, sessions'[y].obs} \in together'
    BY DEF LedgerInv, OverlapSound
  <2>3. ASSUME NEW z \in Sessions, NEW a \in sources', sessions'[z].pc = "ingesting",
               sessions'[z].how = "new", a.how = "new", Len(txs') = 1, Untouched(1)',
               ~Conflicting(sessions[z].obs, 1)'
        PROVE  {a.obs, sessions'[z].obs} \in together'
    <3>1. n = 1
      BY <1>1, <2>3
    <3>2. a.tx = 1
      BY <1>5, <1>1, <2>3, <3>1 DEF LedgerTypeOK
    <3>3. a = src /\ how = "new" /\ o \in Reported
      BY <1>3, <1>7, <1>11, <2>3, <3>1, <3>2
    <3> QED
      BY <1>3, <2>3, <3>3
  <2> QED
    BY <2>1, <2>2, <2>3 DEF OverlapSound
<1>13. TwinsNeedOverlap'
  <2> SUFFICES ASSUME NEW a \in sources', NEW b \in sources', a.tx # b.tx,
                      a.how = "new", b.how = "new", DOMAIN txs' = {a.tx, b.tx},
                      \A u \in DOMAIN txs' : Untouched(u)',
                      ~Conflicting(a.obs, b.tx)', ~Conflicting(b.obs, a.tx)'
               PROVE  {a.obs, b.obs} \in together
    BY DEF TwinsNeedOverlap
  <2>1. n = 2
    <3>1. a.tx \in 1..n /\ b.tx \in 1..n /\ 1..n = {a.tx, b.tx}
      BY <1>1, <1>2, <1>5 DEF LedgerTypeOK
    <3>2. n \in Nat
      BY <1>2
    <3> QED
      BY <3>1, <3>2, TwoNumbers
  <2>2. Len(txs) = 1 /\ 1 \in DOMAIN txs /\ 1 \in DOMAIN txs' /\ n \in DOMAIN txs'
    <3>1. Len(txs) = 1
      BY <1>0, <1>2, <2>1
    <3>2. DOMAIN txs = 1..1
      BY <1>2, <3>1
    <3> QED
      BY <1>2, <3>1, <3>2
  <2>3. Untouched(1) /\ o \in Reported
    BY <1>6, <1>7, <2>2
  <2>c. ~Conflicting(a.obs, b.tx) /\ ~Conflicting(b.obs, a.tx)
    BY <1>1, ConflictingStays
  <2>d. ASSUME NEW x \in sources', NEW y \in sources', x = src, y.tx # x.tx, y.how = "new",
               x.how = "new", DOMAIN txs' = {x.tx, y.tx}, ~Conflicting(x.obs, y.tx)
        PROVE  {y.obs, x.obs} \in together'
    <3>1. y \in sources /\ y.tx = 1 /\ how = "new"
      BY <1>3, <1>b, <2>1, <2>2, <2>d
    <3> QED
      BY <1>3, <2>2, <2>3, <2>d, <3>1
  <2>4. CASE a = src
    <3>1. {b.obs, a.obs} = {a.obs, b.obs}
      OBVIOUS
    <3> QED
      BY <2>4, <2>c, <2>d, <3>1
  <2>5. CASE b = src
    BY <2>5, <2>c, <2>d
  <2> QED
    BY <1>1, <1>2, <1>11, <2>4, <2>5
<1> QED
  BY <1>4, <1>5, <1>9, <1>10, <1>12, <1>13 DEF LedgerInv

-----------------------------------------------------------------------------
(* Steps that leave rows, revisions and sources alone.                     *)

\* An ingestion that begins, or one that decides nothing about the rows.
LEMMA LedgerKept ==
  ASSUME LedgerInv, UNCHANGED <<txs, revisions, sources, screen>>,
         observations' \in [Observations -> {"none", "needs_review", "attached"}],
         \A o \in Observations : observations'[o] = "attached" <=> observations[o] = "attached",
         together \subseteq together', together' \subseteq SUBSET Observations,
         SessionsSound', OverlapSound'
  PROVE  LedgerInv'
<1>1. LedgerTypeOK'
  BY DEF LedgerInv, LedgerTypeOK
<1>2. SourcesSound' /\ EditsSound' /\ ScreenSound'
  BY DEF LedgerInv, SourcesSound, EditsSound, ScreenSound, Corroborated, LiveTxs
<1>3. TwinsNeedOverlap'
  BY DEF LedgerInv, TwinsNeedOverlap, Untouched, Conflicting
<1> QED
  BY <1>1, <1>2, <1>3 DEF LedgerInv

\* Sessions that go on ingesting overlap as they did.
LEMMA OverlapKept ==
  ASSUME LedgerInv, UNCHANGED <<txs, sources, together>>,
         \A z \in Sessions : sessions'[z].pc = "ingesting" => sessions'[z] = sessions[z]
  PROVE  OverlapSound'
BY DEF LedgerInv, OverlapSound, Untouched, Conflicting

LEMMA BeginIngestKept ==
  ASSUME LedgerInv, NEW s \in Sessions, NEW o \in Observations, BeginIngest(s, o)
  PROVE  LedgerInv'
<1>1. PICK d \in Decisions(o) :
         sessions' = [sessions EXCEPT ![s] = [pc |-> "ingesting", obs |-> o, tx |-> d.tx,
                                              how |-> d.how]]
  BY DEF BeginIngest
<1> DEFINE work == [pc |-> "ingesting", obs |-> o, tx |-> d.tx, how |-> d.how]
<1>2. /\ o \in Reported /\ observations[o] = "none" /\ sessions[s].pc = "idle"
      /\ o \notin Ingesting
      /\ together' = together \cup {{o, p} : p \in Ingesting}
      /\ UNCHANGED <<observations, txs, revisions, sources, screen>>
  BY DEF BeginIngest, Reported
<1>3. /\ d.how \in {"match", "new", "review"} /\ d.tx \in Nat
      /\ d.how = "match" => d.tx \in DOMAIN txs
  <2>1. LiveTxs \subseteq DOMAIN txs /\ DOMAIN txs \subseteq Nat
    BY Shapes DEF LiveTxs
  <2> QED
    BY <2>1 DEF Decisions, Scored, AsNew, Comparable
<1>4. work \in Work
  BY <1>3 DEF Work
<1>5. work.pc = "ingesting" /\ work.obs = o /\ work.tx = d.tx /\ work.how = d.how
  OBVIOUS
<1> HIDE DEF work
<1>6. /\ sessions' \in [Sessions -> Work] /\ sessions'[s] = work
      /\ \A z \in Sessions \ {s} : sessions'[z] = sessions[z]
  BY <1>1, <1>4 DEF LedgerInv, SessionsSound, work
<1>7. SessionsSound'
  BY <1>2, <1>3, <1>5, <1>6 DEF LedgerInv, SessionsSound, IngestsSoundly, ResolvesSoundly
<1>8. \A z \in Sessions : sessions[z].pc = "ingesting" => sessions[z].obs \in Ingesting
  BY DEF Ingesting
<1>9. Ingesting \subseteq Observations
  BY DEF Ingesting, LedgerInv, SessionsSound, IngestsSoundly, Reported
<1>10. together \subseteq together' /\ together' \subseteq SUBSET Observations
  BY <1>2, <1>9 DEF LedgerInv, LedgerTypeOK
<1>11. OverlapSound'
  <2>1. \A t \in DOMAIN txs' : Untouched(t)' => txs'[t].row.merchant = "reported"
    BY <1>2 DEF LedgerInv, OverlapSound, Untouched
  <2>2. ASSUME NEW z \in Sessions, z # s, sessions'[z].pc = "ingesting"
        PROVE  /\ sessions'[z].obs # o
               /\ {sessions'[z].obs, o} \in together' /\ {o, sessions'[z].obs} \in together'
    <3>1. sessions[z].obs \in Ingesting
      BY <1>6, <1>8, <2>2
    <3>2. {o, sessions[z].obs} \in together'
      BY <1>2, <3>1
    <3>3. {sessions[z].obs, o} = {o, sessions[z].obs}
      OBVIOUS
    <3> QED
      BY <1>2, <1>6, <2>2, <3>1, <3>2, <3>3
  <2>3. \A z, y \in Sessions :
          z # y /\ sessions'[z].pc = "ingesting" /\ sessions'[y].pc = "ingesting" =>
             /\ sessions'[z].obs # sessions'[y].obs
             /\ {sessions'[z].obs, sessions'[y].obs} \in together'
    BY <1>5, <1>6, <1>10, <2>2 DEF LedgerInv, OverlapSound
  <2>4. ASSUME NEW z \in Sessions, NEW a \in sources', sessions'[z].pc = "ingesting",
               sessions'[z].how = "new", a.how = "new", Len(txs') = 1, Untouched(1)',
               ~Conflicting(sessions[z].obs, 1)'
        PROVE  {a.obs, sessions'[z].obs} \in together'
    <3>1. /\ Untouched(1) /\ a \in sources /\ Len(txs) = 1
          /\ ~Conflicting(sessions'[z].obs, 1)
      BY <1>2, <2>4, ConflictingStays DEF Untouched
    <3>2. CASE z # s
      BY <1>6, <1>10, <2>4, <3>1, <3>2 DEF LedgerInv, OverlapSound
    <3>3. CASE z = s
      <4>1. DOMAIN txs = {1}
        BY <3>1, Shapes
      <4>2. LiveTxs = {1} /\ Strong(o, 1)
        BY <1>2, <3>1, <4>1 DEF LiveTxs, Untouched, Strong, LedgerInv, OverlapSound, Reported
      <4>3. Cardinality({1}) = 1
        BY FS_Singleton
      <4>4. 1 \in Comparable(o)
        BY <1>5, <1>6, <3>1, <3>3, <4>2 DEF Comparable
      <4>5. d \in [how : {"match"}, tx : {1}]
        BY <1>1, <4>2, <4>3, <4>4 DEF Decisions
      <4> QED
        BY <1>5, <1>6, <2>4, <3>3, <4>5
    <3> QED
      BY <3>2, <3>3
  <2> QED
    BY <2>1, <2>3, <2>4 DEF OverlapSound
<1>12. observations' \in [Observations -> {"none", "needs_review", "attached"}]
  BY <1>2 DEF LedgerInv, LedgerTypeOK
<1> QED
  BY <1>2, <1>7, <1>10, <1>11, <1>12, LedgerKept

LEMMA CommitIngestKept ==
  ASSUME LedgerInv, NEW s \in Sessions, CommitIngest(s)
  PROVE  LedgerInv'
<1> DEFINE o == sessions[s].obs
<1>1. /\ sessions[s].pc = "ingesting" /\ o \in Reported /\ observations[o] = "none"
      /\ sessions[s].how = "match" => sessions[s].tx \in DOMAIN txs
      /\ sessions[s].how \in {"match", "new", "review"}
      /\ sessions' = [sessions EXCEPT ![s] = NoWork]
      /\ observations' = [observations EXCEPT ![o] =
                             IF sessions[s].how = "review" THEN "needs_review" ELSE "attached"]
      /\ UNCHANGED <<screen, together>>
  BY DEF CommitIngest, LedgerInv, SessionsSound, IngestsSoundly
<1>2. CASE sessions[s].how = "match"
  BY <1>1, <1>2, AttachKept DEF CommitIngest
<1>3. CASE sessions[s].how = "new"
  <2>1. Create(o, "new") /\ observations' = [observations EXCEPT ![o] = "attached"]
    BY <1>1, <1>3 DEF CommitIngest
  <2>2. o \in Observations /\ DOMAIN txs \subseteq DOMAIN txs'
    BY <1>1, <2>1, CreateEffect, Shapes DEF Reported
  <2>3. /\ SessionsSound'
        /\ \A z \in Sessions : sessions'[z].pc = "ingesting" =>
              z # s /\ sessions'[z] = sessions[z]
    BY <1>1, <2>1, <2>2, CommitSessions
  <2>4. \A a \in sources : (/\ a.how = "new" /\ Len(txs) = 1 /\ Untouched(1)
                            /\ ~Conflicting(o, 1)) => {a.obs, o} \in together
    BY <1>1, <1>3 DEF LedgerInv, OverlapSound
  <2>5. \A z \in Sessions : sessions'[z].pc = "ingesting" => {o, sessions'[z].obs} \in together
    BY <1>1, <2>3 DEF LedgerInv, OverlapSound
  <2> HIDE DEF o
  <2> QED
    BY <1>1, <2>1, <2>2, <2>3, <2>4, <2>5, CreateKept
<1>4. CASE sessions[s].how = "review"
  <2>1. /\ observations' = [observations EXCEPT ![o] = "needs_review"]
        /\ UNCHANGED <<txs, revisions, sources>>
    BY <1>1, <1>4 DEF CommitIngest
  <2>2. /\ SessionsSound'
        /\ observations' \in [Observations -> {"none", "needs_review", "attached"}]
        /\ \A z \in Sessions : sessions'[z].pc = "ingesting" =>
              z # s /\ sessions'[z] = sessions[z]
    BY <1>1, <2>1, CommitSessions
  <2>3. \A p \in Observations : observations'[p] = "attached" <=> observations[p] = "attached"
    BY <1>1, <2>1 DEF LedgerInv, LedgerTypeOK, Reported
  <2> QED
    BY <1>1, <2>1, <2>2, <2>3, OverlapKept, LedgerKept DEF LedgerInv, LedgerTypeOK
<1> QED
  BY <1>1, <1>2, <1>3, <1>4

LEMMA RecordManuallyKept ==
  ASSUME LedgerInv, NEW o \in Observations, RecordManually(o)
  PROVE  LedgerInv'
<1>1. /\ o \in ManualObs /\ o \notin Reported /\ observations[o] = "none" /\ Create(o, "new")
      /\ observations' = [observations EXCEPT ![o] = "attached"]
      /\ UNCHANGED <<sessions, screen, together>>
  BY DEF RecordManually, Reported
<1>2. DOMAIN txs \subseteq DOMAIN txs'
  BY <1>1, CreateEffect, Shapes
<1>3. observations \in [Observations -> {"none", "needs_review", "attached"}]
  BY DEF LedgerInv, LedgerTypeOK
<1>4. SessionsSound'
  BY <1>1, <1>2, <1>3 DEF LedgerInv, SessionsSound, IngestsSoundly, ResolvesSoundly
<1> QED
  BY <1>1, <1>4, CreateKept

LEMMA LoadResolutionKept ==
  ASSUME LedgerInv, NEW s \in Sessions, NEW o \in Observations, NEW t \in DOMAIN txs,
         NEW how \in {"same", "separate"}, LoadResolution(s, o, t, how)
  PROVE  LedgerInv'
<1> DEFINE work == [pc |-> "resolving", obs |-> o, tx |-> t, how |-> how]
<1>1. /\ sessions' = [sessions EXCEPT ![s] = work] /\ observations[o] = "needs_review"
      /\ UNCHANGED <<observations, txs, revisions, sources, screen, together>>
  BY DEF LoadResolution
<1>2. o \in Reported
  BY <1>1 DEF LedgerInv, SessionsSound, Reported
<1>3. work \in Work /\ work.pc = "resolving" /\ work.obs = o /\ work.tx = t /\ work.how = how
  <2>1. txs[t] \in TxRows /\ t \in Nat
    BY Shapes, ElementOfSeq
  <2> QED
    BY <2>1 DEF Work, TxRows, Rows
<1> HIDE DEF work
<1>4. /\ sessions' \in [Sessions -> Work] /\ sessions'[s] = work
      /\ \A z \in Sessions \ {s} : sessions'[z] = sessions[z]
  BY <1>1, <1>3 DEF LedgerInv, SessionsSound
<1>5. SessionsSound'
  BY <1>1, <1>2, <1>3, <1>4 DEF LedgerInv, SessionsSound, IngestsSoundly, ResolvesSoundly
<1>6. \A z \in Sessions : sessions'[z].pc = "ingesting" => sessions'[z] = sessions[z]
  BY <1>3, <1>4
<1> QED
  BY <1>1, <1>5, <1>6, OverlapKept, LedgerKept DEF LedgerInv, LedgerTypeOK

LEMMA CommitResolutionKept ==
  ASSUME LedgerInv, NEW s \in Sessions, CommitResolution(s)
  PROVE  LedgerInv'
<1> DEFINE o == sessions[s].obs
<1>1. /\ sessions[s].pc = "resolving" /\ o \in Reported /\ sessions[s].tx \in DOMAIN txs
      /\ sessions' = [sessions EXCEPT ![s] = NoWork]
      /\ observations' = [observations EXCEPT ![o] = "attached"]
      /\ UNCHANGED <<screen, together>>
  BY DEF CommitResolution, LedgerInv, SessionsSound, ResolvesSoundly
<1>2. observations[o] # "attached"
  BY <1>1 DEF CommitResolution, SourcesOf, LedgerInv, SourcesSound, Reported
<1>3. CASE sessions[s].how = "same" /\ Attach(o, sessions[s].tx, "same")
  BY <1>1, <1>2, <1>3, AttachKept
<1>4. CASE Create(o, "separate")
  <2>1. o \in Observations /\ DOMAIN txs \subseteq DOMAIN txs'
    BY <1>1, <1>4, CreateEffect, Shapes DEF Reported
  <2>2. /\ SessionsSound'
        /\ \A z \in Sessions : sessions'[z].pc = "ingesting" =>
              z # s /\ sessions'[z] = sessions[z]
    BY <1>1, <2>1, CommitSessions
  <2> HIDE DEF o
  <2> QED
    BY <1>1, <1>2, <1>4, <2>1, <2>2, CreateKept
<1> QED
  BY <1>3, <1>4 DEF CommitResolution

LEMMA RollBackWorkKept ==
  ASSUME LedgerInv, NEW s \in Sessions, RollBackWork(s)
  PROVE  LedgerInv'
<1>1. /\ sessions' = [sessions EXCEPT ![s] = NoWork]
      /\ UNCHANGED <<observations, txs, revisions, sources, screen, together>>
  BY DEF RollBackWork
<1>2. NoWork \in Work /\ NoWork.pc = "idle" /\ sessions \in [Sessions -> Work]
  BY DEF NoWork, Work, Merchants, Typed, LedgerInv, SessionsSound
<1>3. /\ sessions' \in [Sessions -> Work] /\ sessions'[s] = NoWork
      /\ \A z \in Sessions \ {s} : sessions'[z] = sessions[z]
  BY <1>1, <1>2
<1>4. SessionsSound'
  BY <1>1, <1>2, <1>3 DEF LedgerInv, SessionsSound, IngestsSoundly, ResolvesSoundly
<1>5. \A z \in Sessions : sessions'[z].pc = "ingesting" => sessions'[z] = sessions[z]
  BY <1>2, <1>3
<1> QED
  BY <1>1, <1>4, <1>5, OverlapKept, LedgerKept DEF LedgerInv, LedgerTypeOK

-----------------------------------------------------------------------------
(* Edits, removals and restores.                                           *)

\* Sessions and sources do not notice what happens to a row that stays.
LEMMA EditorsKeep ==
  ASSUME LedgerInv, UNCHANGED <<observations, sources, sessions, together>>,
         DOMAIN txs' = DOMAIN txs, Len(txs') = Len(txs),
         \A u \in DOMAIN txs : Untouched(u)' =>
            Untouched(u) /\ txs'[u].row.merchant = txs[u].row.merchant
  PROVE  /\ SessionsSound' /\ SourcesSound' /\ OverlapSound' /\ TwinsNeedOverlap'
         /\ \A u : Corroborated(u)' <=> Corroborated(u)
<1>1. SessionsSound'
  BY DEF LedgerInv, SessionsSound, IngestsSoundly, ResolvesSoundly
<1>2. SourcesSound' /\ \A u : Corroborated(u)' <=> Corroborated(u)
  BY DEF LedgerInv, SourcesSound, Corroborated
<1>3. OverlapSound'
  <2>1. Len(txs) = 1 => 1 \in DOMAIN txs
    BY Shapes
  <2> QED
    BY <2>1 DEF LedgerInv, OverlapSound, Conflicting
<1>4. TwinsNeedOverlap'
  BY DEF LedgerInv, TwinsNeedOverlap, Conflicting
<1> QED
  BY <1>1, <1>2, <1>3, <1>4

LEMMA ReviseKept ==
  ASSUME LedgerInv, NEW t \in DOMAIN txs, NEW row \in Rows, NEW saw,
         saw.version = txs[t].version, Revise(t, txs[t].version, row, saw),
         saw.row # txs[t].row => Corroborated(t),
         screen' = screen \/ screen' = NoScreen
  PROVE  LedgerInv'
<1>1. /\ txs' \in Seq(TxRows) /\ Len(txs') = Len(txs) /\ DOMAIN txs' = DOMAIN txs
      /\ \A u \in DOMAIN txs : u # t => txs'[u] = txs[u] /\ revisions'[u] = revisions[u]
      /\ txs'[t].version = txs[t].version + 1 /\ txs'[t].row = row
      /\ txs[t].version \in 1..MaxVersion
      /\ revisions' \in Seq(Revisions) /\ Len(revisions') = Len(txs)
      /\ revisions'[t].number = txs[t].version + 1 /\ revisions'[t].skips = 0
      /\ revisions'[t].blind => saw.row # txs[t].row
  BY ReviseEffect
<1>2. UNCHANGED <<observations, sources, sessions, together>>
  BY DEF Revise
<1>3. ~Untouched(t)'
  BY <1>1, LedgerBounds DEF Untouched
<1>4. \A u \in DOMAIN txs : Untouched(u)' =>
         Untouched(u) /\ txs'[u].row.merchant = txs[u].row.merchant
  BY <1>1, <1>2, <1>3, UntouchedBefore
<1>5. /\ SessionsSound' /\ SourcesSound' /\ OverlapSound' /\ TwinsNeedOverlap'
      /\ \A u : Corroborated(u)' <=> Corroborated(u)
  BY <1>1, <1>2, <1>4, EditorsKeep
<1>6. NoScreen \in Screens /\ NoScreen.tx = 0 /\ screen \in Screens
  BY LedgerBounds DEF NoScreen, NoRow, Screens, Rows, Merchants, Typed, LedgerInv, LedgerTypeOK
<1>7. LedgerTypeOK'
  <2>1. sources' \subseteq SourceRows'
    BY <1>1, <1>2, Shapes DEF SourceRows
  <2> QED
    BY <1>1, <1>2, <1>6, <2>1, TypesKept DEF LedgerInv, LedgerTypeOK
<1>8. ScreenSound'
  <2>1. CASE screen' = NoScreen
    BY <1>6, <2>1 DEF ScreenSound
  <2>2. CASE screen' = screen /\ screen.tx # 0 /\ screen.tx = t
    <3>1. /\ screen.version \in 0..MaxVersion /\ screen.version <= txs[t].version
          /\ screen.read \in 0..MaxVersion /\ screen.read <= txs[t].version
      BY <1>6, <2>2 DEF LedgerInv, ScreenSound, Screens
    <3>2. screen.version < txs'[t].version /\ screen.read <= txs'[t].version
      BY <1>1, <3>1, LedgerBounds
    <3> QED
      BY <1>1, <2>2, <3>1, <3>2, LedgerBounds DEF ScreenSound
  <2>3. CASE screen' = screen /\ screen.tx # t
    <3>1. screen.tx \in LiveTxs' => screen.tx \in LiveTxs
      BY <1>1, <2>3 DEF LiveTxs
    <3> QED
      BY <1>1, <1>5, <2>3, <3>1 DEF LedgerInv, ScreenSound
  <2>4. CASE screen' = screen /\ screen.tx = 0
    BY <2>4 DEF ScreenSound
  <2> QED
    BY <2>1, <2>2, <2>3, <2>4
<1>9. EditsSound'
  BY <1>1, <1>5 DEF LedgerInv, EditsSound
<1> QED
  BY <1>5, <1>7, <1>8, <1>9 DEF LedgerInv

\* A save that gets through read the present version: the lock admits any
\* version it read, the unique number of its revision only the last one.
LEMMA EditKept ==
  ASSUME LedgerInv, NEW t \in DOMAIN txs, NEW merchant \in Typed, Edit(t, merchant)
  PROVE  LedgerInv'
<1>1. /\ screen.tx = t /\ t \in LiveTxs /\ screen.version = screen.read
      /\ Revise(t, screen.read, [txs[t].row EXCEPT !.merchant = merchant], screen)
      /\ screen' = NoScreen
  BY DEF Edit, NamedVersion
<1>2. txs[t] \in TxRows /\ t # 0
  BY Shapes, ElementOfSeq
<1>a. screen.read = txs[t].version
  <2>1. /\ screen.read + 1 > revisions[t].number /\ revisions[t].number = txs[t].version
        /\ screen.read <= txs[t].version
    BY <1>1, <1>2 DEF Revise, LedgerInv, EditsSound, ScreenSound
  <2>2. screen.read \in Nat /\ txs[t].version \in Nat
    BY <1>2 DEF LedgerInv, LedgerTypeOK, Screens, TxRows
  <2> QED
    BY <2>1, <2>2
<1>3. [txs[t].row EXCEPT !.merchant = merchant] \in Rows
  BY <1>2 DEF TxRows, Rows, Merchants
<1>4. screen.row # txs[t].row => Corroborated(t)
  BY <1>1, <1>2, <1>a DEF LedgerInv, ScreenSound
<1> QED
  BY <1>1, <1>3, <1>4, <1>a, ReviseKept

LEMMA RemoveRestoreKept ==
  ASSUME LedgerInv, NEW t \in DOMAIN txs, RemoveTx(t) \/ RestoreTx(t)
  PROVE  LedgerInv'
<1>1. txs[t] \in TxRows
  BY Shapes, ElementOfSeq
<1>2. /\ [txs[t].row EXCEPT !.removed = TRUE] \in Rows
      /\ [txs[t].row EXCEPT !.removed = FALSE] \in Rows
  BY <1>1 DEF TxRows, Rows
<1>3. Current(t).version = txs[t].version /\ Current(t).row = txs[t].row
  BY DEF Current, NoScreen
<1>4. /\ UNCHANGED screen
      /\ \/ Revise(t, txs[t].version, [txs[t].row EXCEPT !.removed = TRUE], Current(t))
         \/ Revise(t, txs[t].version, [txs[t].row EXCEPT !.removed = FALSE], Current(t))
  BY DEF RemoveTx, RestoreTx
<1> HIDE DEF Current
<1> QED
  BY <1>2, <1>3, <1>4, ReviseKept

\* The removal that counts no version.
LEMMA RemoveInChatKept ==
  ASSUME LedgerInv, NEW t \in DOMAIN txs, RemoveInChat(t)
  PROVE  LedgerInv'
<1>1. txs \in Seq(TxRows) /\ t \in 1..Len(txs) /\ txs[t] \in TxRows
  BY Shapes, ElementOfSeq
<1> DEFINE row == [txs[t].row EXCEPT !.removed = TRUE]
           e == [txs[t] EXCEPT !.row = row]
<1>2. /\ row \in Rows /\ row.removed = TRUE
      /\ e \in TxRows /\ e.version = txs[t].version /\ e.row = row
  BY <1>1 DEF TxRows, Rows
<1>3. /\ txs' = [txs EXCEPT ![t] = e]
      /\ UNCHANGED <<observations, revisions, sources, sessions, screen, together>>
  BY DEF RemoveInChat
<1> HIDE DEF e, row
<1>4. /\ txs' \in Seq(TxRows) /\ Len(txs') = Len(txs)
      /\ \A u \in 1..Len(txs) : txs'[u] = IF u = t THEN e ELSE txs[u]
  BY <1>1, <1>2, <1>3, ExceptSeq
<1>5. DOMAIN txs' = DOMAIN txs /\ DOMAIN txs = 1..Len(txs)
  BY <1>4, Shapes, LenProperties
<1>6. \A u \in DOMAIN txs : Untouched(u)' =>
         Untouched(u) /\ txs'[u].row.merchant = txs[u].row.merchant
  BY <1>2, <1>3, <1>4, <1>5 DEF Untouched
<1>7. /\ SessionsSound' /\ SourcesSound' /\ OverlapSound' /\ TwinsNeedOverlap'
      /\ \A u : Corroborated(u)' <=> Corroborated(u)
  BY <1>3, <1>4, <1>5, <1>6, EditorsKeep
<1>8. LedgerTypeOK'
  <2>1. sources' \subseteq SourceRows'
    BY <1>3, <1>5, Shapes DEF SourceRows
  <2> QED
    BY <1>3, <1>4, <2>1, Shapes, TypesKept DEF LedgerInv, LedgerTypeOK
<1>9. ScreenSound'
  <2>1. \A u \in DOMAIN txs : u \in LiveTxs' => u # t /\ u \in LiveTxs /\ txs'[u] = txs[u]
    BY <1>2, <1>4, <1>5 DEF LiveTxs
  <2>2. \A u \in DOMAIN txs : txs'[u].version = txs[u].version
    BY <1>2, <1>4, <1>5
  <2> QED
    BY <1>3, <1>5, <1>7, <2>1, <2>2 DEF LedgerInv, ScreenSound
<1>10. EditsSound'
  BY <1>2, <1>3, <1>4, <1>5, <1>7 DEF LedgerInv, EditsSound
<1> QED
  BY <1>7, <1>8, <1>9, <1>10 DEF LedgerInv

LEMMA EditorKept ==
  ASSUME LedgerInv, SendEdit \/ LeaveEditor \/ \E t \in DOMAIN txs : OpenEditor(t)
  PROVE  LedgerInv'
<1>1. UNCHANGED <<observations, txs, revisions, sources, sessions, together>>
  BY DEF SendEdit, LeaveEditor, OpenEditor
<1>2. screen' \in Screens /\ ScreenSound'
  <2>1. CASE LeaveEditor
    <3>1. NoScreen \in Screens /\ NoScreen.tx = 0
      BY LedgerBounds DEF NoScreen, NoRow, Screens, Rows, Merchants, Typed
    <3> QED
      BY <2>1, <3>1 DEF LeaveEditor, ScreenSound
  <2>2. ASSUME NEW t \in DOMAIN txs, OpenEditor(t) PROVE screen' \in Screens /\ ScreenSound'
    <3>1. txs[t] \in TxRows /\ t \in 0..MaxTxs
      BY Shapes, ElementOfSeq, LedgerBounds DEF LedgerInv, LedgerTypeOK
    <3>2. /\ screen'.tx = t /\ screen'.version = txs[t].version /\ screen'.row = txs[t].row
          /\ screen'.read = 0 /\ screen' \in Screens
      <4>1. screen' = [tx |-> t, version |-> txs[t].version, row |-> txs[t].row,
                       read |-> 0, found |-> "typed"]
        BY <2>2 DEF OpenEditor, Current, NoScreen
      <4>2. /\ txs[t].version \in 0..MaxVersion /\ txs[t].row \in Rows
            /\ 0 \in 0..MaxVersion /\ "typed" \in Merchants
        BY <3>1, LedgerBounds DEF TxRows, Merchants, Typed
      <4> QED
        BY <3>1, <4>1, <4>2 DEF Screens
    <3>3. txs[t].version <= txs[t].version /\ 0 <= txs[t].version
      BY <3>1, LedgerBounds DEF TxRows
    <3> QED
      BY <1>1, <3>2, <3>3 DEF ScreenSound
  <2>3. CASE SendEdit
    <3> DEFINE t == screen.tx
    <3>1. screen \in Screens /\ t \in DOMAIN txs
      BY <2>3 DEF SendEdit, LiveTxs, LedgerInv, LedgerTypeOK
    <3>2. txs[t] \in TxRows
      BY <3>1, Shapes, ElementOfSeq
    <3>3. /\ screen'.tx = t /\ screen'.version = screen.version /\ screen'.row = screen.row
          /\ screen'.read = txs[t].version /\ screen' \in Screens
      <4>1. /\ txs[t].version \in 0..MaxVersion /\ txs[t].row.merchant \in Merchants
        BY <3>2, LedgerBounds DEF TxRows, Rows
      <4>2. screen' = [screen EXCEPT !.read = txs[t].version, !.found = txs[t].row.merchant]
        BY <2>3 DEF SendEdit
      <4> HIDE DEF t
      <4> QED
        BY <3>1, <4>1, <4>2 DEF Screens, t
    <3>4. txs[t].version <= txs[t].version
      BY <3>2, LedgerBounds DEF TxRows
    <3> HIDE DEF t
    <3>5. LiveTxs' = LiveTxs /\ \A u : Corroborated(u)' <=> Corroborated(u)
      BY <1>1 DEF LiveTxs, Corroborated
    <3> QED
      BY <1>1, <3>3, <3>4, <3>5 DEF ScreenSound, LedgerInv, t
  <2> QED
    BY <2>1, <2>2, <2>3
<1>3. LedgerTypeOK'
  BY <1>1, <1>2 DEF LedgerInv, LedgerTypeOK
<1>4. /\ SessionsSound' /\ SourcesSound' /\ OverlapSound' /\ TwinsNeedOverlap'
      /\ \A u : Corroborated(u)' <=> Corroborated(u)
  BY <1>1, EditorsKeep DEF Untouched
<1>5. EditsSound'
  BY <1>1, <1>4 DEF LedgerInv, EditsSound
<1> QED
  BY <1>2, <1>3, <1>4, <1>5 DEF LedgerInv

-----------------------------------------------------------------------------
LEMMA LedgerInvInit == LedgerInit => LedgerInv
<1> SUFFICES ASSUME LedgerInit PROVE LedgerInv
  OBVIOUS
<1>1. /\ txs = <<>> /\ revisions = <<>> /\ sources = {} /\ together = {}
      /\ screen = NoScreen /\ screen.tx = 0
      /\ \A s \in Sessions : sessions[s] = NoWork /\ sessions[s].pc = "idle"
      /\ \A o \in Observations : observations[o] = "none"
      /\ DOMAIN txs = {}
  BY DEF LedgerInit, NoScreen, NoWork
<1>2. LedgerTypeOK
  <2>1. NoScreen \in Screens
    BY LedgerBounds DEF NoScreen, NoRow, Screens, Rows, Merchants, Typed
  <2> QED
    BY <1>1, <2>1, LedgerBounds DEF LedgerTypeOK, LedgerInit
<1>3. SessionsSound
  <2>1. NoWork \in Work
    BY DEF NoWork, Work, Merchants, Typed
  <2> QED
    BY <1>1, <2>1 DEF SessionsSound, LedgerInit, Observations
<1>4. SourcesSound
  BY <1>1, FS_EmptySet DEF SourcesSound
<1>5. ScreenSound /\ EditsSound /\ OverlapSound /\ TwinsNeedOverlap
  BY <1>1 DEF ScreenSound, EditsSound, OverlapSound, TwinsNeedOverlap
<1> QED
  BY <1>2, <1>3, <1>4, <1>5 DEF LedgerInv

LEMMA LedgerInvNext == LedgerInv /\ [LedgerNext]_ledgerVars => LedgerInv'
<1> SUFFICES ASSUME LedgerInv, [LedgerNext]_ledgerVars PROVE LedgerInv'
  OBVIOUS
<1>1. ASSUME NEW s \in Sessions, CommitIngest(s) \/ CommitResolution(s) \/ RollBackWork(s)
      PROVE  LedgerInv'
  BY <1>1, CommitIngestKept, CommitResolutionKept, RollBackWorkKept
<1>2. ASSUME NEW s \in Sessions, NEW o \in Observations, BeginIngest(s, o) PROVE LedgerInv'
  BY <1>2, BeginIngestKept
<1>3. ASSUME NEW s \in Sessions, NEW o \in Observations, NEW t \in DOMAIN txs,
             NEW how \in {"same", "separate"}, LoadResolution(s, o, t, how)
      PROVE  LedgerInv'
  BY <1>3, LoadResolutionKept
<1>4. ASSUME NEW o \in Observations, RecordManually(o) PROVE LedgerInv'
  BY <1>4, RecordManuallyKept
<1>5. CASE SendEdit \/ LeaveEditor \/ \E t \in DOMAIN txs : OpenEditor(t)
  BY <1>5, EditorKept
<1>6. ASSUME NEW t \in DOMAIN txs, RemoveTx(t) \/ RestoreTx(t) \/ RemoveInChat(t)
      PROVE  LedgerInv'
  BY <1>6, RemoveRestoreKept, RemoveInChatKept
<1>7. ASSUME NEW t \in DOMAIN txs, NEW merchant \in Typed, Edit(t, merchant) PROVE LedgerInv'
  BY <1>7, EditKept
<1>8. CASE UNCHANGED ledgerVars
  <2>1. /\ SessionsSound' /\ SourcesSound' /\ OverlapSound' /\ TwinsNeedOverlap'
        /\ \A u : Corroborated(u)' <=> Corroborated(u)
    BY <1>8, EditorsKeep DEF ledgerVars, Untouched
  <2>2. LedgerTypeOK'
    BY <1>8 DEF ledgerVars, LedgerInv, LedgerTypeOK
  <2>3. ScreenSound'
    BY <1>8, <2>1 DEF ledgerVars, LedgerInv, ScreenSound, LiveTxs
  <2>4. EditsSound'
    BY <1>8, <2>1 DEF ledgerVars, LedgerInv, EditsSound
  <2> QED
    BY <2>1, <2>2, <2>3, <2>4 DEF LedgerInv
<1> QED
  BY <1>1, <1>2, <1>3, <1>4, <1>5, <1>6, <1>7, <1>8 DEF LedgerNext

(* The invariant holds of every ledger, whatever sources report, people    *)
(* edit and sessions roll back.                                            *)
THEOREM LedgerInvariant == LedgerSpec => []LedgerInv
BY LedgerInvInit, LedgerInvNext, PTL DEF LedgerSpec

(* Rows, revisions and sources keep the shape their models declare, and no *)
(* transaction is committed past the bounds.                               *)
THEOREM LedgerTypes == LedgerSpec => []LedgerTypeOK
<1>1. LedgerInv => LedgerTypeOK
  BY DEF LedgerInv
<1> QED
  BY <1>1, LedgerInvariant, PTL

\* A set whose members are all one has one member, or none.
LEMMA AtMostOne ==
  ASSUME NEW S, \A a, b \in S : a = b
  PROVE  Cardinality(S) = IF S = {} THEN 0 ELSE 1
<1>1. CASE S = {}
  BY <1>1, FS_EmptySet
<1>2. CASE S # {}
  <2>1. PICK a \in S : TRUE
    BY <1>2
  <2>2. S = {a}
    BY <2>1
  <2> QED
    BY <1>2, <2>2, FS_Singleton
<1> QED
  BY <1>1, <1>2

(* An observation counts in exactly one transaction once it is attached,   *)
(* in none before, and every transaction has a source.                     *)
THEOREM CountedOnce == LedgerSpec => []ObservationCountedOnce
<1>1. LedgerInv => ObservationCountedOnce
  <2> SUFFICES ASSUME LedgerInv PROVE ObservationCountedOnce
    OBVIOUS
  <2>1. ASSUME NEW o \in Observations
        PROVE  Cardinality(SourcesOf(o)) = IF observations[o] = "attached" THEN 1 ELSE 0
    <3>1. \A a, b \in SourcesOf(o) : a = b
      BY DEF SourcesOf, LedgerInv, SourcesSound
    <3>2. SourcesOf(o) = {} <=> observations[o] # "attached"
      BY DEF SourcesOf, LedgerInv, SourcesSound
    <3> QED
      BY <3>1, <3>2, AtMostOne
  <2> QED
    BY <2>1 DEF ObservationCountedOnce, LedgerInv, SourcesSound
<1> QED
  BY <1>1, LedgerInvariant, PTL

(* Two sources of one purchase make two transactions only if they were     *)
(* ingested at the same time, or somebody touched a row.                   *)
THEOREM TwinsOverlapped == LedgerSpec => []TwinsNeedOverlap
<1>1. LedgerInv => TwinsNeedOverlap
  BY DEF LedgerInv
<1> QED
  BY <1>1, LedgerInvariant, PTL

\* Two members of a finite set.
LEMMA MoreThanOne ==
  ASSUME NEW S, IsFiniteSet(S), NEW a \in S, NEW b \in S, a # b
  PROVE  Cardinality(S) > 1
<1>1. Cardinality({a}) = 1 /\ IsFiniteSet({a}) /\ {a} \in SUBSET S /\ {a} # S
  BY FS_Singleton
<1>2. Cardinality({a}) <= Cardinality(S) /\ Cardinality({a}) # Cardinality(S)
  BY <1>1, FS_Subset
<1> QED
  BY <1>1, <1>2, FS_CardinalityType

(* Every edit, removal and restore follows the version its author had      *)
(* before them, though a save compares what it read before its lock, and a *)
(* row of one source exactly as it was shown.                              *)
THEOREM EditsFollowScreens == LedgerSpec => []EditsSeeEdits
<1>1. LedgerInv => EditsSeeEdits
  <2> SUFFICES ASSUME LedgerInv PROVE EditsSeeEdits
    OBVIOUS
  <2>1. ASSUME NEW t \in DOMAIN txs, Corroborated(t)
        PROVE  Cardinality({src \in sources : src.tx = t}) > 1
    <3> DEFINE S == {src \in sources : src.tx = t}
    <3>1. PICK a \in S, b \in S : a # b
      BY <2>1 DEF Corroborated
    <3>2. IsFiniteSet(S)
      BY FS_Subset DEF LedgerInv, SourcesSound
    <3> QED
      BY <3>1, <3>2, MoreThanOne
  <2> QED
    BY <2>1 DEF EditsSeeEdits, LedgerInv, EditsSound
<1> QED
  BY <1>1, LedgerInvariant, PTL

-----------------------------------------------------------------------------
(* The two ways into the ledger side by side.                              *)

(* Conversations and sources keep the shapes their rows declare when a     *)
(* behaviour may follow either: neither side disturbs the other's rows.    *)
THEOREM SidesKeepShape == LedgerSideSpec => []LedgerSideTypeOK
<1>1. LedgerSideInit => InterruptInit /\ LedgerInit
  BY DEF LedgerSideInit
<1>2. [LedgerSideNext]_ledgerSideVars => [InterruptNext]_interruptVars /\ [LedgerNext]_ledgerVars
  BY DEF LedgerSideNext, ledgerSideVars
<1>3. LedgerSideSpec => InterruptSpec /\ LedgerSpec
  BY <1>1, <1>2, PTL DEF LedgerSideSpec, InterruptSpec, LedgerSpec
<1>4. InterruptTypeOK /\ LedgerTypeOK => LedgerSideTypeOK
  BY DEF LedgerSideTypeOK
<1> QED
  BY <1>3, <1>4, InterruptTypes, LedgerTypes, PTL
=============================================================================
