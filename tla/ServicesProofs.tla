--------------------------- MODULE ServicesProofs ---------------------------
(***************************************************************************)
(* The background services.                                                *)
(*                                                                         *)
(* Enrichment, for every number of workers, attempts and card actions: a   *)
(* message has at most one suggestion, a job is claimed no more often than *)
(* configured, and neither writer of a message loses the other's work      *)
(* unless their last transactions overlap.                                 *)
(*                                                                         *)
(* Notifications, for every number of callers, keys, crashes and notices:  *)
(* a key has one effect and one message, reminders keep their distance,    *)
(* no message whose delivery was confirmed is sent again, and none is      *)
(* tried more often than configured and lost.                              *)
(*                                                                         *)
(* All four services side by side, with DeliveryProofs and FileStoreProofs.*)
(***************************************************************************)
EXTENDS MCServices, DeliveryProofs, FileStoreProofs, TLAPS

-----------------------------------------------------------------------------
(* Enrichment.                                                             *)

(* Whatever list a writer holds, it has at most one suggestion.            *)
ListsAreShort ==
    /\ SuggestedOnce /\ action.seen.suggestions <= 1
    /\ \A w \in EnrichWorkers : workers[w].seen.suggestions <= 1

(* While nobody saved under another writer, the card action holds the list *)
(* as it is, and a worker the card as it is and no newer suggestion.       *)
ListsAreCurrent ==
    ~raced /\ job.status # "gone" =>
        /\ action.pc = "acting" => action.seen = widgets
        /\ \A w \in EnrichWorkers : workers[w].pc = "storing" =>
              /\ workers[w].seen.card = widgets.card
              /\ workers[w].seen.suggestions <= widgets.suggestions

\* A card action that runs is not counted yet.
ActionsCounted == action.pc = "acting" => acted < MaxCardActions

EnrichInv ==
    EnrichTypeOK /\ ListsAreShort /\ ListsAreCurrent /\ ActionsCounted /\ LostOnlyByOverlap

Statuses == {"pending", "running", "completed", "skipped", "failed", "gone"}
Leases == {"none", "held", "expired"}
JobRows == [status : Statuses, attempts : 0..MaxAttempts, lease : Leases, due : BOOLEAN]
WorkerStates == [pc : {"idle", "leased", "calling", "storing", "reporting"}, seen : WidgetLists]

(* The rows a job becomes when it is settled, claimed and retried.         *)
LEMMA Settles ==
  ASSUME job \in JobRows, NEW st \in Statuses, SettleJob(st)
  PROVE  job' \in JobRows /\ job'.status = st
BY DEF SettleJob, JobRows, Leases

LEMMA Claims ==
  ASSUME job \in JobRows, job.attempts < MaxAttempts,
         job' = [job EXCEPT !.status = "running", !.attempts = @ + 1, !.lease = "held"]
  PROVE  job' \in JobRows /\ job'.status = "running"
<1>1. job.attempts + 1 \in 0..MaxAttempts
  BY EnrichmentBounds DEF JobRows
<1> QED
  BY <1>1 DEF JobRows, Statuses, Leases

LEMMA Retries ==
  ASSUME job \in JobRows,
         job' = [job EXCEPT !.status = "pending", !.lease = "none", !.due = FALSE]
  PROVE  job' \in JobRows /\ job'.status = "pending"
BY DEF JobRows, Statuses, Leases

\* A worker's next state: another step, or back to idle, or a list loaded.
LEMMA WorkerChange ==
  ASSUME EnrichTypeOK, NEW w \in EnrichWorkers, NEW x \in WorkerStates,
         workers' = [workers EXCEPT ![w] = x]
  PROVE  /\ workers' \in [EnrichWorkers -> WorkerStates] /\ workers'[w] = x
         /\ \A v \in EnrichWorkers : v # w => workers'[v] = workers[v]
BY DEF EnrichTypeOK, WorkerStates

LEMMA Types ==
  /\ EnrichTypeOK => job \in JobRows /\ workers \in [EnrichWorkers -> WorkerStates]
  /\ IdleWorker \in WorkerStates /\ NoWidgets \in WidgetLists
BY DEF EnrichTypeOK, JobRows, Statuses, Leases, Settled, WorkerStates, IdleWorker, NoWidgets,
   WidgetLists

LEMMA TypesNext ==
  ASSUME EnrichTypeOK, job' \in JobRows, workers' \in [EnrichWorkers -> WorkerStates],
         UNCHANGED <<widgets, action, acted, raced>>
  PROVE  EnrichTypeOK'
BY DEF EnrichTypeOK, JobRows, Statuses, Leases, Settled, WorkerStates, WidgetLists

LEMMA GotoKeeps ==
  ASSUME EnrichTypeOK, NEW w \in EnrichWorkers,
         NEW pc \in {"idle", "leased", "calling", "reporting"}, Goto(w, pc)
  PROVE  /\ workers' \in [EnrichWorkers -> WorkerStates]
         /\ \A v \in EnrichWorkers : /\ workers'[v].seen = workers[v].seen
                                     /\ workers'[v].pc = "storing" => workers[v].pc = "storing"
BY Types DEF Goto, WorkerStates

LEMMA EnrichInvInit == EnrichInit => EnrichInv
<1> SUFFICES ASSUME EnrichInit PROVE EnrichInv
  OBVIOUS
<1>1. /\ job.status = "pending" /\ job.attempts = 0 /\ job \in JobRows
      /\ action = IdleWorker /\ acted = 0 /\ raced = FALSE
      /\ \A w \in EnrichWorkers : workers[w] = IdleWorker
  BY EnrichmentBounds DEF EnrichInit, JobRows, Statuses, Leases
<1>2. widgets \in WidgetLists /\ widgets.suggestions = 0
  BY DEF EnrichInit, NoWidgets, WidgetLists
<1>3. EnrichTypeOK
  <2>1. action \in [pc : {"idle", "acting"}, seen : WidgetLists]
    BY <1>1 DEF IdleWorker, NoWidgets, WidgetLists
  <2>2. workers \in [EnrichWorkers -> WorkerStates]
    BY Types DEF EnrichInit
  <2>3. job \in [status : {"pending", "running"} \cup Settled, attempts : 0..MaxAttempts,
                lease : {"none", "held", "expired"}, due : BOOLEAN]
    BY <1>1 DEF JobRows, Statuses, Leases, Settled
  <2>4. raced \in BOOLEAN
    BY <1>1
  <2>5. acted \in 0..MaxCardActions
    BY EnrichmentBounds DEF EnrichInit
  <2> QED
    BY <1>2, <2>1, <2>2, <2>3, <2>4, <2>5 DEF EnrichTypeOK, WorkerStates
<1>4. ListsAreShort /\ ListsAreCurrent /\ ActionsCounted
  BY <1>1, <1>2 DEF ListsAreShort, SuggestedOnce, ListsAreCurrent, ActionsCounted, IdleWorker,
     NoWidgets
<1>5. LostOnlyByOverlap
  BY <1>1, <1>2 DEF LostOnlyByOverlap
<1> QED
  BY <1>3, <1>4, <1>5 DEF EnrichInv

\* A step that writes neither list and completes nothing.
LEMMA ListsKept ==
  ASSUME EnrichInv, EnrichTypeOK', UNCHANGED <<widgets, action, acted, raced>>,
         job.status = "gone" => job'.status = "gone",
         job'.status = "completed" => job.status = "completed" \/ widgets.suggestions = 1,
         \A w \in EnrichWorkers : \/ workers'[w].seen = workers[w].seen
                                      /\ (workers'[w].pc = "storing" => workers[w].pc = "storing")
                                  \/ workers'[w].seen = widgets
                                  \/ workers'[w] = IdleWorker
  PROVE  EnrichInv'
<1>1. ListsAreShort'
  BY DEF EnrichInv, ListsAreShort, SuggestedOnce, IdleWorker, NoWidgets
<1>2. ListsAreCurrent'
  BY DEF EnrichInv, EnrichTypeOK, ListsAreCurrent, IdleWorker, WidgetLists
<1>3. LostOnlyByOverlap'
  BY DEF EnrichInv, LostOnlyByOverlap
<1> QED
  BY <1>1, <1>2, <1>3 DEF EnrichInv, ActionsCounted

LEMMA TimeKept ==
  ASSUME EnrichInv, Due \/ LeaseExpires
  PROVE  EnrichInv'
<1>1. EnrichTypeOK'
  BY DEF Due, LeaseExpires, EnrichInv, EnrichTypeOK
<1>2. job'.status = job.status /\ UNCHANGED <<widgets, workers, action, acted, raced>>
  BY DEF Due, LeaseExpires, EnrichInv, EnrichTypeOK
<1> QED
  BY <1>1, <1>2, ListsKept DEF EnrichInv, LostOnlyByOverlap

LEMMA ClaimJobKept ==
  ASSUME EnrichInv, NEW w \in EnrichWorkers, ClaimJob(w)
  PROVE  EnrichInv'
<1>1. /\ EnrichTypeOK /\ job.status # "gone"
      /\ UNCHANGED <<widgets, action, acted, raced>>
  BY DEF ClaimJob, Claimable, EnrichInv
<1>2. job' \in JobRows /\ job'.status # "completed"
  <2>1. CASE SettleJob("failed")
    BY <1>1, <2>1, Types, Settles DEF Statuses
  <2>2. CASE /\ job.attempts < MaxAttempts
             /\ job' = [job EXCEPT !.status = "running", !.attempts = @ + 1, !.lease = "held"]
    BY <1>1, <2>2, Types, Claims
  <2> QED
    BY <2>1, <2>2 DEF ClaimJob, SettleJob
<1>3. /\ workers' \in [EnrichWorkers -> WorkerStates]
      /\ \A v \in EnrichWorkers : /\ workers'[v].seen = workers[v].seen
                                  /\ workers'[v].pc = "storing" => workers[v].pc = "storing"
  BY <1>1, Types, GotoKeeps DEF ClaimJob
<1> QED
  BY <1>1, <1>2, <1>3, TypesNext, ListsKept

LEMMA PrepareKept ==
  ASSUME EnrichInv, NEW w \in EnrichWorkers, Prepare(w)
  PROVE  EnrichInv'
<1>1. EnrichTypeOK /\ UNCHANGED <<widgets, action, acted, raced>>
  BY DEF Prepare, EnrichInv
<1>2. /\ job' \in JobRows
      /\ job.status = "gone" => job'.status = "gone"
      /\ job'.status = "completed" => job.status = "completed" \/ widgets.suggestions > 0
  <2>1. CASE UNCHANGED job
    BY <1>1, <2>1, Types
  <2>2. CASE job.status = "running" /\ SettleJob("skipped")
    BY <1>1, <2>2, Types, Settles DEF Statuses
  <2>3. CASE job.status = "running" /\ widgets.suggestions > 0 /\ SettleJob("completed")
    BY <1>1, <2>3, Types, Settles DEF Statuses
  <2> QED
    BY <2>1, <2>2, <2>3 DEF Prepare
<1>3. /\ workers' \in [EnrichWorkers -> WorkerStates]
      /\ \A v \in EnrichWorkers : /\ workers'[v].seen = workers[v].seen
                                  /\ workers'[v].pc = "storing" => workers[v].pc = "storing"
  BY <1>1, GotoKeeps DEF Prepare
<1>4. widgets.suggestions > 0 => widgets.suggestions = 1
  BY DEF EnrichInv, EnrichTypeOK, ListsAreShort, SuggestedOnce, WidgetLists
<1> QED
  BY <1>1, <1>2, <1>3, <1>4, TypesNext, ListsKept

LEMMA LoadMessageKept ==
  ASSUME EnrichInv, NEW w \in EnrichWorkers, LoadMessage(w)
  PROVE  EnrichInv'
<1>1. EnrichTypeOK'
  BY DEF LoadMessage, EnrichInv, EnrichTypeOK, IdleWorker, WidgetLists, NoWidgets
<1>2. /\ UNCHANGED <<job, widgets, action, acted, raced>>
      /\ \A v \in EnrichWorkers : \/ workers'[v] = workers[v]
                                  \/ workers'[v].seen = widgets
                                  \/ workers'[v] = IdleWorker
  BY DEF LoadMessage, EnrichInv, EnrichTypeOK
<1> QED
  BY <1>1, <1>2, ListsKept

\* Storing the suggestion: the one step of a worker that writes the list.
LEMMA StoreKept ==
  ASSUME EnrichInv, NEW w \in EnrichWorkers, Store(w)
  PROVE  EnrichInv'
<1> DEFINE seen == workers[w].seen
<1>1. /\ workers[w].pc = "storing" /\ job.status # "gone" /\ seen \in WidgetLists
      /\ UNCHANGED <<action, acted>> /\ EnrichTypeOK
  BY DEF Store, EnrichInv, EnrichTypeOK
<1>2. /\ workers'[w] = IdleWorker /\ workers' \in [EnrichWorkers -> WorkerStates]
      /\ \A v \in EnrichWorkers : v # w => workers'[v] = workers[v]
  BY <1>1, Types, WorkerChange DEF Store
<1>3. CASE /\ seen.suggestions = 0 /\ widgets' = [seen EXCEPT !.suggestions = @ + 1]
           /\ raced' = (raced \/ action.pc = "acting")
           /\ SettleJob("completed")
  <2>1. /\ widgets' \in WidgetLists /\ widgets'.card = seen.card /\ widgets'.suggestions = 1
    BY <1>1, <1>3 DEF WidgetLists
  <2>2. job' \in JobRows /\ job'.status = "completed"
    BY <1>1, <1>3, Types, Settles DEF Statuses
  <2>3. EnrichTypeOK'
    BY <1>1, <1>2, <1>3, <2>1, <2>2
       DEF EnrichTypeOK, JobRows, Statuses, Leases, Settled, WorkerStates
  <2>4. ListsAreShort'
    BY <1>1, <1>2, <2>1 DEF EnrichInv, ListsAreShort, SuggestedOnce, IdleWorker, NoWidgets
  <2>5. ~raced' => ~raced /\ action.pc # "acting" /\ seen.card = widgets.card
    BY <1>1, <1>3 DEF EnrichInv, EnrichTypeOK, ListsAreCurrent
  <2>6. \A v \in EnrichWorkers : workers[v].seen.suggestions <= 1
    BY DEF EnrichInv, ListsAreShort
  <2>7. ListsAreCurrent'
    BY <1>1, <1>2, <2>1, <2>5, <2>6 DEF EnrichInv, ListsAreCurrent, IdleWorker
  <2>8. LostOnlyByOverlap'
    BY <1>1, <2>1, <2>5 DEF EnrichInv, LostOnlyByOverlap
  <2> QED
    BY <1>1, <2>3, <2>4, <2>7, <2>8 DEF EnrichInv, ActionsCounted
<1>4. CASE /\ UNCHANGED <<widgets, raced>>
           /\ SettleJob(IF seen.suggestions > 0 THEN "completed" ELSE "skipped")
  <2>1. /\ job' \in JobRows
        /\ job'.status = IF seen.suggestions > 0 THEN "completed" ELSE "skipped"
    BY <1>1, <1>4, Types, Settles DEF Statuses
  <2>2. EnrichTypeOK'
    BY <1>1, <1>2, <1>4, <2>1, TypesNext
  <2>3. ListsAreShort'
    BY <1>1, <1>2, <1>4 DEF EnrichInv, ListsAreShort, SuggestedOnce, IdleWorker, NoWidgets
  <2>4. ListsAreCurrent'
    BY <1>1, <1>2, <1>4 DEF EnrichInv, ListsAreCurrent, IdleWorker
  <2>5. seen.suggestions > 0 /\ ~raced => widgets.suggestions = 1
    BY <1>1 DEF EnrichInv, EnrichTypeOK, ListsAreShort, SuggestedOnce, ListsAreCurrent, WidgetLists
  <2>6. LostOnlyByOverlap'
    BY <1>1, <1>4, <2>1, <2>5 DEF EnrichInv, LostOnlyByOverlap
  <2> QED
    BY <1>1, <1>4, <2>2, <2>3, <2>4, <2>6 DEF EnrichInv, ActionsCounted
<1> QED
  BY <1>3, <1>4 DEF Store

LEMMA RaisesKept ==
  ASSUME EnrichInv, NEW w \in EnrichWorkers, Raises(w)
  PROVE  EnrichInv'
<1>1. EnrichTypeOK'
  BY DEF Raises, Goto, EnrichInv, EnrichTypeOK
<1>2. /\ UNCHANGED <<job, widgets, action, acted, raced>>
      /\ \A v \in EnrichWorkers : /\ workers'[v].seen = workers[v].seen
                                  /\ workers'[v].pc = "storing" => workers[v].pc = "storing"
  BY DEF Raises, Goto, EnrichInv, EnrichTypeOK
<1> QED
  BY <1>1, <1>2, ListsKept

LEMMA RecordFailureKept ==
  ASSUME EnrichInv, NEW w \in EnrichWorkers, RecordFailure(w)
  PROVE  EnrichInv'
<1>1. EnrichTypeOK /\ UNCHANGED <<widgets, action, acted, raced>>
  BY DEF RecordFailure, EnrichInv
<1>2. /\ job' \in JobRows
      /\ job.status = "gone" => job'.status = "gone"
      /\ job'.status = "completed" => job.status = "completed"
  <2>1. CASE UNCHANGED job
    BY <1>1, <2>1, Types
  <2>2. CASE job.status # "gone" /\ SettleJob("failed")
    BY <1>1, <2>2, Types, Settles DEF Statuses
  <2>3. CASE /\ job.status # "gone"
             /\ job' = [job EXCEPT !.status = "pending", !.lease = "none", !.due = FALSE]
    BY <1>1, <2>3, Types, Retries
  <2> QED
    BY <2>1, <2>2, <2>3 DEF RecordFailure, SettleJob
<1>3. /\ workers' \in [EnrichWorkers -> WorkerStates]
      /\ \A v \in EnrichWorkers : workers'[v] = workers[v] \/ workers'[v] = IdleWorker
  BY <1>1, Types, WorkerChange DEF RecordFailure
<1> QED
  BY <1>1, <1>2, <1>3, TypesNext, ListsKept

LEMMA CrashKept ==
  ASSUME EnrichInv, EnrichCrash
  PROVE  EnrichInv'
<1>1. /\ \A w \in EnrichWorkers : workers'[w] = IdleWorker
      /\ action' = IdleWorker /\ UNCHANGED <<job, widgets, acted, raced>>
  BY DEF EnrichCrash
<1>2. EnrichTypeOK'
  BY Types DEF EnrichCrash, EnrichInv, EnrichTypeOK, WorkerStates, IdleWorker, NoWidgets,
     WidgetLists
<1>3. ListsAreShort' /\ ListsAreCurrent' /\ ActionsCounted'
  BY <1>1 DEF EnrichInv, ListsAreShort, SuggestedOnce, ListsAreCurrent, ActionsCounted, IdleWorker,
     NoWidgets
<1>4. LostOnlyByOverlap'
  BY <1>1 DEF EnrichInv, LostOnlyByOverlap
<1> QED
  BY <1>2, <1>3, <1>4 DEF EnrichInv

LEMMA LoadCardKept ==
  ASSUME EnrichInv, LoadCard
  PROVE  EnrichInv'
<1>1. /\ action'.pc = "acting" /\ action'.seen = widgets /\ acted < MaxCardActions
      /\ action' \in [pc : {"idle", "acting"}, seen : WidgetLists]
      /\ UNCHANGED <<job, widgets, workers, acted, raced>>
  BY DEF LoadCard, EnrichInv, EnrichTypeOK
<1>2. EnrichTypeOK'
  BY <1>1 DEF EnrichInv, EnrichTypeOK
<1>3. ListsAreShort' /\ ListsAreCurrent' /\ ActionsCounted'
  BY <1>1 DEF EnrichInv, ListsAreShort, SuggestedOnce, ListsAreCurrent, ActionsCounted
<1>4. LostOnlyByOverlap'
  BY <1>1 DEF EnrichInv, LostOnlyByOverlap
<1> QED
  BY <1>2, <1>3, <1>4 DEF EnrichInv

LEMMA SaveReceiptKept ==
  ASSUME EnrichInv, SaveReceipt
  PROVE  EnrichInv'
<1>1. /\ action.pc = "acting" /\ job.status # "gone" /\ action' = IdleWorker /\ acted' = acted + 1
      /\ widgets' = [action.seen EXCEPT !.card = "completed"] /\ action.seen \in WidgetLists
      /\ UNCHANGED <<job, workers>>
  BY DEF SaveReceipt, EnrichInv, EnrichTypeOK
<1>2. /\ widgets' \in WidgetLists /\ widgets'.card = "completed"
      /\ widgets'.suggestions = action.seen.suggestions
  BY <1>1 DEF WidgetLists
<1>3. ~raced' => /\ ~raced /\ action.seen = widgets
                 /\ \A w \in EnrichWorkers : workers[w].pc # "storing"
  BY <1>1 DEF SaveReceipt, EnrichInv, EnrichTypeOK, ListsAreCurrent
<1>4. EnrichTypeOK'
  <2>1. acted' \in 0..MaxCardActions
    BY <1>1, EnrichmentBounds DEF EnrichInv, EnrichTypeOK, ActionsCounted
  <2>2. raced' \in BOOLEAN
    BY DEF SaveReceipt
  <2> QED
    BY <1>1, <1>2, <2>1, <2>2
       DEF EnrichInv, EnrichTypeOK, IdleWorker, WidgetLists, NoWidgets
<1>5. ListsAreShort'
  BY <1>1, <1>2 DEF EnrichInv, ListsAreShort, SuggestedOnce, IdleWorker, NoWidgets
<1>6. ListsAreCurrent' /\ ActionsCounted'
  BY <1>1, <1>3 DEF ListsAreCurrent, ActionsCounted, IdleWorker
<1>7. LostOnlyByOverlap'
  BY <1>1, <1>2, <1>3 DEF EnrichInv, LostOnlyByOverlap
<1> QED
  BY <1>4, <1>5, <1>6, <1>7 DEF EnrichInv

LEMMA DeleteThreadKept ==
  ASSUME EnrichInv, DeleteThread
  PROVE  EnrichInv'
<1>1. /\ job' \in JobRows /\ job'.status = "gone"
  BY Types, Settles DEF DeleteThread, SettleJob, EnrichInv, Statuses
<1>2. widgets' = NoWidgets /\ UNCHANGED <<workers, action, acted, raced>>
  BY DEF DeleteThread
<1>3. EnrichTypeOK'
  BY <1>1, <1>2, Types DEF EnrichInv, EnrichTypeOK, JobRows, Statuses, Leases, Settled
<1>4. ListsAreShort' /\ ListsAreCurrent' /\ ActionsCounted'
  BY <1>1, <1>2 DEF EnrichInv, ListsAreShort, SuggestedOnce, ListsAreCurrent, ActionsCounted,
     NoWidgets
<1>5. LostOnlyByOverlap'
  BY <1>1 DEF LostOnlyByOverlap
<1> QED
  BY <1>3, <1>4, <1>5 DEF EnrichInv

LEMMA EnrichInvNext == EnrichInv /\ [EnrichNext]_enrichVars => EnrichInv'
<1> SUFFICES ASSUME EnrichInv, [EnrichNext]_enrichVars PROVE EnrichInv'
  OBVIOUS
<1>1. ASSUME NEW w \in EnrichWorkers, ClaimJob(w) \/ WorkerStep(w) PROVE EnrichInv'
  BY <1>1, ClaimJobKept, PrepareKept, LoadMessageKept, StoreKept, RaisesKept, RecordFailureKept
     DEF WorkerStep
<1>2. CASE Due \/ LeaseExpires \/ EnrichCrash \/ LoadCard \/ SaveReceipt \/ DeleteThread
  BY <1>2, TimeKept, CrashKept, LoadCardKept, SaveReceiptKept, DeleteThreadKept
<1>3. CASE UNCHANGED enrichVars
  BY <1>3 DEF enrichVars, EnrichInv, EnrichTypeOK, ListsAreShort, SuggestedOnce, ListsAreCurrent,
     ActionsCounted, LostOnlyByOverlap
<1> QED
  BY <1>1, <1>2, <1>3 DEF EnrichNext

(* Every reachable state of job, message, workers and card action          *)
(* satisfies the invariant.                                                *)
THEOREM EnrichInvariant == EnrichSpec => []EnrichInv
BY EnrichInvInit, EnrichInvNext, PTL DEF EnrichSpec

(* A message has at most one suggestion, however late answers arrive.      *)
THEOREM OneSuggestion == EnrichSpec => []SuggestedOnce
<1>1. EnrichInv => SuggestedOnce
  BY DEF EnrichInv, ListsAreShort
<1> QED
  BY <1>1, EnrichInvariant, PTL

(* Suggestion and receipt survive each other unless the transactions that  *)
(* write them overlap.                                                     *)
THEOREM LossNeedsOverlap == EnrichSpec => []LostOnlyByOverlap
<1>1. EnrichInv => LostOnlyByOverlap
  BY DEF EnrichInv
<1> QED
  BY <1>1, EnrichInvariant, PTL

(* A job is claimed at most as often as configured, crashes included.      *)
THEOREM AttemptsBounded == EnrichSpec => []EnrichTypeOK
<1>1. EnrichInv => EnrichTypeOK
  BY DEF EnrichInv
<1> QED
  BY <1>1, EnrichInvariant, PTL

-----------------------------------------------------------------------------
(* Notifications.                                                          *)

Bodies == {ask.body : ask \in Asks} \cup {<<>>}
Notice == [id : CommandIds, window : Nat, due : BOOLEAN,
           state : {"pending", "processing", "sent", "failed", "deleted"},
           attempts : Nat, confirmed : Nat]

Couriers == [pc : {"idle", "holding", "sent", "error", "dead"}, at : Nat]

NoticeShapes ==
    /\ calls \in [Callers -> [pc : {"idle", "loaded"}, id : CommandIds \cup {<<>>}, body : Bodies]]
    /\ \A c \in Callers : calls[c].pc = "loaded" => calls[c].id \in CommandIds
    /\ told \subseteq [id : CommandIds, body : Bodies, notice : Nat \ {0}]
    /\ receipts \in [CommandIds -> [body : Bodies, notice : Nat]]
    /\ notices \in Seq(Notice)
    /\ window \in Nat
    /\ courier \in Couriers

(* A receipt names the one notice of its key, and outlives every answer    *)
(* given from it.                                                          *)
ReceiptsName ==
    /\ \A n \in DOMAIN notices : receipts[notices[n].id].notice = n
    /\ \A t \in told : receipts[t.id] = [body |-> t.body, notice |-> t.notice]

LoadedReminder(c) == calls[c].pc = "loaded" /\ calls[c].id[1] = "reminder"

(* One caller holds the record's lock, and while it does no reminder of    *)
(* its period is queued.                                                   *)
ReminderAlone ==
    /\ \A n \in DOMAIN notices : notices[n].window <= window
    /\ \A c, d \in Callers : LoadedReminder(c) /\ LoadedReminder(d) => c = d
    /\ \A c \in Callers : LoadedReminder(c) => ~RecentReminder

Unmarked(n) == courier.pc = "sent" /\ courier.at = n

(* The task holds a row it claimed; a confirmed delivery is recorded in    *)
(* the row, or is about to be.                                             *)
ConfirmedIsMarked ==
    /\ courier.pc \in {"holding", "sent", "error"} =>
          courier.at \in DOMAIN notices /\ notices[courier.at].state \in {"processing", "deleted"}
    /\ \A n \in DOMAIN notices :
          /\ notices[n].confirmed \in {0, 1}
          /\ notices[n].state \in {"pending", "processing", "failed"} /\ ~Unmarked(n)
                => notices[n].confirmed = 0
          /\ Unmarked(n) => notices[n].confirmed = 1

NoticeInv == NoticeShapes /\ ReceiptsName /\ ReminderAlone /\ RemindersSpaced /\ ConfirmedIsMarked

LEMMA NoticeInvInit == NoticeInit => NoticeInv
BY DEF NoticeInit, NoticeInv, NoticeShapes, ReceiptsName, ReminderAlone, RemindersSpaced,
   ConfirmedIsMarked, LoadedReminder, RecentReminder, Unmarked, Reminders, IdleCall, NoReceipt,
   IdleCourier, Bodies, Couriers

LEMMA RowSet ==
  ASSUME NEW s \in Seq(Notice), NEW n \in DOMAIN s, NEW row \in Notice
  PROVE  /\ [s EXCEPT ![n] = row] \in Seq(Notice)
         /\ DOMAIN [s EXCEPT ![n] = row] = DOMAIN s
         /\ \A m \in DOMAIN s : [s EXCEPT ![n] = row][m] = IF m = n THEN row ELSE s[m]
OBVIOUS

\* What neither commands nor time change concerns neither receipts nor reminders.
LEMMA CommandsKept ==
  ASSUME NoticeInv, UNCHANGED <<calls, told, receipts, window>>, courier' \in Couriers,
         notices' \in Seq(Notice), DOMAIN notices' = DOMAIN notices,
         \A n \in DOMAIN notices : /\ notices'[n].id = notices[n].id
                                   /\ notices'[n].window = notices[n].window
  PROVE  NoticeShapes' /\ ReceiptsName' /\ ReminderAlone' /\ RemindersSpaced'
<1>1. RecentReminder' <=> RecentReminder
  BY DEF RecentReminder
<1>2. Reminders' = Reminders /\ Reminders \subseteq DOMAIN notices
  BY DEF Reminders
<1> QED
  BY <1>1, <1>2 DEF NoticeInv, NoticeShapes, ReceiptsName, ReminderAlone, RemindersSpaced,
     LoadedReminder

\* A step of the delivery task or of the clock rewrites one row.
LEMMA RowRewritten ==
  ASSUME NoticeInv, UNCHANGED <<calls, told, receipts, window>>, courier' \in Couriers,
         NEW n \in DOMAIN notices, NEW row \in Notice, notices' = [notices EXCEPT ![n] = row],
         row.id = notices[n].id, row.window = notices[n].window
  PROVE  /\ NoticeShapes' /\ ReceiptsName' /\ ReminderAlone' /\ RemindersSpaced'
         /\ DOMAIN notices' = DOMAIN notices
         /\ notices'[n] = row
         /\ \A m \in DOMAIN notices : m # n => notices'[m] = notices[m]
<1>1. /\ notices' \in Seq(Notice) /\ DOMAIN notices' = DOMAIN notices /\ notices'[n] = row
      /\ \A m \in DOMAIN notices : m # n => notices'[m] = notices[m]
  BY RowSet DEF NoticeInv, NoticeShapes
<1> QED
  BY <1>1, CommandsKept

LEMMA Rows ==
  ASSUME NoticeInv, NEW n \in DOMAIN notices
  PROVE  notices[n] \in Notice
BY DEF NoticeInv, NoticeShapes

LEMMA BeginKept ==
  ASSUME NoticeInv, NEW c \in Callers, NEW ask \in Asks, Begin(c, ask.id, ask.body)
  PROVE  NoticeInv'
<1>1. ask.id \in CommandIds /\ ask.body \in Bodies
  BY DEF CommandIds, Bodies
<1>2. CASE /\ receipts[ask.id].notice # 0 /\ receipts[ask.id].body = ask.body
           /\ Answer(ask.id, ask.body, receipts[ask.id].notice) /\ UNCHANGED calls
  <2>1. told' = told \cup {[id |-> ask.id, body |-> ask.body, notice |-> receipts[ask.id].notice]}
    BY <1>2 DEF Answer
  <2>2. /\ receipts[ask.id] \in [body : Bodies, notice : Nat]
        /\ UNCHANGED <<calls, receipts, notices, window, courier>>
    BY <1>1, <1>2 DEF Begin, NoticeInv, NoticeShapes
  <2>3. receipts[ask.id] = [body |-> ask.body, notice |-> receipts[ask.id].notice]
    BY <1>2, <2>2
  <2>4. NoticeShapes' /\ ReceiptsName'
    BY <1>1, <1>2, <2>1, <2>2, <2>3 DEF NoticeInv, NoticeShapes, ReceiptsName
  <2> QED
    BY <2>2, <2>4 DEF NoticeInv, ReminderAlone, RemindersSpaced, ConfirmedIsMarked, LoadedReminder,
       RecentReminder, Reminders, Unmarked
<1>3. CASE /\ receipts[ask.id].notice = 0
           /\ ask.id[1] = "reminder" => ~RecentReminder
           /\ calls' = [calls EXCEPT ![c] = [pc |-> "loaded", id |-> ask.id, body |-> ask.body]]
           /\ UNCHANGED told
  <2>1. UNCHANGED <<told, receipts, notices, window, courier>>
    BY <1>3 DEF Begin
  <2>2. /\ calls'[c] = [pc |-> "loaded", id |-> ask.id, body |-> ask.body]
        /\ \A d \in Callers : d # c => calls'[d] = calls[d]
    BY <1>3 DEF NoticeInv, NoticeShapes
  <2>3. NoticeShapes' /\ ReceiptsName'
    BY <1>1, <1>3, <2>1, <2>2 DEF NoticeInv, NoticeShapes, ReceiptsName
  <2>4. ReminderAlone'
    <3>1. ask.id[1] = "reminder" => \A d \in Callers : ~LoadedReminder(d)
      BY DEF Begin, RecordLocked, LoadedReminder
    <3>2. RecentReminder' <=> RecentReminder
      BY <2>1 DEF RecentReminder
    <3>3. \A d \in Callers : LoadedReminder(d)' => IF d = c THEN ask.id[1] = "reminder"
                                                   ELSE LoadedReminder(d)
      BY <2>2 DEF LoadedReminder
    <3> QED
      BY <1>3, <2>1, <3>1, <3>2, <3>3 DEF NoticeInv, ReminderAlone
  <2> QED
    BY <2>1, <2>3, <2>4 DEF NoticeInv, RemindersSpaced, ConfirmedIsMarked, Reminders, Unmarked
<1> QED
  BY <1>2, <1>3 DEF Begin

\* The one step that queues a notice.
LEMMA FinishCommandKept ==
  ASSUME NoticeInv, NEW c \in Callers, FinishCommand(c)
  PROVE  NoticeInv'
<1> DEFINE n == Len(notices) + 1
           id == calls[c].id
           row == [id |-> id, window |-> window, state |-> "pending", due |-> TRUE,
                   attempts |-> 0, confirmed |-> 0]
<1>1. /\ id \in CommandIds /\ calls[c].body \in Bodies /\ receipts[id].notice = 0
      /\ calls[c].pc = "loaded" /\ notices \in Seq(Notice) /\ window \in Nat
  BY DEF FinishCommand, NoticeInv, NoticeShapes
<1>2. /\ notices' = Append(notices, row)
      /\ receipts' = [receipts EXCEPT ![id] = [body |-> calls[c].body, notice |-> n]]
      /\ told' = told \cup {[id |-> id, body |-> calls[c].body, notice |-> n]}
      /\ calls' = [calls EXCEPT ![c] = IdleCall]
      /\ UNCHANGED <<window, courier>>
  BY DEF FinishCommand, Answer
<1>3. row \in Notice /\ n \in Nat \ {0}
  BY <1>1 DEF Notice
<1> HIDE DEF row
<1>4. /\ notices' \in Seq(Notice) /\ DOMAIN notices = 1 .. Len(notices)
      /\ DOMAIN notices' = 1 .. n /\ notices'[n] = row
      /\ \A m \in DOMAIN notices : notices'[m] = notices[m]
  BY <1>1, <1>2, <1>3
<1>5. /\ row.id = id /\ row.window = window /\ row.state = "pending" /\ row.confirmed = 0
  BY DEF row
<1>6. /\ n \in DOMAIN notices' /\ n \notin DOMAIN notices
      /\ DOMAIN notices' = DOMAIN notices \cup {n} /\ 0 \notin DOMAIN notices
  BY <1>1, <1>4
<1> HIDE DEF n, id
<1>7. /\ calls'[c].pc = "idle" /\ calls' \in [Callers -> [pc : {"idle", "loaded"},
                                                   id : CommandIds \cup {<<>>}, body : Bodies]]
      /\ \A d \in Callers : d # c => calls'[d] = calls[d]
  BY <1>2 DEF NoticeInv, NoticeShapes, IdleCall, Bodies
<1>8. /\ receipts'[id] = [body |-> calls[c].body, notice |-> n]
      /\ receipts' \in [CommandIds -> [body : Bodies, notice : Nat]]
      /\ \A i \in CommandIds : i # id => receipts'[i] = receipts[i]
  BY <1>1, <1>2, <1>3 DEF NoticeInv, NoticeShapes
<1>9. NoticeShapes'
  BY <1>1, <1>2, <1>3, <1>4, <1>7, <1>8 DEF NoticeInv, NoticeShapes
<1>10. ReceiptsName'
  <2>1. \A m \in DOMAIN notices : notices[m].id \in CommandIds /\ notices[m].id # id
    BY <1>1, <1>6, Rows DEF NoticeInv, ReceiptsName, Notice
  <2>2. ASSUME NEW t \in told PROVE t.id \in CommandIds /\ t.id # id
    <3>1. t.id \in CommandIds /\ t.notice \in Nat \ {0}
      BY DEF NoticeInv, NoticeShapes
    <3>2. receipts[t.id] = [body |-> t.body, notice |-> t.notice]
      BY DEF NoticeInv, ReceiptsName
    <3>3. receipts[t.id].notice = t.notice
      BY <3>2
    <3> QED
      BY <1>1, <3>1, <3>3
  <2>3. \A m \in DOMAIN notices' : receipts'[notices'[m].id].notice = m
    <3>1. receipts'[notices'[n].id].notice = n
      BY <1>4, <1>5, <1>8
    <3>2. ASSUME NEW m \in DOMAIN notices PROVE receipts'[notices'[m].id].notice = m
      BY <1>4, <1>8, <2>1 DEF NoticeInv, ReceiptsName
    <3> QED
      BY <1>6, <3>1, <3>2
  <2>4. \A t \in told' : receipts'[t.id] = [body |-> t.body, notice |-> t.notice]
    <3>1. ASSUME NEW t \in told PROVE receipts'[t.id] = [body |-> t.body, notice |-> t.notice]
      BY <1>8, <2>2 DEF NoticeInv, ReceiptsName
    <3>2. ASSUME NEW t, t = [id |-> id, body |-> calls[c].body, notice |-> n]
          PROVE  receipts'[t.id] = [body |-> t.body, notice |-> t.notice]
      BY <1>8, <3>2
    <3> QED
      BY <1>2, <3>1, <3>2
  <2> QED
    BY <2>3, <2>4 DEF ReceiptsName
<1>11. ReminderAlone' /\ RemindersSpaced'
  <2>1. \A m \in DOMAIN notices : notices[m].window <= window
    BY DEF NoticeInv, ReminderAlone
  <2>2. \A d \in Callers : LoadedReminder(d)' => d # c /\ LoadedReminder(d)
    BY <1>7 DEF LoadedReminder
  <2>3. \A m \in DOMAIN notices' : notices'[m].window <= window'
    BY <1>1, <1>2, <1>4, <1>5, <1>6, <2>1
  <2>4. CASE id[1] = "reminder"
    <3>1. LoadedReminder(c) /\ ~RecentReminder
      BY <1>1, <2>4 DEF NoticeInv, ReminderAlone, LoadedReminder, id
    <3>2. \A d \in Callers : ~LoadedReminder(d)'
      BY <2>2, <3>1 DEF NoticeInv, ReminderAlone
    <3>3. \A m \in Reminders : notices[m].window # window
      BY <3>1 DEF RecentReminder, Reminders
    <3>4. /\ Reminders' = Reminders \cup {n} /\ n \notin Reminders
          /\ Reminders \subseteq DOMAIN notices
      BY <1>1, <1>4, <1>5, <1>6, <2>4 DEF Reminders, n
    <3> QED
      BY <1>4, <1>5, <2>3, <3>2, <3>3, <3>4 DEF NoticeInv, ReminderAlone, RemindersSpaced
  <2>5. CASE id[1] # "reminder"
    <3>1. Reminders' = Reminders /\ Reminders \subseteq DOMAIN notices
      BY <1>4, <1>5, <1>6, <2>5 DEF Reminders
    <3>2. RecentReminder' <=> RecentReminder
      BY <1>2, <1>4, <1>5, <1>6, <2>5 DEF RecentReminder
    <3> QED
      BY <1>4, <2>2, <2>3, <3>1, <3>2 DEF NoticeInv, ReminderAlone, RemindersSpaced
  <2> QED
    BY <2>4, <2>5
<1>12. ConfirmedIsMarked'
  <2>1. ~Unmarked(n)
    BY <1>1, <1>4 DEF Unmarked, NoticeInv, ConfirmedIsMarked, n
  <2> QED
    BY <1>2, <1>4, <1>5, <1>6, <2>1 DEF NoticeInv, ConfirmedIsMarked, Unmarked
<1> QED
  BY <1>9, <1>10, <1>11, <1>12 DEF NoticeInv

LEMMA RollBackKept ==
  ASSUME NoticeInv, NEW c \in Callers, RollBack(c)
  PROVE  NoticeInv'
<1>1. UNCHANGED <<told, receipts, notices, window, courier>>
  BY DEF RollBack
<1>2. \A d \in Callers : calls'[d] = IF d = c THEN IdleCall ELSE calls[d]
  BY DEF RollBack, NoticeInv, NoticeShapes
<1>3. NoticeShapes' /\ ReceiptsName'
  BY <1>1, <1>2 DEF RollBack, NoticeInv, NoticeShapes, ReceiptsName, IdleCall, Bodies
<1>4. RecentReminder' <=> RecentReminder
  BY <1>1 DEF RecentReminder
<1>5. ReminderAlone'
  BY <1>1, <1>2, <1>4 DEF NoticeInv, ReminderAlone, LoadedReminder, IdleCall
<1> QED
  BY <1>1, <1>3, <1>5 DEF NoticeInv, RemindersSpaced, ConfirmedIsMarked, Reminders, Unmarked

LEMMA TwelveHoursKept ==
  ASSUME NoticeInv, TwelveHours
  PROVE  NoticeInv'
<1>1. /\ window \in Nat /\ window' = window + 1
      /\ UNCHANGED <<calls, told, receipts, notices, courier>>
  BY DEF TwelveHours, NoticeInv, NoticeShapes
<1>2. \A n \in DOMAIN notices : notices[n].window \in Nat /\ notices[n].window <= window
  BY Rows DEF NoticeInv, ReminderAlone, Notice
<1>3. ~RecentReminder'
  BY <1>1, <1>2 DEF RecentReminder
<1> QED
  BY <1>1, <1>2, <1>3 DEF NoticeInv, NoticeShapes, ReceiptsName, ReminderAlone, LoadedReminder,
     RemindersSpaced, Reminders, ConfirmedIsMarked, Unmarked

LEMMA ClaimNoticeKept ==
  ASSUME NoticeInv, NEW n \in DOMAIN notices, ClaimNotice(n)
  PROVE  NoticeInv'
<1> DEFINE row == [notices[n] EXCEPT !.state = "processing", !.due = FALSE, !.attempts = @ + 1]
<1>1. /\ row \in Notice /\ row.id = notices[n].id /\ row.window = notices[n].window
      /\ row.state = "processing" /\ row.confirmed = notices[n].confirmed
      /\ notices[n].confirmed = 0
  BY Rows DEF ClaimNotice, Notice, NoticeInv, ConfirmedIsMarked, Unmarked
<1>2. notices' = [notices EXCEPT ![n] = row]
  BY DEF ClaimNotice
<1>3. /\ courier' = [pc |-> "holding", at |-> n] /\ n \in Nat /\ courier' \in Couriers
      /\ courier.pc = "idle" /\ UNCHANGED <<calls, told, receipts, window>>
  BY DEF ClaimNotice, NoticeInv, NoticeShapes, Couriers
<1> HIDE DEF row
<1>4. /\ NoticeShapes' /\ ReceiptsName' /\ ReminderAlone' /\ RemindersSpaced'
      /\ DOMAIN notices' = DOMAIN notices /\ notices'[n] = row
      /\ \A m \in DOMAIN notices : m # n => notices'[m] = notices[m]
  BY <1>1, <1>2, <1>3, RowRewritten
<1>5. ConfirmedIsMarked'
  BY <1>1, <1>3, <1>4 DEF NoticeInv, ConfirmedIsMarked, Unmarked
<1> QED
  BY <1>4, <1>5 DEF NoticeInv

LEMMA SendKept ==
  ASSUME NoticeInv, Send
  PROVE  NoticeInv'
<1> DEFINE n == courier.at
           row == [notices[n] EXCEPT !.confirmed = @ + 1]
<1>1. /\ n \in DOMAIN notices /\ notices[n].state = "processing" /\ notices[n].confirmed = 0
  BY DEF Send, Held, NoticeInv, ConfirmedIsMarked, Unmarked
<1>2. /\ row \in Notice /\ row.id = notices[n].id /\ row.window = notices[n].window
      /\ row.state = "processing" /\ row.confirmed = 1
  BY <1>1, Rows DEF Notice
<1>3. /\ notices' = [notices EXCEPT ![n] = row]
      /\ courier' = [courier EXCEPT !.pc = "sent"] /\ courier' \in Couriers
      /\ courier'.pc = "sent" /\ courier'.at = n
      /\ UNCHANGED <<calls, told, receipts, window>>
  BY DEF Send, NoticeInv, NoticeShapes, Couriers
<1> HIDE DEF row, n
<1>4. /\ NoticeShapes' /\ ReceiptsName' /\ ReminderAlone' /\ RemindersSpaced'
      /\ DOMAIN notices' = DOMAIN notices /\ notices'[n] = row
      /\ \A m \in DOMAIN notices : m # n => notices'[m] = notices[m]
  BY <1>1, <1>2, <1>3, RowRewritten
<1>5. ConfirmedIsMarked'
  BY <1>1, <1>2, <1>3, <1>4 DEF Send, NoticeInv, ConfirmedIsMarked, Unmarked
<1> QED
  BY <1>4, <1>5 DEF NoticeInv

\* A step that moves the task and no row.
LEMMA TaskMoves ==
  ASSUME NoticeInv, UNCHANGED <<calls, told, receipts, notices, window>>, courier' \in Couriers,
         ConfirmedIsMarked'
  PROVE  NoticeInv'
BY CommandsKept DEF NoticeInv, NoticeShapes

LEMMA SendFailsKept ==
  ASSUME NoticeInv, SendFails \/ CourierDies
  PROVE  NoticeInv'
<1>1. /\ courier.pc = "holding" /\ courier'.pc \in {"error", "dead"} /\ courier'.at = courier.at
      /\ courier' \in Couriers /\ UNCHANGED <<calls, told, receipts, notices, window>>
  BY DEF SendFails, CourierDies, NoticeInv, NoticeShapes, Couriers
<1>2. ConfirmedIsMarked'
  BY <1>1 DEF NoticeInv, ConfirmedIsMarked, Unmarked
<1> QED
  BY <1>1, <1>2, TaskMoves

LEMMA VanishedKept ==
  ASSUME NoticeInv, Vanished
  PROVE  NoticeInv'
<1>1. /\ notices[courier.at].state = "deleted" /\ courier' = IdleCourier /\ courier' \in Couriers
      /\ UNCHANGED <<calls, told, receipts, notices, window>>
  BY DEF Vanished, Held, IdleCourier, Couriers
<1>2. ConfirmedIsMarked'
  BY <1>1 DEF NoticeInv, ConfirmedIsMarked, Unmarked, IdleCourier
<1> QED
  BY <1>1, <1>2, TaskMoves

\* Marking a row, as sent, failed or pending again, releases it.
LEMMA MarkKept ==
  ASSUME NoticeInv, MarkSent \/ MarkFailed
  PROVE  NoticeInv'
<1> DEFINE n == courier.at
<1>1. /\ n \in DOMAIN notices /\ notices[n].state = "processing"
      /\ courier' = IdleCourier /\ courier' \in Couriers
      /\ UNCHANGED <<calls, told, receipts, window>>
  BY DEF MarkSent, MarkFailed, Held, IdleCourier, Couriers, NoticeInv, ConfirmedIsMarked
<1>2. PICK state \in {"pending", "sent", "failed"} :
        /\ notices' = [notices EXCEPT ![n].state = state]
        /\ state = "sent" \/ courier.pc = "error"
  BY DEF MarkSent, MarkFailed
<1> DEFINE row == [notices[n] EXCEPT !.state = state]
<1>3. /\ row \in Notice /\ row.id = notices[n].id /\ row.window = notices[n].window
      /\ row.state = state /\ row.confirmed = notices[n].confirmed
      /\ state # "sent" => notices[n].confirmed = 0
  BY <1>1, <1>2, Rows DEF Notice, NoticeInv, ConfirmedIsMarked, Unmarked
<1>4. notices' = [notices EXCEPT ![n] = row]
  BY <1>2
<1> HIDE DEF row, n
<1>5. /\ NoticeShapes' /\ ReceiptsName' /\ ReminderAlone' /\ RemindersSpaced'
      /\ DOMAIN notices' = DOMAIN notices /\ notices'[n] = row
      /\ \A m \in DOMAIN notices : m # n => notices'[m] = notices[m]
  BY <1>1, <1>3, <1>4, RowRewritten
<1>6. \A m \in DOMAIN notices : Unmarked(m) => m = n
  BY DEF Unmarked, n
<1> QED
  BY <1>1, <1>2, <1>3, <1>5, <1>6 DEF NoticeInv, ConfirmedIsMarked, Unmarked, IdleCourier

LEMMA ComesDueKept ==
  ASSUME NoticeInv, NEW n \in DOMAIN notices, ComesDue(n)
  PROVE  NoticeInv'
<1> DEFINE row == [notices[n] EXCEPT !.due = TRUE]
<1>1. /\ row \in Notice /\ row.id = notices[n].id /\ row.window = notices[n].window
      /\ row.state = notices[n].state /\ row.confirmed = notices[n].confirmed
  BY Rows DEF Notice
<1>2. /\ notices' = [notices EXCEPT ![n] = row] /\ courier' = courier /\ courier' \in Couriers
      /\ UNCHANGED <<calls, told, receipts, window>>
  BY DEF ComesDue, NoticeInv, NoticeShapes
<1> HIDE DEF row
<1>3. /\ NoticeShapes' /\ ReceiptsName' /\ ReminderAlone' /\ RemindersSpaced'
      /\ DOMAIN notices' = DOMAIN notices /\ notices'[n] = row
      /\ \A m \in DOMAIN notices : m # n => notices'[m] = notices[m]
  BY <1>1, <1>2, RowRewritten
<1>4. ConfirmedIsMarked'
  BY <1>1, <1>2, <1>3 DEF NoticeInv, ConfirmedIsMarked, Unmarked
<1> QED
  BY <1>3, <1>4 DEF NoticeInv

LEMMA DeleteRecipientKept ==
  ASSUME NoticeInv, DeleteRecipient
  PROVE  NoticeInv'
<1>1. /\ notices \in Seq(Notice) /\ courier' = courier /\ courier' \in Couriers
      /\ notices' = [n \in DOMAIN notices |-> [notices[n] EXCEPT !.state = "deleted"]]
      /\ UNCHANGED <<calls, told, receipts, window>>
  BY DEF DeleteRecipient, NoticeInv, NoticeShapes
<1>2. \A n \in DOMAIN notices :
         /\ notices'[n] \in Notice /\ notices'[n].id = notices[n].id
         /\ notices'[n].window = notices[n].window /\ notices'[n].state = "deleted"
         /\ notices'[n].confirmed = notices[n].confirmed
  BY <1>1, Rows DEF Notice
<1>3. DOMAIN notices' = DOMAIN notices /\ notices' \in Seq(Notice)
  BY <1>1, <1>2
<1>4. NoticeShapes' /\ ReceiptsName' /\ ReminderAlone' /\ RemindersSpaced'
  BY <1>1, <1>2, <1>3, CommandsKept
<1> QED
  BY <1>1, <1>2, <1>3, <1>4 DEF NoticeInv, ConfirmedIsMarked, Unmarked

\* A process that dies between sending and marking: nobody confirmed the delivery.
LEMMA RestartKept ==
  ASSUME NoticeInv, Restart
  PROVE  NoticeInv'
<1> DEFINE n == courier.at
           row == [notices[n] EXCEPT !.confirmed = @ - 1]
<1>1. /\ calls' = [c \in Callers |-> IdleCall] /\ courier' = IdleCourier /\ courier' \in Couriers
      /\ UNCHANGED <<told, receipts, window>>
      /\ notices' = IF courier.pc = "sent" THEN [notices EXCEPT ![n] = row] ELSE notices
  BY DEF Restart, IdleCourier, Couriers
<1>2. /\ notices' \in Seq(Notice) /\ DOMAIN notices' = DOMAIN notices
      /\ \A m \in DOMAIN notices :
            /\ notices'[m].id = notices[m].id /\ notices'[m].window = notices[m].window
            /\ notices'[m].state = notices[m].state
            /\ notices'[m].confirmed = IF Unmarked(m) THEN 0 ELSE notices[m].confirmed
  <2>1. CASE courier.pc = "sent"
    <3>1. n \in DOMAIN notices /\ notices[n].confirmed = 1
      BY <2>1 DEF NoticeInv, ConfirmedIsMarked, Unmarked
    <3>2. /\ row \in Notice /\ row.id = notices[n].id /\ row.window = notices[n].window
          /\ row.state = notices[n].state /\ row.confirmed = 0
      BY <3>1, Rows DEF Notice
    <3> HIDE DEF row, n
    <3>3. /\ notices' \in Seq(Notice) /\ DOMAIN notices' = DOMAIN notices
          /\ \A m \in DOMAIN notices : notices'[m] = IF m = n THEN row ELSE notices[m]
      BY <1>1, <2>1, <3>1, <3>2, RowSet DEF NoticeInv, NoticeShapes
    <3>4. \A m \in DOMAIN notices : Unmarked(m) <=> m = n
      BY <2>1 DEF Unmarked, n
    <3> QED
      BY <3>2, <3>3, <3>4
  <2>2. CASE courier.pc # "sent"
    BY <1>1, <2>2 DEF NoticeInv, NoticeShapes, Unmarked
  <2> QED
    BY <2>1, <2>2
<1>3. \A c \in Callers : ~LoadedReminder(c)'
  BY <1>1 DEF LoadedReminder, IdleCall
<1>4. NoticeShapes' /\ ReceiptsName'
  BY <1>1, <1>2 DEF NoticeInv, NoticeShapes, ReceiptsName, IdleCall, Bodies
<1>5. ReminderAlone' /\ RemindersSpaced'
  BY <1>1, <1>2, <1>3 DEF NoticeInv, ReminderAlone, RemindersSpaced, Reminders
<1>6. ConfirmedIsMarked'
  BY <1>1, <1>2 DEF NoticeInv, ConfirmedIsMarked, Unmarked, IdleCourier
<1> QED
  BY <1>4, <1>5, <1>6 DEF NoticeInv

LEMMA NoticeInvNext == NoticeInv /\ [NoticeNext]_noticeVars => NoticeInv'
<1> SUFFICES ASSUME NoticeInv, [NoticeNext]_noticeVars PROVE NoticeInv'
  OBVIOUS
<1>1. ASSUME NEW c \in Callers,
             (\E ask \in Asks : Begin(c, ask.id, ask.body)) \/ FinishCommand(c) \/ RollBack(c)
      PROVE  NoticeInv'
  BY <1>1, BeginKept, FinishCommandKept, RollBackKept
<1>2. ASSUME Deliver PROVE NoticeInv'
  BY <1>2, ClaimNoticeKept, SendKept, SendFailsKept, VanishedKept, MarkKept
     DEF Deliver
<1>3. ASSUME TwelveHours \/ CourierDies \/ Restart \/ DeleteRecipient
             \/ \E n \in DOMAIN notices : ComesDue(n)
      PROVE  NoticeInv'
  BY <1>3, TwelveHoursKept, SendFailsKept, RestartKept, DeleteRecipientKept, ComesDueKept
<1>4. CASE UNCHANGED noticeVars
  BY <1>4 DEF noticeVars, NoticeInv, NoticeShapes, ReceiptsName, ReminderAlone, RemindersSpaced,
     ConfirmedIsMarked, LoadedReminder, RecentReminder, Unmarked, Reminders
<1> QED
  BY <1>1, <1>2, <1>3, <1>4 DEF NoticeNext

(* Every reachable state of commands, outbox and delivery task satisfies   *)
(* the invariant.                                                          *)
THEOREM NoticeInvariant == NoticeSpec => []NoticeInv
BY NoticeInvInit, NoticeInvNext, PTL DEF NoticeSpec

(* A key stands for one effect and one message, and every answer given for *)
(* it names that one, whatever retries, races and crashes come between.    *)
THEOREM OneEffect == NoticeSpec => []OneEffectPerKey
<1>1. NoticeInv => OneEffectPerKey
  BY DEF NoticeInv, ReceiptsName, OneEffectPerKey
<1> QED
  BY <1>1, NoticeInvariant, PTL

(* Two reminders are never queued within one period.                       *)
THEOREM RemindersKeepDistance == NoticeSpec => []RemindersSpaced
<1>1. NoticeInv => RemindersSpaced
  BY DEF NoticeInv
<1> QED
  BY <1>1, NoticeInvariant, PTL

(* A message is delivered with confirmation at most once.                  *)
THEOREM DeliveredOnce == NoticeSpec => []ConfirmedOnce
<1>1. NoticeInv => ConfirmedOnce
  BY DEF NoticeInv, ConfirmedIsMarked, ConfirmedOnce
<1> QED
  BY <1>1, NoticeInvariant, PTL

-----------------------------------------------------------------------------
(* How often a notice is tried, and the bounds of the instance.            *)

Holds(n) == courier.pc \in {"holding", "sent", "error"} /\ courier.at = n

(* A row is claimed again while it has tries left, or because the task     *)
(* that held it was lost.                                                  *)
TriesBounded(n) ==
    /\ notices[n].attempts <= MaxDeliveries + losses
    /\ notices[n].state \in {"pending", "processing"} /\ ~Holds(n)
          => notices[n].attempts < MaxDeliveries + losses

NoticesCounted ==
    /\ Len(notices) <= MaxNotices /\ window <= MaxWindows /\ losses \in 0..MaxLosses
    /\ courier.at \in 0..Len(notices)
    /\ \A id \in CommandIds : receipts[id].notice \in 0..Len(notices)
    /\ \A n \in DOMAIN notices : TriesBounded(n)

LEMMA NoticesCountedInit == NoticeInit => NoticesCounted
BY NotificationBounds DEF NoticeInit, NoticesCounted, TriesBounded, NoReceipt, IdleCourier

\* What every row has, and the numbers of the rows.
LEMMA Tries ==
  ASSUME NoticeInv, NoticesCounted
  PROVE  /\ notices \in Seq(Notice) /\ Len(notices) \in Nat /\ DOMAIN notices = 1..Len(notices)
         /\ \A n \in DOMAIN notices : notices[n] \in Notice /\ notices[n].attempts \in Nat
         /\ losses \in Nat /\ MaxDeliveries \in Nat \ {0} /\ MaxLosses \in Nat
         /\ courier.at \in Nat
<1>1. notices \in Seq(Notice)
  BY DEF NoticeInv, NoticeShapes
<1>2. \A n \in DOMAIN notices : notices[n] \in Notice
  BY <1>1
<1>3. \A n \in DOMAIN notices : notices[n].attempts \in Nat
  BY <1>2 DEF Notice
<1> QED
  BY <1>1, <1>2, <1>3, NotificationBounds DEF NoticesCounted, NoticeInv, NoticeShapes, Couriers

\* A step that queues nothing.
LEMMA CountKept ==
  ASSUME NoticeInv, NoticesCounted, NoticeInv', UNCHANGED receipts,
         DOMAIN notices' = DOMAIN notices, window' <= MaxWindows, losses' \in 0..MaxLosses,
         courier'.at = 0 \/ courier'.at = courier.at \/ courier'.at \in DOMAIN notices,
         \A n \in DOMAIN notices : TriesBounded(n)'
  PROVE  NoticesCounted'
<1>1. Len(notices') = Len(notices)
  BY Tries DEF NoticeInv, NoticeShapes
<1> QED
  BY <1>1, Tries DEF NoticesCounted

LEMMA FinishCounted ==
  ASSUME NoticeInv, NoticesCounted, NEW c \in Callers, FinishCommand(c)
  PROVE  NoticesCounted'
<1>0. PICK n : n = Len(notices) + 1
  OBVIOUS
<1> DEFINE row == [id |-> calls[c].id, window |-> window, state |-> "pending", due |-> TRUE,
                   attempts |-> 0, confirmed |-> 0]
<1>1. /\ calls[c].id \in CommandIds /\ window \in Nat
      /\ receipts \in [CommandIds -> [body : Bodies, notice : Nat]]
  BY DEF FinishCommand, NoticeInv, NoticeShapes
<1>2. /\ notices' = Append(notices, row) /\ Len(notices) < MaxNotices
      /\ receipts' = [receipts EXCEPT ![calls[c].id] = [body |-> calls[c].body, notice |-> n]]
      /\ UNCHANGED <<window, courier, losses>>
  BY <1>0 DEF FinishCommand
<1>3. row \in Notice /\ row.attempts = 0
  BY <1>1 DEF Notice
<1> HIDE DEF row
<1>4. /\ notices' \in Seq(Notice) /\ Len(notices') = n /\ DOMAIN notices' = 1..n
      /\ notices'[n] = row /\ \A m \in DOMAIN notices : notices'[m] = notices[m]
  BY <1>0, <1>2, <1>3, Tries
<1>5. \A id \in CommandIds : receipts'[id].notice \in 0..n
  <2> TAKE id \in CommandIds
  <2>1. receipts[id].notice \in 0..Len(notices)
    BY DEF NoticesCounted
  <2> QED
    BY <1>0, <1>1, <1>2, <2>1, Tries
<1>6. \A m \in 1..n : TriesBounded(m)'
  <2>1. TriesBounded(n)'
    <3>1. notices'[n].attempts = 0
      BY <1>3, <1>4
    <3>2. losses' = losses /\ 0 <= MaxDeliveries + losses /\ 0 < MaxDeliveries + losses
      BY <1>2, Tries
    <3> QED
      BY <3>1, <3>2 DEF TriesBounded
  <2>2. \A m \in DOMAIN notices : TriesBounded(m)'
    BY <1>2, <1>4 DEF NoticesCounted, TriesBounded, Holds
  <2>3. \A m \in 1..n : m = n \/ m \in DOMAIN notices
    BY <1>0, Tries
  <2> QED
    BY <2>1, <2>2, <2>3
<1>7. Len(notices') <= MaxNotices
  BY <1>0, <1>2, <1>4, Tries, NotificationBounds
<1>8. courier'.at \in 0..Len(notices')
  BY <1>0, <1>2, <1>4, Tries DEF NoticesCounted
<1> QED
  BY <1>2, <1>4, <1>5, <1>6, <1>7, <1>8 DEF NoticesCounted

\* A row the task or the clock rewrites.
LEMMA RowNow ==
  ASSUME NoticeInv, NoticesCounted, NEW n \in DOMAIN notices, NEW row \in Notice,
         notices' = [notices EXCEPT ![n] = row]
  PROVE  /\ DOMAIN notices' = DOMAIN notices /\ notices'[n] = row
         /\ \A m \in DOMAIN notices : m # n => notices'[m] = notices[m]
BY Tries, RowSet

LEMMA ClaimedRow ==
  ASSUME NEW row \in Notice, NEW k \in Nat
  PROVE  [row EXCEPT !.state = "processing", !.due = FALSE, !.attempts = k] \in Notice
BY DEF Notice

LEMMA ClaimCounted ==
  ASSUME NoticeInv, NoticesCounted, NoticeInv', NEW n \in DOMAIN notices, ClaimNotice(n)
  PROVE  NoticesCounted'
<1> DEFINE row == [notices[n] EXCEPT !.state = "processing", !.due = FALSE, !.attempts = @ + 1]
<1>0. notices[n] \in Notice /\ notices[n].attempts \in Nat
  BY Tries
<1>1. row \in Notice /\ row.attempts = notices[n].attempts + 1
  <2>1. PICK k \in Nat : k = notices[n].attempts + 1
    BY <1>0
  <2>2. row = [notices[n] EXCEPT !.state = "processing", !.due = FALSE, !.attempts = k]
    BY <2>1
  <2>3. row \in Notice
    BY <1>0, <2>2, ClaimedRow
  <2>4. row.attempts = k
    BY <1>0, <2>2 DEF Notice
  <2> QED
    BY <2>1, <2>3, <2>4
<1>2. /\ notices' = [notices EXCEPT ![n] = row]
      /\ courier' = [pc |-> "holding", at |-> n] /\ courier.pc = "idle"
      /\ notices[n].state \in {"pending", "processing"}
      /\ UNCHANGED <<receipts, window, losses>>
  BY DEF ClaimNotice
<1> HIDE DEF row
<1>3. /\ DOMAIN notices' = DOMAIN notices /\ notices'[n] = row
      /\ \A m \in DOMAIN notices : m # n => notices'[m] = notices[m]
  BY <1>1, <1>2, RowNow
<1>4. Holds(n)' /\ \A m : ~Holds(m)
  BY <1>2 DEF Holds
<1>5. TriesBounded(n)'
  <2>1. notices[n].attempts < MaxDeliveries + losses
    BY <1>2, <1>4 DEF NoticesCounted, TriesBounded
  <2> QED
    BY <1>1, <1>2, <1>3, <1>4, <2>1, Tries DEF TriesBounded
<1>6. \A m \in DOMAIN notices : m # n => TriesBounded(m)'
  BY <1>2, <1>3, <1>4 DEF NoticesCounted, TriesBounded
<1> QED
  BY <1>2, <1>3, <1>5, <1>6, CountKept DEF NoticesCounted

\* Sending, marking and coming due: the row's tries stay, and it is let go of
\* only when it is done with or has tries left.
LEMMA RowCounted ==
  ASSUME NoticeInv, NoticesCounted, NoticeInv', NEW n \in DOMAIN notices,
         (n = courier.at /\ (Send \/ MarkSent \/ MarkFailed)) \/ ComesDue(n)
  PROVE  NoticesCounted'
<1>1. PICK row \in Notice :
         /\ notices' = [notices EXCEPT ![n] = row] /\ row.attempts = notices[n].attempts
         /\ row.state \in {"pending", "processing"} =>
               \/ row.state = notices[n].state /\ (Holds(n)' <=> Holds(n))
               \/ notices[n].attempts < MaxDeliveries
  <2>1. CASE Send /\ n = courier.at
    <3> DEFINE row == [notices[n] EXCEPT !.confirmed = @ + 1]
    <3>1. row \in Notice /\ row.attempts = notices[n].attempts /\ row.state = notices[n].state
      BY Rows DEF Notice
    <3>2. notices' = [notices EXCEPT ![n] = row] /\ Holds(n)' /\ Holds(n)
      BY <2>1 DEF Send, Holds, NoticeInv, NoticeShapes, Couriers
    <3> QED
      BY <3>1, <3>2
  <2>2. CASE MarkSent /\ n = courier.at
    <3> DEFINE row == [notices[n] EXCEPT !.state = "sent"]
    <3>1. row \in Notice /\ row.attempts = notices[n].attempts /\ row.state = "sent"
      BY Tries DEF Notice
    <3> QED
      BY <2>2, <3>1 DEF MarkSent
  <2>3. CASE MarkFailed /\ n = courier.at
    <3> DEFINE state == IF notices[n].attempts >= MaxDeliveries THEN "failed" ELSE "pending"
               row == [notices[n] EXCEPT !.state = state]
    <3>1. row \in Notice /\ row.attempts = notices[n].attempts /\ row.state = state
      BY Tries DEF Notice
    <3>2. notices' = [notices EXCEPT ![n] = row]
      BY <2>3 DEF MarkFailed, Held
    <3>3. row.state \in {"pending", "processing"} => notices[n].attempts < MaxDeliveries
      BY <3>1, Tries
    <3> QED
      BY <3>1, <3>2, <3>3
  <2>4. CASE ComesDue(n)
    <3> DEFINE row == [notices[n] EXCEPT !.due = TRUE]
    <3>1. row \in Notice /\ row.attempts = notices[n].attempts /\ row.state = notices[n].state
      BY Tries DEF Notice
    <3>2. notices' = [notices EXCEPT ![n] = row] /\ (Holds(n)' <=> Holds(n))
      BY <2>4 DEF ComesDue, Holds
    <3> QED
      BY <3>1, <3>2
  <2> QED
    BY <2>1, <2>2, <2>3, <2>4
<1>2. /\ DOMAIN notices' = DOMAIN notices /\ notices'[n] = row
      /\ \A m \in DOMAIN notices : m # n => notices'[m] = notices[m]
  BY <1>1, RowNow
<1>3. /\ UNCHANGED <<receipts, window, losses>>
      /\ courier'.at = 0 \/ courier'.at = courier.at
  BY DEF Send, MarkSent, MarkFailed, ComesDue, IdleCourier, NoticeInv, NoticeShapes, Couriers
<1>4. \A m \in DOMAIN notices : m # n /\ Holds(m) => Holds(m)'
  BY DEF Send, MarkSent, MarkFailed, ComesDue, Holds
<1>5. TriesBounded(n)'
  BY <1>1, <1>2, <1>3, Tries DEF NoticesCounted, TriesBounded
<1>6. \A m \in DOMAIN notices : m # n => TriesBounded(m)'
  BY <1>2, <1>3, <1>4 DEF NoticesCounted, TriesBounded
<1> QED
  BY <1>2, <1>3, <1>5, <1>6, CountKept DEF NoticesCounted

\* A loss: the row the task held may be claimed once more.
LEMMA LossCounted ==
  ASSUME NoticeInv, NoticesCounted, NoticeInv', CourierDies \/ Restart
  PROVE  NoticesCounted'
<1>1. losses' = losses + 1 /\ losses < MaxLosses /\ UNCHANGED <<receipts, window>>
  BY DEF CourierDies, Restart
<1>2. courier'.at = 0 \/ courier'.at = courier.at
  BY DEF CourierDies, Restart, IdleCourier, NoticeInv, NoticeShapes, Couriers
<1>3. /\ DOMAIN notices' = DOMAIN notices
      /\ \A n \in DOMAIN notices : /\ notices'[n].attempts = notices[n].attempts
                                   /\ notices'[n].state = notices[n].state
  <2>1. CASE notices' = notices
    BY <2>1
  <2>2. CASE courier.pc = "sent" /\ notices' = [notices EXCEPT ![courier.at].confirmed = @ - 1]
    <3> DEFINE n == courier.at
               row == [notices[n] EXCEPT !.confirmed = @ - 1]
    <3>1. n \in DOMAIN notices /\ notices[n].confirmed = 1
      BY <2>2 DEF NoticeInv, ConfirmedIsMarked, Unmarked
    <3>2. row \in Notice /\ row.attempts = notices[n].attempts /\ row.state = notices[n].state
      BY <3>1, Rows DEF Notice
    <3>3. notices' = [notices EXCEPT ![n] = row]
      BY <2>2
    <3> HIDE DEF row, n
    <3> QED
      BY <3>1, <3>2, <3>3, RowNow
  <2> QED
    BY <2>1, <2>2 DEF CourierDies, Restart
<1>4. \A n \in DOMAIN notices : TriesBounded(n)'
  <2> TAKE n \in DOMAIN notices
  <2>1. notices[n].attempts \in Nat /\ notices[n].attempts <= MaxDeliveries + losses
    BY Tries DEF NoticesCounted, TriesBounded
  <2> QED
    BY <1>1, <1>3, <2>1, Tries DEF TriesBounded
<1>5. losses' \in 0..MaxLosses
  BY <1>1, Tries
<1> QED
  BY <1>1, <1>2, <1>3, <1>4, <1>5, CountKept DEF NoticesCounted

LEMMA DeleteCounted ==
  ASSUME NoticeInv, NoticesCounted, NoticeInv', DeleteRecipient
  PROVE  NoticesCounted'
<1>1. /\ notices' = [n \in DOMAIN notices |-> [notices[n] EXCEPT !.state = "deleted"]]
      /\ UNCHANGED <<receipts, window, courier, losses>>
  BY DEF DeleteRecipient
<1>2. \A n \in DOMAIN notices : /\ notices'[n].attempts = notices[n].attempts
                                /\ notices'[n].state = "deleted"
  BY <1>1, Tries DEF Notice
<1>3. \A n \in DOMAIN notices : TriesBounded(n)'
  BY <1>1, <1>2 DEF NoticesCounted, TriesBounded
<1> QED
  BY <1>1, <1>3, CountKept DEF NoticesCounted

\* Steps that change no row.
LEMMA QuietCounted ==
  ASSUME NoticeInv, NoticesCounted, NoticeInv', UNCHANGED <<receipts, notices, losses>>,
         window' <= MaxWindows, courier'.at = 0 \/ courier'.at = courier.at,
         \A n \in DOMAIN notices : Holds(n) /\ notices[n].state # "deleted" => Holds(n)'
  PROVE  NoticesCounted'
<1>1. \A n \in DOMAIN notices : TriesBounded(n)'
  BY DEF NoticesCounted, TriesBounded
<1> QED
  BY <1>1, CountKept DEF NoticesCounted

LEMMA NoticesCountedNext ==
  ASSUME NoticeInv, NoticesCounted, [NoticeNext]_noticeVars
  PROVE  NoticesCounted'
<1>1. NoticeInv'
  BY NoticeInvNext
<1>2. ASSUME NEW c \in Callers,
             (\E ask \in Asks : Begin(c, ask.id, ask.body)) \/ RollBack(c)
      PROVE  NoticesCounted'
  <2>1. UNCHANGED <<receipts, notices, window, courier, losses>>
    BY <1>2 DEF Begin, RollBack
  <2> QED
    BY <1>1, <2>1, QuietCounted DEF NoticesCounted, Holds
<1>3. CASE TwelveHours
  <2>1. window' <= MaxWindows /\ UNCHANGED <<receipts, notices, courier, losses>>
    BY <1>3, NotificationBounds DEF TwelveHours, NoticeInv, NoticeShapes
  <2> QED
    BY <1>1, <2>1, QuietCounted DEF Holds
<1>4. CASE SendFails \/ Vanished
  <2>1. /\ UNCHANGED <<receipts, notices, window, losses>>
        /\ courier'.at = 0 \/ courier'.at = courier.at
        /\ \A n \in DOMAIN notices : Holds(n) /\ notices[n].state # "deleted" => Holds(n)'
    BY <1>4 DEF SendFails, Vanished, Held, Holds, IdleCourier, NoticeInv, NoticeShapes, Couriers
  <2> QED
    BY <1>1, <2>1, QuietCounted DEF NoticesCounted
<1>5. CASE Send \/ MarkSent \/ MarkFailed
  <2>1. courier.at \in DOMAIN notices
    BY <1>5 DEF Send, MarkSent, MarkFailed, NoticeInv, ConfirmedIsMarked
  <2> QED
    BY <1>1, <1>5, <2>1, RowCounted
<1>6. CASE \E n \in DOMAIN notices : ClaimNotice(n) \/ ComesDue(n)
  BY <1>1, <1>6, ClaimCounted, RowCounted
<1>7. CASE UNCHANGED noticeVars
  BY <1>1, <1>7, QuietCounted DEF noticeVars, NoticesCounted, Holds
<1> QED
  BY <1>1, <1>2, <1>3, <1>4, <1>5, <1>6, <1>7, FinishCounted, LossCounted, DeleteCounted
     DEF NoticeNext, Deliver

(* A notice is tried no more often than configured, plus once for every    *)
(* task or process that was lost while holding it; receipts and task name  *)
(* rows that exist, and rows have their declared states.                   *)
THEOREM TriesStayBounded == NoticeSpec => []NoticeTypeOK
<1>1. NoticeInv /\ NoticesCounted => NoticeTypeOK
  <2> SUFFICES ASSUME NoticeInv, NoticesCounted PROVE NoticeTypeOK
    OBVIOUS
  <2>1. window \in 0..MaxWindows /\ losses \in 0..MaxLosses /\ Len(notices) <= MaxNotices
    BY NotificationBounds DEF NoticesCounted, NoticeInv, NoticeShapes
  <2>2. ASSUME NEW n \in DOMAIN notices
        PROVE  /\ notices[n] \in [id : CommandIds, window : 0..MaxWindows, due : BOOLEAN,
                      state : {"pending", "processing", "sent", "failed", "deleted"},
                      attempts : Nat, confirmed : Nat]
               /\ notices[n].attempts <= MaxDeliveries + MaxLosses
    <3>1. notices[n] \in Notice /\ notices[n].attempts \in Nat
      BY Tries
    <3>2. notices[n].window <= window /\ notices[n].window \in Nat
      BY <3>1 DEF NoticeInv, ReminderAlone, Notice
    <3>3. notices[n].window \in 0..MaxWindows
      BY <2>1, <3>2, NotificationBounds
    <3>4. notices[n].attempts <= MaxDeliveries + losses
      BY DEF NoticesCounted, TriesBounded
    <3>5. notices[n].attempts <= MaxDeliveries + MaxLosses
      BY <2>1, <3>1, <3>4, NotificationBounds
    <3> QED
      BY <3>1, <3>3, <3>5 DEF Notice
  <2> QED
    BY <2>1, <2>2 DEF NoticeTypeOK, NoticesCounted, NoticeInv, NoticeShapes, Couriers
<1> QED
  BY <1>1, NoticesCountedInit, NoticesCountedNext, NoticeInvariant, PTL DEF NoticeSpec

-----------------------------------------------------------------------------
(* The services side by side.                                              *)

(* Log and stream, jobs, notices and files keep the shapes their rows      *)
(* declare when a behaviour may follow any of the services: none of them   *)
(* disturbs another's rows.                                                *)
THEOREM ServicesKeepShape == ServicesSpec => []ServicesTypeOK
<1>1. ServicesInit => DeliveryInit /\ EnrichInit /\ NoticeInit /\ FileInit
  BY DEF ServicesInit
<1>2. [ServicesNext]_servicesVars => /\ [DeliveryNext]_deliveryVars
                                     /\ [EnrichNext]_enrichVars
                                     /\ [NoticeNext]_noticeVars
                                     /\ [FileNext]_fileVars
  BY DEF ServicesNext, servicesVars
<1>3. ServicesSpec => DeliverySpec /\ EnrichSpec /\ NoticeSpec /\ FileSpec
  BY <1>1, <1>2, PTL DEF ServicesSpec, DeliverySpec, EnrichSpec, NoticeSpec, FileSpec
<1>4. DeliverInv /\ EnrichTypeOK /\ NoticeTypeOK /\ FileInv => ServicesTypeOK
  BY DEF ServicesTypeOK, DeliverInv, FileInv, RowsInv
<1> QED
  BY <1>3, <1>4, DeliveryInvariant, AttemptsBounded, TriesStayBounded, FileInvariant, PTL
=============================================================================
