----------------------------- MODULE Enrichment -----------------------------
(***************************************************************************)
(* The related-questions job of one answered turn (AgentEnrichment), the   *)
(* workers that lease it (main.py, services/agent_enrichment.py), and the  *)
(* message row it shares with the card actions of                          *)
(* services/conversation.py: both write the whole widget list of a message *)
(* they loaded earlier.                                                    *)
(***************************************************************************)
EXTENDS Naturals, FiniteSets

CONSTANTS EnrichWorkers, MaxAttempts, MaxCardActions

ASSUME EnrichmentBounds == MaxAttempts \in Nat \ {0} /\ MaxCardActions \in Nat

VARIABLES
    job,      \* [status, attempts, lease, due]; status "gone" once the thread is deleted
    widgets,  \* the message's list: the state of its card, how many suggestions
    workers,  \* per worker: its step and the widget list it loaded
    action,   \* the card action: loaded or not, and the widget list it loaded
    acted,    \* card actions whose receipt committed
    raced     \* whether a list was saved while the other writer held an older one

enrichVars == <<job, widgets, workers, action, acted, raced>>

Settled == {"completed", "skipped", "failed", "gone"}
NoWidgets == [card |-> "none", suggestions |-> 0]
IdleWorker == [pc |-> "idle", seen |-> NoWidgets]

EnrichInit ==
    /\ job = [status |-> "pending", attempts |-> 0, lease |-> "none", due |-> TRUE]
    /\ widgets \in {NoWidgets, [card |-> "pending", suggestions |-> 0]}
    /\ workers = [w \in EnrichWorkers |-> IdleWorker]
    /\ action = IdleWorker
    /\ acted = 0 /\ raced = FALSE

(***************************************************************************)
(* Time: a retry becomes due, a lease outlives its TTL whether or not its  *)
(* worker still runs.                                                      *)
(***************************************************************************)
Due ==
    /\ job.status = "pending" /\ ~job.due
    /\ job' = [job EXCEPT !.due = TRUE]
    /\ UNCHANGED <<widgets, workers, action, acted, raced>>

LeaseExpires ==
    /\ job.status = "running" /\ job.lease = "held"
    /\ job' = [job EXCEPT !.lease = "expired"]
    /\ UNCHANGED <<widgets, workers, action, acted, raced>>

(***************************************************************************)
(* The workers.                                                            *)
(***************************************************************************)
Goto(w, pc) == workers' = [workers EXCEPT ![w].pc = pc]

\* Mutant: an expired lease is not claimed again.
Claimable_PendingOnly == job.status = "pending" /\ job.due

Claimable == \/ job.status = "pending" /\ job.due
             \/ job.status = "running" /\ job.lease = "expired"

\* Mutant: claims are not limited.
ClaimJob_Uncapped(w) ==
    /\ workers[w].pc = "idle" /\ Claimable
    /\ job' = [job EXCEPT !.status = "running", !.attempts = @ + 1, !.lease = "held"]
    /\ Goto(w, "leased")
    /\ UNCHANGED <<widgets, action, acted, raced>>

ClaimJob(w) ==
    /\ workers[w].pc = "idle" /\ Claimable
    /\ UNCHANGED <<widgets, action, acted, raced>>
    /\ \/ /\ job.attempts >= MaxAttempts
          /\ job' = [job EXCEPT !.status = "failed", !.lease = "none"]
          /\ UNCHANGED workers
       \/ /\ job.attempts < MaxAttempts
          /\ job' = [job EXCEPT !.status = "running", !.attempts = @ + 1, !.lease = "held"]
          /\ Goto(w, "leased")

SettleJob(status) == job' = [job EXCEPT !.status = status, !.lease = "none"]

(* The first transaction: the job must still run; it ends here when it was *)
(* rolled back, lost its source or is already stored.                      *)
Prepare(w) ==
    /\ workers[w].pc = "leased"
    /\ UNCHANGED <<widgets, action, acted, raced>>
    /\ \/ job.status # "running" /\ Goto(w, "idle") /\ UNCHANGED job
       \/ /\ job.status = "running"
          /\ \/ SettleJob("skipped") /\ Goto(w, "idle")
             \/ widgets.suggestions > 0 /\ SettleJob("completed") /\ Goto(w, "idle")
             \/ widgets.suggestions = 0 /\ Goto(w, "calling") /\ UNCHANGED job

\* Mutant: the suggestion replaces the message's other widgets.
LoadMessage_Blank(w) ==
    /\ workers[w].pc = "calling"
    /\ workers' = [workers EXCEPT ![w] =
                      IF job.status = "running" THEN [pc |-> "storing", seen |-> NoWidgets]
                      ELSE IdleWorker]
    /\ UNCHANGED <<job, widgets, action, acted, raced>>

(* The last transaction loads the job and the message ... *)
LoadMessage(w) ==
    /\ workers[w].pc = "calling"
    /\ workers' = [workers EXCEPT ![w] =
                      IF job.status = "running" THEN [pc |-> "storing", seen |-> widgets]
                      ELSE IdleWorker]
    /\ UNCHANGED <<job, widgets, action, acted, raced>>

\* Mutant: a suggestion is stored beside an earlier one.
Store_Again(w) ==
    /\ workers[w].pc = "storing" /\ job.status # "gone"
    /\ workers' = [workers EXCEPT ![w] = IdleWorker]
    /\ widgets' = [workers[w].seen EXCEPT !.suggestions = @ + 1]
    /\ raced' = (raced \/ action.pc = "acting")
    /\ SettleJob("completed")
    /\ UNCHANGED <<action, acted>>

(* ... and commits both; an empty answer leaves the message alone. *)
Store(w) ==
    /\ workers[w].pc = "storing" /\ job.status # "gone"
    /\ workers' = [workers EXCEPT ![w] = IdleWorker]
    /\ UNCHANGED <<action, acted>>
    /\ LET seen == workers[w].seen IN
       \/ /\ seen.suggestions = 0
          /\ widgets' = [seen EXCEPT !.suggestions = @ + 1]
          /\ raced' = (raced \/ action.pc = "acting")
          /\ SettleJob("completed")
       \/ /\ UNCHANGED <<widgets, raced>>
          /\ SettleJob(IF seen.suggestions > 0 THEN "completed" ELSE "skipped")

(* Any exception, a row deleted under the transaction included, reports    *)
(* itself without looking at what the job has become meanwhile.            *)
Raises(w) ==
    /\ workers[w].pc \in {"leased", "calling", "storing"}
    /\ Goto(w, "reporting")
    /\ UNCHANGED <<job, widgets, action, acted, raced>>

RecordFailure(w) ==
    /\ workers[w].pc = "reporting"
    /\ workers' = [workers EXCEPT ![w] = IdleWorker]
    /\ UNCHANGED <<widgets, action, acted, raced>>
    /\ \/ UNCHANGED job   \* the job is gone, or reporting failed too
       \/ /\ job.status # "gone"
          /\ \/ job' = [job EXCEPT !.status = "failed", !.lease = "none"]
             \/ /\ job.attempts < MaxAttempts
                /\ job' = [job EXCEPT !.status = "pending", !.lease = "none", !.due = FALSE]

(* The process dies with its workers and its requests. *)
EnrichCrash ==
    /\ workers' = [w \in EnrichWorkers |-> IdleWorker]
    /\ action' = IdleWorker
    /\ UNCHANGED <<job, widgets, acted, raced>>

(***************************************************************************)
(* The other writer of the message, and the deletion of the thread.        *)
(***************************************************************************)
LoadCard ==
    /\ action.pc = "idle" /\ acted < MaxCardActions
    /\ widgets.card = "pending"
    /\ action' = [pc |-> "acting", seen |-> widgets]
    /\ UNCHANGED <<job, widgets, workers, acted, raced>>

SaveReceipt ==
    /\ action.pc = "acting" /\ job.status # "gone"
    /\ widgets' = [action.seen EXCEPT !.card = "completed"]
    /\ raced' = (raced \/ \E w \in EnrichWorkers : workers[w].pc = "storing")
    /\ action' = IdleWorker
    /\ acted' = acted + 1
    /\ UNCHANGED <<job, workers>>

DeleteThread ==
    /\ job.status # "gone"
    /\ job' = [job EXCEPT !.status = "gone", !.lease = "none"]
    /\ widgets' = NoWidgets
    /\ UNCHANGED <<workers, action, acted, raced>>

WorkerStep(w) == Prepare(w) \/ LoadMessage(w) \/ Store(w) \/ Raises(w) \/ RecordFailure(w)

EnrichNext ==
    \/ Due \/ LeaseExpires \/ EnrichCrash \/ LoadCard \/ SaveReceipt \/ DeleteThread
    \/ \E w \in EnrichWorkers : ClaimJob(w) \/ WorkerStep(w)

EnrichFairness ==
    /\ WF_enrichVars(Due) /\ WF_enrichVars(LeaseExpires)
    /\ WF_enrichVars(\E w \in EnrichWorkers : ClaimJob(w))
    /\ \A w \in EnrichWorkers : WF_enrichVars(WorkerStep(w))

EnrichSpec == EnrichInit /\ [][EnrichNext]_enrichVars

-----------------------------------------------------------------------------
WidgetLists == [card : {"none", "pending", "completed"}, suggestions : Nat]

(* Rows and worker states have their declared shapes; attempts, counted at *)
(* the claim, never pass the configured maximum, crashes included.         *)
EnrichTypeOK ==
    /\ job \in [status : {"pending", "running"} \cup Settled, attempts : 0..MaxAttempts,
                lease : {"none", "held", "expired"}, due : BOOLEAN]
    /\ widgets \in WidgetLists
    /\ workers \in [EnrichWorkers ->
                      [pc : {"idle", "leased", "calling", "storing", "reporting"},
                       seen : WidgetLists]]
    /\ action \in [pc : {"idle", "acting"}, seen : WidgetLists]
    /\ acted \in 0..MaxCardActions /\ raced \in BOOLEAN

(* However leases expire and answers arrive late, a message carries at     *)
(* most one suggestion widget.                                             *)
SuggestedOnce == widgets.suggestions <= 1

(* The suggestion and a card's receipt survive each other unless their     *)
(* last transactions overlapped: the call to the provider, which takes     *)
(* seconds, is not part of the window.                                     *)
LostOnlyByOverlap ==
    ~raced /\ job.status # "gone" =>
        /\ job.status = "completed" => widgets.suggestions = 1
        /\ acted > 0 => widgets.card = "completed"

(* The job ends for good, whatever crashes: attempts bound the late        *)
(* reports that can reopen it.                                             *)
EnrichmentSettles == <>[](job.status \in Settled)
=============================================================================
