# Verification of the Fyn backend

Fyn is a conversational personal-finance application: a FastAPI backend
(`src/backend/app`) over PostgreSQL and a web client. This directory holds TLA+
specifications of the backend's core logic, the TLC instances that check them,
and TLAPS proofs of what matters most. Paths below are relative to
`src/backend/app` unless they start with `docs/`, which is `src/docs/`.

Contents: 1 inventory, 2 plan, 3 modules and their correspondence with the code,
4 runs and bounds, 5 fairness, 6 proofs, 7 disagreements found, 8 what is
abstracted and what is not modelled.

## 1. Inventory

| Component | State | Operations | Interacts through | Correct when |
|---|---|---|---|---|
| Durable agent runs (`services/agui.py`, `api.py`, `main.py`) | `agent_runs`, `agent_events`, assistant messages; executor threads, publishers, recovery workers in memory | `POST /agent`, cancel, delete conversation, `execute_run`, recovery claim, lease heartbeat, startup, crash | rows, threads, the unique `(run_id, sequence)` | a turn commits once; row, log and reply agree; every run ends; outcomes are final |
| Human-in-the-loop interrupts (`services/conversation.py`, `continuations.py`, `agui.py`) | interrupts, widget receipts, continuation state | open, answer, resume, supersede | admission gate of the runs | an approval runs once; an open interrupt gates its thread and is never lost |
| Event delivery (`services/agui.py`, `api.py`, `frontend/src/lib/api.ts`) | event rows, listener queues, replay cursor | batch, commit, deliver, reconnect, replay | the run's log | each listener sees every sequence once, in order, after commit |
| Enrichment outbox (`services/agent_enrichment.py`) | jobs with lease and attempts | enqueue, claim, process, record failure | provider calls between transactions | bounded attempts, no result of an older claim applied |
| Files and cleanup (`services/files.py`, `file_cleanup.py`, `document_assets.py`, `object_storage.py`) | asset rows, objects, deletion outbox | reserve, upload, bind, remove, cleanup | object store outside the transaction | referenced objects stay, unreferenced ones go, quotas hold |
| Personal lending (`services/personal_loans.py`, `documents.py`, `shared_records.py`) | agreement, terms, revisions, acknowledgements, cashflows, projections | create, join, amend, acknowledge, provide documents, fund, pay, confirm, close, delete account | one agreement row lock; two people acting on what they last read | one agreed version in force; both see the same loan; settled owes nothing |
| Lending notifications (`services/lending_notifications.py`) | outbox rows | queue, claim, deliver | provider, delivery task of `main.py` | each is delivered or reported failed; a failure leaves the loan alone |
| Idempotent commands (`services/shared_records.py`) | command receipts | begin, finish | unique key; every lending command | a repeated command has one effect and one answer |
| Ledger and reconciliation (`services/transactions.py`, `reconciliation.py`) | transactions with versions and tombstones, observations | ingest, resolve, edit, remove, restore | several sources, chat and UI edits | no observation counted twice, no edit lost |
| Operation catalog (`operations/`) | definitions, generations | hot reload, resolve, execute | approvals made from an older generation | an approval runs what was approved |
| Identity, codes, sessions (`services/otp.py`, `identity.py`, `sessions.py`) | codes, identities, sessions | request, verify, rotate | single-row transactions | codes and sessions are used once and expire |
| Calculators, calendar, extraction (`services/calculators.py`, `finance_time.py`, `extraction.py`) | none | pure functions | called by tools | equal to a reference definition |
| Agents, analysis and SQL lanes, external sources, web client, deployment | prompts, queries, configuration | | | outside, see section 8 |

Behaviours that are hard: a request thread, recovery workers and other
processes executing the same run; a crash between any two commits of a turn;
leases that expire under a live owner; cancellation and deletion during a turn;
a chain of predecessors inside a conversation; two people amending, paying and
confirming one loan from stale views; objects and providers outside the
transaction; retries of what was already done. `PROJECT.json` lists each hazard
at its line, with the properties that cover it, or why none does.

## 2. Plan

In the order of what matters most to the program:

1. `RunStream`, `AgentRuns`: **done**. Execution of runs has most of the program's
   concurrency; `RunStream` is the abstract promise to clients, which `AgentRuns`
   implements.
2. `PersonalLoan`: **done**.
3. `Interrupts` (the gate, widget receipts and the commits of a resume) and `Ledger`
   (sources, reviews, edits): **done**, checked together by `MCLedger`.
4. `Delivery`, `Enrichment`, `Notifications` (with idempotent commands), `FileStore`:
   **done**, checked together by `MCServices`.
5. Inductive invariants and proofs of 1 to 4, every safety property that a passing run
   checks and the compositions: **done**.

Worth adding, in this order: an abstract agreement ("one version in force, changed only
by both") that `PersonalLoan` implements, and an abstract question ("asked, answered
once, never changed") that `Interrupts` does; the byte quota and the statement imports
behind `FileStore`; the retry of a request under its `client_message_id`. What is not
planned, and why, is in section 8.

## 3. Modules

### RunStream
What a client of a run may rely on: `RUN_STARTED` opens the stream once, activity
follows, one terminal event closes it; a run that failed or was cancelled before it
began has only that terminal event.

### AgentRuns
One step is one database transaction, or a decision between two.

| Variables | Code |
|---|---|
| `kind`, `status`, `blockedBy`, `cancelRequested`, `phase`, `attempts`, `lease` | columns of `AgentRun` (`models.py:339`) |
| `log` | `AgentEvent` rows by sequence (`models.py:451`) |
| `reply` | the assistant message admission reserves |
| `up`, `cutoff`, `workers` | running processes, their startup time and recovery pool (`main.py`) |
| `exec` | an executor thread of `execute_run` with its publisher: place, last known sequence, pending events, heartbeat |
| `commits` | history only: how often the governed turn committed |

| Actions | Code |
|---|---|
| `Admit`, `Cancel`, `DeleteConversation` | `api.py` |
| `Boot`, `WaitOver`/`WaitCancelled`/`WaitTimeout`, `Begin`, `Hello`, `Progress`, `TurnCancelled`, `TurnFailed`, `TurnCommits`, `Checkpoint`, `Resume`, `Reenter`, `Finish`, `FencedOut`, `RowGone` | `execute_run` and `DurableEventPublisher` of `agui.py` |
| `Repair`, `Condemn`, `Adopt` | the branches of `claim_agent_recovery_work` |
| `Renew`, `Expire` | the lease heartbeat of `main.py`, and time |
| `Start`, `Crash` | lifespan of a process |
| `CallFails`, `ReportFails`, `HeartbeatFails`, `ClaimFails` | a database call that raises, and whose handler meets it |

`AgentRunsInv` holds the inductive invariant, `MCAgentRuns` the functions the
configurations choose for `ThreadOf`.

### PersonalLoan
Every command locks the agreement row first and commits once, so a command is one
step. What interleaves is the two people: `fresh` is who has read the present
`row_version`, `seen` how many term versions each has read. `terms` are the term
versions with the acknowledgements of their document revision (they are created
one to one), `payments` the repayments, `disbursement` the funding cashflow,
`projected` the row of each portfolio. `Create`, `Redeem`, `DeleteAccount`, `Read`,
`Accept`, `ProposeTerms`, `Fulfill`, `RecordFunding`, `ConfirmFunding`,
`RecordPayment`, `ConfirmPayment` and `Close` are the commands; `Rebuild` is
`rebuild_projections`, evaluated on the state after everything else changed. Some
commands compare `expected_row_version` (`UpToDate`), others do not, as in the code.

### Interrupts
One conversation. `cards` are its persisted widgets in the order they were saved, each
with the *subject* it is about (a draft, a goal, a statement, a clarification);
`questions` the `AgentInterrupt` of each card; `drafts` and `ledger` what the domain
keeps: the state of a draft, and how often each subject was posted. `requests` are
the conversation's runs in admission order, each at the last of its commits. A question
is `Answerable` when it is the only open one and its card is pending: a resume must
name every open question and is refused when it names two (`agui.py:992-1001`).

| Actions | Code |
|---|---|
| `PostMessage`, `PostAction`, `PostResume`, `Upload` | the gate of `create_agent_run` (`api.py`), with its superseding of open questions; statement upload |
| `Reply`, `Reject` | a message's turn, a resume that fails its checks |
| `LoadAction`, `LoadResume` | what a request reads before its first commit, a replay of an answered question included |
| `ContributeGoal`, `CommitImport`, `ConfirmDraft`, `ChooseField`, `CancelDraft`, `ResolveClarification`, `RefuseClarification` | the domain effect of a card (`conversation.py`), committed on its own |
| `Receipt`, `CloseQuestion`, `CloseClarification`, `Decline`, `ChooseToCancel`, `OpenQuestion`, `Finish` | the commits that follow |
| `Fail` | an error or a process that ends between any two of them |

### Ledger
One real purchase, which several sources report. `observations` are the raw events,
`txs` the transactions with `row_version`, `revisions` the last `TransactionRevision`
of each, `sources` the `TransactionSource` rows. A session reads (`BeginIngest`,
`LoadResolution`) and later commits (`CommitIngest`, `CommitResolution`) or rolls back;
`RecordManually`, `Edit`, `RemoveTx`, `RestoreTx` and `RemoveInChat` are the other writers.
`together` is history: which ingestions overlapped.

`screen` is an editor somebody has open and the save under way from it. A save takes two
steps: `SendEdit` loads the row without a lock, `Edit` locks it and compares, and what it
compares is the version `SendEdit` loaded, because a locked read does not refresh an object
the session already has. `Revise` therefore has the unique revision number as a guard
(`models.py:594`). `Identified` are the observations that carry their source's own id: a
transaction that has another one of the same source is never matched (`Conflicting`).
`AttachedRows` gives the rows an attached source may leave: confirmed, with the merchant
as it was or, if the names are alike, as that source spells it.

No save is without a version, although `update_saved_transaction` takes one as optional
(`transactions.py:649`). It has two callers. The HTTP interface answers 428 without one
(`api.py:1273`). In the chat, `handle_action` is called by `_action_response` only
(`agui.py:744`), after `prepare_widget_action` has refused an action that is not on a
persisted, pending card (`conversation.py:219-235`); the version is then taken from that
card, whatever the request says (`agui.py:738-743`), and the one card that offers this action
is built with the transaction's `row_version`, which is never null
(`conversation.py:2450-2476`). That is `NamedVersion`.

### Delivery
How one run's events reach a browser. `log` are the committed rows, `pending` and
`publishing` what the publisher has buffered and has still to hand over, `queue` the
live queue of `POST /agent`, `poll` the loop of `GET /agent/runs/{id}/events`, which
reads rows and run state in two statements, `heard` and `safe` the client's memory and
its replay-safe cursor. `Drop`, `Reload`, `Die` and `Raise` are the faults; `Condemned` is
recovery ending a run without listeners.

### Enrichment
The related-questions job of a turn. `job` is the `AgentEnrichment` row, `workers` the
threads that lease it, `widgets` the list on the message, which a worker and a card
action each load whole and write back whole. `ClaimJob`, `Prepare`, `LoadMessage`,
`Store`, `Raises`, `RecordFailure` are a worker's transactions, with the provider
call between `Prepare` and `LoadMessage`; `LoadCard`, `SaveReceipt` and `DeleteThread`
come from the conversation; `LeaseExpires`, `Due` and `EnrichCrash` are time and
failure.

### Notifications
`begin_command` and `finish_command` with the notification queued in the same
transaction, for a command that locks its record first (a reminder) and one that
has none yet (a creation, whose racing attempts meet at the unique key); then the
delivery task: `ClaimNotice`, `Send`, `SendFails`, `MarkSent`, `MarkFailed`, its lease, the
crash of the process and the death of the task alone (`CourierDies`).

### FileStore
One owner. Keys are files reserved by the owner (attachments of messages and
library documents) and copies made for a revision. `rows` and `bytes` are the database and the
object store, `outbox` the deletion entries. `CountFiles`/`Reserve` hold the owner's
lock; `StartUpload`, `LoadForSaving`, `WriteObject`, `CommitUpload`, `AbortUpload` are an
upload, with the object written before its row commits; `CopyForRevision`,
`CommitRevision`, `AbandonRevision` copy a document; `Remove`, `RemoveExpired`,
`SweepDue`, `CommitSweep` are removal and the cleaner; `FileCrash` may come anywhere.

### MCLedger, MCServices
Components that share no row are checked in one run: the behaviour chooses one
(`side`, `service`) and leaves the others at an initial state, so a run explores the
union of their behaviours, not the product.

## 4. Runs and bounds

| Run | Instance | Shows |
|---|---|---|
| `runs_two_processes` | 2 processes, 1 run, 3 executor slots, 2 crashes, 2 failing calls | `TypeOK`, `IInv`, `TurnAtMostOnce`, `TerminalMatchesLog`, `AnswerStands` although two processes execute the same run |
| `runs_chain` | 1 process, 3 messages of one conversation, 1 crash | `OneExecutorPerRun`, `OverlapNeedsSkip`, `CancelKeepsAnswer`, `TerminalIsFinal` |
| `runs_liveness` | 1 process, 2 commands (a message and a resume possible), 2 crashes, fairness | `EveryRunEnds`; `StreamProtocol`: `log` implements `RunStream` |
| `runs_overlap` | 3 messages, no crash | violation of `OneTurnAtATime` |
| `runs_drain` | 2 conversations, 1 recovery worker, 1 crash, fairness | violation of `OldWorkDrains` |
| `runs_cancel` | 1 message, 1 crash | violation of `CompletedAnswerReturned` |
| `lending` | principal 1, interest 0 or 1, four versions and repayments together | `TypeOK`, `IInv`, `TermsInForce`, `PortfoliosAgree`, `SettledOwesNothing`, `NoBlindAcknowledgement` |
| `lending_agreed` | the same | violation of `AgreedBeforeActive` |
| `lending_documents` | the same | violation of `RequiredDocumentsFirst` |
| `lending_allocation` | the same | violation of `AllocatedAtConfirmation` |
| `ledger_side` | `Interrupts` with 3 requests, 3 cards, 1 failure, 1 upload; `Ledger` with a manual, an SMS and a bank observation, 2 sessions, 2 transactions, 3 versions | `LedgerSideTypeOK`, `PostedOnce`, `RepeatNeedsFailure`, `DeclinedPostsNothing`, `TwoQuestionsNeedQueue`, `UnanswerableHasCause`, `ClosedStaysClosed`; `ObservationCountedOnce`, `TwinsNeedOverlap`, `EditsSeeEdits` |
| `services` | `Delivery` with 3 events, 2 drops; `Enrichment` with 3 workers, 4 attempts, 2 card actions; `Notifications` with 2 callers, 2 notices, 2 deliveries, 1 loss; `FileStore` with one key of each kind, 2 uploads, 2 reservations, limit 1; fairness | `ServicesTypeOK`; `HeardIsPrefix`, `ClosedHeardAll`, `StreamEnds`; `SuggestedOnce`, `LostOnlyByOverlap`, `EnrichmentEnds`; `OneEffectPerKey`, `RemindersSpaced`, `ConfirmedOnce`; `CompleteHasBytes`, `BytesAccountedFor`, `UnfinishedBounded` |

Why the bounds are enough. The runs of different conversations share only the
recovery pool, so interference on one run needs one run, two processes and two
crashes: one to orphan it, one to orphan its first recovery. Two failing calls let
a handler and what reports it fail together. Three messages are the least in which
a run in the middle of a chain can end early. `MaxActivity` bounds progress events,
all alike to the protocol. For one loan, a balance of at most 2 tells partial, full
and double payment and interest from principal; four entries allow three versions
and a payment, two of each, or three repayments of one version. The proofs of
section 6 have no such bounds.

For a conversation's cards, three requests are the least in which one opens a
question, another was queued behind it and a third meets what they left; three
cards give a card, its follow-up and an unrelated one. One failure is placed
between any two commits. For the ledger, two sessions overlap, three observations come
from the three kinds of source, and three versions give two edits after creation;
sessions differ in nothing but their names (the symmetry of `MCLedger`). One source
reports once there, so `Conflicting` is false in that run. With two SMS observations of
different ids and a bank one (9 700 240 states, too long for a standing run) the ledger
properties hold as well, and the proofs are for every set of observations. For delivery,
three events give text, a replay-safe note and the end; two drops let a replay be
lost after the live stream was. Three enrichment workers are a late one, its
successor and a third, and four attempts let each claim expire once. The file store
needs two uploads of one reservation and two reservations for one free place.

Deadlock is not checked: the bounded systems stop when
every request is admitted and ended, and a loan that is closed has no duty to go on.

Each property of a passing run has a mutant in `PROJECT.json`: an operator next to the
definition it stands in for, marked "Mutant", under which TLC finds the property
violated.

## 5. Fairness

Liveness is stated for `AgentRuns`, `Delivery` and `Enrichment`.

`AgentRuns`: weak fairness of `ExecutorStep(s)`: executors are operating-system threads;
model and database calls return or raise; the wait for a predecessor ends after 300
seconds. Weak fairness of `Recover(p)`: workers poll in a loop. Of `Expire(r)`: leases
age by the clock. Of `Start(p)`: the container has `restart: unless-stopped`
(`infra/deploy/docker-compose.prod.yml`). `EveryRunEnds` excepts a process whose
recovery workers have all ended, because that does happen (`runs_drain`).

`Delivery`: the executor emits its terminal event, commits and hands over
(`Emit("end")`, `CommitBatch`, `PublishLive`, `Stop`), recovery ends what a dead
process left (`Condemned`, which `runs_liveness` establishes for the run itself), and
the client's and the server's loops go on (`Listener`). `Enrichment`: workers poll
(`ClaimJob`), a worker's step returns or raises, leases and retries age by the clock.

Clients owe nothing: no request, cancellation, deletion, reload or card action is fair.
Crashes, failing calls and drops are bounded, never fair. The delivery task of the
notifications has no liveness property: it dies of an exception it does not foresee
and only a restart begins it again. Nor has the cleaner of the files; a copy made for a
revision that rolled back has no entry to be found by.

## 6. Proofs

Every theorem is for every value of the constants that satisfies the assumptions named in
the modules: bounds are numbers (`DeliveryBounds`, `EnrichmentBounds`,
`NotificationBounds`, `InterruptBounds`), a transaction has a first version and
observations of different kinds are different (`LedgerBounds`), keys of different kinds are
different and finitely many (`FileBounds`). Two groups of theorems about `AgentRuns`
assume more, and say so: no failing database call, and one process.

Every safety property and every action property of the passing runs is a theorem. A
property says what a client sees and is seldom inductive: it does not say what somebody in
the middle of a transaction holds. So each component has an inductive invariant, checked
by TLC before it was proved, one lemma per action or per kind of change that keeps it,
and theorems that draw the properties from it.

* `AgentRunsProofs`: `InductiveInvariant` (`Spec => [](TypeOK /\ IInv)`),
  `TypeCorrect`, `TurnCommitsOnce`, `RowAndLogAgree`, `AnswersStand`. `IInv` adds what an
  executor holds in memory. An executor is fenced unless its base equals the length of
  the log; one that is not fenced and has not emitted its first event faces an empty log
  or a checkpoint; the log is empty exactly while no turn started; so of all executors
  of a run, only one passes from `hello` to `turn` (`OneTurn`), and a turn commits
  when no turn of the run has.

  `StreamRefinement`: every step of `AgentRuns` is a step of `RunStream` or a stutter on
  `log`, assuming `MaxFaults = 0`. With failing calls it does not hold: a terminal
  commit that raises leaves its event buffered, and the handlers commit it together with
  `RUN_ERROR`. The extra invariant says that an unfenced executor in its handlers has
  exactly one event to record.
* `AgentRunsOneProcessProofs`: `RunsHaveOneExecutor`, `CancelledAnswersStay`,
  `TurnsOverlapPastSkips`, `OutcomesAreFinal`, for the deployment with one process on a
  database that answers (`OneProcess`), any number of runs, conversations, workers,
  executors and crashes. `OneProcess`
  is needed: with two processes TLC finds two executors of one run, an outcome
  taken back, and turns that overlap without a skip; with one process, two recovery
  workers and a heartbeat that fails, the first two. (`CancelKeepsAnswer` it did
  not refute in either instance; the theorem is for one process all the same.) `OwnInv` says why recovery
  never meets a live executor: a request's run is younger than the process's cutoff, a
  recovered one has a beating lease, and nobody else wrote to the log. `OrderInv`: runs
  are admitted in order, each behind the newest active one of its conversation.
  `ChainInv`: a run that got past its wait left no active run before it, unless one
  between them ended without starting; the newest active predecessor exists because
  every bounded set of numbers has a greatest (`GreatestNumber`). `OutcomeInv`: a run
  with an outcome is no longer active. TLC checked the four on the instance of
  `runs_chain` (435 526 states).
* `PersonalLoanProofs`: `LoanInvariant`, `TermsStayInForce`, `NobodyAgreesUnread`. `IInv`
  couples the version history with the parties' views: whoever has read the present
  `row_version` has read every version of the terms, because each command that adds one
  raises it. `PortfoliosStayEqual`: every command that changes what a row of a portfolio
  shows rebuilds it after its last change, and whoever does not rebuild changes nothing
  shown. `SettledLoansOweNothing`: what has been paid only grows, the interest in force of a settled
  loan does not change, and closing names who asked and waits for the security.
  `LoanTypes`: balances and allocations stay in range; the confirmed sum of a
  version is the number of units its repayments cover (`Units`, a set), so its lemmas are
  about `Cardinality` and no induction over the repayments is needed.
* `InterruptsProofs`: `DraftsPostOnce`, `RepeatsFollowFailures`, `DeclinedLeavesNothing`,
  `SecondQuestionsWereQueued`, `UnanswerableQuestionsHaveCause`, `AnswersAreKept` (a resolved
  question never changes, an action property), `InterruptTypes`. The first half says
  of every action which kind of step it is (`Replies`, `Loads`, `Acts`, `Receives`, `Closes`,
  `Opens`, ...): one request moves, at most one card is added or rests, at most one
  question opens or closes. The second keeps the three parts of `InterruptInv` from
  that alone. Requests (`OrderSound`, `RequestSound`, `ResumeSound`, `FollowSound`): one
  executes at a time, its question is open or was superseded under it, and the card it
  will ask with is nobody's target yet. Questions (`QuestionSound`, `AskerSound`,
  `CardSound`, `GateSound`, `ActionSound`): two open questions have two askers, a card
  leaves an open question only by a request on it, and what was admitted while a question was open and did not
  supersede it cannot ask before that question closes. `GateSound` is the heart of it: it is
  what the gate of `api.py` buys once requests wait in a queue. Posts (`SubjectSound`,
  `PostSound`, `TraceSound`): once a subject is posted its card is not loaded
  again, and every posting is accounted for by a failure or action on it, by the approved
  question of its card, or by the resume that is executing. TLC checked the invariant with
  3 requests, 3 cards, a failure and an upload (223 001 states) and with 4 requests.
* `LedgerProofs`: `CountedOnce`, `TwinsOverlapped`, `EditsFollowScreens`, `LedgerTypes`.
  `LedgerInv` adds what a session holds between reading and committing (`SessionsSound`),
  that an observation has a source exactly when it is attached (`SourcesSound`), that what
  a save loaded is a version the row had, and an editor showing the present version of a live
  row shows that row unless a second source came to it (`ScreenSound`). The last revision's number
  is the row's version (`EditsSound`), so the unique number lets a save commit only if
  what it loaded is the present version. A row nobody touched carries the reported merchant,
  so whoever begins to ingest later matches it, unless it holds another purchase of
  the same source, and whoever is at it overlapped the session that committed it
  (`OverlapSound`).
* `DeliveryProofs`: `DeliveredInOrder` (`HeardIsPrefix`), `ClosedIsComplete`
  (`ClosedHeardAll`). `DeliverInv` adds where everything not yet heard is: the queue
  continues what was heard, what is still to be handed over continues the queue to
  the end of the log (`LiveInOrder`); a replay resumes inside what was heard, and once
  it has read that the run is over the log stays as it read it (`ReplayInOrder`);
  nothing follows the terminal event (`EndIsLast`).
* `ServicesProofs`, enrichment: `OneSuggestion`, `LossNeedsOverlap`, `AttemptsBounded`.
  `EnrichInv` adds that every list a writer holds has at most one suggestion
  (`ListsAreShort`) and, until two last transactions overlap, is the list as it is, or
  one whose suggestions are older (`ListsAreCurrent`).

  Notifications: `OneEffect`, `RemindersKeepDistance`, `DeliveredOnce`, `TriesStayBounded`.
  `NoticeInv` adds that a receipt names the one notice of its key (`ReceiptsName`), that
  whoever holds a record's lock has seen no reminder of its period and nobody else
  holds it (`ReminderAlone`), and that a confirmed send is marked or about to be
  (`ConfirmedIsMarked`). A row nobody holds that may be claimed again has a try left or
  one that a crash cost (`TriesBounded`): the bound on attempts is `MaxDeliveries` plus
  the losses, not `MaxDeliveries`.
* `FileStoreProofs`: `CompleteFilesAreStored`, `NoLostBytes`, `UnfinishedWithinLimit`.
  `FileInv` adds that a writer holds the live, not overdue row of its key, alone
  (`WritersHoldTheirRow`), that an entry is due only when its row is over (`DueIsOver`),
  that a copy in hand equals its locked document (`CopyIsFaithful`), that what the
  cleaner swept is empty (`SweptIsEmpty`), and that whoever counted holds the only lock
  and found room (`CountedUnderLock`).
* Compositions: `SidesKeepShape` (`LedgerProofs`) and `ServicesKeepShape`
  (`ServicesProofs`) are about the specifications TLC runs. A step of the composition is
  a step of each component or leaves its rows alone, so the composition implies every
  component's specification, and with it every theorem above.

Model-checked only: the liveness properties `EveryRunEnds`, `StreamEnds` and
`EnrichmentEnds`, because liveness under fairness and `ENABLED` are beyond the prover, and
the violations of section 7, which are counterexamples. Induction over data is out of
reach too, and no property needs it.

## 7. Disagreements with the documentation

1. `runs_overlap`: "Runs in one conversation form a persisted predecessor chain, so
   concurrent clients cannot race replies or mutations" (docs/AG_UI_RUNTIME.md:295).
   A run waits for its immediate predecessor only; when that one is cancelled
   or times out while waiting, the next turn overlaps the first.
   `OverlapNeedsSkip` shows this is the only way.
2. `runs_drain`: "At startup, old work drains through leased database claims and a
   fixed-size worker pool" (:112). Deleting the conversation of a run in recovery
   ends the worker for good.
3. `lending_agreed`: the invited person can confirm the funding recorded at creation
   before accepting the terms, which makes the loan active.
4. `lending_documents`: a borrower who proposes terms acknowledges them without the
   required documents; the lender's acceptance puts them in force.
5. `lending_allocation`: repayments are allocated when recorded, not when confirmed.
6. `runs_cancel`: "If a governed financial operation has already completed, its verified
   response is returned rather than pretending the change did not occur" (:295). A
   cancellation during the turn is ignored once the turn commits, but stays on the row; if
   the process then dies, recovery finds it before it finishes the answer
   (`agui.py:1811`) and reports the run cancelled. `CancelKeepsAnswer` says that this is the
   only way and that the answer still stands in the transcript.

The documentation also says of open questions that resumption "must address every open
interrupt" (:164) and that a client's fallback can "approve, deny, or cancel without
deadlocking the thread" (:162). With two open questions neither is possible: a resume that
names one is `incomplete_resume`, one that names both is `unsupported_interrupt_set`
(`agui.py:992-1001`), a message is refused by the gate, and so is an action on either of the two
cards (`api.py:633`). Only a statement upload or an action on a newer card, which supersede every
open question, frees the conversation. No run states this as a violation;
`TwoQuestionsNeedQueue` says how two can be open at once, and `UnanswerableHasCause` that a
question whose card is pending cannot be answered for this reason only.

What the other properties with an exception say of the code, and is no contradiction of a
document: a request that fails between receipt and question leaves an open question on
a completed card, which only superseding clears (`UnanswerableHasCause`); a contribution
repeats only after such a failure (`RepeatNeedsFailure`); two sources ingested at the same time
make two transactions of one purchase (`TwinsNeedOverlap`); a suggestion or a card's
receipt is lost when both are saved at once (`LostOnlyByOverlap`), although
models.py:404 says enrichment never changes a turn's outcome.

Two behaviours of the ledger's model are stated by no run. An attached source confirms or
respells a row without a version or a revision, also over a name somebody has edited, and
the removal in the chat (`conversation.py:8618`) writes without lock, version or revision;
models.py:571 says revisions explain "how each version came to exist". And since a
respelling raises no version, an editor opened before it saves over it: the exception in
`EditsSeeEdits`.

The model of a loan also has two behaviours that no run states: accepting an amendment
of a loan that began as an offer makes it `funding_pending` although its funding is
confirmed, and there neither a payment nor a proposal nor the funding can be recorded;
and a recorded transfer is confirmed by whoever completes the acknowledgements, also
the lender who recorded it (personal_loans.py:975 says "the borrower confirms receipt").

## 8. Abstractions, and what is not modelled

In `AgentRuns`: what a turn computes is a nondeterministic outcome; `action` commands
go the way of `resume`; `SKIP LOCKED` claims take the oldest eligible row; the names
of slots are immaterial; a worker that finds no backlog ends, here it stays; heartbeat
delays by a saturated pool are an expiry; `recovery_attempts` only feeds a flag no
one reads; progress events after the commit of the answer are dropped; a protocol error is a
failing turn; deleted rows keep their last values.

In `PersonalLoan`: dates, notes, rates and schedules are one number, the total interest
of a version; all security items of a loan move together and are one state; one
required and one optional request stand for any number; the hash chain of events
decides nothing here, reminders and notifications are in `Notifications`; a command with a
receipt is no step; a deadlock that PostgreSQL resolves by aborting a command is no step.

In `Interrupts`: requests execute in admission order, which `AgentRuns` gives up only
past a skipped predecessor; the cards of budgets, taxonomy, scenarios, saved
transactions and catalog operations are left out, and so are `completeWidget=false`,
`expires_at` (never set), and the comparison of `client_message_id`, which comes after the gate. A
replayed answer advertises the present question.

In `Ledger`: amount, direction and date agree, so merchants alone decide; scores are
"strong", "weak" or none; tags, categories and account detachment are left out.

In `Delivery`: the life of the run is that of `AgentRuns`, here a log that ends once;
the activity snapshot inside an open text message, which moves the replay-safe cursor
(docs/AG_UI_RUNTIME.md:110), is left out.

In `Enrichment` and `Notifications`: retry delays are an event "comes due"; the texts
sent are left out. In `FileStore`: contents are named by their uploader; the byte
quota is the count of unfinished files; `carry_forward` and reading are left out.

Not modelled: the operation catalog (a name is resolved, compared by version and
checksum and executed in one handler from an immutable snapshot); identity, one-time
codes and sessions (sequential handlers over single rows, whose subject is
authentication); calculators, calendar and extraction (pure functions over decimals,
dates and text, which TLC has not, compared with worked examples by unit tests);
language-model agents and planning (prompts and provider calls); the analysis, semantic
and SQL lanes (query construction over text and tables, no concurrency of their own);
external sources (read-only adapters); the web client's rendering; migrations and
deployment. These, the request and response schemas and the wording of replies are most of
the backend's lines; what is modelled is the part that keeps state.
