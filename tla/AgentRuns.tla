------------------------------ MODULE AgentRuns ------------------------------
(***************************************************************************)
(* The durable execution of agent runs: admission, the predecessor chain   *)
(* of a conversation, the executor thread and its event publisher,         *)
(* cancellation, deletion of a conversation, process crashes, and the      *)
(* leased recovery pool that drains old work after a restart.              *)
(*                                                                         *)
(* Code: backend/app/api.py (POST /agent, cancel, delete),                 *)
(* backend/app/services/agui.py (DurableEventPublisher, execute_run,       *)
(* claim_agent_recovery_work) and backend/app/main.py (the recovery        *)
(* workers).  The first group of variables is rows of the database and     *)
(* survives a crash; the second lives in the memory of a server process.   *)
(*                                                                         *)
(* Runs are numbered in the order of their created_at, which the admission *)
(* lock makes the order of admission inside a conversation.  One step is   *)
(* one database transaction, or a decision taken between two.              *)
(***************************************************************************)
EXTENDS Integers, Sequences, FiniteSets

CONSTANTS
  NumRuns,      \* runs 1 .. NumRuns may be admitted
  Threads,      \* conversations
  ThreadOf,     \* the conversation of each run
  Kinds,        \* the commands clients send: "message", "action", "resume"
  Procs,        \* API server processes sharing the database
  NumSlots,     \* bound: executor threads over all processes
  Workers,      \* agent_recovery_max_concurrency
  MaxActivity,  \* bound: progress events a turn publishes
  MaxCrashes,   \* bound: process crashes
  MaxFaults     \* bound: failing database calls

Runs  == 1 .. NumRuns
NoRun == 0
Slots == 1 .. NumSlots

ASSUME NumRunsAssumption  == NumRuns \in Nat
ASSUME ThreadOfAssumption == ThreadOf \in [Runs -> Threads]
ASSUME KindsAssumption    == Kinds \subseteq {"message", "action", "resume"}
ASSUME BoundsAssumption   == /\ NumSlots \in Nat
                             /\ Workers \in Nat /\ MaxActivity \in Nat
                             /\ MaxCrashes \in Nat /\ MaxFaults \in Nat

VARIABLES
  kind,             \* AgentRun.input_payload["kind"]
  status,           \* AgentRun.status, "absent" before the row, "deleted" after
  blockedBy,        \* AgentRun.blocked_by_run_id
  cancelRequested,  \* AgentRun.cancel_requested
  phase,            \* AgentRun.recovery_phase
  attempts,         \* AgentRun.recovery_attempts
  lease,            \* AgentRun.recovery_claimed_at: null, within the TTL, older
  log,              \* the AgentEvent rows of the run, by sequence
  reply,            \* the assistant message of the run
  commits,          \* history: turns of the run that committed their effects
  up,               \* processes that are running
  cutoff,           \* the last run created before the process started
  workers,          \* live recovery workers of a process
  exec,             \* executor threads
  crashes, faults   \* budgets already spent

rows  == <<kind, status, blockedBy, cancelRequested, phase, attempts, lease, log,
           reply, commits>>
hosts == <<up, cutoff, workers>>
vars  == <<rows, hosts, exec, crashes, faults>>

ActiveStatuses   == {"queued", "recovering", "running"}
TerminalStatuses == {"interrupted", "succeeded", "failed", "cancelled"}
Statuses         == {"absent", "deleted"} \cup ActiveStatuses \cup TerminalStatuses

\* An event is named for what it reports; see RunStream.
Events == {"started", "activity"} \cup TerminalStatuses

(***************************************************************************)
(* An executor: which process runs it, its run, where execute_run is, the  *)
(* sequence its publisher last committed (or was started at), the events   *)
(* emitted and not yet committed, whether a request or a recovery worker   *)
(* started it, and whether the lease heartbeat beside it is alive.         *)
(***************************************************************************)
Pcs == {"boot", "wait", "begin", "hello", "turn", "checkpoint", "close",
        "resume", "reenter", "abort"}

Executor == [proc : Procs, run : Runs, pc : Pcs, base : Nat,
             pending : Seq(Events), via : {"request", "recovery"},
             beats : BOOLEAN]
Idle == [pc |-> "idle"]

\* The columns of a run and the memory of the processes stay in their ranges
\* whatever is retried, taken over or lost; the status of a row is only ever one
\* that AgentRunStatus names.
TypeOK ==
  /\ kind \in [Runs -> {"none"} \cup Kinds]
  /\ status \in [Runs -> Statuses]
  /\ blockedBy \in [Runs -> Runs \cup {NoRun}]
  /\ cancelRequested \in [Runs -> BOOLEAN]
  /\ phase \in [Runs -> {"none", "postprocess"}]
  /\ attempts \in [Runs -> Nat]
  /\ lease \in [Runs -> {"none", "fresh", "stale"}]
  /\ log \in [Runs -> Seq(Events)]
  /\ reply \in [Runs -> {"none", "reserved", "answered", "discarded"}]
  /\ commits \in [Runs -> Nat]
  /\ up \in SUBSET Procs
  /\ cutoff \in [Procs -> Nat]
  /\ workers \in [Procs -> Int]
  /\ exec \in [Slots -> Executor \cup {Idle}]
  /\ crashes \in Nat
  /\ faults \in Nat

Init ==
  /\ kind = [r \in Runs |-> "none"]
  /\ status = [r \in Runs |-> "absent"]
  /\ blockedBy = [r \in Runs |-> NoRun]
  /\ cancelRequested = [r \in Runs |-> FALSE]
  /\ phase = [r \in Runs |-> "none"]
  /\ attempts = [r \in Runs |-> 0]
  /\ lease = [r \in Runs |-> "none"]
  /\ log = [r \in Runs |-> <<>>]
  /\ reply = [r \in Runs |-> "none"]
  /\ commits = [r \in Runs |-> 0]
  /\ up = {}
  /\ cutoff = [p \in Procs |-> 0]
  /\ workers = [p \in Procs |-> 0]
  /\ exec = [s \in Slots |-> Idle]
  /\ crashes = 0
  /\ faults = 0

-----------------------------------------------------------------------------
(* Views of the rows.                                                      *)

Active(r)    == status[r] \in ActiveStatuses
Terminal(r)  == status[r] \in TerminalStatuses
Resumable(r) == phase[r] = "postprocess"

\* The last recorded event is RUN_FINISHED or RUN_ERROR.
Ended(r) == Len(log[r]) > 0 /\ log[r][Len(log[r])] \in TerminalStatuses

\* The run an admission would wait for: the newest active one of the thread.
ActiveBefore(r) == {q \in Runs : ThreadOf[q] = ThreadOf[r] /\ Active(q)}
Blocker(r) ==
  IF ActiveBefore(r) = {} THEN NoRun
  ELSE CHOOSE q \in ActiveBefore(r) : \A o \in ActiveBefore(r) : o <= q

\* Mutant: the blank reservation stays in the transcript.
DiscardEmpty_Kept(r) == reply

\* _discard_empty_reply: a reservation nobody filled is deleted.
DiscardEmpty(r) == [reply EXCEPT ![r] = IF @ = "reserved" THEN "discarded" ELSE @]

\* Mutant: publishers never collide.
Fenced_Never(s) == FALSE

\* (run_id, sequence) is unique: a publisher whose next sequence another one
\* has already used cannot commit.
Fenced(s) == Len(log[exec[s].run]) # exec[s].base

-----------------------------------------------------------------------------
(* Clients.                                                                *)

\* A thread is started; which of the idle slots names it is immaterial.
Spawn(s, p, r, base, via) ==
  /\ exec[s] = Idle
  /\ \A o \in Slots : o < s => exec[o] # Idle
  /\ exec' = [exec EXCEPT ![s] =
                [proc |-> p, run |-> r, pc |-> "boot", base |-> base,
                 pending |-> <<>>, via |-> via, beats |-> via = "recovery"]]

\* POST /agent admits a new run and starts its executor in this process.  Only
\* a chat message reserves its reply.
Admit(p, r, s) ==
  /\ p \in up
  /\ status[r] = "absent"
  /\ \A q \in Runs : q < r => status[q] # "absent"
  /\ \A q \in Runs : ThreadOf[q] = ThreadOf[r] => status[q] # "deleted"
  /\ status' = [status EXCEPT ![r] = "queued"]
  /\ blockedBy' = [blockedBy EXCEPT ![r] = Blocker(r)]
  /\ \E k \in Kinds :
       /\ kind' = [kind EXCEPT ![r] = k]
       /\ reply' = [reply EXCEPT ![r] = IF k = "message" THEN "reserved" ELSE "none"]
  /\ Spawn(s, p, r, 0, "request")
  /\ UNCHANGED <<cancelRequested, phase, attempts, lease, log, commits, hosts,
                 crashes, faults>>

\* POST /agent/runs/{run_id}/cancel.
Cancel(r) ==
  /\ up # {}
  /\ Active(r)
  /\ cancelRequested' = [cancelRequested EXCEPT ![r] = TRUE]
  /\ UNCHANGED <<kind, status, blockedBy, phase, attempts, lease, log, reply,
                 commits, hosts, exec, crashes, faults>>

\* DELETE /conversations/{id} removes the runs, events and messages of the
\* thread.  Their other columns keep their last value here; nothing reads it.
DeleteConversation(t) ==
  LET mine == {r \in Runs : ThreadOf[r] = t /\ status[r] # "absent"}
  IN /\ up # {}
     /\ \E r \in mine : status[r] # "deleted"
     /\ status' = [r \in Runs |-> IF r \in mine THEN "deleted" ELSE status[r]]
     /\ UNCHANGED <<kind, blockedBy, cancelRequested, phase, attempts, lease,
                    log, reply, commits, hosts, exec, crashes, faults>>

-----------------------------------------------------------------------------
(* The executor thread.                                                    *)

At(s, pc) == exec[s].pc = pc /\ status[exec[s].run] # "deleted"

Goto(s, pc, pending) ==
  exec' = [exec EXCEPT ![s] = [@ EXCEPT !.pc = pc, !.pending = pending]]

\* An exception reaches the handlers of execute_run, which emit RUN_ERROR
\* after whatever the publisher still holds.
Raise(s, outcome) == Goto(s, "abort", Append(exec[s].pending, outcome))

\* execute_run returned.  The worker then awaits the heartbeat, whose own
\* failure ends the worker.
Leave(s) ==
  LET e == exec[s]
  IN /\ exec' = [exec EXCEPT ![s] = Idle]
     /\ workers' = IF e.via = "recovery" /\ ~e.beats
                   THEN [workers EXCEPT ![e.proc] = @ - 1] ELSE workers

\* An exception escaped execute_run; a recovery worker does not survive it.
Die(s) ==
  LET e == exec[s]
  IN /\ exec' = [exec EXCEPT ![s] = Idle]
     /\ workers' = IF e.via = "recovery"
                   THEN [workers EXCEPT ![e.proc] = @ - 1] ELSE workers

\* Every phase begins by loading the run: without its row the handlers fail too.
RowGone(s) ==
  /\ exec[s] # Idle
  /\ status[exec[s].run] = "deleted"
  /\ Die(s)
  /\ UNCHANGED <<rows, up, cutoff, crashes, faults>>

\* Mutant: a checkpointed run is executed again.
Boot_FromStart(s) ==
  /\ At(s, "boot")
  /\ Goto(s, "wait", <<>>)
  /\ UNCHANGED <<rows, hosts, crashes, faults>>

\* A checkpointed run resumes after its answer; any other starts as new.
Boot(s) ==
  /\ At(s, "boot")
  /\ Goto(s, IF Resumable(exec[s].run) THEN "resume" ELSE "wait", <<>>)
  /\ UNCHANGED <<rows, hosts, crashes, faults>>

\* Mutant: a run never waits for its predecessor.
Unblocked_Always(r) == TRUE

\* _wait_for_blocker: the blocker is absent, gone or terminal.
Unblocked(r) == blockedBy[r] \in Runs => ~Active(blockedBy[r])

WaitOver(s) ==
  /\ At(s, "wait")
  /\ ~cancelRequested[exec[s].run]
  /\ Unblocked(exec[s].run)
  /\ Goto(s, "begin", <<>>)
  /\ UNCHANGED <<rows, hosts, crashes, faults>>

WaitCancelled(s) ==
  /\ At(s, "wait")
  /\ cancelRequested[exec[s].run]
  /\ Raise(s, "cancelled")
  /\ UNCHANGED <<rows, hosts, crashes, faults>>

WaitTimeout(s) ==
  /\ At(s, "wait")
  /\ ~cancelRequested[exec[s].run]
  /\ ~Unblocked(exec[s].run)
  /\ Raise(s, "failed")
  /\ UNCHANGED <<rows, hosts, crashes, faults>>

\* _update_run(RUNNING), and the first events are emitted.
Begin(s) ==
  /\ At(s, "begin")
  /\ status' = [status EXCEPT ![exec[s].run] = "running"]
  /\ Goto(s, "hello", <<"started">>)
  /\ UNCHANGED <<kind, blockedBy, cancelRequested, phase, attempts, lease, log,
                 reply, commits, hosts, crashes, faults>>

\* DurableEventPublisher._commit of non-terminal events.
Flush(s, pc, events) ==
  LET r == exec[s].run
  IN IF Fenced(s)
     THEN /\ Goto(s, "abort", events \o <<"failed">>)
          /\ UNCHANGED log
     ELSE /\ log' = [log EXCEPT ![r] = @ \o events]
          /\ exec' = [exec EXCEPT ![s] =
                        [@ EXCEPT !.pc = pc, !.pending = <<>>,
                                  !.base = exec[s].base + Len(events)]]

Hello(s) ==
  /\ At(s, "hello")
  /\ Flush(s, "turn", exec[s].pending)
  /\ UNCHANGED <<kind, status, blockedBy, cancelRequested, phase, attempts,
                 lease, reply, commits, hosts, crashes, faults>>

\* on_activity, on_text_delta: progress is committed while the turn runs.
Progress(s) ==
  /\ At(s, "turn")
  /\ Len(log[exec[s].run]) <= MaxActivity
  /\ Flush(s, "turn", <<"activity">>)
  /\ UNCHANGED <<kind, status, blockedBy, cancelRequested, phase, attempts,
                 lease, reply, commits, hosts, crashes, faults>>

\* A turn that reports activity looks at cancel_requested in between.
TurnCancelled(s) ==
  /\ At(s, "turn")
  /\ kind[exec[s].run] # "action"
  /\ cancelRequested[exec[s].run]
  /\ Raise(s, "cancelled")
  /\ UNCHANGED <<rows, hosts, crashes, faults>>

TurnFailed(s) ==
  /\ At(s, "turn")
  /\ Raise(s, "failed")
  /\ UNCHANGED <<rows, hosts, crashes, faults>>

\* persist_agent_response: the governed effects and the reply commit together, a
\* message's only into its blank reservation.  Only a message's reply, and only
\* one that proposes no action, is checkpointed.
TurnCommits(s) ==
  LET r == exec[s].run
  IN /\ At(s, "turn")
     /\ kind[r] = "message" => reply[r] = "reserved"
     /\ commits' = [commits EXCEPT ![r] = @ + 1]
     /\ reply' = [reply EXCEPT ![r] = "answered"]
     /\ \/ kind[r] = "message" /\ Goto(s, "checkpoint", <<>>)
        \/ kind[r] # "message" /\ Goto(s, "close", <<"succeeded">>)
        \/ Goto(s, "close", <<"interrupted">>)
     /\ UNCHANGED <<kind, status, blockedBy, cancelRequested, phase, attempts,
                    lease, log, hosts, crashes, faults>>

\* Mutant: the checkpoint is the last place to stop.
Checkpoint_StopsOnCancel(s) ==
  /\ At(s, "checkpoint")
  /\ phase' = [phase EXCEPT ![exec[s].run] = "postprocess"]
  /\ IF cancelRequested[exec[s].run] THEN Raise(s, "cancelled")
     ELSE Goto(s, "close", <<"succeeded">>)
  /\ UNCHANGED <<kind, status, blockedBy, cancelRequested, attempts, lease,
                 log, reply, commits, hosts, crashes, faults>>

\* _checkpoint_postprocessing, then the response is emitted.
Checkpoint(s) ==
  /\ At(s, "checkpoint")
  /\ phase' = [phase EXCEPT ![exec[s].run] = "postprocess"]
  /\ Goto(s, "close", <<"succeeded">>)
  /\ UNCHANGED <<kind, status, blockedBy, cancelRequested, attempts, lease,
                 log, reply, commits, hosts, crashes, faults>>

\* _resume_postprocessing: the row is set RUNNING, then the checkpoint is read.
Resume(s) ==
  /\ At(s, "resume")
  /\ status' = [status EXCEPT ![exec[s].run] = "running"]
  /\ Goto(s, "reenter", <<>>)
  /\ UNCHANGED <<kind, blockedBy, cancelRequested, phase, attempts, lease, log,
                 reply, commits, hosts, crashes, faults>>

Reenter(s) ==
  /\ At(s, "reenter")
  /\ IF ~Resumable(exec[s].run) THEN Raise(s, "failed")
     ELSE IF cancelRequested[exec[s].run] THEN Raise(s, "cancelled")
     ELSE Goto(s, "close", <<"succeeded">>)
  /\ UNCHANGED <<rows, hosts, crashes, faults>>

\* Mutant: the row takes the first event for the outcome.
EndRun_FirstEvent(r, events) ==
  /\ log' = [log EXCEPT ![r] = @ \o events]
  /\ status' = [status EXCEPT ![r] = events[1]]
  /\ phase' = [phase EXCEPT ![r] = "none"]
  /\ lease' = [lease EXCEPT ![r] = "none"]
  /\ reply' = DiscardEmpty(r)

\* The row changes of every terminal transition.
EndRun(r, events) ==
  /\ log' = [log EXCEPT ![r] = @ \o events]
  /\ status' = [status EXCEPT ![r] = events[Len(events)]]
  /\ phase' = [phase EXCEPT ![r] = "none"]
  /\ lease' = [lease EXCEPT ![r] = "none"]
  /\ reply' = DiscardEmpty(r)

\* DurableEventPublisher.finish: the remaining events and the terminal state.
Finish(s) ==
  /\ At(s, "close") \/ At(s, "abort")
  /\ ~Fenced(s)
  /\ EndRun(exec[s].run, exec[s].pending)
  /\ Leave(s)
  /\ UNCHANGED <<kind, blockedBy, cancelRequested, attempts, commits, up,
                 cutoff, crashes, faults>>

\* A fenced answer is reported as a failure; a fenced failure escapes.
FencedOut(s) ==
  /\ \/ At(s, "close") /\ Fenced(s) /\ Raise(s, "failed") /\ UNCHANGED workers
     \/ At(s, "abort") /\ Fenced(s) /\ Die(s)
  /\ UNCHANGED <<rows, up, cutoff, crashes, faults>>

ExecutorStep(s) ==
  \/ RowGone(s) \/ Boot(s)
  \/ WaitOver(s) \/ WaitCancelled(s) \/ WaitTimeout(s)
  \/ Begin(s) \/ Hello(s) \/ Progress(s)
  \/ TurnCancelled(s) \/ TurnFailed(s) \/ TurnCommits(s)
  \/ Checkpoint(s) \/ Resume(s) \/ Reenter(s)
  \/ Finish(s) \/ FencedOut(s)

-----------------------------------------------------------------------------
(* The recovery workers of a process.                                      *)

\* Mutant: a claim is never taken over.
Unclaimed_NewOnly(r) == lease[r] = "none"

\* A claim is available when it was never taken or outlived its lease.
Unclaimed(r) == lease[r] # "fresh"

\* Mutant: recovery takes the runs this process admitted.
Old_Any(p, r) == TRUE

\* created_at <= cutoff: runs admitted by the process itself are not its work.
Old(p, r) == r <= cutoff[p]

Eligible(p, st) ==
  {r \in Runs : /\ Old(p, r) /\ status[r] = st
                /\ st # "queued" => Unclaimed(r)}

\* Interrupted work first, then expired claims, then queued runs.
Work(p) ==
  IF Eligible(p, "running") # {} THEN Eligible(p, "running")
  ELSE IF Eligible(p, "recovering") # {} THEN Eligible(p, "recovering")
  ELSE Eligible(p, "queued")

Busy(p) == {s \in Slots : /\ exec[s] # Idle
                          /\ exec[s].proc = p /\ exec[s].via = "recovery"}

\* A worker of p is between two pieces of work and r is what it claims.
Claims(p, r) ==
  /\ p \in up
  /\ Cardinality(Busy(p)) < workers[p]
  /\ r \in Work(p)
  /\ \A q \in Work(p) : r <= q

\* The terminal event is recorded and the row still active: the row follows.
Repair(p, r) ==
  /\ Claims(p, r)
  /\ Ended(r)
  /\ status' = [status EXCEPT ![r] = log[r][Len(log[r])]]
  /\ phase' = [phase EXCEPT ![r] = "none"]
  /\ lease' = [lease EXCEPT ![r] = "none"]
  /\ reply' = DiscardEmpty(r)
  /\ UNCHANGED <<kind, blockedBy, cancelRequested, attempts, log, commits,
                 hosts, exec, crashes, faults>>

\* Mutant: the run is closed without telling its stream.
Condemn_NoEvent(p, r) ==
  /\ Claims(p, r)
  /\ ~Ended(r)
  /\ status[r] = "running" /\ ~Resumable(r)
  /\ status' = [status EXCEPT ![r] = "failed"]
  /\ phase' = [phase EXCEPT ![r] = "none"]
  /\ lease' = [lease EXCEPT ![r] = "none"]
  /\ reply' = DiscardEmpty(r)
  /\ UNCHANGED <<kind, blockedBy, cancelRequested, attempts, log, commits,
                 hosts, exec, crashes, faults>>

\* A run that was executing is closed with server_restart, never replayed.
Condemn(p, r) ==
  /\ Claims(p, r)
  /\ ~Ended(r)
  /\ status[r] = "running" /\ ~Resumable(r)
  /\ EndRun(r, <<"failed">>)
  /\ UNCHANGED <<kind, blockedBy, cancelRequested, attempts, commits, hosts,
                 exec, crashes, faults>>

\* Queued and checkpointed work gets a lease and an executor.
Adopt(p, r, s) ==
  /\ Claims(p, r)
  /\ ~Ended(r)
  /\ status[r] = "running" => Resumable(r)
  /\ status' = [status EXCEPT ![r] = "recovering"]
  /\ lease' = [lease EXCEPT ![r] = "fresh"]
  /\ attempts' = [attempts EXCEPT ![r] = IF Resumable(r) THEN @ + 1 ELSE @]
  /\ Spawn(s, p, r, Len(log[r]), "recovery")
  /\ UNCHANGED <<kind, blockedBy, cancelRequested, phase, log, reply, commits,
                 hosts, crashes, faults>>

Recover(p) == \E r \in Runs : \/ Repair(p, r) \/ Condemn(p, r)
                              \/ \E s \in Slots : Adopt(p, r, s)

\* The heartbeat beside a recovered execution keeps its lease within the TTL.
Beating(r) == \E s \in Slots : exec[s] # Idle /\ exec[s].run = r /\ exec[s].beats

Expire(r) ==
  /\ lease[r] = "fresh" /\ ~Beating(r)
  /\ lease' = [lease EXCEPT ![r] = "stale"]
  /\ UNCHANGED <<kind, status, blockedBy, cancelRequested, phase, attempts,
                 log, reply, commits, hosts, exec, crashes, faults>>

\* renew_agent_recovery_claim stamps the row whoever holds it.
Renew(s) ==
  /\ exec[s] # Idle /\ exec[s].beats
  /\ status[exec[s].run] \in {"recovering", "running"}
  /\ lease[exec[s].run] # "fresh"
  /\ lease' = [lease EXCEPT ![exec[s].run] = "fresh"]
  /\ UNCHANGED <<kind, status, blockedBy, cancelRequested, phase, attempts,
                 log, reply, commits, hosts, exec, crashes, faults>>

-----------------------------------------------------------------------------
(* Processes, and database calls that raise.                               *)

Start(p) ==
  /\ p \notin up
  /\ up' = up \cup {p}
  /\ cutoff' = [cutoff EXCEPT ![p] =
                  Cardinality({r \in Runs : status[r] # "absent"})]
  /\ workers' = [workers EXCEPT ![p] = Workers]
  /\ UNCHANGED <<rows, exec, crashes, faults>>

Crash(p) ==
  /\ p \in up
  /\ crashes < MaxCrashes
  /\ crashes' = crashes + 1
  /\ up' = up \ {p}
  /\ exec' = [s \in Slots |->
                IF exec[s] # Idle /\ exec[s].proc = p THEN Idle ELSE exec[s]]
  /\ UNCHANGED <<rows, cutoff, workers, faults>>

Fault ==
  /\ faults < MaxFaults
  /\ faults' = faults + 1
  /\ UNCHANGED <<rows, up, cutoff, crashes>>

\* A call of execute_run raises: its handlers report the run as failed.
CallFails(s) ==
  /\ exec[s].pc \notin {"idle", "abort"}
  /\ Fault
  /\ Raise(s, "failed")
  /\ UNCHANGED workers

\* The commit of the handlers raises as well.
ReportFails(s) ==
  /\ exec[s].pc = "abort"
  /\ Fault
  /\ Die(s)

\* The heartbeat's call raises, which ends the heartbeat.
HeartbeatFails(s) ==
  /\ exec[s] # Idle /\ exec[s].beats
  /\ Fault
  /\ exec' = [exec EXCEPT ![s] = [@ EXCEPT !.beats = FALSE]]
  /\ UNCHANGED workers

\* A claim raises, which ends the worker.
ClaimFails(p) ==
  /\ p \in up
  /\ Cardinality(Busy(p)) < workers[p]
  /\ Fault
  /\ workers' = [workers EXCEPT ![p] = @ - 1]
  /\ UNCHANGED exec

Next ==
  \/ \E r \in Runs : \/ Cancel(r) \/ Expire(r)
                     \/ \E p \in Procs, s \in Slots : Admit(p, r, s)
  \/ \E t \in Threads : DeleteConversation(t)
  \/ \E s \in Slots : \/ ExecutorStep(s) \/ Renew(s) \/ CallFails(s)
                      \/ ReportFails(s) \/ HeartbeatFails(s)
  \/ \E p \in Procs : \/ Recover(p) \/ Start(p) \/ Crash(p) \/ ClaimFails(p)

Spec == Init /\ [][Next]_vars

(***************************************************************************)
(* Executors are threads the operating system schedules, model and         *)
(* database calls return or raise, a wait ends after 300 seconds, workers  *)
(* poll, leases age by the clock, and the container is restarted           *)
(* (restart: unless-stopped).  Clients owe nothing.                        *)
(***************************************************************************)
Fairness ==
  /\ \A s \in Slots : WF_vars(ExecutorStep(s))
  /\ \A p \in Procs : WF_vars(Recover(p)) /\ WF_vars(Start(p))
  /\ \A r \in Runs : WF_vars(Expire(r))

FairSpec == Spec /\ Fairness

\* The stream of a run is its event log.
RunStream == INSTANCE RunStream WITH stream <- log

\* What clients replay is a RunStream: the executors, the recovery workers and
\* crashes between their transactions append to the log only what the abstract
\* stream allows, one terminal event and nothing after it.
StreamProtocol == RunStream!Spec

-----------------------------------------------------------------------------
(* Safety, for any number of processes, crashes and failing calls.         *)

\* Whatever is retried, recovered or taken over, the governed turn of a run
\* commits at most once: the fence is the unique sequence of its first event.
TurnAtMostOnce == \A r \in Runs : commits[r] <= 1

\* Status and event log end together: a terminal row has the matching
\* terminal event as its last one, so replay and thread state never disagree.
TerminalMatchesLog ==
  \A r \in Runs : Terminal(r) => Ended(r) /\ log[r][Len(log[r])] = status[r]

\* A run reported as answered committed its turn and its reply is there; no
\* finished run leaves a blank reserved reply in the transcript.
AnswerStands ==
  \A r \in Runs :
    /\ status[r] \in {"succeeded", "interrupted"} =>
         commits[r] > 0 /\ reply[r] = "answered"
    /\ Terminal(r) => reply[r] # "reserved"

-----------------------------------------------------------------------------
(* Properties of the deployment with one process and a database that       *)
(* answers (Cardinality(Procs) = 1, MaxFaults = 0).                        *)

\* Recovery never races the request handler or a sibling worker for a run.
OneExecutorPerRun ==
  \A s, t \in Slots :
    s # t /\ exec[s] # Idle /\ exec[t] # Idle => exec[s].run # exec[t].run

\* A reported outcome is never taken back.
TerminalIsFinal ==
  [][\A r \in Runs : Terminal(r) => status'[r] \in {status[r], "deleted"}]_vars

InTurn(r) == \E s \in Slots : At(s, "turn") /\ exec[s].run = r

\* "Runs in one conversation form a persisted predecessor chain, so concurrent
\* clients cannot race replies or mutations" (docs/AG_UI_RUNTIME.md:295).
OneTurnAtATime ==
  \A q, r \in Runs : q < r /\ ThreadOf[q] = ThreadOf[r] => ~(InTurn(q) /\ InTurn(r))

\* What the chain does guarantee: two turns of a conversation only overlap
\* when a run admitted between them ended without ever starting, so that the
\* later one waited for the wrong predecessor.
OverlapNeedsSkip ==
  \A q, r \in Runs :
    q < r /\ ThreadOf[q] = ThreadOf[r] /\ InTurn(q) /\ InTurn(r) =>
      \E o \in Runs : /\ q < o /\ o < r /\ ThreadOf[o] = ThreadOf[r]
                      /\ Terminal(o) /\ log[o][1] # "started"

\* "If a governed financial operation has already completed, its verified
\* response is returned rather than pretending the change did not occur"
\* (docs/AG_UI_RUNTIME.md:295): a run that committed is not reported cancelled.
CompletedAnswerReturned ==
  \A r \in Runs : status[r] = "cancelled" => commits[r] = 0

\* What does hold of a run that committed and is reported cancelled: recovery
\* was finishing it when it found the cancellation, and the answer stays in the
\* transcript, whoever reported the run.
CancelKeepsAnswer ==
  \A r \in Runs : status[r] = "cancelled" /\ commits[r] > 0 =>
    attempts[r] > 0 /\ reply[r] = "answered"

\* Every admitted run is reported or deleted, unless the recovery workers of
\* its process are all gone.
EveryRunEnds ==
  \A r \in Runs : Active(r) ~> (~Active(r) \/ \E p \in up : workers[p] = 0)

\* "At startup, old work drains through leased database claims and a
\* fixed-size worker pool" (docs/AG_UI_RUNTIME.md:112).
OldWorkDrains == \A r \in Runs : Active(r) ~> ~Active(r)
=============================================================================
