-------------------------- MODULE AgentRunsProofs --------------------------
(***************************************************************************)
(* The safety of AgentRuns for every number of runs, processes, crashes    *)
(* and failing calls.                                                      *)
(*                                                                         *)
(* A step changes the rows of some runs and moves at most one executor.    *)
(* RowStep says what any step may do to a row; it is all an executor that  *)
(* did not move needs to keep ExecInv.  Each action is then left with its  *)
(* own executor and its own row.  While the database answers, every step   *)
(* is one of RunStream, or changes no event log.                           *)
(***************************************************************************)
EXTENDS AgentRunsInv, FiniteSetTheorems, TLAPS

-----------------------------------------------------------------------------
(* What the building blocks of the actions do to the executors.            *)

ExecType == exec \in [Slots -> Executor \cup {Idle}]

LEMMA BusySlot ==
  ASSUME ExecType, NEW s \in Slots, exec[s].pc # "idle"
  PROVE  exec[s] \in Executor /\ exec[s].run \in Runs
  BY DEF ExecType, Executor, Idle

LEMMA ExecutorFields ==
  ASSUME NEW e \in Executor
  PROVE  /\ e.proc \in Procs /\ e.run \in Runs /\ e.pc \in Pcs /\ e.base \in Nat
         /\ e.pending \in Seq(Events) /\ e.via \in {"request", "recovery"}
         /\ e.beats \in BOOLEAN
         /\ e.pc # "idle"
  BY DEF Executor, Pcs

LEMMA ExecutorUpdate ==
  ASSUME NEW e \in Executor, NEW pc \in Pcs, NEW pending \in Seq(Events)
  PROVE  [e EXCEPT !.pc = pc, !.pending = pending] \in Executor
  BY DEF Executor

LEMMA ExecutorRebase ==
  ASSUME NEW e \in Executor, NEW pc \in Pcs, NEW pending \in Seq(Events),
         NEW base \in Nat
  PROVE  [e EXCEPT !.pc = pc, !.pending = pending, !.base = base] \in Executor
<1>1. [e EXCEPT !.pc = pc, !.pending = pending] \in Executor
  BY ExecutorUpdate
<1> QED
  BY <1>1 DEF Executor

\* Goto moves one executor and touches no other.
LEMMA GotoEffect ==
  ASSUME ExecType, NEW s \in Slots, exec[s] \in Executor,
         NEW pc \in Pcs, NEW pending \in Seq(Events), Goto(s, pc, pending)
  PROVE  ExecType'
<1>1. [exec[s] EXCEPT !.pc = pc, !.pending = pending] \in Executor
  BY ExecutorUpdate
<1> QED
  BY <1>1 DEF Goto, ExecType

LEMMA RaiseEffect ==
  ASSUME ExecType, NEW s \in Slots, exec[s] \in Executor,
         NEW outcome \in Events, Raise(s, outcome)
  PROVE  ExecType'
<1>1. Append(exec[s].pending, outcome) \in Seq(Events)
  BY ExecutorFields
<1> QED
  BY <1>1, GotoEffect DEF Raise, Pcs

\* Both ways out of execute_run free the slot.
LEMMA ExitEffect ==
  ASSUME ExecType, workers \in [Procs -> Int], NEW s \in Slots,
         exec[s] \in Executor, Leave(s) \/ Die(s)
  PROVE  /\ ExecType'
         /\ workers' \in [Procs -> Int]
<1>1. exec[s].proc \in Procs
  BY ExecutorFields
<1> QED
  BY <1>1 DEF Leave, Die, ExecType

LEMMA SpawnEffect ==
  ASSUME ExecType, NEW s \in Slots, NEW p \in Procs, NEW r \in Runs,
         NEW base \in Nat, NEW via \in {"request", "recovery"},
         Spawn(s, p, r, base, via)
  PROVE  ExecType'
<1> DEFINE e == [proc |-> p, run |-> r, pc |-> "boot", base |-> base,
                 pending |-> <<>>, via |-> via, beats |-> via = "recovery"]
<1>1. e \in Executor
  BY DEF Executor, Pcs
<1>2. exec' = [exec EXCEPT ![s] = e]
  BY DEF Spawn
<1> HIDE DEF e
<1> QED
  BY <1>1, <1>2 DEF ExecType

LEMMA FlushEffect ==
  ASSUME ExecType, log \in [Runs -> Seq(Events)], NEW s \in Slots,
         exec[s] \in Executor, NEW pc \in Pcs, NEW events \in Seq(Events),
         Flush(s, pc, events)
  PROVE  /\ ExecType'
         /\ log' \in [Runs -> Seq(Events)]
<1>1. exec[s].run \in Runs /\ exec[s].base \in Nat
  BY ExecutorFields
<1>2. CASE Fenced(s)
  <2>1. events \o <<"failed">> \in Seq(Events)
    BY DEF Events, TerminalStatuses
  <2>2. Goto(s, "abort", events \o <<"failed">>) /\ UNCHANGED log
    BY <1>2 DEF Flush
  <2> QED
    BY <2>1, <2>2, GotoEffect DEF Pcs
<1>3. CASE ~Fenced(s)
  <2> DEFINE e == [exec[s] EXCEPT !.pc = pc, !.pending = <<>>,
                                  !.base = exec[s].base + Len(events)]
  <2>1. exec[s].base + Len(events) \in Nat /\ <<>> \in Seq(Events)
    BY <1>1
  <2>2. e \in Executor
    BY <2>1, ExecutorRebase
  <2>3. /\ exec' = [exec EXCEPT ![s] = e]
        /\ log' = [log EXCEPT ![exec[s].run] = @ \o events]
    BY <1>3 DEF Flush
  <2>4. log[exec[s].run] \o events \in Seq(Events)
    BY <1>1
  <2> HIDE DEF e
  <2> QED
    BY <2>2, <2>3, <2>4 DEF ExecType
<1> QED
  BY <1>2, <1>3

\* What an executor about to finish holds ends with an outcome.
LEMMA PendingLast ==
  ASSUME NEW e, PendingInv(e), e.pc \in {"close", "abort"}
  PROVE  /\ Len(e.pending) > 0
         /\ e.pending[Len(e.pending)] \in TerminalStatuses
<1>1. CASE e.pc = "close"
  BY <1>1 DEF PendingInv, TerminalStatuses
<1>2. CASE e.pc = "abort"
  BY <1>2 DEF PendingInv, TerminalStatuses
<1> QED
  BY <1>1, <1>2

LEMMA DiscardEffect ==
  ASSUME TypeOK, NEW r \in Runs
  PROVE  DiscardEmpty(r) \in [Runs -> {"none", "reserved", "answered", "discarded"}]
  BY DEF TypeOK, DiscardEmpty

LEMMA EndRunEffect ==
  ASSUME TypeOK, NEW r \in Runs, NEW events \in Seq(Events),
         events[Len(events)] \in TerminalStatuses, EndRun(r, events)
  PROVE  /\ log' \in [Runs -> Seq(Events)]
         /\ status' \in [Runs -> Statuses]
         /\ phase' \in [Runs -> {"none", "postprocess"}]
         /\ lease' \in [Runs -> {"none", "fresh", "stale"}]
         /\ reply' \in [Runs -> {"none", "reserved", "answered", "discarded"}]
<1>1. log[r] \o events \in Seq(Events)
  BY DEF TypeOK
<1> QED
  BY <1>1, DiscardEffect DEF EndRun, TypeOK, Statuses

-----------------------------------------------------------------------------
(* Type correctness.                                                       *)

LEMMA TypeInit == Init => TypeOK
  BY BoundsAssumption DEF Init, TypeOK, Statuses, ActiveStatuses, TerminalStatuses

LEMMA TypeClients ==
  ASSUME TypeOK,
         \/ \E p \in Procs, r \in Runs, s \in Slots : Admit(p, r, s)
         \/ \E r \in Runs : Cancel(r)
         \/ \E t \in Threads : DeleteConversation(t)
  PROVE  TypeOK'
<1>1. ASSUME NEW p \in Procs, NEW r \in Runs, NEW s \in Slots, Admit(p, r, s)
      PROVE  TypeOK'
  <2>1. Blocker(r) \in Runs \cup {NoRun}
    BY DEF Blocker, ActiveBefore
  <2>2. ExecType'
    BY <1>1, SpawnEffect DEF Admit, TypeOK, ExecType
  <2> QED
    BY <1>1, <2>1, <2>2 DEF Admit, TypeOK, ExecType, hosts, Statuses, ActiveStatuses
<1>2. ASSUME NEW r \in Runs, Cancel(r) PROVE TypeOK'
  BY <1>2 DEF Cancel, TypeOK, hosts
<1>3. ASSUME NEW t \in Threads, DeleteConversation(t) PROVE TypeOK'
  BY <1>3 DEF DeleteConversation, TypeOK, hosts, Statuses
<1> QED
  BY <1>1, <1>2, <1>3

LEMMA TypeExecutor ==
  ASSUME TypeOK, NEW s \in Slots, ExecutorStep(s), PendingInv(exec[s])
  PROVE  TypeOK'
<1> USE DEF rows, hosts
<1>0. ExecType /\ exec[s] \in Executor /\ exec[s].run \in Runs
  <2>1. ExecType
    BY DEF TypeOK, ExecType
  <2>2. CASE RowGone(s)
    BY <2>1, <2>2, ExecutorFields DEF RowGone, ExecType
  <2>3. CASE ~RowGone(s)
    <3>1. exec[s].pc # "idle"
      BY <2>3 DEF ExecutorStep, Boot, WaitOver, WaitCancelled, WaitTimeout, Begin,
         Hello, Progress, TurnCancelled, TurnFailed, TurnCommits, Checkpoint,
         Resume, Reenter, Finish, FencedOut, At
    <3> QED
      BY <2>1, <3>1, BusySlot
  <2> QED
    BY <2>1, <2>2, <2>3
<1> DEFINE Silent == /\ UNCHANGED <<rows, up, cutoff, crashes, faults>>
                     /\ workers' \in [Procs -> Int] /\ ExecType'
<1>1. /\ <<>> \in Seq(Events) /\ <<"started">> \in Seq(Events)
      /\ <<"succeeded">> \in Seq(Events) /\ <<"interrupted">> \in Seq(Events)
      /\ <<"activity">> \in Seq(Events)
      /\ "failed" \in Events /\ "cancelled" \in Events
  BY DEF Events, TerminalStatuses
<1>2. Silent => TypeOK'
  BY DEF TypeOK, ExecType
<1>3. CASE RowGone(s)
  BY <1>0, <1>2, <1>3, ExitEffect DEF RowGone, TypeOK
<1>4. CASE Boot(s)
  BY <1>0, <1>1, <1>2, <1>4, GotoEffect DEF Boot, TypeOK, Pcs
<1>5. CASE WaitOver(s)
  BY <1>0, <1>1, <1>2, <1>5, GotoEffect DEF WaitOver, TypeOK, Pcs
<1>6. CASE WaitCancelled(s) \/ WaitTimeout(s) \/ TurnCancelled(s) \/ TurnFailed(s)
  BY <1>0, <1>1, <1>2, <1>6, RaiseEffect
     DEF WaitCancelled, WaitTimeout, TurnCancelled, TurnFailed, TypeOK
<1>7. CASE Begin(s)
  <2>1. ExecType'
    BY <1>0, <1>1, <1>7, GotoEffect DEF Begin, Pcs
  <2> QED
    BY <1>0, <1>7, <2>1 DEF Begin, TypeOK, ExecType, Statuses, ActiveStatuses
<1>8. CASE Hello(s)
  <2>1. ExecType' /\ log' \in [Runs -> Seq(Events)]
    BY <1>0, <1>8, FlushEffect, ExecutorFields DEF Hello, Pcs, TypeOK
  <2> QED
    BY <1>8, <2>1 DEF Hello, TypeOK, ExecType
<1>9. CASE Progress(s)
  <2>1. ExecType' /\ log' \in [Runs -> Seq(Events)]
    BY <1>0, <1>1, <1>9, FlushEffect DEF Progress, Pcs, TypeOK
  <2> QED
    BY <1>9, <2>1 DEF Progress, TypeOK, ExecType
<1>10. CASE TurnCommits(s)
  <2>1. ExecType'
    BY <1>0, <1>1, <1>10, GotoEffect DEF TurnCommits, Pcs
  <2> QED
    BY <1>0, <1>10, <2>1 DEF TurnCommits, TypeOK, ExecType
<1>11. CASE Checkpoint(s)
  <2>1. ExecType'
    BY <1>0, <1>1, <1>11, GotoEffect DEF Checkpoint, Pcs
  <2> QED
    BY <1>0, <1>11, <2>1 DEF Checkpoint, TypeOK, ExecType
<1>12. CASE Resume(s)
  <2>1. ExecType'
    BY <1>0, <1>1, <1>12, GotoEffect DEF Resume, Pcs
  <2> QED
    BY <1>0, <1>12, <2>1 DEF Resume, TypeOK, ExecType, Statuses, ActiveStatuses
<1>13. CASE Reenter(s)
  BY <1>0, <1>1, <1>2, <1>13, GotoEffect, RaiseEffect DEF Reenter, TypeOK, Pcs
<1>14. CASE Finish(s)
  <2>1. ExecType' /\ workers' \in [Procs -> Int]
    BY <1>0, <1>14, ExitEffect DEF Finish, TypeOK
  <2>2. /\ exec[s].pending \in Seq(Events)
        /\ exec[s].pending[Len(exec[s].pending)] \in TerminalStatuses
    BY <1>0, <1>14, ExecutorFields, PendingLast DEF Finish, At
  <2> QED
    BY <1>0, <1>14, <2>1, <2>2, EndRunEffect DEF Finish, TypeOK, ExecType
<1>15. CASE FencedOut(s)
  BY <1>0, <1>1, <1>2, <1>15, RaiseEffect, ExitEffect DEF FencedOut, TypeOK
<1> QED
  BY <1>3, <1>4, <1>5, <1>6, <1>7, <1>8, <1>9, <1>10, <1>11, <1>12, <1>13,
     <1>14, <1>15 DEF ExecutorStep

LEMMA TypeRecovery ==
  ASSUME TypeOK,
         \/ \E p \in Procs : Recover(p)
         \/ \E r \in Runs : Expire(r)
         \/ \E s \in Slots : Renew(s)
  PROVE  TypeOK'
<1> USE DEF hosts
<1>1. ASSUME NEW p \in Procs, NEW r \in Runs, Repair(p, r) PROVE TypeOK'
  <2>1. log[r][Len(log[r])] \in Statuses
    BY <1>1 DEF Repair, Ended, Statuses
  <2> QED
    BY <1>1, <2>1, DiscardEffect DEF Repair, TypeOK
<1>2. ASSUME NEW p \in Procs, NEW r \in Runs, Condemn(p, r) PROVE TypeOK'
  <2>1. <<"failed">> \in Seq(Events) /\ <<"failed">>[Len(<<"failed">>)] \in TerminalStatuses
    BY DEF Events, TerminalStatuses
  <2>2. EndRun(r, <<"failed">>)
    BY <1>2 DEF Condemn
  <2> QED
    BY <1>2, <2>1, <2>2, EndRunEffect DEF Condemn, TypeOK
<1>3. ASSUME NEW p \in Procs, NEW r \in Runs, NEW s \in Slots, Adopt(p, r, s)
      PROVE  TypeOK'
  <2>1. Len(log[r]) \in Nat
    BY DEF TypeOK
  <2>2. ExecType'
    BY <1>3, <2>1, SpawnEffect DEF Adopt, TypeOK, ExecType
  <2> QED
    BY <1>3, <2>2 DEF Adopt, TypeOK, ExecType, Statuses, ActiveStatuses
<1>4. ASSUME NEW r \in Runs, Expire(r) PROVE TypeOK'
  BY <1>4 DEF Expire, TypeOK
<1>5. ASSUME NEW s \in Slots, Renew(s) PROVE TypeOK'
  <2>1. exec[s].run \in Runs
    BY <1>5, ExecutorFields DEF Renew, TypeOK
  <2> QED
    BY <1>5, <2>1 DEF Renew, TypeOK
<1> QED
  BY <1>1, <1>2, <1>3, <1>4, <1>5 DEF Recover

LEMMA TypeFaults ==
  ASSUME TypeOK,
         \/ \E p \in Procs : Start(p) \/ Crash(p) \/ ClaimFails(p)
         \/ \E s \in Slots : CallFails(s) \/ ReportFails(s) \/ HeartbeatFails(s)
  PROVE  TypeOK'
<1> USE DEF rows
<1>0. ExecType
  BY DEF TypeOK, ExecType
<1>1. ASSUME NEW p \in Procs, Start(p) PROVE TypeOK'
  <2> DEFINE admitted == {r \in Runs : status[r] # "absent"}
  <2>1. IsFiniteSet(Runs) /\ admitted \subseteq Runs
    BY FS_Interval, NumRunsAssumption DEF Runs
  <2>2. Cardinality(admitted) \in Nat
    BY <2>1, FS_Subset, FS_CardinalityType
  <2> HIDE DEF admitted
  <2>3. cutoff' = [cutoff EXCEPT ![p] = Cardinality(admitted)]
    BY <1>1 DEF Start, admitted
  <2> QED
    BY <1>1, <2>2, <2>3, BoundsAssumption DEF Start, TypeOK
<1>2. ASSUME NEW p \in Procs, Crash(p) PROVE TypeOK'
  BY <1>2 DEF Crash, TypeOK
<1>3. ASSUME NEW p \in Procs, ClaimFails(p) PROVE TypeOK'
  BY <1>3 DEF ClaimFails, Fault, TypeOK
<1>4. ASSUME NEW s \in Slots, CallFails(s) PROVE TypeOK'
  <2>1. exec[s] \in Executor /\ "failed" \in Events
    BY <1>0, <1>4, BusySlot DEF CallFails, Events, TerminalStatuses
  <2>2. ExecType'
    BY <1>0, <1>4, <2>1, RaiseEffect DEF CallFails
  <2> QED
    BY <1>4, <2>2 DEF CallFails, Fault, TypeOK, ExecType
<1>5. ASSUME NEW s \in Slots, ReportFails(s) PROVE TypeOK'
  <2>1. exec[s] \in Executor
    BY <1>0, <1>5, BusySlot DEF ReportFails
  <2>2. ExecType' /\ workers' \in [Procs -> Int]
    BY <1>0, <1>5, <2>1, ExitEffect DEF ReportFails, TypeOK
  <2> QED
    BY <1>5, <2>2 DEF ReportFails, Fault, TypeOK, ExecType
<1>6. ASSUME NEW s \in Slots, HeartbeatFails(s) PROVE TypeOK'
  <2>1. exec[s] \in Executor
    BY <1>0, <1>6 DEF HeartbeatFails, ExecType
  <2>2. [exec[s] EXCEPT !.beats = FALSE] \in Executor
    BY <2>1 DEF Executor
  <2>3. ExecType'
    BY <1>0, <1>6, <2>2 DEF HeartbeatFails, ExecType
  <2> QED
    BY <1>6, <2>3 DEF HeartbeatFails, Fault, TypeOK, ExecType
<1> QED
  BY <1>1, <1>2, <1>3, <1>4, <1>5, <1>6

LEMMA TypeStep ==
  ASSUME TypeOK, [Next]_vars, \A s \in Slots : exec[s] # Idle => PendingInv(exec[s])
  PROVE  TypeOK'
<1>1. ASSUME NEW s \in Slots, ExecutorStep(s) PROVE TypeOK'
  <2>1. exec[s] # Idle
    BY <1>1 DEF ExecutorStep, RowGone, Boot, WaitOver, WaitCancelled, WaitTimeout,
       Begin, Hello, Progress, TurnCancelled, TurnFailed, TurnCommits, Checkpoint,
       Resume, Reenter, Finish, FencedOut, At, Idle
  <2> QED
    BY <1>1, <2>1, TypeExecutor
<1>2. CASE UNCHANGED vars
  BY <1>2 DEF vars, rows, hosts, TypeOK
<1> QED
  BY <1>1, <1>2, TypeClients, TypeRecovery, TypeFaults DEF Next

-----------------------------------------------------------------------------
(* What a step may do to the rows, and what an executor that did not move  *)
(* needs of it.                                                            *)

RowSame(r) ==
  /\ status'[r] = status[r] /\ phase'[r] = phase[r] /\ log'[r] = log[r]
  /\ reply'[r] = reply[r] /\ commits'[r] = commits[r]

\* What a step may do to a row: it never comes back, its log grows, its answer
\* and its turn stand, a checkpoint is consumed only by ending the run, and only
\* recoverable work is queued again.
RowStep(r) ==
  /\ status[r] # "absent" => status'[r] # "absent"
  /\ log'[r] = log[r] \/ Len(log'[r]) > Len(log[r])
  /\ commits[r] > 0 => commits'[r] > 0
  /\ reply[r] = "answered" => reply'[r] = "answered"
  /\ Resumable(r) => phase'[r] = "postprocess" \/ log'[r] # log[r] \/ Ended(r)
  /\ status[r] # "absent" /\ status'[r] \in {"queued", "recovering"} =>
       \/ status[r] \in {"queued", "recovering"} /\ phase'[r] = phase[r]
       \/ phase'[r] = "postprocess"

\* The executor of slot o did not move.
Kept(o) ==
  /\ exec[o] # Idle
  /\ exec'[o].run = exec[o].run /\ exec'[o].pc = exec[o].pc
  /\ exec'[o].base = exec[o].base /\ exec'[o].pending = exec[o].pending

LEMMA SameRow ==
  ASSUME NEW r \in Runs, RowSame(r)
  PROVE  RowStep(r) /\ (RowInv(r) => RowInv(r)')
<1>1. RowStep(r)
  BY DEF RowSame, RowStep, Resumable
<1>2. RowInv(r) => RowInv(r)'
  BY DEF RowSame, RowInv, Resumable, Terminal, Ended, LastEvent
<1> QED
  BY <1>1, <1>2

LEMMA KeptExecutor ==
  ASSUME TypeOK, NEW o \in Slots, Kept(o), ExecInv(exec[o]),
         RowStep(exec[o].run),
         exec[o].pc = "turn" => commits'[exec[o].run] = commits[exec[o].run]
  PROVE  ExecInv(exec[o])'
<1> DEFINE r == exec[o].run
<1>1. /\ r \in Runs /\ exec[o].base \in Nat
      /\ Len(log[r]) \in Nat
  BY ExecutorFields DEF TypeOK, Kept
<1>2. exec'[o].base = Len(log'[r]) => log'[r] = log[r] /\ exec[o].base = Len(log[r])
  <2>1. exec'[o].base = exec[o].base /\ exec[o].base <= Len(log[r])
    BY DEF Kept, ExecInv
  <2>2. log'[r] = log[r] \/ Len(log'[r]) > Len(log[r])
    BY DEF RowStep
  <2> QED
    BY <1>1, <2>1, <2>2
<1>3. PendingInv(exec[o])'
  BY DEF Kept, ExecInv, PendingInv
<1>4. /\ status'[r] # "absent"
      /\ exec'[o].base <= Len(log'[r])
      /\ exec'[o].pc = "turn" => log'[r] # <<>> /\ commits'[r] = 0
      /\ exec'[o].pc \in {"checkpoint", "close"} =>
           commits'[r] > 0 /\ reply'[r] = "answered"
  BY <1>1 DEF Kept, RowStep, ExecInv
<1>5. exec'[o].base = Len(log'[r]) =>
        /\ ~Ended(r)'
        /\ exec'[o].pc = "boot" => log'[r] = <<>> \/ Resumable(r)'
        /\ exec'[o].pc \in {"wait", "begin", "hello"} => log'[r] = <<>>
  BY <1>2 DEF Kept, RowStep, ExecInv, Ended, Resumable
<1>6. exec'[o].pc = "hello" =>
        (status'[r] \in {"queued", "recovering"} => Resumable(r)')
  BY DEF Kept, RowStep, ExecInv, Resumable
<1> QED
  BY <1>3, <1>4, <1>5, <1>6 DEF ExecInv, Kept

-----------------------------------------------------------------------------
(* The two shapes of a step.                                               *)

\* The rows change and no executor moves, though some may vanish.
LEMMA RowsOnly ==
  ASSUME TypeOK, IInv,
         \A o \in Slots : exec'[o] = Idle \/ Kept(o),
         \A q \in Runs : RowStep(q) /\ RowInv(q)' /\ commits'[q] = commits[q]
  PROVE  IInv'
<1>1. ASSUME NEW o \in Slots, exec'[o] # Idle PROVE ExecInv(exec[o])'
  <2>1. Kept(o) /\ exec[o] \in Executor /\ exec[o].run \in Runs /\ ExecInv(exec[o])
    BY <1>1, ExecutorFields DEF Kept, TypeOK, IInv
  <2> QED
    BY <2>1, KeptExecutor
<1>2. OneTurn'
  BY DEF IInv, OneTurn, Kept, Idle
<1> QED
  BY <1>1, <1>2 DEF IInv

\* The executor of slot s moves, or starts, and the rows change.
LEMMA OneMoves ==
  ASSUME TypeOK, IInv, NEW s \in Slots,
         \A o \in Slots \ {s} : exec'[o] = exec[o],
         exec'[s] # Idle => ExecInv(exec[s])',
         \A o \in Slots \ {s} : exec'[s].pc = "turn" /\ exec[o].pc = "turn" =>
                                  exec[o].run # exec'[s].run,
         \A q \in Runs : RowStep(q) /\ RowInv(q)',
         \A o \in Slots \ {s} : exec[o].pc = "turn" =>
                                  commits'[exec[o].run] = commits[exec[o].run]
  PROVE  IInv'
<1>1. ASSUME NEW o \in Slots \ {s}, exec'[o] # Idle PROVE ExecInv(exec[o])'
  <2>1. Kept(o) /\ exec[o] \in Executor /\ exec[o].run \in Runs /\ ExecInv(exec[o])
    BY <1>1, ExecutorFields DEF Kept, TypeOK, IInv
  <2> QED
    BY <2>1, KeptExecutor
<1>2. OneTurn'
  BY DEF IInv, OneTurn
<1> QED
  BY <1>1, <1>2 DEF IInv

\* Where Goto, Raise and the two ways out leave the executors.
Moves(s, pc, pending, base) ==
  /\ exec'[s] # Idle
  /\ exec'[s].run = exec[s].run /\ exec'[s].pc = pc
  /\ exec'[s].pending = pending /\ exec'[s].base = base
  /\ \A o \in Slots \ {s} : exec'[o] = exec[o]

LEMMA GotoMoves ==
  ASSUME TypeOK, NEW s \in Slots, exec[s] \in Executor, NEW pc \in Pcs, NEW pending,
         Goto(s, pc, pending)
  PROVE  Moves(s, pc, pending, exec[s].base)
<1>1. exec'[s] = [exec[s] EXCEPT !.pc = pc, !.pending = pending]
  BY DEF Goto, TypeOK
<1>2. /\ exec'[s].run = exec[s].run /\ exec'[s].pc = pc
      /\ exec'[s].pending = pending /\ exec'[s].base = exec[s].base
  BY <1>1 DEF Executor
<1>3. \A o \in Slots \ {s} : exec'[o] = exec[o]
  BY DEF Goto, TypeOK
<1> QED
  BY <1>2, <1>3 DEF Moves, Idle, Pcs

LEMMA FlushMoves ==
  ASSUME TypeOK, NEW s \in Slots, exec[s] \in Executor, NEW pc \in Pcs, NEW events,
         ~Fenced(s), Flush(s, pc, events)
  PROVE  Moves(s, pc, <<>>, exec[s].base + Len(events))
<1>1. exec'[s] = [exec[s] EXCEPT !.pc = pc, !.pending = <<>>,
                                 !.base = exec[s].base + Len(events)]
  BY DEF Flush, TypeOK
<1>2. /\ exec'[s].run = exec[s].run /\ exec'[s].pc = pc
      /\ exec'[s].pending = <<>> /\ exec'[s].base = exec[s].base + Len(events)
  BY <1>1 DEF Executor
<1>3. \A o \in Slots \ {s} : exec'[o] = exec[o]
  BY DEF Flush, TypeOK
<1> QED
  BY <1>2, <1>3 DEF Moves, Idle, Pcs

LEMMA Exits ==
  ASSUME TypeOK, NEW s \in Slots, Leave(s) \/ Die(s)
  PROVE  exec'[s] = Idle /\ \A o \in Slots \ {s} : exec'[o] = exec[o]
  BY DEF Leave, Die, TypeOK

LEMMA Spawns ==
  ASSUME TypeOK, NEW s \in Slots, NEW p, NEW r \in Runs, NEW base, NEW via,
         Spawn(s, p, r, base, via)
  PROVE  /\ exec[s] = Idle
         /\ exec'[s].run = r /\ exec'[s].pc = "boot"
         /\ exec'[s].base = base /\ exec'[s].pending = <<>>
         /\ \A o \in Slots \ {s} : exec'[o] = exec[o]
  BY DEF Spawn, TypeOK

\* Steps that leave the rows alone.
LEMMA Silent ==
  ASSUME TypeOK, IInv, NEW s \in Slots, UNCHANGED rows, exec[s] \in Executor,
         NEW pc \in Pcs, NEW pending, Moves(s, pc, pending, exec[s].base),
         pc = "turn" => exec[s].pc = "turn",
         ExecInv(exec[s])'
  PROVE  IInv'
<1>1. \A q \in Runs : RowSame(q)
  BY DEF rows, RowSame
<1>2. \A q \in Runs : RowStep(q) /\ RowInv(q)'
  BY <1>1, SameRow DEF IInv
<1>3. \A o \in Slots \ {s} : exec'[s].pc = "turn" /\ exec[o].pc = "turn" =>
                                  exec[o].run # exec'[s].run
  BY DEF Moves, IInv, OneTurn
<1>4. commits' = commits
  BY DEF rows
<1> QED
  BY <1>2, <1>3, <1>4, OneMoves DEF Moves

LEMMA RaiseKeeps ==
  ASSUME TypeOK, IInv, NEW s \in Slots, UNCHANGED rows, exec[s] \in Executor,
         NEW outcome \in {"failed", "cancelled"}, Raise(s, outcome)
  PROVE  IInv'
<1> DEFINE pending == Append(exec[s].pending, outcome)
<1>1. Moves(s, "abort", pending, exec[s].base)
  BY GotoMoves DEF Raise, Pcs
<1>2. /\ Len(pending) > 0
      /\ pending[Len(pending)] = outcome
  BY ExecutorFields
<1> HIDE DEF pending
<1>3. PendingInv(exec[s])'
  BY <1>1, <1>2 DEF Moves, PendingInv
<1>4. ExecInv(exec[s])
  BY ExecutorFields DEF IInv, Idle
<1>5. ExecInv(exec[s])'
  BY <1>1, <1>3, <1>4 DEF Moves, ExecInv, rows, Ended
<1> QED
  BY <1>1, <1>5, Silent DEF Pcs

LEMMA ExitKeeps ==
  ASSUME TypeOK, IInv, NEW s \in Slots, UNCHANGED rows, Leave(s) \/ Die(s)
  PROVE  IInv'
<1>1. \A q \in Runs : RowSame(q)
  BY DEF rows, RowSame
<1>2. \A q \in Runs : RowStep(q) /\ RowInv(q)'
  BY <1>1, SameRow DEF IInv
<1>3. exec'[s] = Idle /\ \A o \in Slots \ {s} : exec'[o] = exec[o]
  BY Exits
<1>4. commits' = commits
  BY DEF rows
<1> QED
  BY <1>2, <1>3, <1>4, OneMoves DEF Idle

-----------------------------------------------------------------------------
(* The executor thread.                                                    *)

\* A step of the executor in slot s touches the row of its own run only.
LEMMA OwnRow ==
  ASSUME TypeOK, IInv, NEW s \in Slots, exec[s] \in Executor, NEW r \in Runs,
         r = exec[s].run,
         \A o \in Slots \ {s} : exec'[o] = exec[o],
         exec'[s] = Idle \/ (exec'[s].run = r /\ ExecInv(exec[s])'),
         exec'[s].pc = "turn" =>
           exec[s].pc = "turn" \/ \A o \in Slots : exec[o].pc = "turn" => exec[o].run # r,
         \A q \in Runs \ {r} : RowSame(q),
         RowStep(r), RowInv(r)',
         commits'[r] = commits[r] \/ exec[s].pc = "turn"
  PROVE  IInv'
<1>1. \A q \in Runs : RowStep(q) /\ RowInv(q)'
  BY SameRow DEF IInv
<1>2. ASSUME NEW o \in Slots \ {s}, exec[o].pc = "turn"
      PROVE  commits'[exec[o].run] = commits[exec[o].run]
  <2>1. exec[o].run \in Runs
    BY <1>2, BusySlot DEF TypeOK, ExecType
  <2> QED
    BY <1>2, <2>1 DEF IInv, OneTurn, RowSame
<1>3. \A o \in Slots \ {s} : exec'[s].pc = "turn" /\ exec[o].pc = "turn" =>
                                  exec[o].run # exec'[s].run
  BY DEF IInv, OneTurn, Idle
<1> QED
  BY <1>1, <1>2, <1>3, OneMoves

LEMMA BeginKeeps ==
  ASSUME TypeOK, IInv, NEW s \in Slots, exec[s] \in Executor, Begin(s)
  PROVE  IInv'
<1> DEFINE r == exec[s].run
<1>1. r \in Runs /\ ExecInv(exec[s]) /\ RowInv(r)
  BY ExecutorFields DEF IInv, Idle
<1>2. Moves(s, "hello", <<"started">>, exec[s].base)
  BY GotoMoves DEF Begin, Pcs
<1>3. /\ status'[r] = "running" /\ UNCHANGED <<phase, log, reply, commits>>
      /\ \A q \in Runs \ {r} : RowSame(q)
  BY <1>1 DEF Begin, TypeOK, RowSame
<1>4. RowStep(r) /\ RowInv(r)'
  BY <1>1, <1>2, <1>3 DEF RowStep, RowInv, Terminal, TerminalStatuses, Ended,
     LastEvent, Resumable, Moves
<1>5. ExecInv(exec[s])'
  BY <1>1, <1>2, <1>3 DEF Moves, ExecInv, PendingInv, Ended, Begin, At
<1> QED
  BY <1>1, <1>2, <1>3, <1>4, <1>5, OwnRow DEF Moves

\* Appending to a log.
LEMMA Appending ==
  ASSUME NEW l \in Seq(Events), NEW events \in Seq(Events), Len(events) > 0
  PROVE  /\ Len(l \o events) = Len(l) + Len(events)
         /\ Len(l \o events) > Len(l) /\ l \o events # l /\ l \o events # <<>>
         /\ (l \o events)[Len(l \o events)] = events[Len(events)]
<1>1. Len(l \o events) = Len(l) + Len(events) /\ Len(l) \in Nat /\ Len(events) \in Nat
  OBVIOUS
<1>2. (l \o events)[Len(l) + Len(events)] = events[Len(events)]
  OBVIOUS
<1> QED
  BY <1>1, <1>2

\* A flush behind another publisher turns into a failure.
LEMMA FencedFlush ==
  ASSUME TypeOK, IInv, NEW s \in Slots, exec[s] \in Executor, UNCHANGED rows,
         NEW events \in Seq(Events), Goto(s, "abort", events \o <<"failed">>)
  PROVE  IInv'
<1> DEFINE pending == events \o <<"failed">>
<1>1. Moves(s, "abort", pending, exec[s].base)
  BY GotoMoves DEF Pcs
<1>2. Len(pending) > 0 /\ pending[Len(pending)] = "failed"
  OBVIOUS
<1> HIDE DEF pending
<1>3. PendingInv(exec[s])'
  BY <1>1, <1>2 DEF Moves, PendingInv
<1>4. ExecInv(exec[s])
  BY ExecutorFields DEF IInv, Idle
<1>5. ExecInv(exec[s])'
  BY <1>1, <1>3, <1>4 DEF Moves, ExecInv, rows, Ended
<1> QED
  BY <1>1, <1>5, Silent DEF Pcs

LEMMA HelloKeeps ==
  ASSUME TypeOK, IInv, NEW s \in Slots, exec[s] \in Executor, Hello(s)
  PROVE  IInv'
<1> DEFINE r == exec[s].run
<1>1. /\ r \in Runs /\ ExecInv(exec[s]) /\ RowInv(r)
      /\ exec[s].pc = "hello" /\ exec[s].pending = <<"started">>
  BY ExecutorFields DEF IInv, Idle, Hello, At, ExecInv, PendingInv
<1>2. <<"started">> \in Seq(Events)
  BY DEF Events
<1>3. CASE Fenced(s)
  BY <1>1, <1>2, <1>3, FencedFlush DEF Hello, Flush, rows
<1>4. CASE ~Fenced(s)
  <2>1. log[r] = <<>> /\ commits[r] = 0 /\ exec[s].base = 0
    BY <1>1, <1>4 DEF Fenced, ExecInv, RowInv
  <2>2. Moves(s, "turn", <<>>, 1)
    <3>1. Flush(s, "turn", <<"started">>)
      BY <1>1 DEF Hello
    <3>2. Moves(s, "turn", <<>>, exec[s].base + Len(<<"started">>))
      BY <1>4, <3>1, FlushMoves DEF Pcs
    <3> QED
      BY <2>1, <3>2
  <2>3. log'[r] = <<"started">>
    BY <1>1, <1>4, <2>1 DEF Hello, Flush, TypeOK
  <2>4. /\ UNCHANGED <<status, phase, reply, commits>>
        /\ \A q \in Runs \ {r} : RowSame(q)
    BY <1>1, <1>4 DEF Hello, Flush, TypeOK, RowSame
  <2>5. RowStep(r)
    BY <2>1, <2>3, <2>4 DEF RowStep, Resumable
  <2>6. ~Ended(r)
    BY <2>1 DEF Ended
  <2>7. log'[r] # <<>> /\ Len(log'[r]) = 1 /\ log'[r][1] \notin TerminalStatuses
    BY <2>3 DEF TerminalStatuses
  <2>8. status[r] # "absent" /\ (status[r] \in {"queued", "recovering"} => Resumable(r))
    BY <1>1 DEF ExecInv
  <2>9. RowInv(r)'
    BY <1>1, <2>1, <2>2, <2>4, <2>6, <2>7, <2>8
       DEF RowInv, Terminal, Ended, LastEvent, Resumable, Moves
  <2>10. ExecInv(exec[s])'
    BY <1>1, <2>1, <2>2, <2>4, <2>7, <2>8 DEF Moves, ExecInv, PendingInv, Ended
  <2>11. \A o \in Slots : exec[o].pc = "turn" => exec[o].run # r
    BY <2>1 DEF IInv, ExecInv, Idle
  <2> QED
    BY <1>1, <2>2, <2>4, <2>5, <2>9, <2>10, <2>11, OwnRow DEF Moves
<1> QED
  BY <1>3, <1>4

LEMMA ProgressKeeps ==
  ASSUME TypeOK, IInv, NEW s \in Slots, exec[s] \in Executor, Progress(s)
  PROVE  IInv'
<1> DEFINE r == exec[s].run
           evs == <<"activity">>
<1>1. /\ r \in Runs /\ ExecInv(exec[s]) /\ RowInv(r) /\ exec[s].pc = "turn"
      /\ log[r] # <<>> /\ commits[r] = 0
  BY ExecutorFields DEF IInv, Idle, Progress, At, ExecInv
<1>2. /\ evs \in Seq(Events) /\ Len(evs) = 1 /\ evs[1] \notin TerminalStatuses
      /\ log[r] \in Seq(Events)
  BY <1>1 DEF Events, TerminalStatuses, TypeOK
<1>3. CASE Fenced(s)
  BY <1>1, <1>2, <1>3, FencedFlush DEF Progress, Flush, rows
<1>4. CASE ~Fenced(s)
  <2>1. exec[s].base = Len(log[r]) /\ ~Ended(r)
    BY <1>1, <1>4 DEF Fenced, ExecInv
  <2>2. Moves(s, "turn", <<>>, exec[s].base + 1)
    <3>1. Moves(s, "turn", <<>>, exec[s].base + Len(evs))
      BY <1>4, FlushMoves DEF Progress, Pcs
    <3> QED
      BY <1>2, <3>1
  <2>3. log'[r] = log[r] \o evs
    BY <1>1, <1>4 DEF Progress, Flush, TypeOK
  <2>4. /\ UNCHANGED <<status, phase, reply, commits>>
        /\ \A q \in Runs \ {r} : RowSame(q)
    BY <1>1, <1>4 DEF Progress, Flush, TypeOK, RowSame
  <2>5. /\ Len(log'[r]) = Len(log[r]) + 1 /\ Len(log'[r]) > Len(log[r])
        /\ log'[r] # log[r] /\ log'[r] # <<>>
        /\ log'[r][Len(log'[r])] \notin TerminalStatuses
    BY <1>2, <2>3, Appending
  <2> HIDE DEF evs
  <2>6. RowStep(r)
    BY <2>4, <2>5 DEF RowStep, Resumable
  <2>7. RowInv(r)'
    BY <1>1, <2>1, <2>2, <2>4, <2>5
       DEF RowInv, Terminal, Ended, LastEvent, Resumable, Moves
  <2>8. ExecInv(exec[s])'
    BY <1>1, <2>1, <2>2, <2>4, <2>5 DEF Moves, ExecInv, PendingInv, Ended
  <2> QED
    BY <1>1, <2>2, <2>4, <2>6, <2>7, <2>8, OwnRow DEF Moves
<1> QED
  BY <1>3, <1>4

LEMMA TurnCommitsKeeps ==
  ASSUME TypeOK, IInv, NEW s \in Slots, exec[s] \in Executor, TurnCommits(s)
  PROVE  IInv'
<1> DEFINE r == exec[s].run
<1>1. /\ r \in Runs /\ ExecInv(exec[s]) /\ RowInv(r) /\ exec[s].pc = "turn"
      /\ log[r] # <<>> /\ commits[r] = 0
  BY ExecutorFields DEF IInv, Idle, TurnCommits, At, ExecInv
<1>2. PICK pc \in {"checkpoint", "close"},
           pending \in {<<>>, <<"succeeded">>, <<"interrupted">>} :
        /\ Goto(s, pc, pending)
        /\ IF pc = "checkpoint" THEN pending = <<>>
           ELSE pending \in {<<"succeeded">>, <<"interrupted">>}
  BY DEF TurnCommits
<1>3. Moves(s, pc, pending, exec[s].base)
  BY <1>2, GotoMoves DEF Pcs
<1>4. /\ commits'[r] = 1 /\ reply'[r] = "answered"
      /\ UNCHANGED <<status, phase, log>>
      /\ \A q \in Runs \ {r} : RowSame(q)
  BY <1>1 DEF TurnCommits, TypeOK, RowSame
<1>5. RowStep(r) /\ RowInv(r)'
  BY <1>1, <1>3, <1>4 DEF RowStep, RowInv, Terminal, Ended, LastEvent, Resumable,
     ExecInv, Moves
<1>6. PendingInv(exec[s])'
  BY <1>2, <1>3 DEF Moves, PendingInv
<1>7. ExecInv(exec[s])'
  BY <1>1, <1>2, <1>3, <1>4, <1>6 DEF Moves, ExecInv, Ended
<1> QED
  BY <1>1, <1>2, <1>3, <1>4, <1>5, <1>7, OwnRow DEF Moves

LEMMA CheckpointKeeps ==
  ASSUME TypeOK, IInv, NEW s \in Slots, exec[s] \in Executor, Checkpoint(s)
  PROVE  IInv'
<1> DEFINE r == exec[s].run
<1>1. /\ r \in Runs /\ ExecInv(exec[s]) /\ RowInv(r)
      /\ commits[r] > 0 /\ reply[r] = "answered" /\ status[r] # "absent"
  BY ExecutorFields DEF IInv, Idle, Checkpoint, At, ExecInv
<1>2. Moves(s, "close", <<"succeeded">>, exec[s].base)
  BY GotoMoves DEF Checkpoint, Pcs
<1>3. /\ phase'[r] = "postprocess" /\ UNCHANGED <<status, log, reply, commits>>
      /\ \A q \in Runs \ {r} : RowSame(q)
  BY <1>1 DEF Checkpoint, TypeOK, RowSame
<1>4. RowStep(r) /\ RowInv(r)'
  BY <1>1, <1>2, <1>3 DEF RowStep, RowInv, Terminal, Ended, LastEvent, Resumable,
     Moves
<1>5. ExecInv(exec[s])'
  BY <1>1, <1>2, <1>3 DEF Moves, ExecInv, PendingInv, Ended
<1> QED
  BY <1>1, <1>2, <1>3, <1>4, <1>5, OwnRow DEF Moves

LEMMA ResumeKeeps ==
  ASSUME TypeOK, IInv, NEW s \in Slots, exec[s] \in Executor, Resume(s)
  PROVE  IInv'
<1> DEFINE r == exec[s].run
<1>1. r \in Runs /\ ExecInv(exec[s]) /\ RowInv(r)
  BY ExecutorFields DEF IInv, Idle
<1>2. Moves(s, "reenter", <<>>, exec[s].base)
  BY GotoMoves DEF Resume, Pcs
<1>3. /\ status'[r] = "running" /\ UNCHANGED <<phase, log, reply, commits>>
      /\ \A q \in Runs \ {r} : RowSame(q)
  BY <1>1 DEF Resume, TypeOK, RowSame
<1>4. RowStep(r) /\ RowInv(r)'
  BY <1>1, <1>2, <1>3 DEF RowStep, RowInv, Terminal, TerminalStatuses, Ended,
     LastEvent, Resumable, Moves
<1>5. ExecInv(exec[s])'
  BY <1>1, <1>2, <1>3 DEF Moves, ExecInv, PendingInv, Ended
<1> QED
  BY <1>1, <1>2, <1>3, <1>4, <1>5, OwnRow DEF Moves

\* Ending a run: its log closes with the outcome the row shows.
LEMMA EndedRow ==
  ASSUME TypeOK, NEW r \in Runs, RowInv(r), NEW events \in Seq(Events),
         Len(events) > 0, events[Len(events)] \in TerminalStatuses,
         events[Len(events)] \in {"succeeded", "interrupted"} =>
           commits[r] > 0 /\ reply[r] = "answered",
         EndRun(r, events), UNCHANGED commits
  PROVE  RowStep(r) /\ RowInv(r)' /\ \A q \in Runs \ {r} : RowSame(q)
<1> DEFINE last == events[Len(events)]
<1>1. /\ log'[r] = log[r] \o events /\ status'[r] = last /\ phase'[r] = "none"
      /\ reply'[r] = IF reply[r] = "reserved" THEN "discarded" ELSE reply[r]
      /\ commits'[r] = commits[r]
      /\ \A q \in Runs \ {r} : RowSame(q)
  BY DEF EndRun, DiscardEmpty, TypeOK, RowSame
<1>2. /\ Len(log'[r]) > Len(log[r]) /\ log'[r] # log[r] /\ log'[r] # <<>>
      /\ log'[r][Len(log'[r])] = last
      /\ Len(log'[r]) > 0
  BY <1>1, Appending DEF TypeOK
<1> HIDE DEF last
<1>3. RowStep(r)
  BY <1>1, <1>2 DEF RowStep, Resumable, TerminalStatuses, last
<1>4. RowInv(r)'
  BY <1>1, <1>2 DEF RowInv, Terminal, TerminalStatuses, Ended, LastEvent, Resumable,
     last
<1> QED
  BY <1>1, <1>3, <1>4

LEMMA FinishKeeps ==
  ASSUME TypeOK, IInv, NEW s \in Slots, exec[s] \in Executor, Finish(s)
  PROVE  IInv'
<1>0. PICK r \in Runs, events \in Seq(Events) :
        r = exec[s].run /\ events = exec[s].pending
  BY ExecutorFields
<1>1. /\ r \in Runs /\ events \in Seq(Events) /\ ExecInv(exec[s]) /\ RowInv(r)
      /\ exec[s].pc \in {"close", "abort"}
      /\ EndRun(r, events) /\ UNCHANGED commits
  BY <1>0, ExecutorFields DEF IInv, Idle, Finish, At
<1>2. /\ Len(events) > 0 /\ events[Len(events)] \in TerminalStatuses
  BY <1>0, <1>1, PendingLast DEF ExecInv
<1>3. events[Len(events)] \in {"succeeded", "interrupted"} =>
        commits[r] > 0 /\ reply[r] = "answered"
  BY <1>0, <1>1 DEF ExecInv, PendingInv
<1>4. RowStep(r) /\ RowInv(r)' /\ \A q \in Runs \ {r} : RowSame(q)
  BY <1>1, <1>2, <1>3, EndedRow
<1>5. exec'[s] = Idle /\ \A o \in Slots \ {s} : exec'[o] = exec[o]
  BY Exits DEF Finish
<1>6. commits'[r] = commits[r]
  BY <1>1
<1> QED
  BY <1>0, <1>1, <1>4, <1>5, <1>6, OwnRow DEF Idle

LEMMA MovesSilently ==
  ASSUME TypeOK, IInv, NEW s \in Slots, exec[s] \in Executor, UNCHANGED rows,
         \/ RowGone(s) \/ Boot(s) \/ WaitOver(s) \/ WaitCancelled(s)
         \/ WaitTimeout(s) \/ TurnCancelled(s) \/ TurnFailed(s) \/ Reenter(s)
         \/ FencedOut(s)
  PROVE  IInv'
<1> DEFINE r == exec[s].run
<1>1. r \in Runs /\ ExecInv(exec[s]) /\ RowInv(r)
  BY ExecutorFields DEF IInv, Idle
<1>2. ASSUME Raise(s, "failed") \/ Raise(s, "cancelled") PROVE IInv'
  BY <1>2, RaiseKeeps
<1>3. ASSUME NEW pc \in {"wait", "begin", "resume"}, Goto(s, pc, <<>>),
             pc \in {"wait", "begin"} /\ exec[s].base = Len(log[r]) => log[r] = <<>>
      PROVE  IInv'
  <2>1. Moves(s, pc, <<>>, exec[s].base)
    BY <1>3, GotoMoves DEF Pcs
  <2>2. ExecInv(exec[s])'
    BY <1>1, <1>3, <2>1 DEF Moves, ExecInv, PendingInv, Ended, rows
  <2> QED
    BY <2>1, <2>2, Silent DEF Pcs
<1>4. CASE RowGone(s)
  BY <1>4, ExitKeeps DEF RowGone
<1>5. CASE Boot(s)
  BY <1>1, <1>3, <1>5 DEF Boot, At, ExecInv
<1>6. CASE WaitOver(s)
  BY <1>1, <1>3, <1>6 DEF WaitOver, At, ExecInv
<1>7. CASE WaitCancelled(s) \/ WaitTimeout(s) \/ TurnCancelled(s) \/ TurnFailed(s)
  BY <1>2, <1>7 DEF WaitCancelled, WaitTimeout, TurnCancelled, TurnFailed
<1>8. CASE Reenter(s)
  <2>1. CASE Resumable(r) /\ Goto(s, "close", <<"succeeded">>)
    <3>1. Moves(s, "close", <<"succeeded">>, exec[s].base)
      BY <2>1, GotoMoves DEF Pcs
    <3>2. commits[r] > 0 /\ reply[r] = "answered"
      BY <1>1, <2>1 DEF RowInv, Resumable
    <3>3. ExecInv(exec[s])'
      BY <1>1, <3>1, <3>2 DEF Moves, ExecInv, PendingInv, Ended, rows
    <3> QED
      BY <3>1, <3>3, Silent DEF Pcs
  <2> QED
    BY <1>2, <1>8, <2>1 DEF Reenter
<1>9. CASE FencedOut(s)
  BY <1>2, <1>9, ExitKeeps DEF FencedOut
<1> QED
  BY <1>4, <1>5, <1>6, <1>7, <1>8, <1>9

LEMMA ExecutorKeeps ==
  ASSUME TypeOK, IInv, NEW s \in Slots, exec[s] \in Executor, ExecutorStep(s)
  PROVE  IInv'
<1>1. ASSUME \/ RowGone(s) \/ Boot(s) \/ WaitOver(s) \/ WaitCancelled(s)
             \/ WaitTimeout(s) \/ TurnCancelled(s) \/ TurnFailed(s) \/ Reenter(s)
             \/ FencedOut(s)
      PROVE  IInv'
  <2>1. UNCHANGED rows
    BY <1>1 DEF RowGone, Boot, WaitOver, WaitCancelled, WaitTimeout, TurnCancelled,
       TurnFailed, Reenter, FencedOut
  <2> QED
    BY <1>1, <2>1, MovesSilently
<1> QED
  BY <1>1, BeginKeeps, HelloKeeps, ProgressKeeps, TurnCommitsKeeps, CheckpointKeeps,
     ResumeKeeps, FinishKeeps DEF ExecutorStep

-----------------------------------------------------------------------------
(* Clients.                                                                *)

LEMMA AdmitKeeps ==
  ASSUME TypeOK, IInv, NEW p \in Procs, NEW r \in Runs, NEW s \in Slots, Admit(p, r, s)
  PROVE  IInv'
<1>1. /\ log[r] = <<>> /\ phase[r] = "none" /\ reply[r] = "none" /\ commits[r] = 0
      /\ status[r] = "absent"
  BY DEF Admit, IInv, RowInv
<1>2. /\ status'[r] = "queued" /\ reply'[r] \in {"reserved", "none"}
      /\ UNCHANGED <<phase, log, commits>>
      /\ \A q \in Runs \ {r} : RowSame(q)
  BY DEF Admit, TypeOK, RowSame
<1>3. RowStep(r) /\ RowInv(r)'
  BY <1>1, <1>2 DEF RowStep, RowInv, Terminal, TerminalStatuses, Ended, LastEvent,
     Resumable
<1>4. /\ exec[s] = Idle
      /\ exec'[s].run = r /\ exec'[s].pc = "boot"
      /\ exec'[s].base = 0 /\ exec'[s].pending = <<>>
      /\ \A o \in Slots \ {s} : exec'[o] = exec[o]
  BY Spawns DEF Admit
<1>5. ExecInv(exec[s])'
  BY <1>1, <1>2, <1>4 DEF ExecInv, PendingInv, Ended
<1>6. \A q \in Runs : RowStep(q) /\ RowInv(q)'
  BY <1>2, <1>3, SameRow DEF IInv
<1> QED
  BY <1>2, <1>4, <1>5, <1>6, OneMoves

\* A step that keeps every executor and, up to a deletion, every row.
LEMMA RowsRest ==
  ASSUME TypeOK, IInv, UNCHANGED <<phase, log, reply, commits>>,
         \A q \in Runs : status'[q] = status[q] \/ status'[q] = "deleted",
         \A o \in Slots : exec'[o] = Idle \/ Kept(o) \/ exec'[o] = exec[o]
  PROVE  IInv'
<1>1. ASSUME NEW q \in Runs PROVE RowStep(q) /\ RowInv(q)'
  <2>1. CASE status'[q] = status[q]
    BY <2>1, SameRow DEF RowSame, IInv
  <2>2. CASE status'[q] = "deleted"
    BY <2>2 DEF IInv, RowStep, RowInv, Terminal, TerminalStatuses, Ended, LastEvent,
       Resumable
  <2> QED
    BY <2>1, <2>2
<1>2. \A o \in Slots : exec'[o] = Idle \/ Kept(o)
  BY DEF Kept
<1> QED
  BY <1>1, <1>2, RowsOnly

LEMMA ClientsKeep ==
  ASSUME TypeOK, IInv,
         \/ \E r \in Runs : Cancel(r)
         \/ \E t \in Threads : DeleteConversation(t)
  PROVE  IInv'
<1>1. ASSUME NEW r \in Runs, Cancel(r) PROVE IInv'
  BY <1>1, RowsRest DEF Cancel
<1>2. ASSUME NEW t \in Threads, DeleteConversation(t) PROVE IInv'
  <2>1. \A q \in Runs : status'[q] = status[q] \/ status'[q] = "deleted"
    BY <1>2 DEF DeleteConversation
  <2> QED
    BY <1>2, <2>1, RowsRest DEF DeleteConversation
<1> QED
  BY <1>1, <1>2

-----------------------------------------------------------------------------
(* Recovery.                                                               *)

LEMMA ClaimedWork ==
  ASSUME NEW p, NEW r \in Runs, Claims(p, r)
  PROVE  status[r] \in {"queued", "recovering", "running"}
  BY DEF Claims, Work, Eligible

LEMMA RecoverKeeps ==
  ASSUME TypeOK, IInv, NEW p \in Procs, Recover(p)
  PROVE  IInv'
<1>1. ASSUME NEW r \in Runs, Repair(p, r) PROVE IInv'
  <2>1. /\ RowInv(r) /\ Ended(r) /\ status'[r] = LastEvent(r) /\ phase'[r] = "none"
        /\ reply'[r] = IF reply[r] = "reserved" THEN "discarded" ELSE reply[r]
        /\ UNCHANGED <<log, commits, exec>>
        /\ \A q \in Runs \ {r} : RowSame(q)
    BY <1>1 DEF Repair, DiscardEmpty, TypeOK, RowSame, LastEvent, IInv
  <2>2. LastEvent(r) \in TerminalStatuses /\ log[r] # <<>>
    BY <2>1 DEF Ended, LastEvent
  <2>3. RowStep(r)
    BY <2>1, <2>2 DEF RowStep, Resumable, TerminalStatuses
  <2>4. RowInv(r)'
    BY <2>1, <2>2 DEF RowInv, Terminal, TerminalStatuses, Ended, LastEvent, Resumable
  <2> QED
    BY <2>1, <2>3, <2>4, SameRow, RowsOnly DEF IInv, Kept
<1>2. ASSUME NEW r \in Runs, Condemn(p, r) PROVE IInv'
  <2> DEFINE events == <<"failed">>
  <2>1. /\ RowInv(r) /\ EndRun(r, events) /\ UNCHANGED <<commits, exec>>
    BY <1>2 DEF Condemn, IInv
  <2>2. /\ events \in Seq(Events) /\ Len(events) > 0
        /\ events[Len(events)] = "failed"
    BY DEF Events, TerminalStatuses
  <2> HIDE DEF events
  <2>3. RowStep(r) /\ RowInv(r)' /\ \A q \in Runs \ {r} : RowSame(q)
    BY <2>1, <2>2, EndedRow DEF TerminalStatuses
  <2> QED
    BY <2>1, <2>3, SameRow, RowsOnly DEF IInv, Kept
<1>3. ASSUME NEW r \in Runs, NEW s \in Slots, Adopt(p, r, s) PROVE IInv'
  <2>1. /\ RowInv(r) /\ ~Ended(r)
        /\ status[r] \in {"queued", "recovering", "running"}
        /\ status[r] = "running" => Resumable(r)
    BY <1>3, ClaimedWork DEF Adopt, IInv
  <2>2. /\ status'[r] = "recovering" /\ UNCHANGED <<phase, log, reply, commits>>
        /\ \A q \in Runs \ {r} : RowSame(q)
    BY <1>3 DEF Adopt, TypeOK, RowSame
  <2>3. log[r] = <<>> \/ Resumable(r)
    BY <2>1 DEF RowInv
  <2>4. RowStep(r) /\ RowInv(r)'
    BY <2>1, <2>2, <2>3 DEF RowStep, RowInv, Terminal, TerminalStatuses, Ended,
       LastEvent, Resumable
  <2>5. /\ exec[s] = Idle
        /\ exec'[s].run = r /\ exec'[s].pc = "boot"
        /\ exec'[s].base = Len(log[r]) /\ exec'[s].pending = <<>>
        /\ \A o \in Slots \ {s} : exec'[o] = exec[o]
    BY <1>3, Spawns DEF Adopt
  <2>6. Len(log[r]) \in Nat
    BY DEF TypeOK
  <2>7. ExecInv(exec[s])'
    BY <2>1, <2>2, <2>3, <2>5, <2>6 DEF ExecInv, PendingInv, Ended, Resumable
  <2>8. \A q \in Runs : RowStep(q) /\ RowInv(q)'
    BY <2>2, <2>4, SameRow DEF IInv
  <2> QED
    BY <2>2, <2>5, <2>7, <2>8, OneMoves
<1> QED
  BY <1>1, <1>2, <1>3 DEF Recover

LEMMA HostsKeep ==
  ASSUME TypeOK, IInv,
         \/ \E r \in Runs : Expire(r)
         \/ \E s \in Slots : Renew(s) \/ HeartbeatFails(s)
         \/ \E p \in Procs : Start(p) \/ Crash(p) \/ ClaimFails(p)
  PROVE  IInv'
<1>1. /\ UNCHANGED <<status, phase, log, reply, commits>>
  BY DEF Expire, Renew, HeartbeatFails, Start, Crash, ClaimFails, Fault, rows
<1>2. ASSUME NEW s \in Slots, HeartbeatFails(s), NEW o \in Slots
      PROVE  Kept(o) \/ exec'[o] = exec[o]
  <2>1. exec[s] \in Executor /\ exec[s] # Idle
    BY <1>2 DEF HeartbeatFails, TypeOK
  <2>2. exec' = [exec EXCEPT ![s] = [@ EXCEPT !.beats = FALSE]]
    BY <1>2 DEF HeartbeatFails
  <2> QED
    BY <2>1, <2>2 DEF Kept, TypeOK, Executor
<1>3. ASSUME NEW p \in Procs, Crash(p), NEW o \in Slots
      PROVE  exec'[o] = Idle \/ exec'[o] = exec[o]
  BY <1>3 DEF Crash
<1>4. \A o \in Slots : exec'[o] = Idle \/ Kept(o) \/ exec'[o] = exec[o]
  BY <1>2, <1>3 DEF Expire, Renew, Start, ClaimFails
<1> QED
  BY <1>1, <1>4, RowsRest

LEMMA FaultsKeep ==
  ASSUME TypeOK, IInv, NEW s \in Slots, CallFails(s) \/ ReportFails(s)
  PROVE  IInv'
<1>1. exec[s] \in Executor /\ UNCHANGED rows
  BY BusySlot DEF CallFails, ReportFails, Fault, TypeOK, ExecType
<1> QED
  BY <1>1, RaiseKeeps, ExitKeeps DEF CallFails, ReportFails

-----------------------------------------------------------------------------
(* The theorems.                                                           *)

LEMMA InitIInv == Init => IInv
  BY DEF Init, IInv, RowInv, Terminal, TerminalStatuses, Ended, LastEvent, Resumable,
     OneTurn, Idle

LEMMA StepIInv == TypeOK /\ IInv /\ [Next]_vars => TypeOK' /\ IInv'
<1> SUFFICES ASSUME TypeOK, IInv, [Next]_vars
             PROVE  TypeOK' /\ IInv'
  OBVIOUS
<1>1. TypeOK'
  BY TypeStep DEF IInv, ExecInv
<1>2. ASSUME NEW s \in Slots, ExecutorStep(s) PROVE IInv'
  <2>1. exec[s] # Idle
    BY <1>2 DEF ExecutorStep, RowGone, Boot, WaitOver, WaitCancelled, WaitTimeout,
       Begin, Hello, Progress, TurnCancelled, TurnFailed, TurnCommits, Checkpoint,
       Resume, Reenter, Finish, FencedOut, At, Idle
  <2>2. exec[s] \in Executor
    BY <2>1 DEF TypeOK
  <2> QED
    BY <1>2, <2>2, ExecutorKeeps
<1>3. CASE UNCHANGED vars
  <2>1. UNCHANGED <<status, phase, log, reply, commits, exec>>
    BY <1>3 DEF vars, rows
  <2> QED
    BY <1>1, <2>1, RowsRest
<1>4. ASSUME NEW p \in Procs, NEW r \in Runs, NEW s \in Slots, Admit(p, r, s)
      PROVE  IInv'
  BY <1>4, AdmitKeeps
<1>5. ASSUME NEW s \in Slots, CallFails(s) \/ ReportFails(s) PROVE IInv'
  BY <1>5, FaultsKeep
<1>6. ASSUME NEW p \in Procs, Recover(p) PROVE IInv'
  BY <1>6, RecoverKeeps
<1> QED
  BY <1>1, <1>2, <1>3, <1>4, <1>5, <1>6, ClientsKeep, HostsKeep DEF Next

\* IInv, strengthened by the types, is inductive.
THEOREM InductiveInvariant == Spec => [](TypeOK /\ IInv)
<1>1. Init => TypeOK /\ IInv
  BY TypeInit, InitIInv
<1> QED
  BY <1>1, StepIInv, PTL DEF Spec

\* Every row, lease, budget and executor keeps its type: the statuses are those
\* of domain.py, whatever the event a run ends with.
THEOREM TypeCorrect == Spec => []TypeOK
  BY InductiveInvariant, PTL

\* With any number of processes recovering, crashing and failing, the governed
\* turn of a run commits at most once.
THEOREM TurnCommitsOnce == Spec => []TurnAtMostOnce
<1>1. IInv => TurnAtMostOnce
  BY DEF IInv, RowInv, TurnAtMostOnce
<1> QED
  BY <1>1, InductiveInvariant, PTL

\* The row and the event log of a run always tell the same ending.
THEOREM RowAndLogAgree == Spec => []TerminalMatchesLog
<1>1. IInv => TerminalMatchesLog
  BY DEF IInv, RowInv, TerminalMatchesLog, LastEvent
<1> QED
  BY <1>1, InductiveInvariant, PTL

\* An answered run has its committed answer, and no ended run a blank reply.
THEOREM AnswersStand == Spec => []AnswerStands
<1>1. IInv => AnswerStands
  BY DEF IInv, RowInv, AnswerStands, Terminal, TerminalStatuses, Ended, LastEvent
<1> QED
  BY <1>1, InductiveInvariant, PTL

-----------------------------------------------------------------------------
(* RunStream: clients see a stream that opens once, grows, and closes      *)
(* once.  The mapping is the event log.                                    *)

\* A failure that can still be recorded is the only thing left to record.
AbortInv ==
  \A s \in Slots :
    exec[s] # Idle /\ exec[s].pc = "abort" /\ exec[s].base = Len(log[exec[s].run]) =>
      Len(exec[s].pending) = 1

LEMMA NoFaults ==
  ASSUME TypeOK, MaxFaults = 0, Fault
  PROVE  FALSE
  BY DEF Fault, TypeOK

\* Only four actions write events.
LEMMA LogChanges ==
  ASSUME [Next]_vars, log' # log
  PROVE  \/ \E s \in Slots : Hello(s) \/ Progress(s) \/ Finish(s)
         \/ \E p \in Procs, r \in Runs : Condemn(p, r)
<1>1. ~UNCHANGED rows
  BY DEF rows
<1>2. ASSUME NEW s \in Slots, ExecutorStep(s) PROVE Hello(s) \/ Progress(s) \/ Finish(s)
  BY <1>1, <1>2 DEF ExecutorStep, RowGone, Boot, WaitOver, WaitCancelled, WaitTimeout,
     Begin, TurnCancelled, TurnFailed, TurnCommits, Checkpoint, Resume, Reenter,
     FencedOut
<1>3. ASSUME NEW p \in Procs, Recover(p) PROVE \E r \in Runs : Condemn(p, r)
  BY <1>3 DEF Recover, Repair, Adopt
<1>4. ~Fault
  BY <1>1 DEF Fault
<1> QED
  BY <1>1, <1>2, <1>3, <1>4 DEF Next, vars, Admit, Cancel, DeleteConversation, Expire,
     Renew, Start, Crash, CallFails, ReportFails, HeartbeatFails, ClaimFails

\* The log of a run only grows.
LEMMA LogGrows ==
  ASSUME TypeOK, IInv, [Next]_vars, NEW r \in Runs
  PROVE  log'[r] = log[r] \/ Len(log'[r]) > Len(log[r])
<1>1. CASE log' = log
  BY <1>1
<1>2. ASSUME NEW s \in Slots, Hello(s) \/ Progress(s), log' # log
      PROVE  log'[r] = log[r] \/ Len(log'[r]) > Len(log[r])
  <2>1. PICK q \in Runs : q = exec[s].run
    BY <1>2, BusySlot DEF TypeOK, ExecType, Hello, Progress, At
  <2>2. PICK events \in Seq(Events) :
          Len(events) > 0 /\ log' = [log EXCEPT ![q] = @ \o events]
    <3>1. CASE Hello(s)
      <4>1. exec[s].pending = <<"started">>
        BY <3>1 DEF Hello, At, IInv, ExecInv, PendingInv, Idle
      <4>2. <<"started">> \in Seq(Events) /\ Len(<<"started">>) > 0
        BY DEF Events
      <4> QED
        BY <1>2, <2>1, <3>1, <4>1, <4>2 DEF Hello, Flush
    <3>2. CASE Progress(s)
      <4>1. <<"activity">> \in Seq(Events) /\ Len(<<"activity">>) > 0
        BY DEF Events
      <4> QED
        BY <1>2, <2>1, <3>2, <4>1 DEF Progress, Flush
    <3> QED
      BY <1>2, <3>1, <3>2
  <2>3. log[q] \in Seq(Events) /\ log'[q] = log[q] \o events
    BY <2>2 DEF TypeOK
  <2>4. Len(log'[q]) > Len(log[q])
    BY <2>2, <2>3, Appending
  <2> QED
    BY <2>2, <2>4 DEF TypeOK
<1>3. ASSUME NEW q \in Runs, NEW events \in Seq(Events), Len(events) > 0,
             EndRun(q, events)
      PROVE  log'[r] = log[r] \/ Len(log'[r]) > Len(log[r])
  <2>1. log[q] \in Seq(Events) /\ log' = [log EXCEPT ![q] = @ \o events]
    BY <1>3 DEF EndRun, TypeOK
  <2>2. Len(log'[q]) > Len(log[q])
    BY <1>3, <2>1, Appending DEF TypeOK
  <2> QED
    BY <2>1, <2>2 DEF TypeOK
<1>4. ASSUME NEW s \in Slots, Finish(s)
      PROVE  log'[r] = log[r] \/ Len(log'[r]) > Len(log[r])
  <2>1. /\ exec[s].run \in Runs /\ exec[s].pending \in Seq(Events)
        /\ exec[s] # Idle
    BY <1>4, BusySlot, ExecutorFields DEF TypeOK, ExecType, Finish, At, Idle
  <2>2. Len(exec[s].pending) > 0
    BY <1>4, <2>1, PendingLast DEF Finish, At, IInv, ExecInv
  <2> QED
    BY <1>3, <1>4, <2>1, <2>2 DEF Finish
<1>5. ASSUME NEW p \in Procs, NEW q \in Runs, Condemn(p, q)
      PROVE  log'[r] = log[r] \/ Len(log'[r]) > Len(log[r])
  <2>1. <<"failed">> \in Seq(Events) /\ Len(<<"failed">>) > 0
    BY DEF Events, TerminalStatuses
  <2> QED
    BY <1>3, <1>5, <2>1 DEF Condemn
<1> QED
  BY <1>1, <1>2, <1>4, <1>5, LogChanges

\* Without failing calls an executor reaches its handlers with one outcome to
\* record, or behind another publisher.
Reported(o) ==
  /\ UNCHANGED log
  /\ exec[o] \in Executor
  /\ exec'[o].run = exec[o].run /\ exec'[o].base = exec[o].base
  /\ Fenced(o) \/ Len(exec'[o].pending) = 1

LEMMA RaiseReports ==
  ASSUME TypeOK, IInv, NEW o \in Slots, exec[o] \in Executor, UNCHANGED log,
         NEW outcome \in {"failed", "cancelled"}, Raise(o, outcome),
         exec[o].pc \notin {"hello", "close", "abort"} \/ Fenced(o)
  PROVE  Reported(o)
<1>1. Moves(o, "abort", Append(exec[o].pending, outcome), exec[o].base)
  BY GotoMoves DEF Raise, Pcs
<1>2. exec[o].pc \notin {"hello", "close", "abort"} => exec[o].pending = <<>>
  BY ExecutorFields DEF IInv, ExecInv, PendingInv, Idle
<1>3. exec[o].pc \notin {"hello", "close", "abort"} => Len(exec'[o].pending) = 1
  BY <1>1, <1>2 DEF Moves
<1> QED
  BY <1>1, <1>3 DEF Moves, Reported

LEMMA OwnExecutor ==
  ASSUME TypeOK, NEW s \in Slots, NEW o \in Slots \ {s}, ExecutorStep(s)
  PROVE  exec'[o] = exec[o]
<1>1. ASSUME NEW e, exec' = [exec EXCEPT ![s] = e] PROVE exec'[o] = exec[o]
  BY <1>1 DEF TypeOK
<1>2. ASSUME NEW pc, NEW pending, Goto(s, pc, pending) PROVE exec'[o] = exec[o]
  BY <1>1, <1>2 DEF Goto
<1>3. ASSUME NEW outcome, Raise(s, outcome) PROVE exec'[o] = exec[o]
  BY <1>2, <1>3 DEF Raise
<1>4. ASSUME Leave(s) \/ Die(s) PROVE exec'[o] = exec[o]
  BY <1>1, <1>4 DEF Leave, Die
<1>5. ASSUME NEW pc, NEW events, Flush(s, pc, events) PROVE exec'[o] = exec[o]
  BY <1>1, <1>2, <1>5 DEF Flush
<1>6. CASE RowGone(s) \/ Finish(s)
  BY <1>1, <1>4, <1>6 DEF RowGone, Finish
<1>7. CASE Boot(s) \/ WaitOver(s) \/ WaitCancelled(s) \/ WaitTimeout(s)
  BY <1>2, <1>3, <1>7 DEF Boot, WaitOver, WaitCancelled, WaitTimeout
<1>8. CASE Begin(s) \/ Hello(s) \/ Progress(s) \/ TurnCancelled(s)
  BY <1>2, <1>3, <1>5, <1>8 DEF Begin, Hello, Progress, TurnCancelled
<1>9. CASE TurnFailed(s) \/ TurnCommits(s) \/ Checkpoint(s)
  BY <1>2, <1>3, <1>9 DEF TurnFailed, TurnCommits, Checkpoint
<1>10. CASE Resume(s) \/ Reenter(s) \/ FencedOut(s)
  BY <1>2, <1>3, <1>4, <1>10 DEF Resume, Reenter, FencedOut
<1> QED
  BY <1>6, <1>7, <1>8, <1>9, <1>10 DEF ExecutorStep

LEMMA IntoAbort ==
  ASSUME TypeOK, IInv, NEW o \in Slots, ExecutorStep(o), exec'[o] # Idle,
         exec'[o].pc = "abort"
  PROVE  Reported(o)
<1>1. exec[o] \in Executor
  <2>1. exec[o] # Idle
    BY DEF ExecutorStep, RowGone, Boot, WaitOver, WaitCancelled, WaitTimeout,
       Begin, Hello, Progress, TurnCancelled, TurnFailed, TurnCommits, Checkpoint,
       Resume, Reenter, Finish, FencedOut, At, Idle
  <2> QED
    BY <2>1 DEF TypeOK
<1>2. CASE RowGone(o) \/ Finish(o)
  BY <1>2, Exits DEF RowGone, Finish
<1>3. ASSUME NEW pc \in Pcs, NEW pending, Goto(o, pc, pending) PROVE pc = "abort"
  BY <1>1, <1>3, GotoMoves DEF Moves
<1>4. CASE Boot(o) \/ WaitOver(o) \/ Begin(o) \/ TurnCommits(o) \/ Checkpoint(o)
           \/ Resume(o)
  <2>1. PICK pc \in {"resume", "wait", "begin", "hello", "checkpoint", "close",
                     "reenter"},
             pending \in {<<>>, <<"started">>, <<"succeeded">>, <<"interrupted">>} :
          Goto(o, pc, pending)
    BY <1>4 DEF Boot, WaitOver, Begin, TurnCommits, Checkpoint, Resume
  <2> QED
    BY <1>3, <2>1 DEF Pcs
<1>5. CASE WaitCancelled(o) \/ WaitTimeout(o) \/ TurnCancelled(o) \/ TurnFailed(o)
  BY <1>1, <1>5, RaiseReports
     DEF WaitCancelled, WaitTimeout, TurnCancelled, TurnFailed, At, rows
<1>6. CASE Reenter(o)
  <2>1. ~Goto(o, "close", <<"succeeded">>)
    BY <1>3 DEF Pcs
  <2> QED
    BY <1>1, <1>6, <2>1, RaiseReports DEF Reenter, At, rows
<1>7. CASE Hello(o) \/ Progress(o)
  <2>1. PICK events : Flush(o, "turn", events)
    BY <1>7 DEF Hello, Progress
  <2>2. Fenced(o)
    BY <1>1, <2>1, FlushMoves DEF Moves, Pcs
  <2>3. Goto(o, "abort", events \o <<"failed">>) /\ UNCHANGED log
    BY <2>1, <2>2 DEF Flush
  <2>4. Moves(o, "abort", events \o <<"failed">>, exec[o].base)
    BY <1>1, <2>3, GotoMoves DEF Pcs
  <2> QED
    BY <1>1, <2>2, <2>3, <2>4 DEF Reported, Moves
<1>8. CASE FencedOut(o)
  <2>1. ~Die(o)
    BY Exits
  <2> QED
    BY <1>1, <1>8, <2>1, RaiseReports DEF FencedOut, rows
<1> QED
  BY <1>2, <1>4, <1>5, <1>6, <1>7, <1>8 DEF ExecutorStep

LEMMA StepAbortInv ==
  ASSUME MaxFaults = 0, TypeOK, IInv, AbortInv, [Next]_vars
  PROVE  AbortInv'
<1> SUFFICES ASSUME NEW o \in Slots, exec'[o] # Idle, exec'[o].pc = "abort",
                    exec'[o].base = Len(log'[exec'[o].run])
             PROVE  Len(exec'[o].pending) = 1
  BY DEF AbortInv
<1>1. ASSUME Kept(o) PROVE Len(exec'[o].pending) = 1
  <2>1. PICK r \in Runs : r = exec[o].run
    BY <1>1, ExecutorFields DEF Kept, TypeOK
  <2>2. exec[o].base <= Len(log[r]) /\ exec[o].base \in Nat /\ Len(log[r]) \in Nat
    BY <1>1, <2>1, ExecutorFields DEF Kept, TypeOK, IInv, ExecInv
  <2>3. exec[o].base = Len(log'[r])
    BY <1>1, <2>1 DEF Kept
  <2>4. log'[r] = log[r]
    BY <2>2, <2>3, LogGrows
  <2> QED
    BY <1>1, <2>1, <2>3, <2>4 DEF Kept, AbortInv
<1>2. ASSUME Reported(o) PROVE Len(exec'[o].pending) = 1
  BY <1>2 DEF Reported, Fenced
<1>3. ASSUME exec'[o] = exec[o] PROVE Kept(o)
  BY <1>3 DEF Kept
<1>4. ASSUME NEW s \in Slots, ExecutorStep(s) PROVE Kept(o) \/ Reported(o)
  BY <1>3, <1>4, OwnExecutor, IntoAbort
<1>5. ASSUME NEW s \in Slots, NEW p \in Procs, NEW r \in Runs,
             Admit(p, r, s) \/ Adopt(p, r, s)
      PROVE  Kept(o)
  <2>1. exec'[s].pc = "boot" /\ \A q \in Slots \ {s} : exec'[q] = exec[q]
    BY <1>5, Spawns DEF Admit, Adopt
  <2> QED
    BY <1>3, <2>1
<1>6. ASSUME NEW p \in Procs, Crash(p) PROVE Kept(o)
  BY <1>3, <1>6 DEF Crash
<1>7. CASE UNCHANGED exec
  BY <1>1, <1>3, <1>7
<1>8. ~Fault
  BY NoFaults
<1> QED
  BY <1>1, <1>2, <1>4, <1>5, <1>6, <1>7, <1>8
     DEF Next, vars, Cancel, DeleteConversation, Expire, Renew, Recover, Repair,
         Condemn, Start, CallFails, ReportFails, HeartbeatFails, ClaimFails

-----------------------------------------------------------------------------
(* The mapping.                                                            *)

LEMMA EndedIsClosed ==
  ASSUME NEW r \in Runs PROVE Ended(r) <=> RunStream!Closed(log[r])
  BY DEF Ended, RunStream!Closed, TerminalStatuses, RunStream!Outcomes,
     RunStream!AnsweredOutcomes, RunStream!ErrorOutcomes

LEMMA Closes ==
  ASSUME TypeOK, NEW r \in Runs, NEW outcome \in TerminalStatuses, ~Ended(r),
         EndRun(r, <<outcome>>),
         outcome \in {"succeeded", "interrupted"} => log[r] # <<>>
  PROVE  RunStream!Next
<1>1. log' = [log EXCEPT ![r] = @ \o <<outcome>>]
  BY DEF EndRun
<1>2. log[r] \o <<outcome>> = Append(log[r], outcome)
  BY DEF TypeOK, Events
<1>3. log' = [log EXCEPT ![r] = Append(@, outcome)]
  BY <1>1, <1>2
<1>4. RunStream!Close(r, outcome)
  BY <1>3, EndedIsClosed DEF RunStream!Close, RunStream!AnsweredOutcomes
<1> QED
  BY <1>4 DEF RunStream!Next, TerminalStatuses, RunStream!Outcomes,
     RunStream!AnsweredOutcomes, RunStream!ErrorOutcomes

LEMMA StepStream ==
  ASSUME TypeOK, IInv, AbortInv, [Next]_vars
  PROVE  [RunStream!Next]_log
<1>1. ASSUME NEW s \in Slots, Hello(s), log' # log PROVE RunStream!Next
  <2>1. PICK r \in Runs : r = exec[s].run
    BY <1>1, BusySlot DEF TypeOK, ExecType, Hello, At
  <2>2. ~Fenced(s) /\ log' = [log EXCEPT ![r] = @ \o exec[s].pending]
    BY <1>1, <2>1 DEF Hello, Flush
  <2>3. log[r] = <<>> /\ exec[s].pending = <<"started">>
    <3>1. exec[s] # Idle /\ exec[s].pc = "hello"
      BY <1>1 DEF Hello, At, Idle
    <3>2. ExecInv(exec[s])
      BY <3>1 DEF IInv
    <3>3. exec[s].base = Len(log[r])
      BY <2>1, <2>2, <3>2 DEF Fenced, ExecInv
    <3> QED
      BY <2>1, <3>1, <3>2, <3>3 DEF ExecInv, PendingInv
  <2>4. log' = [log EXCEPT ![r] = <<"started">>]
    BY <2>2, <2>3
  <2> QED
    BY <2>1, <2>3, <2>4 DEF RunStream!Next, RunStream!Open
<1>2. ASSUME NEW s \in Slots, Progress(s), log' # log PROVE RunStream!Next
  <2>1. PICK r \in Runs : r = exec[s].run
    BY <1>2, BusySlot DEF TypeOK, ExecType, Progress, At
  <2>2. ~Fenced(s) /\ log' = [log EXCEPT ![r] = @ \o <<"activity">>]
    BY <1>2, <2>1 DEF Progress, Flush
  <2>3. log[r] # <<>> /\ ~Ended(r)
    <3>1. exec[s] # Idle /\ exec[s].pc = "turn"
      BY <1>2 DEF Progress, At, Idle
    <3>2. ExecInv(exec[s])
      BY <3>1 DEF IInv
    <3>3. exec[s].base = Len(log[r])
      BY <2>1, <2>2, <3>2 DEF Fenced, ExecInv
    <3> QED
      BY <2>1, <3>1, <3>2, <3>3 DEF ExecInv
  <2>4. log[r] \o <<"activity">> = Append(log[r], "activity")
    BY DEF TypeOK, Events
  <2>5. log' = [log EXCEPT ![r] = Append(@, "activity")]
    BY <2>2, <2>4
  <2> QED
    BY <2>3, <2>5, EndedIsClosed DEF RunStream!Next, RunStream!Report
<1>3. ASSUME NEW s \in Slots, Finish(s) PROVE RunStream!Next
  <2>1. PICK r \in Runs : r = exec[s].run
    BY <1>3, BusySlot DEF TypeOK, ExecType, Finish, At
  <2>2. /\ exec[s] # Idle /\ ExecInv(exec[s]) /\ RowInv(r)
        /\ exec[s].pending \in Seq(Events)
    BY <1>3, ExecutorFields DEF Finish, At, IInv, Idle, TypeOK
  <2>3. exec[s].base = Len(log[r]) /\ ~Ended(r)
    BY <1>3, <2>1, <2>2 DEF Finish, Fenced, ExecInv
  <2>4. CASE exec[s].pc = "close"
    <3>1. log[r] # <<>>
      BY <2>1, <2>2, <2>4 DEF ExecInv, RowInv
    <3>2. PICK outcome \in {"succeeded", "interrupted"} : exec[s].pending = <<outcome>>
      BY <2>2, <2>4 DEF ExecInv, PendingInv
    <3> QED
      BY <1>3, <2>1, <2>3, <3>1, <3>2, Closes DEF Finish, TerminalStatuses
  <2>5. CASE exec[s].pc = "abort"
    <3>1. Len(exec[s].pending) = 1 /\ exec[s].pending[1] \in {"failed", "cancelled"}
      BY <2>1, <2>2, <2>3, <2>5 DEF AbortInv, ExecInv, PendingInv
    <3>2. PICK outcome \in {"failed", "cancelled"} : exec[s].pending = <<outcome>>
      BY <2>2, <3>1
    <3> QED
      BY <1>3, <2>1, <2>3, <3>2, Closes DEF Finish, TerminalStatuses
  <2> QED
    BY <1>3, <2>4, <2>5 DEF Finish, At
<1>4. ASSUME NEW p \in Procs, NEW r \in Runs, Condemn(p, r) PROVE RunStream!Next
  BY <1>4, Closes DEF Condemn, TerminalStatuses
<1> QED
  BY <1>1, <1>2, <1>3, <1>4, LogChanges

\* With a database that answers, and whatever crashes or is recovered by any
\* number of processes, the event log of a run is the stream RunStream promises.
THEOREM StreamRefinement == ASSUME MaxFaults = 0 PROVE Spec => StreamProtocol
<1>1. Init => RunStream!Init /\ AbortInv
  BY DEF Init, RunStream!Init, AbortInv
<1>2. TypeOK /\ IInv /\ AbortInv /\ [Next]_vars => AbortInv' /\ [RunStream!Next]_log
  BY StepAbortInv, StepStream
<1> QED
  BY <1>1, <1>2, InductiveInvariant, PTL DEF Spec, StreamProtocol, RunStream!Spec
=============================================================================
