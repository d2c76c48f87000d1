---------------------- MODULE AgentRunsOneProcessProofs ----------------------
(***************************************************************************)
(* AgentRuns deployed as one process on a database that answers, for every *)
(* number of runs, conversations, recovery workers and crashes: a run has  *)
(* one executor, an outcome is final, a run cancelled past its answer was  *)
(* recovered and keeps it, and two turns of a conversation overlap only    *)
(* past a run that was skipped.                                            *)
(*                                                                         *)
(* OwnInv says why recovery never meets a live executor: a request's run   *)
(* is younger than the process, and a recovered one has a beating lease.   *)
(* The rest is history of the rows, which RowEvolves carries over a step.  *)
(***************************************************************************)
EXTENDS AgentRunsProofs, WellFoundedInduction

\* The deployment: one process, and database calls that do not fail.
OneProcess == (\A p, q \in Procs : p = q) /\ MaxFaults = 0

Owned(r) == \E s \in Slots : exec[s] # Idle /\ exec[s].run = r

\* An executor owns its run: the run is not over, the lease or the cutoff keeps
\* recovery away, nobody else wrote to the log, and what is left to do after a
\* committed answer is recovery's.
Owns(e) ==
  LET r == e.run
  IN /\ e.proc \in up
     /\ e.via = "request" => r > cutoff[e.proc]
     /\ e.via = "recovery" => e.beats /\ lease[r] = "fresh" /\ status[r] # "queued"
     /\ ~Terminal(r)
     /\ e.base = Len(log[r])
     /\ e.pc \in {"resume", "reenter"} \/ (e.pc = "boot" /\ Resumable(r)) => attempts[r] > 0
     /\ e.pc = "abort" => /\ e.pending \in {<<"failed">>, <<"cancelled">>}
                          /\ e.pending = <<"cancelled">> /\ commits[r] > 0 => attempts[r] > 0

OwnInv ==
  /\ \A s \in Slots : exec[s] # Idle => Owns(exec[s])
  /\ OneExecutorPerRun

\* Runs are admitted in order, each waiting for the newest active one; a
\* conversation is deleted as a whole.
Admitted(r) == status[r] # "absent"
Before(q, r) == q < r /\ ThreadOf[q] = ThreadOf[r]

OrderInv ==
  /\ \A q, r \in Runs : Admitted(r) /\ q < r => Admitted(q)
  /\ \A q, r \in Runs : Admitted(r) /\ Before(q, r) /\ Active(q) =>
       blockedBy[r] \in Runs /\ q <= blockedBy[r] /\ Before(blockedBy[r], r)
  /\ \A q, r \in Runs : status[r] = "deleted" /\ ThreadOf[q] = ThreadOf[r] =>
       status[q] \in {"absent", "deleted"}
  /\ \A p \in Procs, r \in Runs : r <= cutoff[p] => Admitted(r)

\* A run that got past its wait left no active run before it, unless one in
\* between was skipped.
Skipped(o) == Terminal(o) /\ log[o][1] # "started"

Chained(r) ==
  \A q \in Runs : Before(q, r) /\ Active(q) =>
    \E o \in Runs : Before(q, o) /\ Before(o, r) /\ Skipped(o)

Past(r) ==
  \/ log[r] # <<>> /\ log[r][1] = "started"
  \/ \E s \in Slots : exec[s].pc \in {"begin", "hello", "turn"} /\ exec[s].run = r

ChainInv == \A r \in Runs : Past(r) => Chained(r)

OutcomeInv ==
  /\ \A r \in Runs : Ended(r) => ~Active(r)
  /\ \A r \in Runs : commits[r] > 0 => reply[r] = "answered"
  /\ \A r \in Runs : status[r] = "cancelled" /\ commits[r] > 0 => attempts[r] > 0

OneProcessInv == OwnInv /\ OrderInv /\ ChainInv /\ OutcomeInv

-----------------------------------------------------------------------------
(* Facts about numbers and sets.                                           *)

\* Every set of natural numbers has a least, and below a bound a greatest.
LEMMA LeastNumber ==
  ASSUME NEW T, T \subseteq Nat, T # {}
  PROVE  \E m \in T : \A x \in T : m <= x
<1> DEFINE R == {p \in Nat \X Nat : p[1] < p[2]}
<1>1. IsWellFoundedOn(R, Nat)
  BY NatLessThanWellFounded DEF OpToRel
<1>2. ASSUME NEW x \in Nat, NEW y \in Nat, <<y, x>> \notin R PROVE x <= y
  <2>1. <<y, x>> \in Nat \X Nat /\ <<y, x>>[1] = y /\ <<y, x>>[2] = x
    OBVIOUS
  <2>2. ~(y < x)
    BY <1>2, <2>1
  <2> QED
    BY <2>2
<1> HIDE DEF R
<1>3. PICK m \in T : \A y \in T : ~ (<<y, m>> \in R)
  BY <1>1, WFMin
<1> QED
  BY <1>2, <1>3

LEMMA GreatestNumber ==
  ASSUME NEW T, T \subseteq Nat, T # {}, NEW n \in Nat, \A x \in T : x <= n
  PROVE  \E m \in T : \A x \in T : x <= m
<1> DEFINE U == {k \in Nat : n - k \in T}
<1>1. U \subseteq Nat /\ \A x \in T : n - x \in U
  OBVIOUS
<1>2. U # {}
  BY <1>1
<1>3. PICK m \in U : \A x \in U : m <= x
  <2> HIDE DEF U
  <2> QED
    BY <1>1, <1>2, LeastNumber
<1>4. \A x \in T : x <= n - m
  BY <1>1, <1>3
<1> QED
  BY <1>3, <1>4

\* A run waits for the newest active one of its conversation.
LEMMA BlockerIsNewest ==
  ASSUME NEW r \in Runs, NEW q \in Runs, ThreadOf[q] = ThreadOf[r], Active(q)
  PROVE  Blocker(r) \in ActiveBefore(r) /\ q <= Blocker(r)
<1>1. q \in ActiveBefore(r) /\ ActiveBefore(r) \subseteq Runs
  BY DEF ActiveBefore
<1>2. \E m \in ActiveBefore(r) : \A o \in ActiveBefore(r) : o <= m
  BY <1>1, GreatestNumber, NumRunsAssumption DEF Runs
<1> QED
  BY <1>1, <1>2 DEF Blocker

\* The runs admitted so far are the first ones, as many as there are.
LEMMA AdmittedAreFirst ==
  ASSUME OrderInv, NEW r \in Runs, r <= Cardinality({q \in Runs : Admitted(q)})
  PROVE  Admitted(r)
<1> SUFFICES ASSUME ~Admitted(r) PROVE FALSE
  OBVIOUS
<1> DEFINE A == {q \in Runs : Admitted(q)}
<1>1. A \in SUBSET (1 .. (r - 1))
  <2>1. ASSUME NEW q \in A PROVE q < r
    BY <2>1 DEF OrderInv, Runs
  <2> QED
    BY <2>1 DEF Runs
<1> HIDE DEF A
<1>2. IsFiniteSet(1 .. (r - 1)) /\ Cardinality(1 .. (r - 1)) = r - 1
  <2>1. r - 1 \in Nat /\ 1 \in Int /\ r - 1 \in Int
    BY DEF Runs
  <2>2. IsFiniteSet(1 .. (r - 1))
        /\ Cardinality(1 .. (r - 1)) = IF 1 > r - 1 THEN 0 ELSE (r - 1) - 1 + 1
    BY <2>1, FS_Interval
  <2> QED
    BY <2>1, <2>2
<1>3. Cardinality(A) <= r - 1 /\ Cardinality(A) \in Nat
  <2>1. IsFiniteSet(A) /\ Cardinality(A) <= Cardinality(1 .. (r - 1))
    BY <1>1, <1>2, FS_Subset
  <2>2. Cardinality(A) \in Nat
    BY <2>1, FS_CardinalityType
  <2> QED
    BY <1>2, <2>1, <2>2
<1>4. r <= Cardinality(A)
  BY DEF A
<1> QED
  BY <1>3, <1>4 DEF Runs

-----------------------------------------------------------------------------
(* What a step may do to the rows.                                         *)

QuietRow(q) ==
  /\ status'[q] = status[q] /\ blockedBy'[q] = blockedBy[q] /\ phase'[q] = phase[q]
  /\ attempts'[q] = attempts[q] /\ log'[q] = log[q] /\ commits'[q] = commits[q]

\* An admitted row never returns to the time before its admission, is active only
\* if it was, keeps its outcome unless its conversation is deleted, and never
\* comes back from a deletion.
RowEvolves(r) ==
  /\ Admitted(r) => /\ status'[r] # "absent" /\ blockedBy'[r] = blockedBy[r]
                    /\ status'[r] \in ActiveStatuses => Active(r)
  /\ Terminal(r) => /\ status'[r] \in {status[r], "deleted"}
                    /\ log'[r] = log[r] /\ commits'[r] = commits[r]
  /\ status[r] = "deleted" => status'[r] = "deleted"
  /\ attempts[r] > 0 => attempts'[r] > 0

LEMMA QuietRows ==
  ASSUME NEW q \in Runs, QuietRow(q)
  PROVE  RowEvolves(q)
BY DEF QuietRow, RowEvolves, Admitted, Active, Terminal

\* A step that changes the row of one active run.
LEMMA OneRowChanges ==
  ASSUME NEW r \in Runs, Active(r), status'[r] # "absent", blockedBy'[r] = blockedBy[r],
         attempts[r] > 0 => attempts'[r] > 0,
         \A q \in Runs \ {r} : QuietRow(q)
  PROVE  \A q \in Runs : RowEvolves(q)
<1>1. RowEvolves(r)
  BY DEF RowEvolves, Active, ActiveStatuses, Terminal, TerminalStatuses
<1> QED
  BY <1>1, QuietRows

LEMMA LiveExecutor ==
  ASSUME TypeOK, IInv, OwnInv, NEW s \in Slots, exec[s] # Idle,
         status[exec[s].run] # "deleted"
  PROVE  /\ exec[s] \in Executor /\ exec[s].run \in Runs
         /\ Active(exec[s].run) /\ ExecInv(exec[s]) /\ Owns(exec[s])
<1>1. exec[s] \in Executor /\ exec[s].run \in Runs
  BY ExecutorFields DEF TypeOK
<1>2. /\ status[exec[s].run] \in Statuses /\ status[exec[s].run] # "absent"
      /\ status[exec[s].run] \notin TerminalStatuses
  BY <1>1 DEF TypeOK, IInv, ExecInv, OwnInv, Owns, Terminal
<1>3. Active(exec[s].run)
  BY <1>2 DEF Active, Statuses
<1> QED
  BY <1>1, <1>3 DEF IInv, OwnInv

\* The executors that write to a row.
Writes(s) == \/ Begin(s) \/ Hello(s) \/ Progress(s) \/ TurnCommits(s) \/ Checkpoint(s)
             \/ Resume(s) \/ Finish(s)

LEMMA WritersLive ==
  ASSUME TypeOK, IInv, OwnInv, NEW s \in Slots, Writes(s)
  PROVE  /\ exec[s] # Idle /\ exec[s] \in Executor /\ exec[s].run \in Runs
         /\ status[exec[s].run] # "deleted"
         /\ Active(exec[s].run) /\ ExecInv(exec[s]) /\ Owns(exec[s])
<1>1. exec[s] # Idle /\ status[exec[s].run] # "deleted"
  BY DEF Writes, Begin, Hello, Progress, TurnCommits, Checkpoint, Resume, Finish, At, Idle
<1> QED
  BY <1>1, LiveExecutor

LEMMA WriterRow ==
  ASSUME TypeOK, IInv, OwnInv, NEW s \in Slots, Writes(s)
  PROVE  LET r == exec[s].run
         IN /\ status'[r] \notin {"absent", "deleted"} /\ UNCHANGED <<blockedBy, attempts>>
            /\ \A q \in Runs \ {r} : QuietRow(q) /\ lease'[q] = lease[q]
            /\ UNCHANGED <<up, cutoff>>
<1>1. /\ exec[s] \in Executor /\ exec[s].run \in Runs /\ ExecInv(exec[s])
      /\ Active(exec[s].run)
  BY WritersLive
<1>2. PICK r \in Runs : r = exec[s].run
  BY <1>1
<1>3. status[r] \notin {"absent", "deleted"}
  BY <1>1, <1>2 DEF Active, ActiveStatuses
<1>4. CASE Begin(s) \/ Resume(s)
  BY <1>2, <1>4 DEF Begin, Resume, QuietRow, TypeOK, hosts
<1>5. CASE Hello(s) \/ Progress(s)
  BY <1>2, <1>3, <1>5 DEF Hello, Progress, Flush, QuietRow, TypeOK, hosts
<1>6. CASE TurnCommits(s) \/ Checkpoint(s)
  BY <1>2, <1>3, <1>6 DEF TurnCommits, Checkpoint, QuietRow, TypeOK, hosts
<1>7. CASE Finish(s)
  <2>1. exec[s].pending[Len(exec[s].pending)] \in TerminalStatuses
    BY <1>1, <1>7, PendingLast DEF Finish, At, ExecInv
  <2> QED
    BY <1>2, <1>7, <2>1 DEF Finish, EndRun, QuietRow, TypeOK, TerminalStatuses
<1> QED
  BY <1>4, <1>5, <1>6, <1>7 DEF Writes

\* Recovery claims only runs that nobody executes.
LEMMA ClaimedUnowned ==
  ASSUME OneProcess, TypeOK, IInv, OwnInv, NEW p \in Procs, NEW r \in Runs, Claims(p, r)
  PROVE  ~Owned(r) /\ Active(r) /\ r <= cutoff[p]
<1>1. /\ r <= cutoff[p] /\ status[r] \in {"queued", "recovering", "running"}
      /\ status[r] # "queued" => lease[r] # "fresh"
  BY DEF Claims, Work, Eligible, Old, Unclaimed
<1>2. ASSUME NEW s \in Slots, exec[s] # Idle, exec[s].run = r PROVE FALSE
  <2>1. exec[s].proc = p /\ exec[s].via \in {"request", "recovery"} /\ Owns(exec[s])
    BY <1>2, ExecutorFields DEF OneProcess, TypeOK, OwnInv
  <2>2. CASE exec[s].via = "request"
    <3>1. r > cutoff[p] /\ cutoff[p] \in Nat
      BY <1>2, <2>1, <2>2 DEF Owns, TypeOK
    <3> QED
      BY <1>1, <3>1 DEF Runs
  <2>3. CASE exec[s].via = "recovery"
    BY <1>1, <1>2, <2>1, <2>3 DEF Owns
  <2> QED
    BY <2>1, <2>2, <2>3
<1> QED
  BY <1>1, <1>2 DEF Owned, Active, ActiveStatuses

\* What recovery does to the row it claims, and to no other.
LEMMA RecoveryRow ==
  ASSUME TypeOK, NEW p \in Procs, NEW r \in Runs,
         \/ Repair(p, r) \/ Condemn(p, r) \/ \E s \in Slots : Adopt(p, r, s)
  PROVE  /\ status'[r] \notin {"absent", "deleted"} /\ blockedBy' = blockedBy
         /\ attempts[r] > 0 => attempts'[r] > 0
         /\ \A q \in Runs \ {r} : QuietRow(q) /\ lease'[q] = lease[q]
         /\ UNCHANGED <<up, cutoff>>
<1>1. CASE Repair(p, r)
  BY <1>1 DEF Repair, Ended, TerminalStatuses, QuietRow, TypeOK, hosts
<1>2. CASE Condemn(p, r)
  BY <1>2 DEF Condemn, EndRun, QuietRow, TypeOK, hosts
<1>3. ASSUME NEW s \in Slots, Adopt(p, r, s)
      PROVE  /\ status'[r] \notin {"absent", "deleted"} /\ blockedBy' = blockedBy
             /\ attempts[r] > 0 => attempts'[r] > 0
             /\ \A q \in Runs \ {r} : QuietRow(q) /\ lease'[q] = lease[q]
             /\ UNCHANGED <<up, cutoff>>
  <2>1. attempts[r] \in Nat /\ attempts'[r] \in {attempts[r], attempts[r] + 1}
    BY <1>3 DEF Adopt, TypeOK
  <2> QED
    BY <1>3, <2>1 DEF Adopt, QuietRow, TypeOK, hosts
<1> QED
  BY <1>1, <1>2, <1>3

\* The other steps of an executor leave the rows alone, and calls do not fail.
LEMMA OtherSteps ==
  ASSUME OneProcess, TypeOK, NEW s \in Slots,
         \/ ExecutorStep(s) /\ ~Writes(s)
         \/ CallFails(s) \/ ReportFails(s) \/ HeartbeatFails(s)
         \/ \E p \in Procs : ClaimFails(p) \/ Start(p) \/ Crash(p)
  PROVE  UNCHANGED rows
<1>1. ~Fault
  BY NoFaults DEF OneProcess
<1> QED
  BY <1>1 DEF ExecutorStep, Writes, RowGone, Boot, WaitOver, WaitCancelled, WaitTimeout,
     TurnCancelled, TurnFailed, Reenter, FencedOut, CallFails, ReportFails,
     HeartbeatFails, ClaimFails, Start, Crash

LEMMA RowsEvolve ==
  ASSUME OneProcess, TypeOK, IInv, OwnInv, [Next]_vars
  PROVE  \A r \in Runs : RowEvolves(r)
<1>1. ASSUME UNCHANGED <<status, blockedBy, phase, attempts, log, commits>>
      PROVE  \A r \in Runs : RowEvolves(r)
  BY <1>1, QuietRows DEF QuietRow
<1>2. ASSUME UNCHANGED rows PROVE \A r \in Runs : RowEvolves(r)
  BY <1>1, <1>2 DEF rows
<1>3. ASSUME NEW s \in Slots, Writes(s) PROVE \A r \in Runs : RowEvolves(r)
  BY <1>3, WritersLive, WriterRow, OneRowChanges
<1>4. ASSUME NEW p \in Procs, NEW r \in Runs,
             \/ Repair(p, r) \/ Condemn(p, r) \/ \E s \in Slots : Adopt(p, r, s)
      PROVE  \A q \in Runs : RowEvolves(q)
  <2>1. Claims(p, r)
    BY <1>4 DEF Repair, Condemn, Adopt
  <2>2. Active(r)
    BY <2>1, ClaimedUnowned
  <2> QED
    BY <1>4, <2>2, RecoveryRow, OneRowChanges
<1>5. ASSUME NEW p \in Procs, NEW r \in Runs, NEW s \in Slots, Admit(p, r, s)
      PROVE  \A q \in Runs : RowEvolves(q)
  <2>1. \A q \in Runs \ {r} : QuietRow(q)
    BY <1>5 DEF Admit, QuietRow, TypeOK
  <2>2. status[r] = "absent" /\ UNCHANGED attempts
    BY <1>5 DEF Admit
  <2>3. RowEvolves(r)
    BY <2>2 DEF RowEvolves, Admitted, Terminal, TerminalStatuses
  <2> QED
    BY <2>1, <2>3, QuietRows
<1>6. ASSUME NEW t \in Threads, DeleteConversation(t)
      PROVE  \A q \in Runs : RowEvolves(q)
  <2>1. \A q \in Runs : status'[q] \in {status[q], "deleted"}
    BY <1>6 DEF DeleteConversation
  <2>2. UNCHANGED <<blockedBy, attempts, log, commits>>
    BY <1>6 DEF DeleteConversation
  <2> QED
    BY <2>1, <2>2 DEF RowEvolves, Admitted, Active, ActiveStatuses, Terminal
<1>7. ASSUME NEW r \in Runs, Cancel(r) \/ Expire(r) PROVE \A q \in Runs : RowEvolves(q)
  BY <1>1, <1>7 DEF Cancel, Expire
<1>8. ASSUME NEW s \in Slots, Renew(s) PROVE \A q \in Runs : RowEvolves(q)
  BY <1>1, <1>8 DEF Renew
<1>9. ASSUME NEW s \in Slots,
             \/ ExecutorStep(s) \/ CallFails(s) \/ ReportFails(s) \/ HeartbeatFails(s)
      PROVE  \A q \in Runs : RowEvolves(q)
  BY <1>2, <1>3, <1>9, OtherSteps
<1>10. ASSUME NEW p \in Procs, Start(p) \/ Crash(p) \/ ClaimFails(p)
       PROVE  \A q \in Runs : RowEvolves(q)
  <2>1. UNCHANGED rows
    BY <1>10 DEF Start, Crash, ClaimFails, Fault
  <2> QED
    BY <1>2, <2>1
<1>11. CASE UNCHANGED vars
  BY <1>2, <1>11 DEF vars
<1> QED
  BY <1>3, <1>4, <1>5, <1>6, <1>7, <1>8, <1>9, <1>10, <1>11 DEF Next, Recover

-----------------------------------------------------------------------------
(* Ownership.                                                              *)

\* What may happen to a run beside its executor: its deletion, and changes of a
\* lease that no heartbeat keeps.
Rests(r) ==
  /\ status'[r] \in {status[r], "deleted"} /\ phase'[r] = phase[r]
  /\ attempts'[r] = attempts[r] /\ log'[r] = log[r] /\ commits'[r] = commits[r]
  /\ lease[r] = "fresh" /\ Beating(r) => lease'[r] = "fresh"

LEMMA OwnershipKept ==
  ASSUME OwnInv, NEW o \in Slots, exec[o] # Idle, exec'[o] = exec[o],
         Rests(exec[o].run), exec[o].proc \in up',
         cutoff'[exec[o].proc] = cutoff[exec[o].proc]
  PROVE  Owns(exec[o])'
<1>1. Owns(exec[o])
  BY DEF OwnInv
<1>2. exec[o].beats => Beating(exec[o].run)
  BY DEF Beating
<1> QED
  BY <1>1, <1>2 DEF Owns, Rests, Terminal, TerminalStatuses, Resumable

\* The executor of slot s moves, starts or ends, and nobody else executes its run.
LEMMA OneOwnerMoves ==
  ASSUME OwnInv, NEW s \in Slots, NEW r \in Runs, UNCHANGED <<up, cutoff>>,
         \A o \in Slots \ {s} : exec'[o] = exec[o],
         \A o \in Slots \ {s} : exec[o] # Idle => exec[o].run # r /\ Rests(exec[o].run),
         exec'[s] = Idle \/ (exec'[s].run = r /\ Owns(exec[s])')
  PROVE  OwnInv'
<1>1. ASSUME NEW o \in Slots, exec'[o] # Idle PROVE Owns(exec[o])'
  <2>1. CASE o # s
    <3>1. exec[o] # Idle /\ exec'[o] = exec[o] /\ Rests(exec[o].run)
      BY <1>1, <2>1
    <3>2. exec[o].proc \in up
      BY <3>1 DEF OwnInv, Owns
    <3> QED
      BY <3>1, <3>2, OwnershipKept
  <2> QED
    BY <1>1, <2>1
<1>2. OneExecutorPerRun'
  BY DEF OwnInv, OneExecutorPerRun
<1> QED
  BY <1>1, <1>2 DEF OwnInv

\* No executor moves, though some may end.
LEMMA NoOwnerMoves ==
  ASSUME OwnInv,
         \A o \in Slots : exec'[o] = Idle \/ exec'[o] = exec[o],
         \A o \in Slots : exec'[o] # Idle =>
            /\ Rests(exec[o].run) /\ exec[o].proc \in up'
            /\ cutoff'[exec[o].proc] = cutoff[exec[o].proc]
  PROVE  OwnInv'
<1>1. ASSUME NEW o \in Slots, exec'[o] # Idle PROVE Owns(exec[o])'
  BY <1>1, OwnershipKept
<1>2. OneExecutorPerRun'
  BY DEF OwnInv, OneExecutorPerRun
<1> QED
  BY <1>1, <1>2 DEF OwnInv

\* Goto leaves an executor where it belongs.
Stays(s, pc, pending, base) ==
  /\ exec'[s] # Idle /\ exec'[s].run = exec[s].run /\ exec'[s].proc = exec[s].proc
  /\ exec'[s].via = exec[s].via /\ exec'[s].beats = exec[s].beats
  /\ exec'[s].pc = pc /\ exec'[s].pending = pending /\ exec'[s].base = base
  /\ \A o \in Slots \ {s} : exec'[o] = exec[o]

LEMMA GotoStays ==
  ASSUME TypeOK, NEW s \in Slots, exec[s] \in Executor, NEW pc \in Pcs, NEW pending,
         Goto(s, pc, pending)
  PROVE  Stays(s, pc, pending, exec[s].base)
<1>1. exec'[s] = [exec[s] EXCEPT !.pc = pc, !.pending = pending]
  BY DEF Goto, TypeOK
<1>2. /\ exec'[s].run = exec[s].run /\ exec'[s].proc = exec[s].proc
      /\ exec'[s].via = exec[s].via /\ exec'[s].beats = exec[s].beats
      /\ exec'[s].pc = pc /\ exec'[s].pending = pending /\ exec'[s].base = exec[s].base
  BY <1>1 DEF Executor
<1>3. \A o \in Slots \ {s} : exec'[o] = exec[o]
  BY DEF Goto, TypeOK
<1> QED
  BY <1>2, <1>3 DEF Stays, Idle, Pcs

LEMMA FlushStays ==
  ASSUME TypeOK, NEW s \in Slots, exec[s] \in Executor, NEW pc \in Pcs, NEW events,
         ~Fenced(s), Flush(s, pc, events)
  PROVE  Stays(s, pc, <<>>, exec[s].base + Len(events))
<1>1. exec'[s] = [exec[s] EXCEPT !.pc = pc, !.pending = <<>>,
                                 !.base = exec[s].base + Len(events)]
  BY DEF Flush, TypeOK
<1>2. /\ exec'[s].run = exec[s].run /\ exec'[s].proc = exec[s].proc
      /\ exec'[s].via = exec[s].via /\ exec'[s].beats = exec[s].beats
      /\ exec'[s].pc = pc /\ exec'[s].pending = <<>>
      /\ exec'[s].base = exec[s].base + Len(events)
  BY <1>1 DEF Executor
<1>3. \A o \in Slots \ {s} : exec'[o] = exec[o]
  BY DEF Flush, TypeOK
<1> QED
  BY <1>2, <1>3 DEF Stays, Idle, Pcs

LEMMA WriterOwns ==
  ASSUME TypeOK, IInv, OwnInv, NEW s \in Slots, Writes(s)
  PROVE  /\ \A o \in Slots \ {s} : exec'[o] = exec[o]
         /\ exec'[s] = Idle \/ (exec'[s].run = exec[s].run /\ Owns(exec[s])')
<1>1. PICK r \in Runs : r = exec[s].run
  BY WritersLive
<1>2. /\ exec[s] \in Executor /\ ExecInv(exec[s]) /\ Owns(exec[s])
      /\ exec[s].base \in Nat
  BY WritersLive, ExecutorFields
<1>3. UNCHANGED <<up, cutoff, attempts>>
  BY WriterRow
<1>4. ~Terminal(r) /\ ~Fenced(s)
  BY <1>1, <1>2 DEF Owns, Fenced
<1>5. CASE Begin(s)
  <2>1. Stays(s, "hello", <<"started">>, exec[s].base)
    BY <1>2, <1>5, GotoStays DEF Begin, Pcs
  <2>2. status'[r] = "running" /\ UNCHANGED <<log, lease, phase>>
    BY <1>1, <1>5 DEF Begin, TypeOK
  <2> QED
    BY <1>1, <1>2, <1>3, <2>1, <2>2 DEF Stays, Owns, Terminal, TerminalStatuses
<1>6. CASE Resume(s)
  <2>1. Stays(s, "reenter", <<>>, exec[s].base) /\ exec[s].pc = "resume"
    BY <1>2, <1>6, GotoStays DEF Resume, At, Pcs
  <2>2. status'[r] = "running" /\ UNCHANGED <<log, lease, phase>>
    BY <1>1, <1>6 DEF Resume, TypeOK
  <2> QED
    BY <1>1, <1>2, <1>3, <2>1, <2>2 DEF Stays, Owns, Terminal, TerminalStatuses
<1>7. CASE Hello(s) \/ Progress(s)
  <2>1. PICK events \in Seq(Events) : Flush(s, "turn", events)
    <3>1. CASE Hello(s)
      BY <1>2, <3>1, ExecutorFields DEF Hello
    <3>2. CASE Progress(s)
      <4>1. <<"activity">> \in Seq(Events)
        BY DEF Events
      <4> QED
        BY <3>2, <4>1 DEF Progress
    <3> QED
      BY <1>7, <3>1, <3>2
  <2>2. Stays(s, "turn", <<>>, exec[s].base + Len(events))
    BY <1>2, <1>4, <2>1, FlushStays DEF Pcs
  <2>3. UNCHANGED <<status, lease>>
    BY <1>7 DEF Hello, Progress
  <2>4. Len(log'[r]) = exec[s].base + Len(events)
    <3>1. log'[r] = log[r] \o events /\ log[r] \in Seq(Events)
      BY <1>1, <1>4, <2>1 DEF Flush, TypeOK
    <3>2. Len(log[r]) = exec[s].base
      BY <1>1, <1>2 DEF Owns
    <3> QED
      BY <2>1, <3>1, <3>2
  <2> QED
    BY <1>1, <1>2, <1>3, <2>2, <2>3, <2>4 DEF Stays, Owns, Terminal
<1>8. CASE TurnCommits(s)
  <2>1. PICK pc \in {"checkpoint", "close"},
             pending \in {<<>>, <<"succeeded">>, <<"interrupted">>} : Goto(s, pc, pending)
    BY <1>8 DEF TurnCommits
  <2>2. Stays(s, pc, pending, exec[s].base)
    BY <1>2, <2>1, GotoStays DEF Pcs
  <2>3. UNCHANGED <<status, log, lease>>
    BY <1>8 DEF TurnCommits
  <2> QED
    BY <1>1, <1>2, <1>3, <2>2, <2>3 DEF Stays, Owns, Terminal
<1>9. CASE Checkpoint(s)
  <2>1. Stays(s, "close", <<"succeeded">>, exec[s].base)
    BY <1>2, <1>9, GotoStays DEF Checkpoint, Pcs
  <2>2. UNCHANGED <<status, log, lease>>
    BY <1>9 DEF Checkpoint
  <2> QED
    BY <1>1, <1>2, <1>3, <2>1, <2>2 DEF Stays, Owns, Terminal
<1>10. CASE Finish(s)
  BY <1>10, Exits DEF Finish
<1> QED
  BY <1>5, <1>6, <1>7, <1>8, <1>9, <1>10 DEF Writes

\* The other steps of an executor: a cancellation seen before the turn committed,
\* or by recovery.
LEMMA SilentOwns ==
  ASSUME OneProcess, TypeOK, IInv, OwnInv, NEW s \in Slots, ExecutorStep(s), ~Writes(s)
  PROVE  /\ exec[s] # Idle /\ UNCHANGED <<rows, up, cutoff>>
         /\ \A o \in Slots \ {s} : exec'[o] = exec[o]
         /\ exec'[s] = Idle \/ (exec'[s].run = exec[s].run /\ Owns(exec[s])')
<1>1. exec[s] # Idle
  BY DEF ExecutorStep, Writes, RowGone, Boot, WaitOver, WaitCancelled, WaitTimeout,
     TurnCancelled, TurnFailed, Reenter, FencedOut, At, Idle
<1>2. PICK r \in Runs : r = exec[s].run
  BY <1>1, ExecutorFields DEF TypeOK
<1>3. exec[s] \in Executor /\ ExecInv(exec[s]) /\ Owns(exec[s]) /\ RowInv(r) /\ ~Fenced(s)
  BY <1>1, <1>2 DEF TypeOK, IInv, OwnInv, Owns, Fenced
<1>4. UNCHANGED <<rows, up, cutoff>>
  BY OtherSteps DEF ExecutorStep, Writes, RowGone, Boot, WaitOver, WaitCancelled,
     WaitTimeout, TurnCancelled, TurnFailed, Reenter, FencedOut, hosts
<1>5. ASSUME NEW pc \in Pcs, NEW pending, Goto(s, pc, pending), pc # "boot",
             pc \in {"resume", "reenter"} => attempts[r] > 0,
             pc = "abort" => /\ pending \in {<<"failed">>, <<"cancelled">>}
                             /\ pending = <<"cancelled">> /\ commits[r] > 0 => attempts[r] > 0
      PROVE  /\ \A o \in Slots \ {s} : exec'[o] = exec[o]
             /\ exec'[s].run = exec[s].run /\ Owns(exec[s])'
  <2>1. Stays(s, pc, pending, exec[s].base)
    BY <1>3, <1>5, GotoStays
  <2> QED
    BY <1>2, <1>3, <1>4, <1>5, <2>1 DEF Stays, Owns, Terminal, rows
<1>6. ASSUME NEW outcome \in {"failed", "cancelled"}, Raise(s, outcome),
             exec[s].pc \in {"wait", "turn", "reenter"},
             outcome = "cancelled" /\ commits[r] > 0 => attempts[r] > 0
      PROVE  /\ \A o \in Slots \ {s} : exec'[o] = exec[o]
             /\ exec'[s].run = exec[s].run /\ Owns(exec[s])'
  <2>1. exec[s].pending = <<>>
    BY <1>3, <1>6 DEF ExecInv, PendingInv
  <2>2. Append(exec[s].pending, outcome) = <<outcome>>
    BY <2>1
  <2>3. Goto(s, "abort", <<outcome>>)
    BY <1>6, <2>2 DEF Raise
  <2>4. <<outcome>> \in {<<"failed">>, <<"cancelled">>}
        /\ (<<outcome>> = <<"cancelled">> => outcome = "cancelled")
    OBVIOUS
  <2> QED
    BY <1>5, <1>6, <2>3, <2>4 DEF Pcs
<1>7. CASE RowGone(s)
  BY <1>1, <1>4, <1>7, Exits DEF RowGone
<1>8. CASE Boot(s)
  <2>1. Resumable(r) => attempts[r] > 0
    BY <1>2, <1>3, <1>8 DEF Boot, At, Owns
  <2>2. Goto(s, IF Resumable(r) THEN "resume" ELSE "wait", <<>>)
    BY <1>2, <1>8 DEF Boot
  <2> QED
    BY <1>1, <1>4, <1>5, <2>1, <2>2 DEF Pcs
<1>9. CASE WaitOver(s)
  BY <1>1, <1>4, <1>5, <1>9 DEF WaitOver, Pcs
<1>10. CASE WaitCancelled(s) \/ WaitTimeout(s)
  <2>1. exec[s].pc = "wait"
    BY <1>10 DEF WaitCancelled, WaitTimeout, At
  <2>2. commits[r] = 0
    BY <1>2, <1>3, <2>1 DEF ExecInv, Owns, RowInv
  <2> QED
    BY <1>1, <1>4, <1>6, <1>10, <2>1, <2>2 DEF WaitCancelled, WaitTimeout
<1>11. CASE TurnCancelled(s) \/ TurnFailed(s)
  <2>1. exec[s].pc = "turn"
    BY <1>11 DEF TurnCancelled, TurnFailed, At
  <2>2. commits[r] = 0
    BY <1>2, <1>3, <2>1 DEF ExecInv
  <2> QED
    BY <1>1, <1>4, <1>6, <1>11, <2>1, <2>2 DEF TurnCancelled, TurnFailed
<1>12. CASE Reenter(s)
  <2>1. exec[s].pc = "reenter" /\ attempts[r] > 0
    BY <1>2, <1>3, <1>12 DEF Reenter, At, Owns
  <2>2. Raise(s, "failed") \/ Raise(s, "cancelled") \/ Goto(s, "close", <<"succeeded">>)
    BY <1>12 DEF Reenter
  <2> QED
    BY <1>1, <1>4, <1>5, <1>6, <2>1, <2>2 DEF Pcs
<1>13. CASE FencedOut(s)
  BY <1>3, <1>13 DEF FencedOut
<1> QED
  BY <1>7, <1>8, <1>9, <1>10, <1>11, <1>12, <1>13 DEF ExecutorStep, Writes

\* Only unowned rows change, or only their leases are renewed.
LEMMA QuietOwners ==
  ASSUME OwnInv, UNCHANGED <<exec, up, cutoff>>,
         \A o \in Slots : exec[o] # Idle => Rests(exec[o].run)
  PROVE  OwnInv'
<1>1. \A o \in Slots : exec[o] # Idle => exec[o].proc \in up
  BY DEF OwnInv, Owns
<1> QED
  BY <1>1, NoOwnerMoves

LEMMA QuietRests ==
  ASSUME NEW q \in Runs, QuietRow(q), lease'[q] = lease[q]
  PROVE  Rests(q)
BY DEF QuietRow, Rests

\* Clients.
LEMMA AdmitOwns ==
  ASSUME OneProcess, TypeOK, IInv, OwnInv, OrderInv,
         NEW p \in Procs, NEW r \in Runs, NEW s \in Slots, Admit(p, r, s)
  PROVE  OwnInv'
<1>1. /\ p \in up /\ status[r] = "absent" /\ Spawn(s, p, r, 0, "request")
      /\ UNCHANGED <<phase, attempts, lease, log, commits, up, cutoff>>
      /\ status' = [status EXCEPT ![r] = "queued"]
  BY DEF Admit, hosts
<1>2. log[r] = <<>> /\ phase[r] = "none"
  BY <1>1 DEF IInv, RowInv
<1>3. r > cutoff[p]
  <2>1. ~(r <= cutoff[p]) /\ cutoff[p] \in Nat
    BY <1>1 DEF OrderInv, Admitted, TypeOK
  <2> QED
    BY <2>1 DEF Runs
<1>4. /\ exec'[s] = [proc |-> p, run |-> r, pc |-> "boot", base |-> 0,
                     pending |-> <<>>, via |-> "request", beats |-> FALSE]
      /\ \A o \in Slots \ {s} : exec'[o] = exec[o]
  BY <1>1 DEF Spawn, TypeOK
<1>5. Owns(exec[s])'
  <2>1. status'[r] = "queued"
    BY <1>1 DEF TypeOK
  <2> QED
    BY <1>1, <1>2, <1>3, <1>4, <2>1 DEF Owns, Terminal, TerminalStatuses, Resumable
<1>6. ASSUME NEW o \in Slots \ {s}, exec[o] # Idle
      PROVE  exec[o].run # r /\ Rests(exec[o].run)
  <2>1. exec[o].run \in Runs /\ status[exec[o].run] # "absent"
    BY <1>6, ExecutorFields DEF TypeOK, IInv, ExecInv
  <2> QED
    BY <1>1, <2>1 DEF Rests, TypeOK
<1> QED
  BY <1>1, <1>4, <1>5, <1>6, OneOwnerMoves

LEMMA ClientsOwn ==
  ASSUME TypeOK, OwnInv,
         \/ \E r \in Runs : Cancel(r) \/ Expire(r)
         \/ \E t \in Threads : DeleteConversation(t)
         \/ \E s \in Slots : Renew(s)
  PROVE  OwnInv'
<1>1. UNCHANGED <<exec, up, cutoff>>
  BY DEF Cancel, Expire, DeleteConversation, Renew, hosts
<1>2. ASSUME NEW o \in Slots, exec[o] # Idle PROVE Rests(exec[o].run)
  <2>1. PICK q \in Runs : q = exec[o].run
    BY <1>2, ExecutorFields DEF TypeOK
  <2>2. CASE \E r \in Runs : Cancel(r)
    BY <2>1, <2>2 DEF Cancel, Rests
  <2>3. ASSUME NEW r \in Runs, Expire(r) PROVE Rests(q)
    BY <2>3 DEF Expire, Rests, TypeOK
  <2>4. CASE \E t \in Threads : DeleteConversation(t)
    BY <2>1, <2>4 DEF DeleteConversation, Rests
  <2>5. CASE \E s \in Slots : Renew(s)
    BY <2>1, <2>5 DEF Renew, Rests, TypeOK
  <2> QED
    BY <2>1, <2>2, <2>3, <2>4, <2>5
<1> QED
  BY <1>1, <1>2, QuietOwners

\* Recovery changes a row nobody executes, and gives it at most one executor.
LEMMA RecoverOwns ==
  ASSUME OneProcess, TypeOK, IInv, OwnInv, NEW p \in Procs, Recover(p)
  PROVE  OwnInv'
<1>1. PICK r \in Runs : \/ Repair(p, r) \/ Condemn(p, r) \/ \E s \in Slots : Adopt(p, r, s)
  BY DEF Recover
<1>2. Claims(p, r)
  BY <1>1 DEF Repair, Condemn, Adopt
<1>3. ~Owned(r) /\ UNCHANGED <<up, cutoff>>
  BY <1>1, <1>2, ClaimedUnowned, RecoveryRow
<1>4. ASSUME NEW o \in Slots, exec[o] # Idle
      PROVE  exec[o].run # r /\ Rests(exec[o].run)
  <2>1. exec[o].run \in Runs \ {r}
    BY <1>3, <1>4, ExecutorFields DEF TypeOK, Owned
  <2>2. QuietRow(exec[o].run) /\ lease'[exec[o].run] = lease[exec[o].run]
    BY <1>1, <2>1, RecoveryRow
  <2> QED
    BY <2>1, <2>2, QuietRests
<1>5. CASE Repair(p, r) \/ Condemn(p, r)
  <2>1. UNCHANGED exec
    BY <1>5 DEF Repair, Condemn
  <2> QED
    BY <1>3, <1>4, <2>1, QuietOwners
<1>6. ASSUME NEW s \in Slots, Adopt(p, r, s) PROVE OwnInv'
  <2>1. /\ exec'[s] = [proc |-> p, run |-> r, pc |-> "boot", base |-> Len(log[r]),
                       pending |-> <<>>, via |-> "recovery", beats |-> TRUE]
        /\ \A o \in Slots \ {s} : exec'[o] = exec[o]
    BY <1>6 DEF Adopt, Spawn, TypeOK
  <2>2. /\ p \in up /\ UNCHANGED <<log, phase, commits>>
        /\ status'[r] = "recovering" /\ lease'[r] = "fresh"
    BY <1>2, <1>6 DEF Claims, Adopt, TypeOK
  <2>3. Resumable(r) => attempts'[r] > 0
    <3>1. attempts[r] \in Nat /\ (Resumable(r) => attempts'[r] = attempts[r] + 1)
      BY <1>6 DEF Adopt, TypeOK
    <3> QED
      BY <3>1
  <2>4. Owns(exec[s])'
    BY <1>3, <2>1, <2>2, <2>3 DEF Owns, Terminal, TerminalStatuses, Resumable
  <2> QED
    BY <1>3, <1>4, <2>1, <2>4, OneOwnerMoves
<1> QED
  BY <1>1, <1>5, <1>6

LEMMA ExecutorOwns ==
  ASSUME OneProcess, TypeOK, IInv, OwnInv, NEW s \in Slots, ExecutorStep(s)
  PROVE  OwnInv'
<1>0. PICK r \in Runs : r = exec[s].run
  BY WritersLive, SilentOwns, ExecutorFields DEF TypeOK
<1>1. CASE Writes(s)
  <2>1. exec[s] # Idle /\ UNCHANGED <<up, cutoff>>
    BY <1>1, WritersLive, WriterRow
  <2>2. ASSUME NEW o \in Slots \ {s}, exec[o] # Idle
        PROVE  exec[o].run # r /\ Rests(exec[o].run)
    <3>1. exec[o].run \in Runs \ {r}
      BY <1>0, <2>1, <2>2, ExecutorFields DEF TypeOK, OwnInv, OneExecutorPerRun
    <3>2. QuietRow(exec[o].run) /\ lease'[exec[o].run] = lease[exec[o].run]
      BY <1>0, <1>1, <3>1, WriterRow
    <3> QED
      BY <3>1, <3>2, QuietRests
  <2> QED
    BY <1>0, <1>1, <2>1, <2>2, WriterOwns, OneOwnerMoves
<1>2. CASE ~Writes(s)
  <2>1. /\ exec[s] # Idle /\ UNCHANGED <<rows, up, cutoff>>
        /\ \A o \in Slots \ {s} : exec'[o] = exec[o]
        /\ exec'[s] = Idle \/ (exec'[s].run = exec[s].run /\ Owns(exec[s])')
    BY <1>2, SilentOwns
  <2>2. ASSUME NEW o \in Slots \ {s}, exec[o] # Idle
        PROVE  exec[o].run # r /\ Rests(exec[o].run)
    BY <1>0, <2>1, <2>2 DEF OwnInv, OneExecutorPerRun, Rests, rows
  <2> QED
    BY <1>0, <2>1, <2>2, OneOwnerMoves
<1> QED
  BY <1>1, <1>2

\* A start finds no executor, for there is no other process; a crash leaves none.
LEMMA HostsOwn ==
  ASSUME OneProcess, TypeOK, OwnInv, NEW p \in Procs, Start(p) \/ Crash(p)
  PROVE  OwnInv'
<1>1. UNCHANGED rows
  BY DEF Start, Crash
<1>2. ASSUME NEW o \in Slots, exec[o] # Idle
      PROVE  exec[o].proc = p /\ p \in up /\ Rests(exec[o].run)
  <2>1. exec[o].proc \in Procs /\ exec[o].proc \in up
    BY <1>2, ExecutorFields DEF TypeOK, OwnInv, Owns
  <2> QED
    BY <1>1, <2>1 DEF OneProcess, Rests, rows
<1>3. \A o \in Slots : exec'[o] = Idle
  BY <1>2 DEF Start, Crash
<1> QED
  BY <1>3, NoOwnerMoves

LEMMA StepOwn ==
  ASSUME OneProcess, TypeOK, IInv, OwnInv, OrderInv, [Next]_vars
  PROVE  OwnInv'
<1>1. ~Fault
  BY NoFaults DEF OneProcess
<1>2. ASSUME UNCHANGED vars PROVE OwnInv'
  <2>1. \A o \in Slots : exec[o] # Idle => Rests(exec[o].run)
    BY <1>2 DEF Rests, vars, rows
  <2> QED
    BY <1>2, <2>1, QuietOwners DEF vars, hosts
<1>3. ASSUME NEW p \in Procs, NEW r \in Runs, NEW s \in Slots, Admit(p, r, s)
      PROVE  OwnInv'
  BY <1>3, AdmitOwns
<1>4. ASSUME NEW s \in Slots, CallFails(s) \/ ReportFails(s) \/ HeartbeatFails(s)
      PROVE  OwnInv'
  BY <1>1, <1>4 DEF CallFails, ReportFails, HeartbeatFails
<1>5. ASSUME NEW p \in Procs, ClaimFails(p) PROVE OwnInv'
  BY <1>1, <1>5 DEF ClaimFails
<1> QED
  BY <1>2, <1>3, <1>4, <1>5, ClientsOwn, ExecutorOwns, RecoverOwns, HostsOwn DEF Next

-----------------------------------------------------------------------------
(* The order of the rows.                                                  *)

\* A status moves by an admission, a deletion, or the step of an active run.
LEMMA StatusChanges ==
  ASSUME OneProcess, TypeOK, IInv, OwnInv, [Next]_vars, NEW r \in Runs,
         status'[r] # status[r]
  PROVE  \/ \E p \in Procs, s \in Slots : Admit(p, r, s)
         \/ DeleteConversation(ThreadOf[r])
         \/ Active(r) /\ status'[r] \notin {"absent", "deleted"}
<1>1. ASSUME UNCHANGED status PROVE FALSE
  BY <1>1
<1>2. ASSUME UNCHANGED rows PROVE FALSE
  BY <1>1, <1>2 DEF rows
<1>3. ASSUME NEW s \in Slots, Writes(s)
      PROVE  Active(r) /\ status'[r] \notin {"absent", "deleted"}
  <2>1. PICK q \in Runs : q = exec[s].run
    BY <1>3, WritersLive
  <2>2. r = q
    BY <1>3, <2>1, WriterRow DEF QuietRow
  <2> QED
    BY <1>3, <2>1, <2>2, WritersLive, WriterRow
<1>4. ASSUME NEW p \in Procs, Recover(p)
      PROVE  Active(r) /\ status'[r] \notin {"absent", "deleted"}
  <2>1. PICK q \in Runs : Repair(p, q) \/ Condemn(p, q) \/ \E s \in Slots : Adopt(p, q, s)
    BY <1>4 DEF Recover
  <2>2. r = q
    BY <2>1, RecoveryRow DEF QuietRow
  <2>3. Claims(p, q)
    BY <2>1 DEF Repair, Condemn, Adopt
  <2> QED
    BY <2>1, <2>2, <2>3, RecoveryRow, ClaimedUnowned
<1>5. ASSUME NEW p \in Procs, NEW q \in Runs, NEW s \in Slots, Admit(p, q, s)
      PROVE  Admit(p, r, s)
  <2>1. r = q
    BY <1>5 DEF Admit, TypeOK
  <2> QED
    BY <1>5, <2>1
<1>6. ASSUME NEW t \in Threads, DeleteConversation(t)
      PROVE  DeleteConversation(ThreadOf[r])
  <2>1. t = ThreadOf[r]
    BY <1>6 DEF DeleteConversation
  <2> QED
    BY <1>6, <2>1
<1>7. ASSUME NEW s \in Slots,
             \/ ExecutorStep(s) \/ CallFails(s) \/ ReportFails(s) \/ HeartbeatFails(s)
      PROVE  Active(r) /\ status'[r] \notin {"absent", "deleted"}
  BY <1>2, <1>3, <1>7, OtherSteps
<1>8. ASSUME NEW p \in Procs, Start(p) \/ Crash(p) \/ ClaimFails(p) PROVE FALSE
  BY <1>2, <1>8 DEF Start, Crash, ClaimFails, Fault
<1>9. ASSUME NEW q \in Runs, Cancel(q) \/ Expire(q) PROVE FALSE
  BY <1>1, <1>9 DEF Cancel, Expire
<1>10. ASSUME NEW s \in Slots, Renew(s) PROVE FALSE
  BY <1>1, <1>10 DEF Renew
<1>11. ~UNCHANGED vars
  BY <1>2 DEF vars
<1> QED
  BY <1>3, <1>4, <1>5, <1>6, <1>7, <1>8, <1>9, <1>10, <1>11 DEF Next

LEMMA StartSets ==
  ASSUME TypeOK, [Next]_vars, NEW p \in Procs, cutoff'[p] # cutoff[p]
  PROVE  Start(p)
<1>1. ASSUME UNCHANGED cutoff PROVE FALSE
  BY <1>1
<1>2. ASSUME UNCHANGED hosts PROVE FALSE
  BY <1>1, <1>2 DEF hosts
<1>3. ~UNCHANGED vars
  BY <1>2 DEF vars
<1>4. ASSUME NEW s \in Slots, ExecutorStep(s) PROVE FALSE
  BY <1>1, <1>2, <1>4 DEF ExecutorStep, RowGone, Boot, WaitOver, WaitCancelled, WaitTimeout,
     Begin, Hello, Progress, TurnCancelled, TurnFailed, TurnCommits, Checkpoint,
     Resume, Reenter, Finish, FencedOut
<1>5. ASSUME NEW q \in Procs, Recover(q) PROVE FALSE
  BY <1>2, <1>5 DEF Recover, Repair, Condemn, Adopt
<1>6. ASSUME NEW q \in Procs, Start(q) PROVE p = q
  BY <1>6 DEF Start, TypeOK
<1>7. ~Fault
  BY <1>1 DEF Fault
<1> QED
  BY <1>1, <1>2, <1>3, <1>4, <1>5, <1>6, <1>7 DEF Next, Cancel, Expire, Admit,
     DeleteConversation, Renew, CallFails, ReportFails, HeartbeatFails, Crash, ClaimFails

LEMMA StepOrder ==
  ASSUME OneProcess, TypeOK, IInv, OwnInv, OrderInv, [Next]_vars
  PROVE  OrderInv'
<1>1. \A r \in Runs : RowEvolves(r)
  BY RowsEvolve
<1>2. \A r \in Runs : Admitted(r) => Admitted(r)'
  BY <1>1 DEF RowEvolves, Admitted
<1>3. ASSUME NEW r \in Runs, ~Admitted(r), Admitted(r)'
      PROVE  \E p \in Procs, s \in Slots : Admit(p, r, s)
  <2>1. status[r] = "absent" /\ status'[r] # "absent"
    BY <1>3 DEF Admitted
  <2>2. ~DeleteConversation(ThreadOf[r])
    BY <2>1 DEF DeleteConversation
  <2>3. ~Active(r)
    BY <2>1 DEF Active, ActiveStatuses
  <2> QED
    BY <2>1, <2>2, <2>3, StatusChanges
<1>4. ASSUME NEW q \in Runs, NEW r \in Runs, Admitted(r)', q < r PROVE Admitted(q)
  BY <1>3, <1>4 DEF OrderInv, Admit, Admitted
<1>5. ASSUME NEW q \in Runs, NEW r \in Runs, Admitted(r)', Before(q, r), Active(q)'
      PROVE  blockedBy'[r] \in Runs /\ q <= blockedBy'[r] /\ Before(blockedBy'[r], r)
  <2>1. Admitted(q) /\ Active(q)
    <3>1. Admitted(q)
      BY <1>4, <1>5 DEF Before
    <3> QED
      BY <1>1, <1>5, <3>1 DEF RowEvolves, Active
  <2>2. CASE Admitted(r)
    <3>1. blockedBy'[r] = blockedBy[r]
      BY <1>1, <2>2 DEF RowEvolves
    <3> QED
      BY <1>5, <2>1, <2>2, <3>1 DEF OrderInv
  <2>3. CASE ~Admitted(r)
    <3>1. PICK p \in Procs, s \in Slots : Admit(p, r, s)
      BY <1>3, <1>5, <2>3
    <3>2. blockedBy'[r] = Blocker(r)
      BY <3>1 DEF Admit, TypeOK
    <3>3. Blocker(r) \in ActiveBefore(r) /\ q <= Blocker(r)
      BY <1>5, <2>1, BlockerIsNewest DEF Before
    <3>4. PICK b \in Runs : b = Blocker(r) /\ ThreadOf[b] = ThreadOf[r] /\ Admitted(b)
      BY <3>3 DEF ActiveBefore, Active, ActiveStatuses, Admitted
    <3>5. b < r
      <4>1. ~(r < b) /\ b # r
        BY <2>3, <3>4 DEF OrderInv
      <4> QED
        BY <4>1 DEF Runs
    <3> QED
      BY <3>2, <3>3, <3>4, <3>5 DEF Before
  <2> QED
    BY <2>2, <2>3
<1>6. ASSUME NEW q \in Runs, NEW r \in Runs, status'[r] = "deleted",
             ThreadOf[q] = ThreadOf[r]
      PROVE  status'[q] \in {"absent", "deleted"}
  <2>1. CASE status[r] = "deleted"
    <3>1. status[q] \in {"absent", "deleted"}
      BY <1>6, <2>1 DEF OrderInv
    <3>2. status[q] = "absent" => status'[q] = "absent"
      <4>1. ~\E p \in Procs, s \in Slots : Admit(p, q, s)
        BY <1>6, <2>1 DEF Admit
      <4> QED
        BY <1>3, <4>1 DEF Admitted
    <3> QED
      BY <1>1, <3>1, <3>2 DEF RowEvolves
  <2>2. CASE status[r] # "deleted"
    <3>1. ~\E p \in Procs, s \in Slots : Admit(p, r, s)
      BY <1>6 DEF Admit, TypeOK
    <3>2. DeleteConversation(ThreadOf[r])
      BY <1>6, <2>2, <3>1, StatusChanges
    <3> QED
      BY <1>6, <3>2 DEF DeleteConversation
  <2> QED
    BY <2>1, <2>2
<1>7. ASSUME NEW p \in Procs, NEW r \in Runs, r <= cutoff'[p] PROVE Admitted(r)
  <2>1. CASE cutoff'[p] = cutoff[p]
    BY <1>7, <2>1 DEF OrderInv
  <2>2. CASE cutoff'[p] # cutoff[p]
    <3>1. Start(p)
      BY <2>2, StartSets
    <3>2. cutoff'[p] = Cardinality({q \in Runs : Admitted(q)})
      BY <3>1 DEF Start, TypeOK, Admitted
    <3> QED
      BY <1>7, <3>2, AdmittedAreFirst
  <2> QED
    BY <2>1, <2>2
<1>8. /\ \A q, r \in Runs : Admitted(r)' /\ q < r => Admitted(q)'
      /\ \A p \in Procs, r \in Runs : r <= cutoff'[p] => Admitted(r)'
  BY <1>2, <1>4, <1>7
<1> QED
  BY <1>5, <1>6, <1>8 DEF OrderInv, Before

-----------------------------------------------------------------------------
(* The predecessor chain.                                                  *)

\* Whoever waited for its predecessor has the chain of that predecessor.
LEMMA UnblockedIsChained ==
  ASSUME TypeOK, IInv, OrderInv, ChainInv, NEW r \in Runs, Admitted(r), Unblocked(r)
  PROVE  Chained(r)
<1> SUFFICES ASSUME NEW q \in Runs, Before(q, r), Active(q)
             PROVE  \E o \in Runs : Before(q, o) /\ Before(o, r) /\ Skipped(o)
  BY DEF Chained
<1>1. PICK b \in Runs : b = blockedBy[r] /\ q <= b /\ Before(b, r) /\ ~Active(b)
  BY DEF OrderInv, Unblocked
<1>2. Before(q, b)
  BY <1>1 DEF Before, Runs
<1>3. Terminal(b)
  <2>1. status[b] # "absent"
    BY <1>1 DEF OrderInv, Before, Admitted
  <2>2. status[b] # "deleted"
    BY <1>2 DEF OrderInv, Before, Active, ActiveStatuses
  <2> QED
    BY <1>1, <2>1, <2>2 DEF TypeOK, Statuses, Active, Terminal
<1>4. CASE Skipped(b)
  BY <1>1, <1>2, <1>4
<1>5. CASE ~Skipped(b)
  <2>1. log[b] # <<>> /\ log[b][1] = "started"
    BY <1>3, <1>5 DEF Skipped, IInv, RowInv, Ended
  <2>2. PICK o \in Runs : Before(q, o) /\ Before(o, b) /\ Skipped(o)
    BY <1>2, <2>1 DEF ChainInv, Past, Chained
  <2>3. Before(o, r)
    BY <1>1, <2>2 DEF Before, Runs
  <2> QED
    BY <2>2, <2>3
<1> QED
  BY <1>4, <1>5

\* A skipped run stays skipped until its whole conversation is deleted.
LEMMA ChainedKept ==
  ASSUME OrderInv, OrderInv', \A o \in Runs : RowEvolves(o),
         NEW r \in Runs, Admitted(r), Chained(r)
  PROVE  Chained(r)'
<1> SUFFICES ASSUME NEW q \in Runs, Before(q, r), Active(q)'
             PROVE  \E o \in Runs : Before(q, o) /\ Before(o, r) /\ Skipped(o)'
  BY DEF Chained, Before
<1>1. Active(q)
  <2>1. Admitted(q)
    BY DEF OrderInv, Before
  <2> QED
    BY <2>1 DEF RowEvolves, Active
<1>2. PICK o \in Runs : Before(q, o) /\ Before(o, r) /\ Skipped(o)
  BY <1>1 DEF Chained
<1>3. status'[o] # "deleted"
  BY <1>2 DEF OrderInv, Before, Active, ActiveStatuses
<1>4. Skipped(o)'
  BY <1>2, <1>3 DEF Skipped, RowEvolves, Terminal
<1> QED
  BY <1>2, <1>4

\* No other steps write events of a run.
LEMMA LogWriters ==
  ASSUME OneProcess, TypeOK, IInv, OwnInv, [Next]_vars, NEW r \in Runs, log'[r] # log[r]
  PROVE  \/ \E s \in Slots : (Hello(s) \/ Progress(s) \/ Finish(s)) /\ exec[s].run = r
         \/ \E p \in Procs : Condemn(p, r)
<1>1. log' # log
  OBVIOUS
<1>2. ASSUME NEW s \in Slots, Hello(s) \/ Progress(s) \/ Finish(s) PROVE exec[s].run = r
  BY <1>2, WritersLive, WriterRow DEF Writes, QuietRow
<1>3. ASSUME NEW p \in Procs, NEW q \in Runs, Condemn(p, q) PROVE q = r
  BY <1>3, RecoveryRow DEF QuietRow
<1> QED
  BY <1>1, <1>2, <1>3, LogChanges

\* What they write.
LEMMA EventsWritten ==
  ASSUME TypeOK, IInv, OwnInv, NEW s \in Slots, Hello(s) \/ Progress(s) \/ Finish(s)
  PROVE  LET r == exec[s].run
         IN \E event \in Events :
              /\ log'[r] = Append(log[r], event)
              /\ Hello(s) \/ Progress(s) <=> event \in {"started", "activity"}
              /\ event = "started" => Hello(s)
              /\ Finish(s) => status'[r] = event /\ exec[s].pending = <<event>>
<1>1. PICK r \in Runs : r = exec[s].run
  BY WritersLive DEF Writes
<1>2. ExecInv(exec[s]) /\ Owns(exec[s]) /\ exec[s] \in Executor
  BY WritersLive DEF Writes
<1>3. ~Fenced(s) /\ log[r] \in Seq(Events)
  BY <1>1, <1>2 DEF Owns, Fenced, TypeOK
<1>4. \A event \in Events : log[r] \o <<event>> = Append(log[r], event)
  BY <1>3
<1>5. CASE Hello(s)
  <2>1. exec[s].pending = <<"started">> /\ "started" \in Events /\ exec[s].pc = "hello"
    BY <1>2, <1>5 DEF Hello, At, ExecInv, PendingInv, Events
  <2>2. log'[r] = log[r] \o <<"started">>
    <3>1. log' = [log EXCEPT ![r] = @ \o exec[s].pending]
      BY <1>1, <1>3, <1>5 DEF Hello, Flush
    <3> QED
      BY <2>1, <3>1 DEF TypeOK
  <2>3. ~Finish(s)
    BY <2>1 DEF Finish, At
  <2> QED
    BY <1>1, <1>4, <1>5, <2>1, <2>2, <2>3
<1>6. CASE Progress(s)
  <2>1. "activity" \in Events /\ exec[s].pc = "turn"
    BY <1>6 DEF Progress, At, Events
  <2>2. log'[r] = log[r] \o <<"activity">>
    BY <1>1, <1>3, <1>6 DEF Progress, Flush, TypeOK
  <2>3. ~Finish(s)
    BY <2>1 DEF Finish, At
  <2> QED
    BY <1>1, <1>4, <1>6, <2>1, <2>2, <2>3
<1>7. CASE Finish(s)
  <2>1. PICK event \in TerminalStatuses : exec[s].pending = <<event>>
    BY <1>2, <1>7 DEF Finish, At, ExecInv, PendingInv, Owns, TerminalStatuses
  <2>2. /\ event \in Events /\ event \notin {"started", "activity"}
        /\ exec[s].pc \in {"close", "abort"}
    BY <1>7, <2>1 DEF Events, TerminalStatuses, Finish, At
  <2>3. log'[r] = log[r] \o <<event>> /\ status'[r] = event
    BY <1>1, <1>7, <2>1 DEF Finish, EndRun, TypeOK
  <2>4. ~Hello(s) /\ ~Progress(s)
    BY <2>2 DEF Hello, Progress, At
  <2> QED
    BY <1>1, <1>4, <1>7, <2>1, <2>2, <2>3, <2>4
<1> QED
  BY <1>5, <1>6, <1>7

\* An executor gets to its first events only by waiting.
LEMMA PastMoves ==
  ASSUME OneProcess, TypeOK, IInv, OwnInv, [Next]_vars, NEW s \in Slots,
         exec'[s].pc \in {"begin", "hello", "turn"}
  PROVE  /\ exec[s] # Idle /\ exec'[s].run = exec[s].run
         /\ exec[s].pc \in {"begin", "hello", "turn"} \/ WaitOver(s)
<1>1. ASSUME exec'[s] = exec[s]
      PROVE  exec[s] # Idle /\ exec'[s].run = exec[s].run
             /\ exec[s].pc \in {"begin", "hello", "turn"}
  BY <1>1 DEF Idle
<1>2. ASSUME UNCHANGED exec
      PROVE  exec[s] # Idle /\ exec'[s].run = exec[s].run
             /\ exec[s].pc \in {"begin", "hello", "turn"}
  BY <1>1, <1>2
<1>3. exec'[s] # Idle
  BY DEF Idle
<1>4. ASSUME NEW o \in Slots, NEW p, NEW r \in Runs, NEW base, NEW via,
             Spawn(o, p, r, base, via)
      PROVE  exec'[s] = exec[s]
  BY <1>4, Spawns
<1>5. ASSUME NEW o \in Slots, ExecutorStep(o), o # s PROVE exec'[s] = exec[s]
  BY <1>5, OwnExecutor
<1>6. ASSUME ExecutorStep(s)
      PROVE  /\ exec[s] # Idle /\ exec'[s].run = exec[s].run
             /\ exec[s].pc \in {"begin", "hello", "turn"} \/ WaitOver(s)
  <2>1. exec[s] # Idle /\ exec'[s].run = exec[s].run
    BY <1>3, <1>6, WritersLive, WriterOwns, SilentOwns
  <2>2. exec[s] \in Executor
    BY <2>1 DEF TypeOK
  <2>3. ASSUME NEW pc \in Pcs, NEW pending, Goto(s, pc, pending) PROVE exec'[s].pc = pc
    BY <2>2, <2>3, GotoStays DEF Stays
  <2>4. ASSUME NEW outcome, Raise(s, outcome) PROVE FALSE
    BY <2>3, <2>4 DEF Raise, Pcs
  <2>5. ~Leave(s) /\ ~Die(s)
    BY <1>3, Exits
  <2>6. ~Boot(s)
    BY <2>3 DEF Boot, Pcs
  <2>7. ~TurnCommits(s) /\ ~Checkpoint(s) /\ ~Resume(s)
    BY <2>3 DEF TurnCommits, Checkpoint, Resume, Pcs
  <2>8. ~Reenter(s)
    BY <2>3, <2>4 DEF Reenter, Pcs
  <2> QED
    BY <1>6, <2>1, <2>4, <2>5, <2>6, <2>7, <2>8 DEF ExecutorStep, RowGone, WaitCancelled,
       WaitTimeout, Begin, Hello, Progress, TurnCancelled, TurnFailed, Finish, FencedOut, At
<1>7. ASSUME NEW p \in Procs, Recover(p)
      PROVE  exec'[s] = exec[s]
  BY <1>4, <1>7 DEF Recover, Repair, Condemn, Adopt
<1>8. ASSUME NEW p \in Procs, Start(p) \/ Crash(p) PROVE exec'[s] = exec[s]
  BY <1>3, <1>8 DEF Start, Crash
<1>9. ~Fault
  BY NoFaults DEF OneProcess
<1>10. CASE \E r \in Runs, p \in Procs, o \in Slots : Admit(p, r, o)
  BY <1>1, <1>4, <1>10 DEF Admit
<1>11. CASE UNCHANGED vars
  BY <1>2, <1>11 DEF vars
<1> QED
  BY <1>1, <1>2, <1>5, <1>6, <1>7, <1>8, <1>9, <1>10, <1>11 DEF Next, Cancel, Expire,
     DeleteConversation, Renew, CallFails, ReportFails, HeartbeatFails, ClaimFails

LEMMA FirstOfAppend ==
  ASSUME NEW l \in Seq(Events), NEW event \in Events, event # "started",
         Append(l, event)[1] = "started"
  PROVE  l # <<>> /\ l[1] = "started"
<1>1. l # <<>>
  OBVIOUS
<1> QED
  BY <1>1

LEMMA StepChain ==
  ASSUME OneProcess, TypeOK, IInv, OwnInv, OrderInv, ChainInv, OrderInv', [Next]_vars
  PROVE  ChainInv'
<1> SUFFICES ASSUME NEW r \in Runs, Past(r)'
             PROVE  Chained(r)'
  BY DEF ChainInv
<1>1. ASSUME Past(r) PROVE Admitted(r)
  BY <1>1 DEF Past, Admitted, IInv, RowInv, ExecInv, Idle
<1>2. Past(r) \/ \E s \in Slots : WaitOver(s) /\ exec[s].run = r
  <2>1. CASE log'[r] # <<>> /\ log'[r][1] = "started"
    <3>1. CASE log'[r] = log[r]
      BY <2>1, <3>1 DEF Past
    <3>2. ASSUME NEW event \in Events, log'[r] = Append(log[r], event), event # "started"
          PROVE  Past(r)
      BY <2>1, <3>2, FirstOfAppend DEF Past, TypeOK
    <3>3. ASSUME NEW s \in Slots, Hello(s) \/ Progress(s) \/ Finish(s), exec[s].run = r
          PROVE  Past(r)
      <4>1. CASE Hello(s)
        BY <3>3, <4>1 DEF Past, Hello, At
      <4>2. CASE ~Hello(s)
        BY <3>2, <3>3, <4>2, EventsWritten
      <4> QED
        BY <4>1, <4>2
    <3>4. ASSUME NEW p \in Procs, Condemn(p, r) PROVE Past(r)
      <4>1. "failed" \in Events
        BY DEF Events, TerminalStatuses
      <4>2. log'[r] = log[r] \o <<"failed">> /\ log[r] \in Seq(Events)
        BY <3>4 DEF Condemn, EndRun, TypeOK
      <4>3. log'[r] = Append(log[r], "failed")
        BY <4>1, <4>2
      <4> QED
        BY <3>2, <4>1, <4>3
    <3> QED
      BY <3>1, <3>3, <3>4, LogWriters
  <2>2. ASSUME NEW s \in Slots, exec'[s].pc \in {"begin", "hello", "turn"}, exec'[s].run = r
        PROVE  Past(r) \/ \E o \in Slots : WaitOver(o) /\ exec[o].run = r
    BY <2>2, PastMoves DEF Past
  <2> QED
    BY <2>1, <2>2 DEF Past
<1>3. ASSUME NEW s \in Slots, WaitOver(s), exec[s].run = r
      PROVE  Admitted(r) /\ Chained(r)
  <2>1. exec[s] # Idle /\ Unblocked(r)
    BY <1>3 DEF WaitOver, At, Idle
  <2>2. Admitted(r)
    BY <1>3, <2>1 DEF IInv, ExecInv, Admitted
  <2> QED
    BY <2>1, <2>2, UnblockedIsChained
<1>4. Admitted(r) /\ Chained(r)
  BY <1>1, <1>2, <1>3 DEF ChainInv
<1> QED
  BY <1>4, RowsEvolve, ChainedKept

-----------------------------------------------------------------------------
(* Outcomes.                                                               *)

\* A run is reported as cancelled by its executor: recovery finds no outcome left
\* beside an active row.
LEMMA CancelledByFinish ==
  ASSUME OneProcess, TypeOK, IInv, OwnInv, OutcomeInv, [Next]_vars,
         NEW r \in Runs, status'[r] = "cancelled", status[r] # "cancelled"
  PROVE  \E s \in Slots : Finish(s) /\ exec[s].run = r
<1>1. ASSUME UNCHANGED rows PROVE FALSE
  BY <1>1 DEF rows
<1>2. ASSUME UNCHANGED status PROVE FALSE
  BY <1>2
<1>3. ASSUME NEW s \in Slots, ExecutorStep(s)
      PROVE  Finish(s) /\ exec[s].run = r
  <2>1. Writes(s)
    BY <1>1, <1>3, OtherSteps
  <2>2. exec[s].run = r
    BY <2>1, WriterRow DEF QuietRow
  <2>3. ~Begin(s) /\ ~Resume(s)
    BY <2>2 DEF Begin, Resume, TypeOK
  <2>4. ~Hello(s) /\ ~Progress(s) /\ ~TurnCommits(s) /\ ~Checkpoint(s)
    BY <1>2 DEF Hello, Progress, TurnCommits, Checkpoint
  <2> QED
    BY <2>1, <2>2, <2>3, <2>4 DEF Writes
<1>4. ASSUME NEW p \in Procs, Recover(p) PROVE FALSE
  <2>1. PICK q \in Runs : Repair(p, q) \/ Condemn(p, q) \/ \E s \in Slots : Adopt(p, q, s)
    BY <1>4 DEF Recover
  <2>2. q = r
    BY <2>1, RecoveryRow DEF QuietRow
  <2>3. ~Repair(p, r)
    BY ClaimedUnowned DEF Repair, OutcomeInv
  <2> QED
    BY <2>1, <2>2, <2>3 DEF Condemn, EndRun, Adopt, TypeOK
<1>5. ~Fault
  BY NoFaults DEF OneProcess
<1>6. ASSUME NEW p \in Procs, NEW q \in Runs, NEW s \in Slots, Admit(p, q, s) PROVE FALSE
  BY <1>6 DEF Admit, TypeOK
<1>7. ASSUME NEW t \in Threads, DeleteConversation(t) PROVE FALSE
  BY <1>7 DEF DeleteConversation
<1>8. ~UNCHANGED vars
  BY <1>1 DEF vars
<1> QED
  BY <1>1, <1>2, <1>3, <1>4, <1>5, <1>6, <1>7, <1>8 DEF Next, Cancel, Expire, Renew, Start,
     Crash, CallFails, ReportFails, HeartbeatFails, ClaimFails

\* A reply that holds the committed answer is never blanked or discarded.
LEMMA StepReply ==
  ASSUME TypeOK, IInv, OutcomeInv, [Next]_vars, NEW r \in Runs, commits'[r] > 0
  PROVE  reply'[r] = "answered"
<1>1. CASE UNCHANGED <<commits, reply>>
  BY <1>1 DEF OutcomeInv
<1>2. ASSUME NEW q \in Runs, UNCHANGED commits, reply' = DiscardEmpty(q)
      PROVE  reply'[r] = "answered"
  BY <1>2 DEF OutcomeInv, DiscardEmpty, TypeOK
<1>3. ASSUME NEW s \in Slots, ExecutorStep(s) PROVE reply'[r] = "answered"
  <2>1. CASE TurnCommits(s)
    BY <2>1 DEF TurnCommits, OutcomeInv, TypeOK
  <2>2. CASE Finish(s)
    <3>1. exec[s].run \in Runs
      BY <2>2, BusySlot DEF Finish, At, TypeOK, ExecType
    <3> QED
      BY <1>2, <2>2, <3>1 DEF Finish, EndRun
  <2>3. CASE ~TurnCommits(s) /\ ~Finish(s)
    <3>1. UNCHANGED <<commits, reply>>
      BY <1>3, <2>3 DEF ExecutorStep, RowGone, Boot, WaitOver, WaitCancelled, WaitTimeout,
         Begin, Hello, Progress, TurnCancelled, TurnFailed, Checkpoint, Resume, Reenter,
         FencedOut, rows
    <3> QED
      BY <1>1, <3>1
  <2> QED
    BY <2>1, <2>2, <2>3
<1>4. ASSUME NEW p \in Procs, Recover(p) PROVE reply'[r] = "answered"
  BY <1>1, <1>2, <1>4 DEF Recover, Repair, Condemn, EndRun, Adopt
<1>5. ASSUME NEW p \in Procs, NEW q \in Runs, NEW s \in Slots, Admit(p, q, s)
      PROVE  reply'[r] = "answered"
  <2>1. commits[q] = 0 /\ UNCHANGED commits
    BY <1>5 DEF Admit, IInv, RowInv
  <2> QED
    BY <1>5, <2>1 DEF Admit, OutcomeInv, TypeOK
<1>6. CASE UNCHANGED vars
  BY <1>1, <1>6 DEF vars, rows
<1>7. CASE \/ \E q \in Runs : Cancel(q) \/ Expire(q)
           \/ \E t \in Threads : DeleteConversation(t)
           \/ \E s \in Slots : \/ Renew(s) \/ CallFails(s) \/ ReportFails(s)
                               \/ HeartbeatFails(s)
           \/ \E p \in Procs : Start(p) \/ Crash(p) \/ ClaimFails(p)
  <2>1. UNCHANGED <<commits, reply>>
    BY <1>7 DEF Cancel, Expire, DeleteConversation, Renew, CallFails, ReportFails,
       HeartbeatFails, Start, Crash, ClaimFails, Fault, rows
  <2> QED
    BY <1>1, <2>1
<1> QED
  BY <1>3, <1>4, <1>5, <1>6, <1>7 DEF Next

LEMMA StepOutcome ==
  ASSUME OneProcess, TypeOK, IInv, OwnInv, OutcomeInv, [Next]_vars
  PROVE  OutcomeInv'
<1>1. ASSUME NEW r \in Runs, Ended(r)', Active(r)' PROVE FALSE
  <2>1. CASE ~Admitted(r)
    <3>1. log'[r] = log[r] /\ log[r] = <<>>
      <4>1. ~Active(r)
        BY <2>1 DEF Admitted, Active, ActiveStatuses
      <4>2. ASSUME NEW s \in Slots, Hello(s) \/ Progress(s) \/ Finish(s), exec[s].run = r
            PROVE  FALSE
        BY <4>1, <4>2, WritersLive DEF Writes
      <4>3. ASSUME NEW p \in Procs, Condemn(p, r) PROVE FALSE
        BY <4>1, <4>3, ClaimedUnowned DEF Condemn
      <4> QED
        BY <2>1, <4>2, <4>3, LogWriters DEF Admitted, IInv, RowInv
    <3> QED
      BY <1>1, <3>1 DEF Ended
  <2>2. CASE Admitted(r)
    <3>1. Active(r) /\ ~Ended(r)
      BY <1>1, <2>2, RowsEvolve DEF RowEvolves, Active, OutcomeInv
    <3>2. log'[r] # log[r]
      BY <1>1, <3>1 DEF Ended
    <3>3. ASSUME NEW s \in Slots, Hello(s) \/ Progress(s) \/ Finish(s), exec[s].run = r
          PROVE  FALSE
      <4>1. PICK event \in Events :
              /\ log'[r] = Append(log[r], event)
              /\ Hello(s) \/ Progress(s) <=> event \in {"started", "activity"}
              /\ Finish(s) => status'[r] = event
        BY <3>3, EventsWritten
      <4>2. log'[r][Len(log'[r])] = event
        BY <4>1 DEF TypeOK
      <4>3. event \in TerminalStatuses
        BY <1>1, <4>2 DEF Ended
      <4> QED
        BY <1>1, <3>3, <4>1, <4>3 DEF Active, ActiveStatuses, TerminalStatuses
    <3>4. ASSUME NEW p \in Procs, Condemn(p, r) PROVE FALSE
      <4>1. status'[r] = "failed"
        BY <3>4 DEF Condemn, EndRun, TypeOK
      <4> QED
        BY <1>1, <4>1 DEF Active, ActiveStatuses
    <3> QED
      BY <3>2, <3>3, <3>4, LogWriters
  <2> QED
    BY <2>1, <2>2
<1>2. ASSUME NEW r \in Runs, status'[r] = "cancelled", commits'[r] > 0 PROVE attempts'[r] > 0
  <2>1. RowEvolves(r)
    BY RowsEvolve
  <2>2. CASE status[r] = "cancelled"
    BY <1>2, <2>1, <2>2 DEF RowEvolves, Terminal, TerminalStatuses, OutcomeInv
  <2>3. CASE status[r] # "cancelled"
    <3>1. PICK s \in Slots : Finish(s) /\ exec[s].run = r
      BY <1>2, <2>3, CancelledByFinish
    <3>2. /\ status'[r] = "cancelled" => exec[s].pending = <<"cancelled">>
      BY <3>1, EventsWritten
    <3>3. exec[s].pc = "abort" /\ Owns(exec[s])
      <4>1. Owns(exec[s]) /\ ExecInv(exec[s])
        BY <3>1, WritersLive DEF Writes
      <4> QED
        BY <1>2, <3>1, <3>2, <4>1 DEF Finish, At, ExecInv, PendingInv
    <3>4. UNCHANGED <<commits, attempts>>
      BY <3>1 DEF Finish
    <3> QED
      BY <1>2, <3>1, <3>2, <3>3, <3>4 DEF Owns
  <2> QED
    BY <2>2, <2>3
<1> QED
  BY <1>1, <1>2, StepReply DEF OutcomeInv

-----------------------------------------------------------------------------
(* Theorems.                                                               *)

LEMMA InitOneProcess == Init => OneProcessInv
<1> SUFFICES ASSUME Init PROVE OneProcessInv
  OBVIOUS
<1>1. OwnInv
  BY DEF Init, OwnInv, OneExecutorPerRun
<1>2. OrderInv
  BY DEF Init, OrderInv, Admitted, Runs
<1>3. ChainInv
  BY DEF Init, ChainInv, Past, Idle
<1>4. OutcomeInv
  BY DEF Init, OutcomeInv, Ended
<1> QED
  BY <1>1, <1>2, <1>3, <1>4 DEF OneProcessInv

LEMMA StepOneProcess ==
  ASSUME OneProcess
  PROVE  TypeOK /\ IInv /\ OneProcessInv /\ [Next]_vars => OneProcessInv'
<1> SUFFICES ASSUME TypeOK, IInv, OneProcessInv, [Next]_vars PROVE OneProcessInv'
  OBVIOUS
<1>1. OwnInv' /\ OrderInv'
  BY StepOwn, StepOrder DEF OneProcessInv
<1> QED
  BY <1>1, StepChain, StepOutcome DEF OneProcessInv

\* OneProcessInv, beside the invariant of every deployment, is inductive.
THEOREM OneProcessInvariant == ASSUME OneProcess PROVE Spec => [](TypeOK /\ IInv /\ OneProcessInv)
<1>1. Init => OneProcessInv
  BY InitOneProcess
<1>2. TypeOK /\ IInv /\ OneProcessInv /\ [Next]_vars => OneProcessInv'
  BY StepOneProcess
<1> QED
  BY <1>1, <1>2, InductiveInvariant, PTL DEF Spec

\* In one process recovery never gives a run a second executor, however often
\* the process crashes: it is younger than the cutoff or its lease beats.
THEOREM RunsHaveOneExecutor == ASSUME OneProcess PROVE Spec => []OneExecutorPerRun
<1>1. OneProcessInv => OneExecutorPerRun
  BY DEF OneProcessInv, OwnInv
<1> QED
  BY <1>1, OneProcessInvariant, PTL

\* In one process a run that committed its answer and is reported cancelled was
\* being finished by recovery, and its answer stays in the transcript.
THEOREM CancelledAnswersStay == ASSUME OneProcess PROVE Spec => []CancelKeepsAnswer
<1>1. OneProcessInv => CancelKeepsAnswer
  BY DEF OneProcessInv, OutcomeInv, CancelKeepsAnswer
<1> QED
  BY <1>1, OneProcessInvariant, PTL

\* In one process two turns of a conversation overlap only past a run between
\* them that ended without ever starting.
THEOREM TurnsOverlapPastSkips == ASSUME OneProcess PROVE Spec => []OverlapNeedsSkip
<1>1. TypeOK /\ IInv /\ OneProcessInv => OverlapNeedsSkip
  <2> SUFFICES ASSUME TypeOK, IInv, OneProcessInv, NEW q \in Runs, NEW r \in Runs,
                      Before(q, r), InTurn(q), InTurn(r)
               PROVE  \E o \in Runs : Before(q, o) /\ Before(o, r) /\ Skipped(o)
    BY DEF OverlapNeedsSkip, Before, Skipped
  <2>1. PICK s \in Slots : At(s, "turn") /\ exec[s].run = q
    BY DEF InTurn
  <2>2. Active(q)
    BY <2>1, LiveExecutor DEF OneProcessInv, At, Idle
  <2>3. Past(r)
    BY DEF InTurn, At, Past
  <2> QED
    BY <2>2, <2>3 DEF OneProcessInv, ChainInv, Chained
<1> QED
  BY <1>1, OneProcessInvariant, PTL

\* In one process an outcome, once the row has it, is only ever deleted.
THEOREM OutcomesAreFinal == ASSUME OneProcess PROVE Spec => TerminalIsFinal
<1>1. TypeOK /\ IInv /\ OneProcessInv /\ [Next]_vars
        => [\A r \in Runs : Terminal(r) => status'[r] \in {status[r], "deleted"}]_vars
  <2> SUFFICES ASSUME TypeOK, IInv, OneProcessInv, [Next]_vars
               PROVE  \A r \in Runs : Terminal(r) => status'[r] \in {status[r], "deleted"}
    OBVIOUS
  <2> QED
    BY RowsEvolve DEF OneProcessInv, RowEvolves
<1> QED
  BY <1>1, OneProcessInvariant, PTL DEF Spec, TerminalIsFinal

=============================================================================
