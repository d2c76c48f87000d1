---------------------------- MODULE AgentRunsInv ----------------------------
(***************************************************************************)
(* The inductive invariant of AgentRuns, for any number of processes, runs *)
(* crashes and failing calls.  It explains why the unique event sequence   *)
(* is a fence: an executor may still write only while nobody else has      *)
(* written since it read the log, and the log is empty exactly while no    *)
(* turn has started.                                                       *)
(***************************************************************************)
EXTENDS AgentRuns

LastEvent(r) == log[r][Len(log[r])]

\* Rows: what the log, the checkpoint and the status say of each other.
RowInv(r) ==
  /\ status[r] = "absent" => log[r] = <<>> /\ phase[r] = "none" /\ reply[r] = "none"
  /\ log[r] = <<>> => commits[r] = 0
  /\ commits[r] <= 1
  /\ phase[r] = "postprocess" => commits[r] > 0 /\ reply[r] = "answered"
  /\ status[r] \in {"queued", "recovering"} => log[r] = <<>> \/ Resumable(r)
  /\ Terminal(r) => Ended(r) /\ LastEvent(r) = status[r] /\ reply[r] # "reserved"
  /\ Ended(r) /\ LastEvent(r) \in {"succeeded", "interrupted"} =>
       commits[r] > 0 /\ reply[r] = "answered"

\* What an executor holds for its publisher.
PendingInv(e) ==
  CASE e.pc = "hello" -> e.pending = <<"started">>
    [] e.pc = "close" -> e.pending \in {<<"succeeded">>, <<"interrupted">>}
    [] e.pc = "abort" -> /\ Len(e.pending) > 0
                         /\ e.pending[Len(e.pending)] \in {"failed", "cancelled"}
    [] OTHER          -> e.pending = <<>>

\* An executor and its run.
ExecInv(e) ==
  LET r == e.run
      fresh == e.base = Len(log[r])
  IN /\ status[r] # "absent"
     /\ e.base <= Len(log[r])
     /\ fresh => ~Ended(r)
     /\ fresh /\ e.pc = "boot" => log[r] = <<>> \/ Resumable(r)
     /\ fresh /\ e.pc \in {"wait", "begin", "hello"} => log[r] = <<>>
     /\ e.pc = "hello" => (status[r] \in {"queued", "recovering"} => Resumable(r))
     /\ e.pc = "turn" => log[r] # <<>> /\ commits[r] = 0
     /\ e.pc \in {"checkpoint", "close"} => commits[r] > 0 /\ reply[r] = "answered"
     /\ PendingInv(e)

\* At most one executor of a run is past its first event and before its commit.
OneTurn ==
  \A s, t \in Slots :
    s # t /\ exec[s].pc = "turn" /\ exec[t].pc = "turn" => exec[s].run # exec[t].run

\* The inductive invariant: rows agree with their log, an executor that may
\* still write knows the whole log, and turns of one run never overlap.
IInv ==
  /\ \A r \in Runs : RowInv(r)
  /\ \A s \in Slots : exec[s] # Idle => ExecInv(exec[s])
  /\ OneTurn
=============================================================================
