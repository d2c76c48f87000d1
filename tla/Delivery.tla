------------------------------ MODULE Delivery ------------------------------
(***************************************************************************)
(* How the events of one run reach a browser: DurableEventPublisher        *)
(* commits a batch and only then hands it to the request's queue; POST     *)
(* /agent streams that queue; GET /agent/runs/{id}/events polls the rows   *)
(* and then the run's state, in two statements, until the run is over and  *)
(* nothing is left; the client in frontend/src/lib/api.ts drops what it    *)
(* has seen and asks again from its last replay-safe sequence.             *)
(*                                                                         *)
(* The run's own life is RunStream's and AgentRuns'; here it is a log of   *)
(* event kinds that ends once.                                             *)
(***************************************************************************)
EXTENDS Naturals, Sequences, FiniteSets

CONSTANTS MaxEvents, MaxDrops

ASSUME DeliveryBounds == MaxEvents \in Nat \ {0} /\ MaxDrops \in Nat

VARIABLES
    log,        \* kinds of the committed events; its length is last_sequence
    pending,    \* kinds emitted and not committed
    publishing, \* committed sequences not yet handed to the queue
    queue,      \* the request's live queue
    executor,   \* "running", "stopped" after its terminal commit, or "dead"
    channel,    \* the listener's connection: "post", "get"; "retry" when the
                \* post was lost, "lost" when the replay was too, "closed"
    poll,       \* the replay loop: phase, cursor, rows read, state read
    heard,      \* sequences the client has taken, in the order it took them
    safe,       \* its replay-safe cursor
    drops

deliveryVars == <<log, pending, publishing, queue, executor, channel, poll, heard, safe, drops>>

Progressing == {"text", "note"}  \* text is not replay-safe, an activity note is
EventKinds  == Progressing \cup {"end"}
ReplaySafe(kind) == kind # "text"

RunOver == log # <<>> /\ log[Len(log)] = "end"
HeardSet == {heard[i] : i \in DOMAIN heard}
HeardEnd == \E n \in HeardSet : n \in DOMAIN log /\ log[n] = "end"

IdlePoll == [phase |-> "idle", cursor |-> 0, rows |-> 0, over |-> FALSE, last |-> 0]

DeliveryInit ==
    /\ log = <<>> /\ pending = <<>> /\ publishing = <<>> /\ queue = <<>>
    /\ executor = "running"
    /\ channel = "post" /\ poll = IdlePoll
    /\ heard = <<>> /\ safe = 0 /\ drops = 0

(***************************************************************************)
(* The publisher.                                                          *)
(***************************************************************************)
Emit(kind) ==
    /\ executor = "running" /\ publishing = <<>> /\ ~RunOver
    /\ "end" \notin {pending[i] : i \in DOMAIN pending}
    /\ Len(log) + Len(pending) < MaxEvents - (IF kind = "end" THEN 0 ELSE 1)
    /\ pending' = Append(pending, kind)
    /\ UNCHANGED <<log, publishing, queue, executor, channel, poll, heard, safe, drops>>

CommitBatch ==
    /\ executor = "running" /\ pending # <<>> /\ publishing = <<>>
    /\ log' = log \o pending
    /\ publishing' = [i \in 1..Len(pending) |-> Len(log) + i]
    /\ pending' = <<>>
    /\ UNCHANGED <<queue, executor, channel, poll, heard, safe, drops>>

PublishLive ==
    /\ executor = "running" /\ publishing # <<>>
    /\ queue' = IF channel = "post" THEN Append(queue, Head(publishing)) ELSE queue
    /\ publishing' = Tail(publishing)
    /\ UNCHANGED <<log, pending, executor, channel, poll, heard, safe, drops>>

Stop ==
    /\ executor = "running" /\ RunOver /\ publishing = <<>>
    /\ executor' = "stopped"
    /\ UNCHANGED <<log, pending, publishing, queue, channel, poll, heard, safe, drops>>

(* The process dies: what was not committed, the queue and every           *)
(* connection are gone.  Recovery, which has no listener, ends the run.    *)
(* A client that loses its POST asks once for a replay; when that is lost  *)
(* too it waits until the thread's state names an active run.              *)
Connected == channel \in {"post", "get"}

Hangup ==
    /\ channel' = CASE channel = "post" -> "retry"
                     [] channel = "get" -> "lost"
                     [] OTHER -> channel
    /\ queue' = <<>> /\ poll' = IdlePoll

Die ==
    /\ executor = "running"
    /\ executor' = "dead" /\ pending' = <<>> /\ publishing' = <<>>
    /\ Hangup
    /\ UNCHANGED <<log, heard, safe, drops>>

(* The executor raises past its handlers and commits nothing terminal. *)
Raise ==
    /\ executor = "running" /\ publishing = <<>> /\ ~RunOver
    /\ executor' = "dead" /\ pending' = <<>>
    /\ UNCHANGED <<log, publishing, queue, channel, poll, heard, safe, drops>>

Condemned ==
    /\ executor = "dead" /\ ~RunOver
    /\ log' = Append(log, "end")
    /\ UNCHANGED <<pending, publishing, queue, executor, channel, poll, heard, safe, drops>>

(***************************************************************************)
(* The listener.                                                           *)
(***************************************************************************)

\* Mutant: the client takes what it has seen before.
Hear_Again(n) ==
    /\ heard' = Append(heard, n)
    /\ safe' = IF ReplaySafe(log[n]) /\ n > safe THEN n ELSE safe

Hear(n) ==
    /\ heard' = IF n \in HeardSet THEN heard ELSE Append(heard, n)
    /\ safe' = IF n \notin HeardSet /\ ReplaySafe(log[n]) /\ n > safe THEN n ELSE safe

TakeLive ==
    /\ channel = "post" /\ queue # <<>>
    /\ Hear(Head(queue))
    /\ queue' = Tail(queue)
    /\ channel' = IF log[Head(queue)] = "end" THEN "closed" ELSE "post"
    /\ UNCHANGED <<log, pending, publishing, executor, poll, drops>>

(* The executor's sentinel ends a live stream that carried no terminal     *)
(* event, and the client fails the request.                                *)
Drained ==
    /\ channel = "post" /\ queue = <<>> /\ executor = "dead"
    /\ channel' = "lost"
    /\ UNCHANGED <<log, pending, publishing, queue, executor, poll, heard, safe, drops>>

Drop ==
    /\ Connected /\ drops < MaxDrops
    /\ drops' = drops + 1
    /\ Hangup
    /\ UNCHANGED <<log, pending, publishing, executor, heard, safe>>

(* A page reloaded while the run is active remembers nothing. *)
Reload ==
    /\ ~RunOver /\ drops < MaxDrops
    /\ drops' = drops + 1
    /\ channel' = "lost" /\ queue' = <<>> /\ poll' = IdlePoll
    /\ heard' = <<>> /\ safe' = 0
    /\ UNCHANGED <<log, pending, publishing, executor>>

\* Mutant: the client asks for a replay only while the run is active.
Resubscribe_ActiveOnly ==
    /\ channel \in {"retry", "lost"} /\ ~RunOver
    /\ channel' = "get"
    /\ poll' = [IdlePoll EXCEPT !.phase = "rows", !.cursor = safe]
    /\ UNCHANGED <<log, pending, publishing, queue, executor, heard, safe, drops>>

Resubscribe ==
    /\ channel = "retry" \/ (channel = "lost" /\ ~RunOver)
    /\ channel' = "get"
    /\ poll' = [IdlePoll EXCEPT !.phase = "rows", !.cursor = safe]
    /\ UNCHANGED <<log, pending, publishing, queue, executor, heard, safe, drops>>

ReadRows ==
    /\ channel = "get" /\ poll.phase = "rows"
    /\ poll' = [poll EXCEPT !.phase = "state", !.rows = Len(log)]
    /\ UNCHANGED <<log, pending, publishing, queue, executor, channel, heard, safe, drops>>

ReadState ==
    /\ channel = "get" /\ poll.phase = "state"
    /\ poll' = [poll EXCEPT !.phase = "send", !.over = RunOver, !.last = Len(log)]
    /\ UNCHANGED <<log, pending, publishing, queue, executor, channel, heard, safe, drops>>

SendRow ==
    /\ channel = "get" /\ poll.phase = "send" /\ poll.cursor < poll.rows
    /\ Hear(poll.cursor + 1)
    /\ poll' = [poll EXCEPT !.cursor = @ + 1]
    /\ UNCHANGED <<log, pending, publishing, queue, executor, channel, drops>>

\* Mutant: a replay stops as soon as the run is over.
AtEnd_RunOver == poll.over

AtEnd == poll.over /\ poll.cursor >= poll.last

PollAgain ==
    /\ channel = "get" /\ poll.phase = "send" /\ poll.cursor >= poll.rows /\ ~AtEnd
    /\ poll' = [poll EXCEPT !.phase = "rows"]
    /\ UNCHANGED <<log, pending, publishing, queue, executor, channel, heard, safe, drops>>

Served ==
    /\ channel = "get" /\ poll.phase = "send" /\ poll.cursor >= poll.rows /\ AtEnd
    /\ channel' = "closed" /\ poll' = IdlePoll
    /\ UNCHANGED <<log, pending, publishing, queue, executor, heard, safe, drops>>

Publisher == (\E kind \in EventKinds : Emit(kind)) \/ CommitBatch \/ PublishLive \/ Stop \/ Condemned
Listener  == TakeLive \/ Drained \/ Resubscribe \/ ReadRows \/ ReadState \/ SendRow
             \/ PollAgain \/ Served

DeliveryNext == Publisher \/ Listener \/ Die \/ Raise \/ Drop \/ Reload

DeliveryFairness ==
    /\ WF_deliveryVars(Emit("end")) /\ WF_deliveryVars(CommitBatch)
    /\ WF_deliveryVars(PublishLive) /\ WF_deliveryVars(Stop) /\ WF_deliveryVars(Condemned)
    /\ WF_deliveryVars(Listener)

DeliverySpec == DeliveryInit /\ [][DeliveryNext]_deliveryVars

-----------------------------------------------------------------------------
(* Rows, queue, cursors and what the client has taken are sequences of the *)
(* run's event numbers.                                                    *)
DeliveryTypeOK ==
    /\ log \in Seq(EventKinds) /\ pending \in Seq(EventKinds)
    /\ publishing \in Seq(Nat) /\ queue \in Seq(Nat) /\ heard \in Seq(Nat)
    /\ executor \in {"running", "stopped", "dead"}
    /\ channel \in {"post", "get", "retry", "lost", "closed"}
    /\ poll \in [phase : {"idle", "rows", "state", "send"}, cursor : Nat, rows : Nat,
                 over : BOOLEAN, last : Nat]
    /\ safe \in Nat /\ drops \in 0..MaxDrops

(* Whatever mixture of live stream, replays, drops and reloads brought the *)
(* events, the client has taken a gapless prefix of the committed log, in  *)
(* order, each event once: nothing reaches it before its commit.           *)
HeardIsPrefix ==
    /\ Len(heard) <= Len(log)
    /\ \A i \in DOMAIN heard : heard[i] = i

(* A stream the server or the client closed has carried the whole log:     *)
(* rows and run state are read in two statements, yet no replay stops      *)
(* before an event that committed between them.                            *)
ClosedHeardAll == channel = "closed" => HeardEnd /\ Len(heard) = Len(log)

(* With finitely many lost connections a client hears how the run ended,   *)
(* whether its process survived or died, or finds the run over when it     *)
(* comes back.                                                             *)
EndIsHeard == <>(HeardEnd \/ (channel = "lost" /\ RunOver))
=============================================================================
