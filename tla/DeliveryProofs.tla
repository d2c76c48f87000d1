---------------------------- MODULE DeliveryProofs ----------------------------
(***************************************************************************)
(* For every length of the log and every number of lost connections: a     *)
(* client has taken a gapless prefix of the committed log, and a stream    *)
(* that was closed has carried all of it.                                  *)
(***************************************************************************)
EXTENDS Delivery, SequenceTheorems, TLAPS

(* The log, and what is buffered for it, end with the terminal event; only *)
(* a running executor buffers.                                             *)
EndIsLast ==
    /\ \A i \in 1..Len(log) : log[i] = "end" => i = Len(log)
    /\ \A i \in 1..Len(pending) : pending[i] = "end" => i = Len(pending)
    /\ pending # <<>> => ~RunOver /\ executor = "running"

(* The live queue continues what was heard; while the executor runs, what  *)
(* it still has to hand over continues the queue up to the end of the log. *)
LiveInOrder ==
    /\ \A i \in 1..Len(queue) : queue[i] = Len(heard) + i
    /\ channel # "post" => queue = <<>>
    /\ Len(heard) + Len(queue) <= Len(log)
    /\ \A i \in 1..Len(publishing) : publishing[i] = Len(log) - Len(publishing) + i
    /\ executor # "running" => publishing = <<>>
    /\ executor = "running" /\ channel = "post" =>
          Len(heard) + Len(queue) + Len(publishing) = Len(log)

(* The replay resumes inside what was heard; once it has read that the run *)
(* is over, the log stays as it read it.                                   *)
ReplayInOrder ==
    /\ safe <= Len(heard)
    /\ poll.cursor <= Len(heard) /\ poll.rows <= Len(log)
    /\ poll.over => RunOver /\ poll.last = Len(log)

DeliverInv ==
    /\ DeliveryTypeOK /\ EndIsLast /\ HeardIsPrefix /\ LiveInOrder /\ ReplayInOrder
    /\ ClosedHeardAll


-----------------------------------------------------------------------------
(* Sequences, by length and element.                                       *)
LEMMA Appended ==
  ASSUME NEW S, NEW s \in Seq(S), NEW e \in S
  PROVE  /\ Append(s, e) \in Seq(S) /\ Len(Append(s, e)) = Len(s) + 1
         /\ \A i \in 1..Len(s) : Append(s, e)[i] = s[i]
         /\ Append(s, e)[Len(s) + 1] = e
         /\ Append(s, e) # <<>>
BY AppendProperties

LEMMA Emptied ==
  ASSUME NEW S, NEW s \in Seq(S)
  PROVE  Len(s) \in Nat /\ DOMAIN s = 1..Len(s) /\ (s = <<>> <=> Len(s) = 0)
BY EmptySeq, LenProperties

LEMMA Beheaded ==
  ASSUME NEW S, NEW s \in Seq(S), s # <<>>
  PROVE  /\ Head(s) = s[1] /\ s[1] \in S
         /\ Tail(s) \in Seq(S) /\ Len(Tail(s)) = Len(s) - 1
         /\ \A i \in 1..Len(Tail(s)) : Tail(s)[i] = s[i + 1]
BY HeadTailProperties

LEMMA Lengths ==
  ASSUME DeliveryTypeOK
  PROVE  /\ Len(log) \in Nat /\ Len(pending) \in Nat /\ Len(publishing) \in Nat
         /\ Len(queue) \in Nat /\ Len(heard) \in Nat
         /\ DOMAIN log = 1..Len(log) /\ DOMAIN pending = 1..Len(pending)
         /\ DOMAIN heard = 1..Len(heard)
         /\ log = <<>> <=> Len(log) = 0
         /\ pending = <<>> <=> Len(pending) = 0
         /\ publishing = <<>> <=> Len(publishing) = 0
         /\ queue = <<>> <=> Len(queue) = 0
BY Emptied DEF DeliveryTypeOK

LEMMA DeliverInvInit == DeliveryInit => DeliverInv
<1> SUFFICES ASSUME DeliveryInit PROVE DeliverInv
  OBVIOUS
<1>1. DeliveryTypeOK
  BY DeliveryBounds, EmptySeq DEF DeliveryInit, DeliveryTypeOK, IdlePoll
<1>2. EndIsLast /\ HeardIsPrefix /\ LiveInOrder /\ ReplayInOrder /\ ClosedHeardAll
  BY <1>1, Lengths DEF DeliveryInit, EndIsLast, HeardIsPrefix, LiveInOrder, ReplayInOrder,
     ClosedHeardAll, IdlePoll
<1> QED
  BY <1>1, <1>2 DEF DeliverInv

-----------------------------------------------------------------------------
(* The publisher.                                                          *)
LEMMA EmitKept ==
  ASSUME DeliverInv, NEW kind \in EventKinds, Emit(kind)
  PROVE  DeliverInv'
<1>1. /\ pending' = Append(pending, kind) /\ ~RunOver /\ executor = "running"
      /\ \A i \in 1..Len(pending) : pending[i] # "end"
      /\ UNCHANGED <<log, publishing, queue, executor, channel, poll, heard, safe, drops>>
  BY Lengths DEF Emit, DeliverInv
<1>2. /\ pending' \in Seq(EventKinds) /\ Len(pending') = Len(pending) + 1
      /\ \A i \in 1..Len(pending) : pending'[i] = pending[i]
      /\ Len(pending) \in Nat
  BY <1>1, Appended, Lengths DEF DeliverInv, DeliveryTypeOK
<1>3. DeliveryTypeOK'
  BY <1>1, <1>2 DEF DeliverInv, DeliveryTypeOK
<1>4. \A i \in 1..Len(pending') : pending'[i] = "end" => i = Len(pending')
  BY <1>1, <1>2
<1>5. EndIsLast'
  BY <1>1, <1>4 DEF DeliverInv, EndIsLast, RunOver
<1>6. HeardIsPrefix' /\ LiveInOrder' /\ ReplayInOrder' /\ ClosedHeardAll'
  BY <1>1 DEF DeliverInv, HeardIsPrefix, LiveInOrder, ReplayInOrder, ClosedHeardAll, RunOver,
     HeardEnd, HeardSet
<1> QED
  BY <1>3, <1>5, <1>6 DEF DeliverInv

LEMMA CommitBatchKept ==
  ASSUME DeliverInv, CommitBatch
  PROVE  DeliverInv'
<1> DEFINE L == Len(log)
           P == Len(pending)
<1>1. /\ executor = "running" /\ pending # <<>> /\ publishing = <<>> /\ ~RunOver
      /\ log' = log \o pending /\ pending' = <<>>
      /\ publishing' = [i \in 1..P |-> L + i]
      /\ UNCHANGED <<queue, executor, channel, poll, heard, safe, drops>>
      /\ DeliveryTypeOK
  BY DEF CommitBatch, DeliverInv, EndIsLast
<1>2. L \in Nat /\ P \in Nat /\ P > 0 /\ Len(heard) \in Nat /\ Len(queue) \in Nat
      /\ Len(publishing) = 0
  BY <1>1, Lengths
<1>3. /\ log' \in Seq(EventKinds) /\ Len(log') = L + P
      /\ \A i \in 1..L + P : log'[i] = IF i <= L THEN log[i] ELSE pending[i - L]
  BY <1>1, ConcatProperties DEF DeliveryTypeOK
<1>4. /\ publishing' \in Seq(Nat) /\ Len(publishing') = P
      /\ \A i \in 1..P : publishing'[i] = L + i
  BY <1>1, <1>2, SeqDef
<1>5. pending' \in Seq(EventKinds) /\ Len(pending') = 0
  BY <1>1, EmptySeq
<1>6. DeliveryTypeOK'
  BY <1>1, <1>3, <1>4, <1>5 DEF DeliveryTypeOK
<1>7. \A i \in 1..L : log[i] # "end"
  <2>1. SUFFICES ASSUME NEW i \in 1..L, log[i] = "end" PROVE FALSE
    OBVIOUS
  <2>2. i = L
    BY <2>1 DEF DeliverInv, EndIsLast
  <2>3. log # <<>>
    BY <1>1, <1>2, Lengths
  <2> QED
    BY <1>1, <2>1, <2>2, <2>3 DEF RunOver
<1>8. EndIsLast'
  <2>1. \A i \in 1..P : pending[i] = "end" => i = P
    BY DEF DeliverInv, EndIsLast
  <2>2. ASSUME NEW i \in 1..L + P, log'[i] = "end" PROVE i = L + P
    <3>1. i > L /\ pending[i - L] = "end" /\ i - L \in 1..P
      <4>1. log'[i] = IF i <= L THEN log[i] ELSE pending[i - L]
        BY <1>3
      <4>2. ~(i <= L)
        <5>1. SUFFICES ASSUME i <= L PROVE FALSE
          OBVIOUS
        <5>2. i \in 1..L /\ log[i] = "end"
          BY <1>2, <2>2, <4>1, <5>1
        <5> QED
          BY <1>7, <5>2
      <4> QED
        BY <1>2, <2>2, <4>1, <4>2
    <3> QED
      BY <1>2, <2>1, <3>1
  <2>3. \A i \in 1..Len(log') : log'[i] = "end" => i = Len(log')
    BY <1>3, <2>2
  <2> QED
    BY <1>1, <1>5, <2>3 DEF EndIsLast
<1>9. HeardIsPrefix'
  BY <1>1, <1>2, <1>3 DEF DeliverInv, HeardIsPrefix
<1>10. LiveInOrder'
  <2>1. channel = "post" => Len(heard) + Len(queue) = L
    BY <1>1, <1>2 DEF DeliverInv, LiveInOrder
  <2>2. Len(heard) + Len(queue) <= L
    BY DEF DeliverInv, LiveInOrder
  <2>3. /\ \A i \in 1..Len(queue') : queue'[i] = Len(heard') + i
        /\ channel' # "post" => queue' = <<>>
    BY <1>1 DEF DeliverInv, LiveInOrder
  <2>4. \A i \in 1..P : publishing'[i] = (L + P) - P + i
    BY <1>2, <1>4
  <2>5. Len(log') = L + P /\ Len(publishing') = P /\ Len(heard') = Len(heard)
        /\ Len(queue') = Len(queue) /\ executor' = "running" /\ channel' = channel
    BY <1>1, <1>3, <1>4
  <2>6. \A i \in 1..Len(publishing') : publishing'[i] = Len(log') - Len(publishing') + i
    BY <2>4, <2>5
  <2>7. /\ Len(heard') + Len(queue') <= Len(log')
        /\ channel' = "post" => Len(heard') + Len(queue') + Len(publishing') = Len(log')
    BY <1>2, <2>1, <2>2, <2>5
  <2> HIDE DEF L, P
  <2>8. publishing' # <<>> => executor' = "running"
    BY <2>5
  <2> QED
    BY <2>3, <2>5, <2>6, <2>7, <2>8 DEF LiveInOrder
<1>11. channel # "closed" /\ ~poll.over
  BY <1>1, <1>2, <1>7, Lengths
     DEF DeliverInv, ReplayInOrder, ClosedHeardAll, HeardEnd
<1>12. ReplayInOrder' /\ ClosedHeardAll'
  BY <1>1, <1>2, <1>3, <1>11 DEF DeliverInv, DeliveryTypeOK, ReplayInOrder, ClosedHeardAll
<1> QED
  BY <1>6, <1>8, <1>9, <1>10, <1>12 DEF DeliverInv

LEMMA PublishLiveKept ==
  ASSUME DeliverInv, PublishLive
  PROVE  DeliverInv'
<1>1. /\ executor = "running" /\ publishing # <<>> /\ DeliveryTypeOK
      /\ publishing' = Tail(publishing)
      /\ queue' = IF channel = "post" THEN Append(queue, Head(publishing)) ELSE queue
      /\ UNCHANGED <<log, pending, executor, channel, poll, heard, safe, drops>>
  BY DEF PublishLive, DeliverInv
<1>2. /\ Len(log) \in Nat /\ Len(publishing) \in Nat /\ Len(publishing) > 0
      /\ Len(heard) \in Nat /\ Len(queue) \in Nat
  BY <1>1, Lengths
<1>3. /\ Head(publishing) = publishing[1] /\ publishing[1] \in Nat
      /\ publishing' \in Seq(Nat) /\ Len(publishing') = Len(publishing) - 1
      /\ \A i \in 1..Len(publishing') : publishing'[i] = publishing[i + 1]
  BY <1>1, Beheaded DEF DeliveryTypeOK
<1>4. CASE channel = "post"
  <2>1. /\ queue' \in Seq(Nat) /\ Len(queue') = Len(queue) + 1
        /\ \A i \in 1..Len(queue) : queue'[i] = queue[i]
        /\ queue'[Len(queue) + 1] = publishing[1]
    BY <1>1, <1>3, <1>4, Appended DEF DeliveryTypeOK
  <2>2. publishing[1] = Len(heard) + Len(queue) + 1
    BY <1>1, <1>2, <1>4 DEF DeliverInv, LiveInOrder
  <2>3. \A i \in 1..Len(queue') : queue'[i] = Len(heard) + i
    <3>1. \A i \in 1..Len(queue) : queue[i] = Len(heard) + i
      BY DEF DeliverInv, LiveInOrder
    <3>2. TAKE i \in 1..Len(queue')
    <3>3. CASE i = Len(queue) + 1
      BY <1>2, <2>1, <2>2, <3>3
    <3>4. CASE i # Len(queue) + 1
      <4>1. i \in 1..Len(queue)
        BY <1>2, <2>1, <3>4
      <4> QED
        BY <2>1, <3>1, <4>1
    <3> QED
      BY <3>3, <3>4
  <2>4. DeliveryTypeOK'
    BY <1>1, <1>3, <2>1 DEF DeliveryTypeOK
  <2>5. LiveInOrder'
    <3>1. /\ \A i \in 1..Len(publishing) : publishing[i] = Len(log) - Len(publishing) + i
          /\ Len(heard) + Len(queue) + Len(publishing) = Len(log)
      BY <1>1, <1>4 DEF DeliverInv, LiveInOrder
    <3>2. \A i \in 1..Len(publishing') : publishing'[i] = Len(log) - Len(publishing') + i
      <4>1. TAKE i \in 1..Len(publishing')
      <4>2. i \in Nat /\ i + 1 \in 1..Len(publishing) /\ publishing'[i] = publishing[i + 1]
        BY <1>2, <1>3
      <4>3. publishing[i + 1] = Len(log) - Len(publishing) + (i + 1)
        BY <3>1, <4>2
      <4> QED
        BY <1>2, <1>3, <4>2, <4>3
    <3>3. Len(heard) + Len(queue') + Len(publishing') = Len(log)
          /\ Len(heard) + Len(queue') <= Len(log)
      <4>1. Len(publishing') = Len(publishing) - 1 /\ Len(queue') = Len(queue) + 1
        BY <1>3, <2>1
      <4>2. Len(heard) + Len(queue) + Len(publishing) = Len(log)
        BY <3>1
      <4> QED
        BY <1>2, <4>1, <4>2
    <3>4. /\ heard' = heard /\ log' = log /\ executor' = "running" /\ channel' = "post"
      BY <1>1, <1>4
    <3> QED
      BY <2>3, <3>2, <3>3, <3>4 DEF LiveInOrder
  <2> QED
    BY <1>1, <2>4, <2>5 DEF DeliverInv, EndIsLast, HeardIsPrefix, ReplayInOrder, ClosedHeardAll,
       RunOver, HeardEnd, HeardSet
<1>5. CASE channel # "post"
  <2>1. DeliveryTypeOK'
    BY <1>1, <1>3, <1>5 DEF DeliveryTypeOK
  <2>2. LiveInOrder'
    BY <1>1, <1>2, <1>3, <1>5 DEF DeliverInv, LiveInOrder
  <2> QED
    BY <1>1, <1>5, <2>1, <2>2 DEF DeliverInv, EndIsLast, HeardIsPrefix, ReplayInOrder,
       ClosedHeardAll, RunOver, HeardEnd, HeardSet
<1> QED
  BY <1>4, <1>5

-----------------------------------------------------------------------------
(* Steps that write neither the log nor what the client has heard.         *)
LEMMA StopKept ==
  ASSUME DeliverInv, Stop
  PROVE  DeliverInv'
<1>1. /\ executor' = "stopped" /\ publishing = <<>>
      /\ UNCHANGED <<log, pending, publishing, queue, channel, poll, heard, safe, drops>>
  BY DEF Stop
<1>2. pending = <<>>
  BY DEF Stop, DeliverInv, EndIsLast
<1> QED
  BY <1>1, <1>2 DEF DeliverInv, DeliveryTypeOK, EndIsLast, HeardIsPrefix, LiveInOrder,
     ReplayInOrder, ClosedHeardAll, RunOver, HeardEnd, HeardSet

\* A connection that is lost takes the queue and the replay's place with it.
LEMMA Disconnected ==
  ASSUME DeliverInv, channel' \in {"retry", "lost"} \/ (channel' = channel /\ channel # "post"),
         queue' = <<>>, poll' = IdlePoll,
         UNCHANGED <<log, heard, safe>>,
         \/ UNCHANGED <<executor, pending, publishing>>
         \/ executor' = "dead" /\ pending' = <<>> /\ publishing' = <<>>,
         drops' \in 0..MaxDrops
  PROVE  DeliverInv'
<1>1. /\ DeliveryTypeOK /\ Len(log) \in Nat /\ Len(heard) \in Nat
      /\ Len(queue') = 0 /\ queue' \in Seq(Nat) /\ Len(<<>>) = 0
      /\ <<>> \in Seq(EventKinds) /\ <<>> \in Seq(Nat)
  BY Lengths, EmptySeq DEF DeliverInv
<1>2. poll' \in [phase : {"idle", "rows", "state", "send"}, cursor : Nat, rows : Nat,
                 over : BOOLEAN, last : Nat]
      /\ poll'.cursor = 0 /\ poll'.rows = 0 /\ poll'.over = FALSE
  BY DEF IdlePoll
<1>3. DeliveryTypeOK'
  BY <1>1, <1>2 DEF DeliveryTypeOK
<1>4. EndIsLast'
  <2>1. CASE UNCHANGED <<executor, pending>>
    BY <2>1 DEF DeliverInv, EndIsLast, RunOver
  <2>2. CASE executor' = "dead" /\ pending' = <<>>
    BY <1>1, <2>2 DEF DeliverInv, EndIsLast
  <2> QED
    BY <2>1, <2>2
<1>5. HeardIsPrefix' /\ ReplayInOrder'
  BY <1>1, <1>2 DEF DeliverInv, HeardIsPrefix, ReplayInOrder
<1>6. LiveInOrder'
  <2>1. channel' # "post" /\ Len(heard') + Len(queue') <= Len(log')
    BY <1>1 DEF DeliverInv, HeardIsPrefix
  <2>2. CASE UNCHANGED <<executor, publishing>>
    BY <1>1, <2>1, <2>2 DEF DeliverInv, LiveInOrder
  <2>3. CASE executor' = "dead" /\ publishing' = <<>>
    BY <1>1, <2>1, <2>3 DEF LiveInOrder
  <2> QED
    BY <2>2, <2>3
<1>7. ClosedHeardAll'
  BY DEF DeliverInv, ClosedHeardAll, HeardEnd, HeardSet
<1> QED
  BY <1>3, <1>4, <1>5, <1>6, <1>7 DEF DeliverInv

LEMMA DieKept ==
  ASSUME DeliverInv, Die
  PROVE  DeliverInv'
BY Disconnected DEF Die, Hangup, DeliverInv, DeliveryTypeOK

LEMMA DropKept ==
  ASSUME DeliverInv, Drop
  PROVE  DeliverInv'
<1>1. drops' \in 0..MaxDrops
  BY DeliveryBounds DEF Drop, DeliverInv, DeliveryTypeOK
<1> QED
  BY <1>1, Disconnected DEF Drop, Hangup, Connected

LEMMA RaiseKept ==
  ASSUME DeliverInv, Raise
  PROVE  DeliverInv'
<1>1. /\ executor' = "dead" /\ publishing = <<>> /\ pending' = <<>>
      /\ UNCHANGED <<log, publishing, queue, channel, poll, heard, safe, drops>>
      /\ DeliveryTypeOK
  BY DEF Raise, DeliverInv
<1>2. <<>> \in Seq(EventKinds) /\ Len(<<>>) = 0
  BY EmptySeq
<1>3. DeliveryTypeOK'
  BY <1>1, <1>2 DEF DeliveryTypeOK
<1>4. EndIsLast'
  BY <1>1, <1>2 DEF DeliverInv, EndIsLast
<1> QED
  BY <1>1, <1>3, <1>4 DEF DeliverInv, HeardIsPrefix, LiveInOrder, ReplayInOrder, ClosedHeardAll,
     RunOver, HeardEnd, HeardSet

LEMMA CondemnedKept ==
  ASSUME DeliverInv, Condemned
  PROVE  DeliverInv'
<1> DEFINE L == Len(log)
<1>1. /\ executor = "dead" /\ ~RunOver /\ log' = Append(log, "end") /\ DeliveryTypeOK
      /\ UNCHANGED <<pending, publishing, queue, executor, channel, poll, heard, safe, drops>>
  BY DEF Condemned, DeliverInv
<1>2. L \in Nat /\ Len(heard) \in Nat /\ Len(queue) \in Nat
  BY <1>1, Lengths
<1>3. /\ log' \in Seq(EventKinds) /\ Len(log') = L + 1
      /\ \A i \in 1..L : log'[i] = log[i]
      /\ log'[L + 1] = "end"
  BY <1>1, Appended DEF DeliveryTypeOK, EventKinds
<1>4. DeliveryTypeOK'
  BY <1>1, <1>3 DEF DeliveryTypeOK
<1>5. ASSUME NEW i \in 1..L, log[i] = "end" PROVE FALSE
  <2>1. i = L
    BY <1>5 DEF DeliverInv, EndIsLast
  <2>2. log # <<>>
    BY <1>1, <1>2, <1>5, Lengths
  <2> QED
    BY <1>1, <1>5, <2>1, <2>2 DEF RunOver
<1>6. EndIsLast'
  <2>1. pending = <<>> => pending' = <<>>
    BY <1>1
  <2>2. \A i \in 1..Len(log') : log'[i] = "end" => i = Len(log')
    BY <1>2, <1>3, <1>5
  <2>3. pending = <<>>
    BY <1>1 DEF DeliverInv, EndIsLast
  <2> QED
    BY <1>1, <2>1, <2>2, <2>3 DEF DeliverInv, EndIsLast
<1>7. HeardIsPrefix'
  BY <1>1, <1>2, <1>3 DEF DeliverInv, HeardIsPrefix
<1>8. LiveInOrder'
  BY <1>1, <1>2, <1>3 DEF DeliverInv, LiveInOrder, EndIsLast
<1>9. channel # "closed" /\ ~poll.over
  BY <1>1, <1>2, <1>5, Lengths
     DEF DeliverInv, ReplayInOrder, ClosedHeardAll, HeardEnd
<1>10. ReplayInOrder' /\ ClosedHeardAll'
  BY <1>1, <1>2, <1>3, <1>9 DEF DeliverInv, DeliveryTypeOK, ReplayInOrder, ClosedHeardAll
<1> QED
  BY <1>4, <1>6, <1>7, <1>8, <1>10 DEF DeliverInv

LEMMA DrainedKept ==
  ASSUME DeliverInv, Drained
  PROVE  DeliverInv'
<1>1. /\ channel' = "lost" /\ queue = <<>>
      /\ UNCHANGED <<log, pending, publishing, queue, executor, poll, heard, safe, drops>>
  BY DEF Drained
<1> QED
  BY <1>1 DEF DeliverInv, DeliveryTypeOK, EndIsLast, HeardIsPrefix, LiveInOrder, ReplayInOrder,
     ClosedHeardAll, RunOver

LEMMA ReloadKept ==
  ASSUME DeliverInv, Reload
  PROVE  DeliverInv'
<1>1. /\ channel' = "lost" /\ queue' = <<>> /\ poll' = IdlePoll /\ heard' = <<>> /\ safe' = 0
      /\ UNCHANGED <<log, pending, publishing, executor>> /\ DeliveryTypeOK
  BY DEF Reload, DeliverInv
<1>2. drops' \in 0..MaxDrops
  BY DeliveryBounds DEF Reload, DeliverInv, DeliveryTypeOK
<1>3. /\ Len(log) \in Nat /\ <<>> \in Seq(Nat)
      /\ Len(queue') = 0 /\ Len(heard') = 0 /\ DOMAIN heard' = 1..0
  BY <1>1, Lengths, EmptySeq, Emptied
<1>4. poll' \in [phase : {"idle", "rows", "state", "send"}, cursor : Nat, rows : Nat,
                 over : BOOLEAN, last : Nat]
      /\ poll'.cursor = 0 /\ poll'.rows = 0 /\ poll'.over = FALSE
  BY <1>1 DEF IdlePoll
<1>5. DeliveryTypeOK'
  BY <1>1, <1>2, <1>3, <1>4 DEF DeliveryTypeOK
<1>6. EndIsLast'
  BY <1>1 DEF DeliverInv, EndIsLast, RunOver
<1>7. HeardIsPrefix' /\ ReplayInOrder' /\ ClosedHeardAll'
  BY <1>1, <1>3, <1>4 DEF HeardIsPrefix, ReplayInOrder, ClosedHeardAll
<1>8. LiveInOrder'
  BY <1>1, <1>3 DEF DeliverInv, LiveInOrder
<1> QED
  BY <1>5, <1>6, <1>7, <1>8 DEF DeliverInv

-----------------------------------------------------------------------------
(* The listener.                                                           *)
\* Only the replay's own place changes.
LEMMA PollKept ==
  ASSUME DeliverInv, UNCHANGED <<log, pending, publishing, queue, executor, heard, safe, drops>>,
         poll' \in [phase : {"idle", "rows", "state", "send"}, cursor : Nat, rows : Nat,
                    over : BOOLEAN, last : Nat],
         poll'.cursor <= Len(heard), poll'.rows <= Len(log),
         poll'.over => RunOver /\ poll'.last = Len(log),
         \/ channel' = channel
         \/ channel # "post" /\ channel' = "get"
         \/ channel # "post" /\ channel' = "closed" /\ HeardEnd /\ Len(heard) = Len(log)
  PROVE  DeliverInv'
<1>1. DeliveryTypeOK'
  BY DEF DeliverInv, DeliveryTypeOK
<1>2. EndIsLast' /\ HeardIsPrefix' /\ ReplayInOrder'
  BY DEF DeliverInv, EndIsLast, HeardIsPrefix, ReplayInOrder, RunOver
<1>3. LiveInOrder'
  BY DEF DeliverInv, LiveInOrder
<1>4. ClosedHeardAll'
  BY DEF DeliverInv, ClosedHeardAll, HeardEnd, HeardSet
<1> QED
  BY <1>1, <1>2, <1>3, <1>4 DEF DeliverInv

LEMMA ReplayKept ==
  ASSUME DeliverInv, Resubscribe \/ ReadRows \/ ReadState \/ PollAgain
  PROVE  DeliverInv'
<1>1. DeliveryTypeOK /\ Len(log) \in Nat /\ Len(heard) \in Nat
  BY Lengths DEF DeliverInv
<1>2. CASE Resubscribe
  <2>1. poll' = [phase |-> "rows", cursor |-> safe, rows |-> 0, over |-> FALSE, last |-> 0]
    BY <1>2 DEF Resubscribe, IdlePoll
  <2>2. /\ poll' \in [phase : {"idle", "rows", "state", "send"}, cursor : Nat, rows : Nat,
                      over : BOOLEAN, last : Nat]
        /\ poll'.cursor = safe /\ poll'.rows = 0 /\ poll'.over = FALSE
    BY <1>1, <2>1 DEF DeliveryTypeOK
  <2> QED
    BY <1>1, <1>2, <2>2, PollKept DEF Resubscribe, DeliverInv, ReplayInOrder
<1>3. CASE ReadRows
  <2>1. poll' \in [phase : {"idle", "rows", "state", "send"}, cursor : Nat, rows : Nat,
                   over : BOOLEAN, last : Nat]
        /\ poll'.cursor = poll.cursor /\ poll'.rows = Len(log)
        /\ poll'.over = poll.over /\ poll'.last = poll.last
    BY <1>1, <1>3 DEF ReadRows, DeliveryTypeOK
  <2> QED
    BY <1>1, <1>3, <2>1, PollKept DEF ReadRows, DeliverInv, ReplayInOrder
<1>4. CASE ReadState
  <2>1. /\ poll' = [poll EXCEPT !.phase = "send", !.over = RunOver, !.last = Len(log)]
        /\ RunOver \in BOOLEAN
    BY <1>4 DEF ReadState, RunOver
  <2>2. poll' \in [phase : {"idle", "rows", "state", "send"}, cursor : Nat, rows : Nat,
                   over : BOOLEAN, last : Nat]
    BY <1>1, <2>1 DEF DeliveryTypeOK
  <2>3. /\ poll'.cursor = poll.cursor /\ poll'.rows = poll.rows
        /\ poll'.over = RunOver /\ poll'.last = Len(log)
    BY <1>1, <2>1 DEF DeliveryTypeOK
  <2> QED
    BY <1>4, <2>2, <2>3, PollKept DEF ReadState, DeliverInv, ReplayInOrder
<1>5. CASE PollAgain
  <2>1. poll' \in [phase : {"idle", "rows", "state", "send"}, cursor : Nat, rows : Nat,
                   over : BOOLEAN, last : Nat]
        /\ poll'.cursor = poll.cursor /\ poll'.rows = poll.rows
        /\ poll'.over = poll.over /\ poll'.last = poll.last
    BY <1>1, <1>5 DEF PollAgain, DeliveryTypeOK
  <2> QED
    BY <1>5, <2>1, PollKept DEF PollAgain, DeliverInv, ReplayInOrder
<1> QED
  BY <1>2, <1>3, <1>4, <1>5

\* Taking the next event, or one taken before.
LEMMA Hearing ==
  ASSUME DeliveryTypeOK, HeardIsPrefix, safe <= Len(heard),
         NEW n \in 1..Len(log), n <= Len(heard) + 1, Hear(n)
  PROVE  /\ heard' \in Seq(Nat) /\ safe' \in Nat /\ safe' <= Len(heard')
         /\ Len(heard') = IF n = Len(heard) + 1 THEN n ELSE Len(heard)
         /\ \A i \in DOMAIN heard' : heard'[i] = i
<1>1. /\ Len(heard) \in Nat /\ Len(log) \in Nat /\ n \in Nat /\ safe \in Nat
      /\ heard \in Seq(Nat) /\ DOMAIN heard = 1..Len(heard)
  BY Lengths DEF DeliveryTypeOK
<1>2. HeardSet = 1..Len(heard)
  BY <1>1 DEF HeardSet, HeardIsPrefix
<1>3. CASE n = Len(heard) + 1
  <2>1. n \notin HeardSet
    BY <1>1, <1>2, <1>3
  <2>2. heard' = Append(heard, n) /\ safe' \in {n, safe}
    BY <2>1 DEF Hear
  <2>3. /\ heard' \in Seq(Nat) /\ Len(heard') = Len(heard) + 1
        /\ \A i \in 1..Len(heard) : heard'[i] = heard[i]
        /\ heard'[Len(heard) + 1] = n
    BY <1>1, <2>2, Appended
  <2>4. DOMAIN heard' = 1..Len(heard) + 1
    BY <2>3, LenProperties
  <2>5. \A i \in 1..Len(heard) + 1 : heard'[i] = i
    BY <1>1, <1>3, <2>3 DEF HeardIsPrefix
  <2> QED
    BY <1>1, <1>3, <2>2, <2>3, <2>4, <2>5
<1>4. CASE n # Len(heard) + 1
  <2>1. n \in HeardSet
    BY <1>1, <1>2, <1>4
  <2>2. heard' = heard /\ safe' = safe
    BY <2>1 DEF Hear
  <2> QED
    BY <1>1, <1>4, <2>2 DEF HeardIsPrefix
<1> QED
  BY <1>3, <1>4

LEMMA TakeLiveKept ==
  ASSUME DeliverInv, TakeLive
  PROVE  DeliverInv'
<1> DEFINE H == Len(heard)
<1>1. /\ channel = "post" /\ queue # <<>> /\ DeliveryTypeOK /\ queue' = Tail(queue)
      /\ Hear(Head(queue))
      /\ channel' = IF log[Head(queue)] = "end" THEN "closed" ELSE "post"
      /\ UNCHANGED <<log, pending, publishing, executor, poll, drops>>
  BY DEF TakeLive, DeliverInv
<1>2. H \in Nat /\ Len(log) \in Nat /\ Len(queue) \in Nat /\ Len(queue) > 0
  BY <1>1, Lengths
<1>3. /\ Head(queue) = queue[1] /\ queue' \in Seq(Nat) /\ Len(queue') = Len(queue) - 1
      /\ \A i \in 1..Len(queue') : queue'[i] = queue[i + 1]
  BY <1>1, Beheaded DEF DeliveryTypeOK
<1>4. Head(queue) = H + 1 /\ H + Len(queue) <= Len(log)
  BY <1>2, <1>3 DEF DeliverInv, LiveInOrder
<1>5. /\ heard' \in Seq(Nat) /\ safe' \in Nat /\ safe' <= Len(heard') /\ Len(heard') = H + 1
      /\ \A i \in DOMAIN heard' : heard'[i] = i
  <2>1. H + 1 \in 1..Len(log)
    BY <1>2, <1>4
  <2> QED
    BY <1>1, <1>2, <1>4, <2>1, Hearing DEF DeliverInv, ReplayInOrder
<1>6. DeliveryTypeOK'
  BY <1>1, <1>3, <1>5 DEF DeliveryTypeOK
<1>7. EndIsLast'
  BY <1>1 DEF DeliverInv, EndIsLast, RunOver
<1>8. HeardIsPrefix'
  BY <1>1, <1>2, <1>4, <1>5 DEF HeardIsPrefix
<1>9. log[H + 1] = "end" => H + 1 = Len(log)
  BY <1>2, <1>4 DEF DeliverInv, EndIsLast
<1>10. LiveInOrder'
  <2>1. \A i \in 1..Len(queue') : queue'[i] = (H + 1) + i
    <3>1. \A i \in 1..Len(queue) : queue[i] = H + i
      BY DEF DeliverInv, LiveInOrder
    <3> QED
      BY <1>2, <1>3, <3>1
  <2>2. channel' # "post" => queue' = <<>>
    <3>1. channel' # "post" => Len(queue') = 0
      BY <1>1, <1>2, <1>3, <1>4, <1>9
    <3> QED
      BY <1>3, <3>1, Emptied
  <2>3. executor = "running" => H + Len(queue) + Len(publishing) = Len(log)
    BY <1>1 DEF DeliverInv, LiveInOrder
  <2>4. Len(publishing) \in Nat
    BY <1>1, Lengths
  <2> QED
    BY <1>1, <1>2, <1>3, <1>4, <1>5, <2>1, <2>2, <2>3, <2>4 DEF DeliverInv, LiveInOrder
<1>11. ReplayInOrder'
  BY <1>1, <1>2, <1>5 DEF DeliverInv, DeliveryTypeOK, ReplayInOrder, RunOver
<1>12. ClosedHeardAll'
  <2>1. SUFFICES ASSUME channel' = "closed" PROVE HeardEnd' /\ Len(heard') = Len(log')
    BY DEF ClosedHeardAll
  <2>2. log[H + 1] = "end" /\ H + 1 = Len(log)
    BY <1>1, <1>4, <1>9, <2>1
  <2>3. H + 1 \in DOMAIN heard' /\ H + 1 \in DOMAIN log
    BY <1>1, <1>2, <1>5, <2>2, Lengths, LenProperties
  <2>4. H + 1 \in HeardSet'
    BY <1>5, <2>3 DEF HeardSet
  <2> QED
    BY <1>1, <1>5, <2>2, <2>3, <2>4 DEF HeardEnd
<1> QED
  BY <1>6, <1>7, <1>8, <1>10, <1>11, <1>12 DEF DeliverInv

LEMMA SendRowKept ==
  ASSUME DeliverInv, SendRow
  PROVE  DeliverInv'
<1> DEFINE H == Len(heard)
           n == poll.cursor + 1
<1>1. /\ channel = "get" /\ DeliveryTypeOK /\ Hear(n)
      /\ poll' = [poll EXCEPT !.cursor = @ + 1] /\ poll.cursor < poll.rows
      /\ UNCHANGED <<log, pending, publishing, queue, executor, channel, drops>>
  BY DEF SendRow, DeliverInv
<1>2. /\ H \in Nat /\ Len(log) \in Nat /\ Len(queue) = 0
      /\ poll.cursor \in Nat /\ poll.rows \in Nat
  BY <1>1, Lengths DEF DeliverInv, DeliveryTypeOK, LiveInOrder
<1>3. n \in 1..Len(log) /\ n <= H + 1
  BY <1>1, <1>2 DEF DeliverInv, ReplayInOrder
<1>4. /\ heard' \in Seq(Nat) /\ safe' \in Nat /\ safe' <= Len(heard')
      /\ Len(heard') = IF n = H + 1 THEN n ELSE H
      /\ \A i \in DOMAIN heard' : heard'[i] = i
  BY <1>1, <1>3, Hearing DEF DeliverInv, ReplayInOrder
<1>5. H <= Len(heard') /\ n <= Len(heard') /\ Len(heard') <= Len(log)
  BY <1>2, <1>3, <1>4 DEF DeliverInv, HeardIsPrefix
<1>6. /\ poll' \in [phase : {"idle", "rows", "state", "send"}, cursor : Nat, rows : Nat,
                    over : BOOLEAN, last : Nat]
      /\ poll'.cursor = n /\ poll'.rows = poll.rows
      /\ poll'.over = poll.over /\ poll'.last = poll.last
  <2>1. n \in Nat
    BY <1>2
  <2>2. poll' = [poll EXCEPT !.cursor = n]
    BY <1>1
  <2> QED
    BY <1>1, <2>1, <2>2 DEF DeliveryTypeOK
<1>7. DeliveryTypeOK'
  BY <1>1, <1>4, <1>6 DEF DeliveryTypeOK
<1>8. EndIsLast'
  BY <1>1 DEF DeliverInv, EndIsLast, RunOver
<1>9. HeardIsPrefix' /\ ReplayInOrder'
  BY <1>1, <1>4, <1>5, <1>6 DEF DeliverInv, HeardIsPrefix, ReplayInOrder, RunOver
<1>10. LiveInOrder'
  BY <1>1, <1>2, <1>4, <1>5 DEF DeliverInv, LiveInOrder
<1>11. ClosedHeardAll'
  BY <1>1 DEF ClosedHeardAll
<1> QED
  BY <1>7, <1>8, <1>9, <1>10, <1>11 DEF DeliverInv

LEMMA ServedKept ==
  ASSUME DeliverInv, Served
  PROVE  DeliverInv'
<1>1. /\ channel = "get" /\ channel' = "closed" /\ poll' = IdlePoll /\ DeliveryTypeOK
      /\ poll.over /\ poll.cursor >= poll.last
      /\ UNCHANGED <<log, pending, publishing, queue, executor, heard, safe, drops>>
  BY DEF Served, AtEnd, DeliverInv
<1>2. Len(heard) \in Nat /\ Len(log) \in Nat /\ poll.cursor \in Nat
  BY <1>1, Lengths DEF DeliveryTypeOK
<1>3. RunOver /\ Len(heard) = Len(log)
  <2>1. RunOver /\ poll.last = Len(log) /\ poll.cursor <= Len(heard)
    BY <1>1 DEF DeliverInv, ReplayInOrder
  <2>2. Len(heard) <= Len(log)
    BY DEF DeliverInv, HeardIsPrefix
  <2>3. poll.cursor >= Len(log)
    BY <1>1, <2>1
  <2>4. Len(heard) = Len(log)
    BY <1>2, <2>1, <2>2, <2>3
  <2> QED
    BY <2>1, <2>4
<1>4. HeardEnd
  <2>1. log[Len(log)] = "end" /\ Len(log) \in DOMAIN heard /\ Len(log) \in DOMAIN log
    BY <1>1, <1>3, Lengths DEF RunOver
  <2>2. Len(log) \in HeardSet
    BY <2>1 DEF DeliverInv, HeardIsPrefix, HeardSet
  <2> QED
    BY <2>1, <2>2 DEF HeardEnd
<1>5. poll' \in [phase : {"idle", "rows", "state", "send"}, cursor : Nat, rows : Nat,
                 over : BOOLEAN, last : Nat]
      /\ poll'.cursor = 0 /\ poll'.rows = 0 /\ poll'.over = FALSE
  BY <1>1 DEF IdlePoll
<1> QED
  BY <1>1, <1>2, <1>3, <1>4, <1>5, PollKept

LEMMA DeliverInvNext == DeliverInv /\ [DeliveryNext]_deliveryVars => DeliverInv'
<1> SUFFICES ASSUME DeliverInv, [DeliveryNext]_deliveryVars PROVE DeliverInv'
  OBVIOUS
<1>1. CASE Publisher
  BY <1>1, EmitKept, CommitBatchKept, PublishLiveKept, StopKept, CondemnedKept DEF Publisher
<1>2. CASE Listener
  BY <1>2, TakeLiveKept, DrainedKept, ReplayKept, SendRowKept, ServedKept DEF Listener
<1>3. CASE Die \/ Raise \/ Drop \/ Reload
  BY <1>3, DieKept, RaiseKept, DropKept, ReloadKept
<1>4. CASE UNCHANGED deliveryVars
  BY <1>4 DEF deliveryVars, DeliverInv, DeliveryTypeOK, EndIsLast, HeardIsPrefix, LiveInOrder,
     ReplayInOrder, ClosedHeardAll, RunOver, HeardEnd, HeardSet
<1> QED
  BY <1>1, <1>2, <1>3, <1>4 DEF DeliveryNext

(* Every reachable state of log, queue, replay and client satisfies the    *)
(* invariant.                                                              *)
THEOREM DeliveryInvariant == DeliverySpec => []DeliverInv
BY DeliverInvInit, DeliverInvNext, PTL DEF DeliverySpec

(* Live stream, replays, drops and reloads together give the client a      *)
(* gapless prefix of the committed log, each event once and in order.      *)
THEOREM DeliveredInOrder == DeliverySpec => []HeardIsPrefix
<1>1. DeliverInv => HeardIsPrefix
  BY DEF DeliverInv
<1> QED
  BY <1>1, DeliveryInvariant, PTL

(* A stream closed by the server or by the client has carried the whole    *)
(* log, although rows and run state are read in two statements.            *)
THEOREM ClosedIsComplete == DeliverySpec => []ClosedHeardAll
<1>1. DeliverInv => ClosedHeardAll
  BY DEF DeliverInv
<1> QED
  BY <1>1, DeliveryInvariant, PTL
=============================================================================
