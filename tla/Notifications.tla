---------------------------- MODULE Notifications ----------------------------
(***************************************************************************)
(* From a lending command to the message it sends: idempotent commands     *)
(* (begin_command, finish_command), the notification queued in the same    *)
(* transaction (queue_notification), and the task that claims and sends it *)
(* (services/lending_notifications.py).                                    *)
(*                                                                         *)
(* A reminder holds its record's lock from before it reads its receipt; a  *)
(* loan's creation has no record to lock yet, and two attempts at it meet  *)
(* at the unique key of the receipt.                                       *)
(***************************************************************************)
EXTENDS Naturals, Sequences, FiniteSets

CONSTANTS Callers,
          Asks,                        \* what clients ask: [id, body], an id being a
                                       \* command and its idempotency key
          MaxNotices, MaxWindows,      \* bounds of the instance
          MaxDeliveries,               \* lending_notification_max_attempts
          MaxLosses                    \* crashes and unconfirmed sends

Commands == {"create", "reminder"}

ASSUME NotificationBounds ==
    /\ \A ask \in Asks : ask.id[1] \in Commands
    /\ MaxNotices \in Nat /\ MaxWindows \in Nat /\ MaxLosses \in Nat
    /\ MaxDeliveries \in Nat \ {0}

VARIABLES
    calls,     \* per caller: the command in hand
    told,      \* answers given to clients
    receipts,  \* per command and key: its body and its notice, 0 when none
    notices,   \* the outbox rows, in the order they were queued
    window,    \* twelve-hour periods gone by
    courier,   \* the delivery task: "idle", "holding", "sent", "error", "dead"
    losses

noticeVars == <<calls, told, receipts, notices, window, courier, losses>>

CommandIds  == {ask.id : ask \in Asks}
IdleCall    == [pc |-> "idle", id |-> <<>>, body |-> <<>>]
NoReceipt   == [body |-> <<>>, notice |-> 0]
IdleCourier == [pc |-> "idle", at |-> 0]

NoticeInit ==
    /\ calls = [c \in Callers |-> IdleCall]
    /\ told = {}
    /\ receipts = [id \in CommandIds |-> NoReceipt]
    /\ notices = <<>>
    /\ window = 0
    /\ courier = IdleCourier
    /\ losses = 0

(***************************************************************************)
(* Commands.  A client that lost its answer tries again with its key; a    *)
(* key used for something else, or a reminder too soon, changes nothing.   *)
(***************************************************************************)
RecentReminder ==
    \E n \in DOMAIN notices : notices[n].id[1] = "reminder" /\ notices[n].window = window

\* Mutant: reminders do not lock their record.
RecordLocked_Never == FALSE

RecordLocked == \E c \in Callers : calls[c].pc = "loaded" /\ calls[c].id[1] = "reminder"

Answer(id, body, n) == told' = told \cup {[id |-> id, body |-> body, notice |-> n]}

Begin(c, id, body) ==
    /\ calls[c].pc = "idle"
    /\ id[1] = "reminder" => ~RecordLocked
    /\ UNCHANGED <<receipts, notices, window, courier, losses>>
    /\ \/ /\ receipts[id].notice # 0 /\ receipts[id].body = body
          /\ Answer(id, body, receipts[id].notice)
          /\ UNCHANGED calls
       \/ /\ receipts[id].notice = 0
          /\ id[1] = "reminder" => ~RecentReminder
          /\ calls' = [calls EXCEPT ![c] = [pc |-> "loaded", id |-> id, body |-> body]]
          /\ UNCHANGED told

\* Mutant: a key may have two receipts.
FinishCommand_NotUnique(c) ==
    /\ calls[c].pc = "loaded"
    /\ Len(notices) < MaxNotices
    /\ LET n == Len(notices) + 1 IN
       /\ notices' = Append(notices, [id |-> calls[c].id, window |-> window, state |-> "pending",
                                      due |-> TRUE, attempts |-> 0, confirmed |-> 0])
       /\ receipts' = [receipts EXCEPT ![calls[c].id] = [body |-> calls[c].body, notice |-> n]]
       /\ Answer(calls[c].id, calls[c].body, n)
    /\ calls' = [calls EXCEPT ![c] = IdleCall]
    /\ UNCHANGED <<window, courier, losses>>

(* The effect, its notice and its receipt are one transaction. *)
FinishCommand(c) ==
    /\ calls[c].pc = "loaded"
    /\ receipts[calls[c].id].notice = 0
    /\ Len(notices) < MaxNotices
    /\ LET n == Len(notices) + 1 IN
       /\ notices' = Append(notices, [id |-> calls[c].id, window |-> window, state |-> "pending",
                                      due |-> TRUE, attempts |-> 0, confirmed |-> 0])
       /\ receipts' = [receipts EXCEPT ![calls[c].id] = [body |-> calls[c].body, notice |-> n]]
       /\ Answer(calls[c].id, calls[c].body, n)
    /\ calls' = [calls EXCEPT ![c] = IdleCall]
    /\ UNCHANGED <<window, courier, losses>>

(* A failure rolls the command back; so does the unique key of a receipt   *)
(* that another attempt committed first.                                   *)
RollBack(c) ==
    /\ calls[c].pc = "loaded"
    /\ calls' = [calls EXCEPT ![c] = IdleCall]
    /\ UNCHANGED <<told, receipts, notices, window, courier, losses>>

TwelveHours ==
    /\ window < MaxWindows
    /\ window' = window + 1
    /\ UNCHANGED <<calls, told, receipts, notices, courier, losses>>

(***************************************************************************)
(* Delivery.  One task claims a row, sends it, and marks it.               *)
(***************************************************************************)
ClaimNotice(n) ==
    /\ courier.pc = "idle"
    /\ notices[n].state \in {"pending", "processing"} /\ notices[n].due
    /\ notices' = [notices EXCEPT ![n].state = "processing", ![n].due = FALSE,
                                  ![n].attempts = @ + 1]
    /\ courier' = [pc |-> "holding", at |-> n]
    /\ UNCHANGED <<calls, told, receipts, window, losses>>

Held == notices[courier.at]

Send ==
    /\ courier.pc = "holding" /\ Held.state # "deleted"
    /\ notices' = [notices EXCEPT ![courier.at].confirmed = @ + 1]
    /\ courier' = [courier EXCEPT !.pc = "sent"]
    /\ UNCHANGED <<calls, told, receipts, window, losses>>

(* The provider refuses, or its answer is lost after it sent the message: *)
(* a send nobody confirmed counts like none.                              *)
SendFails ==
    /\ courier.pc = "holding" /\ Held.state # "deleted"
    /\ courier' = [courier EXCEPT !.pc = "error"]
    /\ UNCHANGED <<calls, told, receipts, notices, window, losses>>

Vanished ==
    /\ courier.pc # "idle" /\ courier.pc # "dead" /\ Held.state = "deleted"
    /\ courier' = IdleCourier
    /\ UNCHANGED <<calls, told, receipts, notices, window, losses>>

\* Mutant: a sent row keeps its claim.
MarkSent_Claimed ==
    /\ courier.pc = "sent" /\ Held.state # "deleted"
    /\ courier' = IdleCourier
    /\ UNCHANGED <<calls, told, receipts, notices, window, losses>>

MarkSent ==
    /\ courier.pc = "sent" /\ Held.state # "deleted"
    /\ notices' = [notices EXCEPT ![courier.at].state = "sent"]
    /\ courier' = IdleCourier
    /\ UNCHANGED <<calls, told, receipts, window, losses>>

MarkFailed ==
    /\ courier.pc = "error" /\ Held.state # "deleted"
    /\ notices' = [notices EXCEPT ![courier.at].state =
                      IF Held.attempts >= MaxDeliveries THEN "failed" ELSE "pending"]
    /\ courier' = IdleCourier
    /\ UNCHANGED <<calls, told, receipts, window, losses>>

(* Any other exception, one from a row that can not be decrypted for one,  *)
(* ends the task: nothing but a restart of the process begins it again.    *)
CourierDies ==
    /\ courier.pc = "holding" /\ losses < MaxLosses
    /\ losses' = losses + 1
    /\ courier' = [courier EXCEPT !.pc = "dead"]
    /\ UNCHANGED <<calls, told, receipts, notices, window>>

Restart ==
    /\ losses < MaxLosses /\ losses' = losses + 1
    /\ calls' = [c \in Callers |-> IdleCall]
    /\ courier' = IdleCourier
    /\ notices' = IF courier.pc = "sent" THEN [notices EXCEPT ![courier.at].confirmed = @ - 1]
                  ELSE notices
    /\ UNCHANGED <<told, receipts, window>>

(* A backoff or a lease runs out; a lease outlasts the delivery it covers, *)
(* whose timeout is seconds to its five minutes.                           *)
ComesDue(n) ==
    /\ notices[n].state \in {"pending", "processing"} /\ ~notices[n].due
    /\ courier.pc \in {"idle", "dead"} \/ courier.at # n
    /\ notices' = [notices EXCEPT ![n].due = TRUE]
    /\ UNCHANGED <<calls, told, receipts, window, courier, losses>>

DeleteRecipient ==
    /\ \E n \in DOMAIN notices : notices[n].state # "deleted"
    /\ notices' = [n \in DOMAIN notices |-> [notices[n] EXCEPT !.state = "deleted"]]
    /\ UNCHANGED <<calls, told, receipts, window, courier, losses>>

Deliver == \/ Send \/ SendFails \/ Vanished \/ MarkSent \/ MarkFailed
           \/ \E n \in DOMAIN notices : ClaimNotice(n)

NoticeNext ==
    \/ \E c \in Callers : \/ \E ask \in Asks : Begin(c, ask.id, ask.body)
                          \/ FinishCommand(c) \/ RollBack(c)
    \/ TwelveHours \/ Deliver \/ CourierDies \/ Restart \/ DeleteRecipient
    \/ \E n \in DOMAIN notices : ComesDue(n)

NoticeSpec == NoticeInit /\ [][NoticeNext]_noticeVars

-----------------------------------------------------------------------------
(* Receipts and answers name queued notices; rows and the task have their  *)
(* declared states, and a row was tried no more often than configured plus *)
(* once for every crash.                                                   *)
NoticeTypeOK ==
    /\ Len(notices) <= MaxNotices /\ window \in 0..MaxWindows /\ losses \in 0..MaxLosses
    /\ \A n \in DOMAIN notices :
          /\ notices[n] \in [id : CommandIds, window : 0..MaxWindows, due : BOOLEAN,
                             state : {"pending", "processing", "sent", "failed", "deleted"},
                             attempts : Nat, confirmed : Nat]
          /\ notices[n].attempts <= MaxDeliveries + MaxLosses
    /\ \A id \in CommandIds : receipts[id].notice \in 0..Len(notices)
    /\ \A c \in Callers : calls[c].pc \in {"idle", "loaded"}
    /\ courier.pc \in {"idle", "holding", "sent", "error", "dead"}
    /\ courier.at \in 0..Len(notices)

(* A key stands for one effect and one message however often it is tried,  *)
(* by however many requests at once, and everyone who is answered is told  *)
(* of that one and asked for just that.                                    *)
OneEffectPerKey ==
    /\ \A m, n \in DOMAIN notices : notices[m].id = notices[n].id => m = n
    /\ \A t \in told : receipts[t.id] = [body |-> t.body, notice |-> t.notice]

Reminders == {n \in DOMAIN notices : notices[n].id[1] = "reminder"}

(* Two reminders are never queued within one twelve-hour period, whatever  *)
(* keys and concurrent requests ask for them.                              *)
RemindersSpaced ==
    \A m, n \in Reminders : notices[m].window = notices[n].window => m = n

(* A message is sent again only after a send that was not confirmed: a     *)
(* crash between sending and marking, or a provider that did not answer.   *)
ConfirmedOnce == \A n \in DOMAIN notices : notices[n].confirmed <= 1
=============================================================================
