----------------------------- MODULE Interrupts -----------------------------
(***************************************************************************)
(* One conversation's cards (persisted widgets), the questions             *)
(* (AgentInterrupt rows) that gate it, and the requests that answer them:  *)
(* admission in api.py, execution and resumption in services/agui.py, the  *)
(* domain actions in services/conversation.py.                             *)
(*                                                                         *)
(* Every executor step ends at a commit.  Requests of a conversation       *)
(* execute in admission order, which is what AgentRuns establishes for the *)
(* chain of blockers; uploads and admissions interleave with them.         *)
(* Cards are numbered in the order they are persisted; a card's subject is *)
(* the first card about the same draft, goal, import or clarification.     *)
(***************************************************************************)
EXTENDS Naturals, Sequences, FiniteSets

CONSTANTS MaxRequests, MaxCards, MaxFaults, MaxUploads

ASSUME InterruptBounds ==
    /\ MaxRequests \in Nat /\ MaxCards \in Nat
    /\ MaxFaults \in Nat /\ MaxUploads \in Nat

VARIABLES
    cards,      \* sequence of [kind, subject, state], the persisted widgets
    questions,  \* the interrupt on each card
    ledger,     \* how often each subject was posted: transactions, goal
                \* contributions, imported statements
    drafts,     \* state of the transaction draft behind a subject
    requests,   \* sequence of the conversation's runs, in admission order
    faults, uploads

interruptVars == <<cards, questions, ledger, drafts, requests, faults, uploads>>

CardIds    == 1..MaxCards
Kinds      == {"choose", "confirm", "goal", "import", "clarify"}
DraftKinds == {"choose", "confirm"}
Answers    == {"approve", "deny", "cancel"}
Ended      == {"done", "failed"}

NoQuestion == [status |-> "none", answer |-> "none", by |-> 0, asker |-> 0, at |-> 0]

InterruptInit ==
    /\ cards = <<>>
    /\ questions = [w \in CardIds |-> NoQuestion]
    /\ ledger = [w \in CardIds |-> 0]
    /\ drafts = [w \in CardIds |-> "none"]
    /\ requests = <<>>
    /\ faults = 0 /\ uploads = 0

OpenQuestions == {w \in CardIds : questions[w].status = "open"}
ClosedQuestions == {w \in CardIds : questions[w].status \in {"resolved", "cancelled"}}
Pending(w)    == w \in DOMAIN cards /\ cards[w].state = "pending"
Unfinished    == {r \in DOMAIN requests : requests[r].pc \notin Ended}
Executing(r)  == r \in Unfinished /\ \A q \in Unfinished : r <= q
Latest(S)     == IF S = {} THEN 0 ELSE CHOOSE r \in S : \A q \in S : q <= r

(***************************************************************************)
(* Persisting a card, and retiring the cards of superseded questions: a    *)
(* card that is no longer pending is left alone, its question still closes.*)
(***************************************************************************)
WithCard(kind, subject) ==
    Append(cards, [kind |-> kind, subject |-> subject, state |-> "pending"])

NewCard == Len(cards) + 1

Retired(ws) ==
    [w \in DOMAIN cards |-> IF w \in ws /\ Pending(w)
                            THEN [cards[w] EXCEPT !.state = "cancelled"] ELSE cards[w]]

DraftsDropped(ws) ==
    [s \in CardIds |-> IF /\ drafts[s] # "committed"
                          /\ \E w \in ws : /\ Pending(w) /\ cards[w].subject = s
                                           /\ cards[w].kind \in DraftKinds
                       THEN "cancelled" ELSE drafts[s]]

\* Mutant: answered questions are superseded with the open ones.
Superseded_All(ws) ==
    [w \in CardIds |-> IF questions[w].status # "none" /\ ws # {}
                       THEN [questions[w] EXCEPT !.status = "cancelled", !.answer = "none"]
                       ELSE questions[w]]

Superseded(ws) ==
    [w \in CardIds |-> IF w \in ws
                       THEN [questions[w] EXCEPT !.status = "cancelled", !.answer = "none"]
                       ELSE questions[w]]

Supersede(ws) ==
    /\ cards' = Retired(ws)
    /\ drafts' = DraftsDropped(ws)
    /\ questions' = Superseded(ws)

(***************************************************************************)
(* Admission.  A message or action that meets an open question becomes a   *)
(* protocol error, unless it acts on a newer card and supersedes it.       *)
(***************************************************************************)
Admit(kind, targets, answer) ==
    /\ Len(requests) < MaxRequests
    /\ requests' = Append(requests,
         [kind |-> kind, targets |-> targets, answer |-> answer, pc |-> "queued",
          behind |-> Latest(Unfinished), follow |-> 0, replays |-> FALSE])
    /\ UNCHANGED <<ledger, faults, uploads>>

\* Mutant: a message passes the gate.
PostMessage_Ungated ==
    /\ Admit("message", {}, "none")
    /\ UNCHANGED <<cards, questions, drafts>>

PostMessage ==
    /\ Admit(IF OpenQuestions = {} THEN "message" ELSE "protocol_error", {}, "none")
    /\ UNCHANGED <<cards, questions, drafts>>

CanSupersede(w) ==
    Pending(w) /\ \A q \in OpenQuestions : q # w /\ w > questions[q].at

PostAction(w) ==
    \/ /\ OpenQuestions = {} \/ ~CanSupersede(w)
       /\ Admit(IF OpenQuestions = {} THEN "action" ELSE "protocol_error", {w}, "approve")
       /\ UNCHANGED <<cards, questions, drafts>>
    \/ /\ OpenQuestions # {} /\ CanSupersede(w)
       /\ Admit("action", {w}, "approve")
       /\ Supersede(OpenQuestions)

PostResume(ws, answer) ==
    /\ ws # {} /\ \A w \in ws : questions[w].status # "none"
    /\ Admit("resume", ws, answer)
    /\ UNCHANGED <<cards, questions, drafts>>

(* A statement uploaded outside any run: its card supersedes every open    *)
(* question in the transaction that persists it.                           *)
Upload ==
    /\ uploads < MaxUploads /\ NewCard \in CardIds
    /\ uploads' = uploads + 1
    /\ cards' = Append(Retired(OpenQuestions),
                       [kind |-> "import", subject |-> NewCard, state |-> "pending"])
    /\ drafts' = DraftsDropped(OpenQuestions)
    /\ questions' = Superseded(OpenQuestions)
    /\ UNCHANGED <<ledger, requests, faults>>

(***************************************************************************)
(* Execution.                                                              *)
(***************************************************************************)
At(r, kind, pc) == Executing(r) /\ requests[r].kind = kind /\ requests[r].pc = pc

Target(r) == CHOOSE w \in requests[r].targets : TRUE

Step(r, pc) == requests' = [requests EXCEPT ![r].pc = pc]
StepAsking(r, pc, card) ==
    requests' = [requests EXCEPT ![r].pc = pc, ![r].follow = card]

Halt(r) ==
    /\ Step(r, "failed")
    /\ UNCHANGED <<cards, questions, ledger, drafts, faults, uploads>>

(* The turn's reply commits with the card it asks with, if any. *)
Reply(r) ==
    /\ At(r, "message", "queued")
    /\ UNCHANGED <<questions, ledger, faults, uploads>>
    /\ \/ Step(r, "answered") /\ UNCHANGED <<cards, drafts>>
       \/ \E kind \in Kinds \ {"import"} :
            /\ NewCard \in CardIds
            /\ cards' = WithCard(kind, NewCard)
            /\ drafts' = [drafts EXCEPT ![NewCard] =
                              IF kind \in DraftKinds THEN "open" ELSE "none"]
            /\ StepAsking(r, "answered", NewCard)

Reject(r) == At(r, "protocol_error", "queued") /\ Halt(r)

\* Mutant: a card that was acted on is acted on again.
LoadAction_AnyCard(r) ==
    /\ At(r, "action", "queued")
    /\ Step(r, "loaded")
    /\ UNCHANGED <<cards, questions, ledger, drafts, faults, uploads>>

LoadAction(r) ==
    /\ At(r, "action", "queued")
    /\ IF Pending(Target(r))
       THEN /\ Step(r, "loaded")
            /\ UNCHANGED <<cards, questions, ledger, drafts, faults, uploads>>
       ELSE Halt(r)

(* A resume none of whose questions is open is a retry: the same answer    *)
(* to questions one run resolved, whose response it recorded.              *)
Replayable(r) ==
    LET entries == requests[r].targets
        answer  == requests[r].answer
        resolvers == {questions[w].by : w \in entries}
    IN /\ \A w \in entries :
            /\ questions[w].by # 0
            /\ IF answer = "cancel" THEN questions[w].status = "cancelled"
               ELSE questions[w].status = "resolved" /\ questions[w].answer = answer
       /\ Cardinality(resolvers) = 1
       /\ \A q \in resolvers : requests[q].pc = "done"

(* A resume must name every open question and there must be only one, so   *)
(* with two of them none can be answered.                                  *)
Answerable(w) == OpenQuestions = {w} /\ Pending(w)

LoadResume(r) ==
    /\ At(r, "resume", "queued")
    /\ LET entries == requests[r].targets IN
       \/ /\ entries \cap OpenQuestions = {} /\ Replayable(r)
          /\ requests' = [requests EXCEPT ![r].pc = "answered", ![r].replays = TRUE]
          /\ UNCHANGED <<cards, questions, ledger, drafts, faults, uploads>>
       \/ /\ entries \cap OpenQuestions = {} /\ ~Replayable(r)
          /\ Halt(r)
       \/ /\ entries \cap OpenQuestions # {}
          /\ IF entries = OpenQuestions /\ Answerable(Target(r))
             THEN /\ Step(r, "loaded")
                  /\ UNCHANGED <<cards, questions, ledger, drafts, faults, uploads>>
             ELSE Halt(r)

\* Mutant: the answer of a resume is not looked at.
Approving_AnyAnswer(r) == Executing(r) /\ requests[r].pc = "loaded"

Approving(r) == Executing(r) /\ requests[r].pc = "loaded" /\ requests[r].answer = "approve"

Post(s) == ledger' = [ledger EXCEPT ![s] = @ + 1]

AskNext(r, kind, subject) ==
    /\ NewCard \in CardIds
    /\ cards' = WithCard(kind, subject)
    /\ StepAsking(r, "acted", NewCard)

(* A goal contribution is added each time its action executes; a statement *)
(* posts only the records that are still staged.                           *)
ContributeGoal(r) ==
    /\ Approving(r) /\ cards[Target(r)].kind = "goal"
    /\ Post(cards[Target(r)].subject)
    /\ Step(r, "acted")
    /\ UNCHANGED <<cards, questions, drafts, faults, uploads>>

CommitImport(r) ==
    /\ Approving(r) /\ cards[Target(r)].kind = "import"
    /\ LET s == cards[Target(r)].subject IN ledger' = [ledger EXCEPT ![s] = 1]
    /\ Step(r, "acted")
    /\ UNCHANGED <<cards, questions, drafts, faults, uploads>>

\* Mutant: nothing refuses a second transaction of a draft.
Saves_Again(r, s, committed) ==
    /\ UNCHANGED <<cards, questions, faults, uploads>>
    /\ \/ committed /\ Step(r, "acted") /\ UNCHANGED <<ledger, drafts>>
       \/ /\ ~committed
          /\ Post(s) /\ drafts' = [drafts EXCEPT ![s] = "committed"]
          /\ Step(r, "acted")

(* Saving a draft.  A committed draft answers with its transaction; any    *)
(* other one is saved, and the unique source of the draft's observation    *)
(* refuses a second transaction.                                           *)
Saves(r, s, committed) ==
    /\ UNCHANGED <<cards, questions, faults, uploads>>
    /\ \/ committed /\ Step(r, "acted") /\ UNCHANGED <<ledger, drafts>>
       \/ /\ ~committed /\ ledger[s] = 0
          /\ Post(s) /\ drafts' = [drafts EXCEPT ![s] = "committed"]
          /\ Step(r, "acted")
       \/ /\ ~committed /\ ledger[s] > 0
          /\ Step(r, "failed") /\ UNCHANGED <<ledger, drafts>>

ConfirmDraft(r) ==
    /\ Approving(r) /\ cards[Target(r)].kind = "confirm"
    /\ LET s == cards[Target(r)].subject IN
       \/ Saves(r, s, drafts[s] = "committed")
       \/ AskNext(r, "choose", s) /\ UNCHANGED <<questions, ledger, drafts, faults, uploads>>

(* A choice recomputes the draft's state whatever it was, then saves the   *)
(* draft or asks for what it still lacks.                                  *)
ChooseField(r) ==
    /\ Approving(r) /\ cards[Target(r)].kind = "choose"
    /\ LET s == cards[Target(r)].subject IN
       \/ Saves(r, s, FALSE)
       \/ \E kind \in DraftKinds :
            /\ AskNext(r, kind, s)
            /\ drafts' = [drafts EXCEPT ![s] = "open"]
            /\ UNCHANGED <<questions, ledger, faults, uploads>>

CancelDraft(r) ==
    /\ Approving(r) /\ cards[Target(r)].kind \in DraftKinds
    /\ UNCHANGED <<cards, questions, ledger, faults, uploads>>
    /\ LET s == cards[Target(r)].subject IN
       IF drafts[s] = "committed" THEN Step(r, "failed") /\ UNCHANGED drafts
       ELSE Step(r, "acted") /\ drafts' = [drafts EXCEPT ![s] = "cancelled"]

(* The resumed turn runs as the original request would have: it posts what *)
(* was asked for, answers from what is there, or asks the next question.   *)
ResolveClarification(r) ==
    /\ Approving(r) /\ requests[r].kind = "resume" /\ cards[Target(r)].kind = "clarify"
    /\ UNCHANGED <<questions, faults, uploads>>
    /\ LET s == cards[Target(r)].subject IN
       \/ Post(s) /\ Step(r, "acted") /\ UNCHANGED <<cards, drafts>>
       \/ Step(r, "acted") /\ UNCHANGED <<cards, ledger, drafts>>
       \/ \E kind \in {"confirm", "goal"} :
            /\ AskNext(r, kind, NewCard)
            /\ drafts' = [drafts EXCEPT ![NewCard] = IF kind = "confirm" THEN "open" ELSE "none"]
            /\ UNCHANGED ledger

(* A clarification cannot be answered outside its interrupt, nor denied. *)
RefuseClarification(r) ==
    /\ Executing(r) /\ requests[r].pc = "loaded" /\ cards[Target(r)].kind = "clarify"
    /\ requests[r].kind = "action" \/ requests[r].answer = "deny"
    /\ Halt(r)

Act(r) == \/ ContributeGoal(r) \/ CommitImport(r) \/ ConfirmDraft(r) \/ ChooseField(r)
          \/ CancelDraft(r) \/ ResolveClarification(r) \/ RefuseClarification(r)

Completed(w) == [cards EXCEPT ![w].state = "completed"]

Answered(r, status) ==
    [questions EXCEPT ![Target(r)].status = status, ![Target(r)].by = r,
                      ![Target(r)].answer = IF status = "cancelled" THEN "none"
                                            ELSE requests[r].answer]

(* The receipt of a card's action commits after the action, and the        *)
(* question closes after the receipt; a clarification's card and question  *)
(* close together.                                                         *)
Receipt(r) ==
    /\ Executing(r) /\ requests[r].pc = "acted" /\ cards[Target(r)].kind # "clarify"
    /\ cards' = Completed(Target(r))
    /\ Step(r, IF requests[r].kind = "resume" THEN "receipted" ELSE "answered")
    /\ UNCHANGED <<questions, ledger, drafts, faults, uploads>>

\* Mutant: the receipt is taken for the answer.
CloseQuestion_Skipped(r) ==
    /\ At(r, "resume", "receipted")
    /\ Step(r, "answered")
    /\ UNCHANGED <<cards, questions, ledger, drafts, faults, uploads>>

CloseQuestion(r) ==
    /\ At(r, "resume", "receipted")
    /\ questions' = Answered(r, "resolved")
    /\ Step(r, "answered")
    /\ UNCHANGED <<cards, ledger, drafts, faults, uploads>>

CloseClarification(r) ==
    /\ At(r, "resume", "acted") /\ cards[Target(r)].kind = "clarify"
    /\ cards' = Completed(Target(r))
    /\ questions' = Answered(r, "resolved")
    /\ Step(r, "answered")
    /\ UNCHANGED <<ledger, drafts, faults, uploads>>

(* Denying or cancelling closes card, draft and question in one commit. *)
Decline(r) ==
    /\ At(r, "resume", "loaded")
    /\ \/ requests[r].answer = "cancel"
       \/ requests[r].answer = "deny" /\ cards[Target(r)].kind # "clarify"
    /\ cards' = [cards EXCEPT ![Target(r)].state = "cancelled"]
    /\ LET card == cards[Target(r)] IN
       drafts' = IF card.kind \in DraftKinds /\ drafts[card.subject] # "committed"
                 THEN [drafts EXCEPT ![card.subject] = "cancelled"] ELSE drafts
    /\ questions' = Answered(r, IF requests[r].answer = "cancel" THEN "cancelled" ELSE "resolved")
    /\ Step(r, "answered")
    /\ UNCHANGED <<ledger, faults, uploads>>

(* One of a clarification's options may be to drop the request. *)
ChooseToCancel(r) ==
    /\ At(r, "resume", "loaded") /\ Approving(r) /\ cards[Target(r)].kind = "clarify"
    /\ cards' = [cards EXCEPT ![Target(r)].state = "cancelled"]
    /\ questions' = Answered(r, "resolved")
    /\ Step(r, "answered")
    /\ UNCHANGED <<ledger, drafts, faults, uploads>>

(* The question about the reply's card is a commit of its own, before the  *)
(* terminal events; a replayed answer opens none.                          *)
Asks(r) == requests[r].follow # 0 /\ ~requests[r].replays

OpenQuestion(r) ==
    /\ Executing(r) /\ requests[r].pc = "answered" /\ Asks(r)
    /\ questions' = [questions EXCEPT ![requests[r].follow] =
                         [status |-> "open", answer |-> "none", by |-> 0,
                          asker |-> r, at |-> Len(cards)]]
    /\ Step(r, "opened")
    /\ UNCHANGED <<cards, ledger, drafts, faults, uploads>>

Finish(r) ==
    /\ Executing(r)
    /\ requests[r].pc = "opened" \/ (requests[r].pc = "answered" /\ ~Asks(r))
    /\ Step(r, "done")
    /\ UNCHANGED <<cards, questions, ledger, drafts, faults, uploads>>

(* A raise between two commits, or a process that dies there and whose run *)
(* recovery condemns: either way the run ends failed where it stood.       *)
Fail(r) ==
    /\ Executing(r)
    /\ requests[r].pc # "queued" \/ requests[r].kind = "message"
    /\ faults < MaxFaults /\ faults' = faults + 1
    /\ Step(r, "failed")
    /\ UNCHANGED <<cards, questions, ledger, drafts, uploads>>

Execute(r) ==
    \/ Reply(r) \/ Reject(r) \/ LoadAction(r) \/ LoadResume(r) \/ Act(r) \/ Receipt(r)
    \/ CloseQuestion(r) \/ CloseClarification(r) \/ Decline(r) \/ ChooseToCancel(r)
    \/ OpenQuestion(r) \/ Finish(r)

InterruptNext ==
    \/ PostMessage
    \/ \E w \in DOMAIN cards : PostAction(w)
    \/ \E ws \in SUBSET DOMAIN cards, answer \in Answers : PostResume(ws, answer)
    \/ Upload
    \/ \E r \in DOMAIN requests : Execute(r) \/ Fail(r)

InterruptSpec == InterruptInit /\ [][InterruptNext]_interruptVars

-----------------------------------------------------------------------------
(***************************************************************************)
(* Properties.                                                             *)
(***************************************************************************)
Requests == [kind : {"message", "action", "resume", "protocol_error"},
             targets : SUBSET CardIds, answer : Answers \cup {"none"},
             pc : {"queued", "loaded", "acted", "receipted", "answered", "opened"} \cup Ended,
             behind : 0..MaxRequests, follow : 0..MaxCards, replays : BOOLEAN]

(* The persisted cards, interrupts, drafts and runs have the shapes their  *)
(* models declare, and every subject is a card no newer than its cards.    *)
InterruptTypeOK ==
    /\ Len(cards) <= MaxCards /\ Len(requests) <= MaxRequests
    /\ \A w \in DOMAIN cards :
          /\ cards[w] \in [kind : Kinds, subject : CardIds,
                           state : {"pending", "completed", "cancelled"}]
          /\ cards[w].subject <= w
    /\ questions \in [CardIds -> [status : {"none", "open", "resolved", "cancelled"},
                                  answer : Answers \cup {"none"}, by : 0..MaxRequests,
                                  asker : 0..MaxRequests, at : 0..MaxCards]]
    /\ ledger \in [CardIds -> Nat]
    /\ drafts \in [CardIds -> {"none", "open", "committed", "cancelled"}]
    /\ \A r \in DOMAIN requests : requests[r] \in Requests
    /\ faults \in 0..MaxFaults /\ uploads \in 0..MaxUploads

Concerns(r, s) == \E w \in requests[r].targets : cards[w].subject = s
FailedOn(s) == \E r \in DOMAIN requests : requests[r].pc = "failed" /\ Concerns(r, s)

(* A draft is saved as one transaction and a statement posts its records   *)
(* once, whatever cards, retries and failures surround them: a committed   *)
(* draft has its transaction and a cancelled card can not add a second.    *)
PostedOnce ==
    \A w \in DOMAIN cards :
        /\ cards[w].kind \in DraftKinds \cup {"import"} => ledger[cards[w].subject] <= 1
        /\ drafts[w] = "committed" => ledger[w] = 1

(* A contribution or a resolved clarification posts a second time only     *)
(* when a request about it failed between its commits: the card's receipt, *)
(* the gate and the replay of resolved answers stop every other repeat.    *)
RepeatNeedsFailure ==
    \A s \in CardIds : ledger[s] > 1 => FailedOn(s)

(* A question that was declined or superseded has posted nothing, unless a *)
(* request that approved its card failed, is still executing, or acted on  *)
(* the card outside its question.                                          *)
DeclinedPostsNothing ==
    \A w \in ClosedQuestions :
        (questions[w].status = "cancelled" \/ questions[w].answer = "deny")
            => \/ ledger[cards[w].subject] = 0
               \/ \E r \in DOMAIN requests :
                     /\ requests[r].answer = "approve" /\ Concerns(r, cards[w].subject)
                     /\ \/ requests[r].pc # "done"
                        \/ requests[r].kind = "action"

(* Two questions are open in one thread only if the request that asked the *)
(* second was admitted while the one that asked the first was unfinished.  *)
TwoQuestionsNeedQueue ==
    \A v, w \in OpenQuestions :
        questions[v].asker < questions[w].asker
            => requests[questions[w].asker].behind >= questions[v].asker

(* An open question that no resume can answer is one of two that were      *)
(* opened by requests queued together, and then it stays unanswerable      *)
(* until an upload or an action on a newer card supersedes it; or its card *)
(* was acted on by a request that has not ended, that failed between       *)
(* receipt and question, or that was queued before the question opened.    *)
Waited(v, w) == requests[questions[w].asker].behind >= questions[v].asker
ActedOn(w) ==
    \E r \in DOMAIN requests :
        /\ w \in requests[r].targets
        /\ \/ requests[r].pc # "done"
           \/ requests[r].kind = "action" /\ requests[r].behind >= questions[w].asker

UnanswerableHasCause ==
    \A w \in OpenQuestions : ~Answerable(w) =>
        IF Pending(w) THEN \E v \in OpenQuestions \ {w} : Waited(v, w) \/ Waited(w, v)
        ELSE ActedOn(w)

(* An answered question keeps its answer: a resolved one never changes,    *)
(* and a superseded one changes only under the resume that had loaded it   *)
(* while it was open.                                                      *)
ClosedStaysClosed ==
    [][\A w \in ClosedQuestions :
         questions'[w] # questions[w]
            => /\ questions[w].status = "cancelled" /\ questions[w].by = 0
               /\ \E r \in DOMAIN requests :
                     /\ requests[r].kind = "resume" /\ w \in requests[r].targets
                     /\ requests[r].pc \in {"loaded", "acted", "receipted"}
                     /\ questions'[w].by = r]_interruptVars
=============================================================================
