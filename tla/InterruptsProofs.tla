-------------------------- MODULE InterruptsProofs --------------------------
(***************************************************************************)
(* The safety of Interrupts for every number of requests, cards, failures  *)
(* and uploads.                                                            *)
(*                                                                         *)
(* One request executes at a time, so a step moves the row of that request *)
(* alone (Moves), or admits one (Admits), or retires the cards of open     *)
(* questions (Supersede).  The lemmas of the first part say so of every    *)
(* action; the others keep the invariant from what those say, in three     *)
(* parts: the requests, the questions, and what was posted.                *)
(***************************************************************************)
EXTENDS Interrupts, SequenceTheorems, FiniteSetTheorems, WellFoundedInduction, TLAPS

Busy == {"loaded", "acted", "receipted"}

Card == [kind : Kinds, subject : CardIds, state : {"pending", "completed", "cancelled"}]
Question == [status : {"none", "open", "resolved", "cancelled"},
             answer : Answers \cup {"none"}, by : 0..MaxRequests,
             asker : 0..MaxRequests, at : 0..MaxCards]
DraftStates == {"none", "open", "committed", "cancelled"}

RowTypes ==
    /\ cards \in Seq(Card) /\ Len(cards) <= MaxCards
    /\ requests \in Seq(Requests) /\ Len(requests) <= MaxRequests
    /\ questions \in [CardIds -> Question]
    /\ ledger \in [CardIds -> Nat]
    /\ drafts \in [CardIds -> DraftStates]
    /\ faults \in 0..MaxFaults /\ uploads \in 0..MaxUploads

-----------------------------------------------------------------------------
(* The inductive invariant: the requests.                                  *)

(* A request leaves its queue when every earlier one has ended, and one    *)
(* that was admitted behind an unfinished request says so.                 *)
OrderSound ==
    \A q, r \in DOMAIN requests : q < r =>
        /\ requests[r].pc # "queued" => requests[q].pc \in Ended
        /\ requests[q].pc \notin Ended => requests[r].behind >= q

(* A request that has loaded its card has one, and approves it if it has   *)
(* acted.                                                                  *)
RequestSound ==
    \A r \in DOMAIN requests :
        /\ requests[r].targets \subseteq DOMAIN cards
        /\ requests[r].kind = "message" => requests[r].targets = {}
        /\ requests[r].kind = "action" =>
              requests[r].answer = "approve" /\ \E w \in CardIds : requests[r].targets = {w}
        /\ requests[r].kind = "resume" =>
              \A w \in requests[r].targets : questions[w].status # "none"
        /\ requests[r].kind = "protocol_error" => requests[r].pc \in {"queued", "failed"}
        /\ requests[r].pc \in Busy =>
              /\ requests[r].kind \in {"action", "resume"}
              /\ \E w \in CardIds : requests[r].targets = {w}
        /\ requests[r].pc \in {"acted", "receipted"} => requests[r].answer = "approve"
        /\ requests[r].pc = "receipted" => requests[r].kind = "resume"
        /\ requests[r].pc \in {"queued", "loaded"} => requests[r].follow = 0

(* The question of an executing resume is open, or was superseded under    *)
(* it; a resume that goes on to its reply has left no question open.       *)
ResumeSound ==
    \A r \in DOMAIN requests : requests[r].kind = "resume" =>
        /\ requests[r].pc \in Busy => \A w \in requests[r].targets :
              questions[w].status \in {"open", "cancelled"} /\ questions[w].by = 0
        /\ requests[r].pc \in {"answered", "opened", "done"} =>
              requests[r].targets \subseteq ClosedQuestions

(* The card a request asks with is untouched until its question opens.     *)
FollowSound ==
    \A r \in DOMAIN requests : requests[r].follow # 0 =>
        /\ requests[r].follow \in DOMAIN cards
        /\ \A q \in DOMAIN requests : requests[r].follow \in requests[q].targets => r < q
        /\ requests[r].pc \in {"acted", "receipted", "answered"} =>
              Pending(requests[r].follow) /\ questions[requests[r].follow].status = "none"

-----------------------------------------------------------------------------
(* The questions.                                                          *)
QuestionSound ==
    \A w \in CardIds :
        /\ questions[w].status # "none" => w \in DOMAIN cards
        /\ questions[w].status = "open" =>
              /\ questions[w].by = 0 /\ questions[w].asker \in DOMAIN requests
              /\ requests[questions[w].asker].pc \in {"opened"} \cup Ended

(* A request asks one question, and what takes a card away from an open    *)
(* question is a request on that card.                                     *)
AskerSound == \A v, w \in OpenQuestions : v # w => questions[v].asker # questions[w].asker
CardSound  == \A w \in OpenQuestions : Pending(w) \/ ActedOn(w)

(* What was admitted while a question was open, and did not supersede it,  *)
(* asks nothing before that question closes: it is refused, or it is a     *)
(* resume that waits, replays, or answers that very question.              *)
GateSound ==
    \A v \in OpenQuestions, r \in DOMAIN requests :
        questions[v].asker < r /\ requests[r].behind < questions[v].asker =>
            \/ requests[r].kind = "protocol_error"
            \/ /\ requests[r].kind = "resume"
               /\ \/ requests[r].pc = "queued" \/ requests[r].pc \in Ended
                  \/ requests[r].pc = "answered" /\ requests[r].follow = 0
                  \/ requests[r].pc \in Busy /\ v \in requests[r].targets

(* An action on the card of an open question was queued before it opened.  *)
ActionSound ==
    \A r \in DOMAIN requests : requests[r].kind = "action" =>
        \A w \in requests[r].targets :
            questions[w].status = "open" => requests[r].behind >= questions[w].asker

-----------------------------------------------------------------------------
(* The cards and what was posted.                                          *)

(* Drafts have several cards, anything else has one.                       *)
SubjectSound ==
    \A w \in DOMAIN cards :
        /\ cards[w].subject \in DOMAIN cards /\ cards[w].subject <= w
        /\ cards[cards[w].subject].subject = cards[w].subject
        /\ cards[w].kind \in DraftKinds => cards[cards[w].subject].kind \in DraftKinds
        /\ cards[w].kind \notin DraftKinds => cards[w].subject = w

Targeted(s, pc) == \E r \in DOMAIN requests : requests[r].pc = pc /\ s \in requests[r].targets

(* A subject that was posted once is done with: no request has its card    *)
(* loaded, and the card is pending only under the request that posted it.  *)
PostSound ==
    \A s \in CardIds :
        /\ ledger[s] > 0 => s \in DOMAIN cards /\ cards[s].subject = s
        /\ s \in DOMAIN cards /\ cards[s].kind \in DraftKinds \cup {"import"} => ledger[s] <= 1
        /\ drafts[s] = "committed" => ledger[s] = 1 /\ cards[s].kind \in DraftKinds
        /\ ledger[s] > 0 /\ cards[s].kind \in {"goal", "clarify"} =>
              \/ FailedOn(s)
              \/ /\ ledger[s] = 1 /\ ~Targeted(s, "loaded")
                 /\ Pending(s) => Targeted(s, "acted")

Tainted(s) ==
    \E r \in DOMAIN requests :
        /\ requests[r].answer = "approve" /\ Concerns(r, s)
        /\ requests[r].pc = "failed" \/ requests[r].kind = "action"

Newest(w) == \A v \in DOMAIN cards : cards[v].subject = cards[w].subject => v <= w

(* Whatever was posted about a card's subject is accounted for: by a       *)
(* failure or an action on it, by the card's approved question, or by the  *)
(* approving resume that is executing.                                     *)
TraceSound ==
    \A w \in DOMAIN cards :
        \/ Tainted(cards[w].subject)
        \/ questions[w].status = "resolved" /\ questions[w].answer = "approve"
        \/ ledger[cards[w].subject] = 0 /\ Newest(w)
        \/ \E r \in DOMAIN requests :
              /\ requests[r].kind = "resume" /\ requests[r].pc \in {"acted", "receipted"}
              /\ w \in requests[r].targets

RequestsInv  == OrderSound /\ RequestSound /\ ResumeSound /\ FollowSound
QuestionsInv == QuestionSound /\ GateSound /\ ActionSound
                /\ TwoQuestionsNeedQueue /\ AskerSound /\ CardSound
PostsInv     == SubjectSound /\ PostSound /\ TraceSound

InterruptInv == RowTypes /\ RequestsInv /\ QuestionsInv /\ PostsInv

-----------------------------------------------------------------------------
(* Sequences, by length and element.                                       *)
LEMMA Indices ==
  ASSUME NEW S, NEW s \in Seq(S)
  PROVE  Len(s) \in Nat /\ DOMAIN s = 1..Len(s) /\ \A i \in DOMAIN s : s[i] \in S
BY LenProperties, ElementOfSeq

LEMMA Appended ==
  ASSUME NEW S, NEW s \in Seq(S), NEW e \in S
  PROVE  /\ Append(s, e) \in Seq(S) /\ Len(Append(s, e)) = Len(s) + 1
         /\ DOMAIN Append(s, e) = DOMAIN s \cup {Len(s) + 1} /\ Len(s) + 1 \notin DOMAIN s
         /\ \A i \in DOMAIN s : Append(s, e)[i] = s[i]
         /\ Append(s, e)[Len(s) + 1] = e
<1>1. /\ Append(s, e) \in Seq(S) /\ Len(Append(s, e)) = Len(s) + 1
      /\ \A i \in 1..Len(s) : Append(s, e)[i] = s[i]
      /\ Append(s, e)[Len(s) + 1] = e
  BY AppendProperties
<1>2. DOMAIN s = 1..Len(s) /\ DOMAIN Append(s, e) = 1..(Len(s) + 1) /\ Len(s) \in Nat
  BY <1>1, Indices
<1> QED
  BY <1>1, <1>2

LEMMA Excepted ==
  ASSUME NEW S, NEW s \in Seq(S), NEW i \in DOMAIN s, NEW e \in S
  PROVE  /\ [s EXCEPT ![i] = e] \in Seq(S) /\ Len([s EXCEPT ![i] = e]) = Len(s)
         /\ DOMAIN [s EXCEPT ![i] = e] = DOMAIN s
         /\ [s EXCEPT ![i] = e][i] = e
         /\ \A j \in DOMAIN s : j # i => [s EXCEPT ![i] = e][j] = s[j]
<1>1. [s EXCEPT ![i] = e] \in Seq(S) /\ Len([s EXCEPT ![i] = e]) = Len(s)
  BY ExceptSeq
<1>2. s \in [1..Len(s) -> S] /\ DOMAIN s = 1..Len(s)
  BY SeqDef, Indices
<1> QED
  BY <1>1, <1>2

LEMMA Mapped ==
  ASSUME NEW S, NEW s \in Seq(S), NEW f, f = [i \in DOMAIN s |-> f[i]],
         \A i \in DOMAIN s : f[i] \in S
  PROVE  f \in Seq(S) /\ Len(f) = Len(s) /\ DOMAIN f = DOMAIN s
<1>1. DOMAIN s = 1..Len(s) /\ Len(s) \in Nat
  BY Indices
<1>2. f \in [1..Len(s) -> S] /\ DOMAIN f = 1..Len(s)
  BY <1>1
<1>3. f \in Seq(S)
  BY <1>1, <1>2, SeqDef
<1>4. DOMAIN f = 1..Len(f) /\ Len(f) \in Nat
  BY <1>3, Indices
<1> QED
  BY <1>1, <1>2, <1>3, <1>4

LEMMA Rowed ==
  ASSUME RowTypes
  PROVE  /\ Len(cards) \in Nat /\ DOMAIN cards = 1..Len(cards) /\ DOMAIN cards \subseteq CardIds
         /\ \A w \in DOMAIN cards : /\ cards[w] \in Card /\ cards[w].kind \in Kinds
                                    /\ cards[w].subject \in CardIds
         /\ Len(requests) \in Nat /\ DOMAIN requests = 1..Len(requests)
         /\ DOMAIN requests \subseteq 1..MaxRequests
         /\ \A r \in DOMAIN requests : requests[r] \in Requests
         /\ \A w \in CardIds : questions[w] \in Question /\ questions[w].asker \in Nat
         /\ \A s \in CardIds : ledger[s] \in Nat /\ drafts[s] \in DraftStates
         /\ CardIds = 1..MaxCards /\ MaxCards \in Nat /\ MaxRequests \in Nat
<1>1. /\ Len(cards) \in Nat /\ DOMAIN cards = 1..Len(cards)
      /\ \A w \in DOMAIN cards : cards[w] \in Card
  BY Indices DEF RowTypes
<1>2. /\ Len(requests) \in Nat /\ DOMAIN requests = 1..Len(requests)
      /\ \A r \in DOMAIN requests : requests[r] \in Requests
  BY Indices DEF RowTypes
<1>3. DOMAIN cards \subseteq CardIds /\ DOMAIN requests \subseteq 1..MaxRequests
  BY <1>1, <1>2, InterruptBounds DEF RowTypes, CardIds
<1>4. \A w \in CardIds : questions[w] \in Question
  BY DEF RowTypes
<1>5. \A w \in CardIds : questions[w].asker \in Nat
  BY <1>4, InterruptBounds DEF Question
<1>6. \A w \in DOMAIN cards : cards[w].kind \in Kinds /\ cards[w].subject \in CardIds
  BY <1>1 DEF Card
<1> QED
  BY <1>1, <1>2, <1>3, <1>4, <1>5, <1>6, InterruptBounds DEF RowTypes, CardIds

-----------------------------------------------------------------------------
(* What the building blocks of the actions do.                             *)

(* One request moves on; what it was admitted as stays.                    *)
Moves(r, pc, follow) ==
    /\ requests' \in Seq(Requests) /\ Len(requests') = Len(requests)
    /\ DOMAIN requests' = DOMAIN requests
    /\ \A q \in DOMAIN requests : q # r => requests'[q] = requests[q]
    /\ requests'[r].pc = pc /\ requests'[r].follow = follow
    /\ requests'[r].kind = requests[r].kind /\ requests'[r].targets = requests[r].targets
    /\ requests'[r].answer = requests[r].answer /\ requests'[r].behind = requests[r].behind

(* Cards outside ws are left alone, and no card becomes pending again.     *)
CardsKept(ws) ==
    /\ cards' \in Seq(Card) /\ Len(cards') <= MaxCards
    /\ DOMAIN cards \subseteq DOMAIN cards'
    /\ \A w \in DOMAIN cards :
          /\ cards'[w].kind = cards[w].kind /\ cards'[w].subject = cards[w].subject
          /\ w \notin ws => cards'[w] = cards[w]
          /\ cards'[w].state = "pending" => cards[w].state = "pending"

CardsSame(ws) == CardsKept(ws) /\ DOMAIN cards' = DOMAIN cards

(* One card is persisted, pending.                                         *)
CardAdded(ws, kind, subject) ==
    /\ CardsKept(ws)
    /\ NewCard \in CardIds /\ NewCard \notin DOMAIN cards
    /\ \A w \in DOMAIN cards : w < NewCard
    /\ DOMAIN cards' = DOMAIN cards \cup {NewCard}
    /\ cards'[NewCard] = [kind |-> kind, subject |-> subject, state |-> "pending"]

\* The reply or the action persists the card it asks with.
Asking(f) == f = NewCard /\ \E kind, subject : CardAdded({}, kind, subject)

DraftsKept ==
    /\ drafts' \in [CardIds -> DraftStates]
    /\ \A s \in CardIds : drafts'[s] = "committed" => drafts[s] = "committed"

Pcs == {"queued", "loaded", "acted", "receipted", "answered", "opened"} \cup Ended

LEMMA RowChange ==
  ASSUME RowTypes, NEW r \in DOMAIN requests, NEW pc \in Pcs, NEW f \in 0..MaxCards,
         NEW b \in BOOLEAN,
         requests' = [requests EXCEPT ![r] =
                         [requests[r] EXCEPT !.pc = pc, !.follow = f, !.replays = b]]
  PROVE  Moves(r, pc, f)
<1> DEFINE row == [requests[r] EXCEPT !.pc = pc, !.follow = f, !.replays = b]
<1>1. requests \in Seq(Requests) /\ requests[r] \in Requests
  BY Rowed DEF RowTypes
<1>2. /\ row \in Requests /\ row.pc = pc /\ row.follow = f /\ row.kind = requests[r].kind
      /\ row.targets = requests[r].targets /\ row.answer = requests[r].answer
      /\ row.behind = requests[r].behind
  BY <1>1 DEF Requests, Pcs
<1> HIDE DEF row
<1>3. requests' = [requests EXCEPT ![r] = row]
  BY DEF row
<1>4. /\ requests' \in Seq(Requests) /\ Len(requests') = Len(requests)
      /\ DOMAIN requests' = DOMAIN requests /\ requests'[r] = row
      /\ \A q \in DOMAIN requests : q # r => requests'[q] = requests[q]
  BY <1>1, <1>2, <1>3, Excepted
<1> QED
  BY <1>2, <1>4 DEF Moves

LEMMA Fields ==
  ASSUME RowTypes, NEW r \in DOMAIN requests
  PROVE  /\ requests[r].kind \in {"message", "action", "resume", "protocol_error"}
         /\ requests[r].targets \in SUBSET CardIds
         /\ requests[r].answer \in Answers \cup {"none"} /\ requests[r].pc \in Pcs
         /\ requests[r].behind \in Nat /\ requests[r].follow \in 0..MaxCards
         /\ requests[r].replays \in BOOLEAN
BY Rowed, InterruptBounds DEF Requests, Pcs

LEMMA StepMoves ==
  ASSUME RowTypes, NEW r \in DOMAIN requests, NEW pc \in Pcs, Step(r, pc)
  PROVE  Moves(r, pc, requests[r].follow)
<1>1. requests[r] \in Requests /\ requests \in Seq(Requests)
  BY Rowed DEF RowTypes
<1>2. requests[r].follow \in 0..MaxCards /\ requests[r].replays \in BOOLEAN
  BY Fields
<1>3. [requests[r] EXCEPT !.pc = pc]
        = [requests[r] EXCEPT !.pc = pc, !.follow = requests[r].follow,
                              !.replays = requests[r].replays]
  BY <1>1 DEF Requests
<1>4. requests' = [requests EXCEPT ![r] = [requests[r] EXCEPT !.pc = pc]]
  BY DEF Step
<1> QED
  BY <1>2, <1>3, <1>4, RowChange

LEMMA AskMoves ==
  ASSUME RowTypes, NEW r \in DOMAIN requests, NEW pc \in Pcs, NEW card \in CardIds,
         StepAsking(r, pc, card)
  PROVE  Moves(r, pc, card)
<1>1. requests[r] \in Requests /\ requests \in Seq(Requests)
  BY Rowed DEF RowTypes
<1>2. card \in 0..MaxCards /\ requests[r].replays \in BOOLEAN
  BY Fields, InterruptBounds DEF CardIds
<1>3. [requests[r] EXCEPT !.pc = pc, !.follow = card]
        = [requests[r] EXCEPT !.pc = pc, !.follow = card, !.replays = requests[r].replays]
  BY <1>1 DEF Requests
<1>4. DOMAIN requests = 1..Len(requests) /\ requests \in [1..Len(requests) -> Requests]
  BY <1>1, Indices, SeqDef
<1>5. requests' = [requests EXCEPT ![r] = [requests[r] EXCEPT !.pc = pc, !.follow = card]]
  BY <1>1, <1>4 DEF StepAsking, Requests
<1> QED
  BY <1>2, <1>3, <1>5, RowChange

LEMMA ReplayMoves ==
  ASSUME RowTypes, NEW r \in DOMAIN requests,
         requests' = [requests EXCEPT ![r].pc = "answered", ![r].replays = TRUE]
  PROVE  Moves(r, "answered", requests[r].follow)
<1>1. requests[r] \in Requests /\ requests \in Seq(Requests)
  BY Rowed DEF RowTypes
<1>2. requests[r].follow \in 0..MaxCards
  BY Fields
<1>3. [requests[r] EXCEPT !.pc = "answered", !.replays = TRUE]
        = [requests[r] EXCEPT !.pc = "answered", !.follow = requests[r].follow,
                              !.replays = TRUE]
  BY <1>1 DEF Requests
<1>4. requests' = [requests EXCEPT ![r] = [requests[r] EXCEPT !.pc = "answered",
                                                              !.replays = TRUE]]
  BY <1>1, Indices, SeqDef DEF Requests
<1> QED
  BY <1>2, <1>3, <1>4, RowChange DEF Pcs

LEMMA SameCards ==
  ASSUME RowTypes, cards' = cards
  PROVE  CardsSame({})
BY DEF RowTypes, CardsSame, CardsKept

LEMMA Resting ==
  ASSUME RowTypes, NEW w \in DOMAIN cards, NEW st \in {"completed", "cancelled"},
         cards' = [cards EXCEPT ![w].state = st]
  PROVE  CardsSame({w}) /\ cards'[w].state = st
<1> DEFINE c == [cards[w] EXCEPT !.state = st]
<1>1. cards \in Seq(Card) /\ cards[w] \in Card
  BY Rowed DEF RowTypes
<1>2. c \in Card /\ c.state = st /\ c.kind = cards[w].kind /\ c.subject = cards[w].subject
  BY <1>1 DEF Card
<1>3. cards' = [cards EXCEPT ![w] = c]
  OBVIOUS
<1> HIDE DEF c
<1>4. /\ cards' \in Seq(Card) /\ Len(cards') = Len(cards) /\ DOMAIN cards' = DOMAIN cards
      /\ cards'[w] = c /\ \A v \in DOMAIN cards : v # w => cards'[v] = cards[v]
  BY <1>1, <1>2, <1>3, Excepted
<1>5. Len(cards') <= MaxCards
  BY <1>4 DEF RowTypes
<1> QED
  BY <1>2, <1>4, <1>5 DEF CardsSame, CardsKept

LEMMA RetiredCards ==
  ASSUME RowTypes, NEW ws
  PROVE  /\ Retired(ws) \in Seq(Card) /\ Len(Retired(ws)) = Len(cards)
         /\ DOMAIN Retired(ws) = DOMAIN cards
         /\ \A w \in DOMAIN cards :
               /\ Retired(ws)[w].kind = cards[w].kind
               /\ Retired(ws)[w].subject = cards[w].subject
               /\ w \notin ws => Retired(ws)[w] = cards[w]
               /\ Retired(ws)[w].state = "pending" => cards[w].state = "pending"
<1>1. cards \in Seq(Card)
  BY DEF RowTypes
<1>2. \A w \in DOMAIN cards :
         /\ Retired(ws)[w] \in Card
         /\ Retired(ws)[w].kind = cards[w].kind
         /\ Retired(ws)[w].subject = cards[w].subject
         /\ w \notin ws => Retired(ws)[w] = cards[w]
         /\ Retired(ws)[w].state = "pending" => cards[w].state = "pending"
  <2> TAKE w \in DOMAIN cards
  <2>1. cards[w] \in Card
    BY Rowed
  <2>2. Retired(ws)[w] = IF w \in ws /\ Pending(w)
                         THEN [cards[w] EXCEPT !.state = "cancelled"] ELSE cards[w]
    BY DEF Retired
  <2> QED
    BY <2>1, <2>2 DEF Card
<1>3. Retired(ws) = [w \in DOMAIN cards |-> Retired(ws)[w]]
  BY DEF Retired
<1> HIDE DEF Retired
<1> QED
  BY <1>1, <1>2, <1>3, Mapped

LEMMA RetireKeeps ==
  ASSUME RowTypes, NEW ws, cards' = Retired(ws)
  PROVE  CardsSame(ws)
<1>1. Len(cards) <= MaxCards
  BY DEF RowTypes
<1> QED
  BY <1>1, RetiredCards DEF CardsSame, CardsKept

\* Appending to the cards, some of which were retired in the same commit.
LEMMA CardAppended ==
  ASSUME RowTypes, NEW ws, NEW c,
         NEW kind \in Kinds, NEW subject \in CardIds, NewCard \in CardIds,
         c \in Seq(Card), Len(c) = Len(cards), DOMAIN c = DOMAIN cards,
         \A w \in DOMAIN cards :
            /\ c[w].kind = cards[w].kind /\ c[w].subject = cards[w].subject
            /\ w \notin ws => c[w] = cards[w]
            /\ c[w].state = "pending" => cards[w].state = "pending",
         cards' = Append(c, [kind |-> kind, subject |-> subject, state |-> "pending"])
  PROVE  CardAdded(ws, kind, subject)
<1> DEFINE e == [kind |-> kind, subject |-> subject, state |-> "pending"]
<1>1. e \in Card
  BY DEF Card
<1> HIDE DEF e
<1>2. /\ cards' \in Seq(Card) /\ Len(cards') = Len(c) + 1
      /\ DOMAIN cards' = DOMAIN c \cup {Len(c) + 1} /\ Len(c) + 1 \notin DOMAIN c
      /\ \A i \in DOMAIN c : cards'[i] = c[i]
      /\ cards'[Len(c) + 1] = e
  <2>1. cards' = Append(c, e)
    BY DEF e
  <2> QED
    BY <1>1, <2>1, Appended
<1>3. Len(c) + 1 = NewCard /\ Len(cards') <= MaxCards
  BY <1>2, Rowed DEF NewCard, CardIds
<1>4. \A w \in DOMAIN cards : w < NewCard
  BY Rowed DEF NewCard
<1>5. CardsKept(ws)
  BY <1>2, <1>3 DEF CardsKept
<1> QED
  BY <1>2, <1>3, <1>4, <1>5 DEF CardAdded, e

LEMMA WithCardAdds ==
  ASSUME RowTypes, NEW kind \in Kinds, NEW subject \in CardIds, NewCard \in CardIds,
         cards' = WithCard(kind, subject)
  PROVE  CardAdded({}, kind, subject)
BY CardAppended DEF WithCard, RowTypes

LEMMA UploadAdds ==
  ASSUME RowTypes, NEW ws, NewCard \in CardIds,
         cards' = Append(Retired(ws),
                         [kind |-> "import", subject |-> NewCard, state |-> "pending"])
  PROVE  CardAdded(ws, "import", NewCard)
<1>1. "import" \in Kinds
  BY DEF Kinds
<1>2. /\ Retired(ws) \in Seq(Card) /\ Len(Retired(ws)) = Len(cards)
      /\ DOMAIN Retired(ws) = DOMAIN cards
      /\ \A w \in DOMAIN cards :
            /\ Retired(ws)[w].kind = cards[w].kind
            /\ Retired(ws)[w].subject = cards[w].subject
            /\ w \notin ws => Retired(ws)[w] = cards[w]
            /\ Retired(ws)[w].state = "pending" => cards[w].state = "pending"
  BY RetiredCards
<1> QED
  BY <1>1, <1>2, CardAppended

LEMMA DropKeeps ==
  ASSUME RowTypes, NEW ws, drafts' = DraftsDropped(ws)
  PROVE  DraftsKept
BY DEF RowTypes, DraftsKept, DraftsDropped, DraftStates

\* Open questions close as superseded; nothing else of any question changes.
QuestionsSuperseded ==
    /\ questions' \in [CardIds -> Question]
    /\ \A w \in CardIds :
          /\ questions[w].status # "open" => questions'[w] = questions[w]
          /\ questions[w].status = "open" =>
                questions'[w].status = "cancelled" /\ questions'[w].by = questions[w].by

LEMMA SupersededQuestions ==
  ASSUME RowTypes, questions' = Superseded(OpenQuestions)
  PROVE  QuestionsSuperseded
<1>1. \A w \in CardIds :
         /\ questions'[w] \in Question
         /\ questions[w].status # "open" => questions'[w] = questions[w]
         /\ questions[w].status = "open" =>
               questions'[w].status = "cancelled" /\ questions'[w].by = questions[w].by
  <2> TAKE w \in CardIds
  <2>1. questions[w] \in Question
    BY Rowed
  <2>2. questions'[w] = IF questions[w].status = "open"
                        THEN [questions[w] EXCEPT !.status = "cancelled", !.answer = "none"]
                        ELSE questions[w]
    BY DEF Superseded, OpenQuestions
  <2> QED
    BY <2>1, <2>2 DEF Question
<1>2. questions' = [w \in CardIds |-> questions'[w]]
  BY DEF Superseded
<1> QED
  BY <1>1, <1>2 DEF QuestionsSuperseded

-----------------------------------------------------------------------------
(* The steps, by what they change.                                         *)
Replies(r) ==
    /\ requests[r].kind = "message" /\ requests[r].pc = "queued"
    /\ UNCHANGED <<questions, ledger>>
    /\ \/ Moves(r, "answered", requests[r].follow) /\ UNCHANGED <<cards, drafts>>
       \/ /\ Moves(r, "answered", NewCard) /\ DraftsKept
          /\ \E kind \in Kinds : CardAdded({}, kind, NewCard)

Halts(r) ==
    /\ Moves(r, "failed", requests[r].follow)
    /\ UNCHANGED <<cards, questions, ledger, drafts>>

Loads(r) ==
    /\ requests[r].kind \in {"action", "resume"} /\ requests[r].pc = "queued"
    /\ \E w \in DOMAIN cards :
          /\ requests[r].targets = {w} /\ Pending(w)
          /\ requests[r].kind = "resume" => questions[w].status = "open" /\ OpenQuestions = {w}
    /\ Moves(r, "loaded", requests[r].follow)
    /\ UNCHANGED <<cards, questions, ledger, drafts>>

Replays(r) ==
    /\ requests[r].kind = "resume" /\ requests[r].pc = "queued"
    /\ requests[r].targets \subseteq ClosedQuestions
    /\ Moves(r, "answered", requests[r].follow)
    /\ UNCHANGED <<cards, questions, ledger, drafts>>

Posts(r, w, s) ==
    /\ Moves(r, "acted", requests[r].follow)
    /\ UNCHANGED <<cards, questions>>
    /\ ledger' \in [CardIds -> Nat] /\ drafts' \in [CardIds -> DraftStates]
    /\ \A v \in CardIds : v # s => ledger'[v] = ledger[v] /\ drafts'[v] = drafts[v]
    /\ \/ /\ cards[w].kind \in {"goal", "clarify"} /\ ledger'[s] = ledger[s] + 1
          /\ UNCHANGED drafts
       \/ cards[w].kind = "import" /\ ledger'[s] = 1 /\ UNCHANGED drafts
       \/ cards[w].kind \in DraftKinds /\ ledger[s] = 0 /\ ledger'[s] = 1

Adds(r, w, s) ==
    /\ Moves(r, "acted", NewCard) /\ DraftsKept
    /\ UNCHANGED <<questions, ledger>>
    /\ \/ \E kind \in Kinds : CardAdded({}, kind, NewCard)
       \/ cards[w].kind \in DraftKinds /\ \E kind \in DraftKinds : CardAdded({}, kind, s)

Settles(r) ==
    /\ Moves(r, "acted", requests[r].follow) /\ DraftsKept
    /\ UNCHANGED <<cards, questions, ledger>>

Acts(r) ==
    /\ requests[r].pc = "loaded" /\ requests[r].answer = "approve"
    /\ \E w \in DOMAIN cards :
          /\ requests[r].targets = {w}
          /\ Posts(r, w, cards[w].subject) \/ Adds(r, w, cards[w].subject) \/ Settles(r)

Receives(r) ==
    /\ requests[r].pc = "acted"
    /\ Moves(r, IF requests[r].kind = "resume" THEN "receipted" ELSE "answered",
             requests[r].follow)
    /\ UNCHANGED <<questions, ledger, drafts>>
    /\ \E w \in DOMAIN cards : /\ requests[r].targets = {w} /\ CardsSame({w})
                               /\ cards'[w].state = "completed"

Closes(r) ==
    /\ requests[r].kind = "resume" /\ requests[r].pc \in Busy
    /\ Moves(r, "answered", requests[r].follow) /\ DraftsKept /\ UNCHANGED ledger
    /\ questions' \in [CardIds -> Question]
    /\ \E w \in DOMAIN cards :
          /\ requests[r].targets = {w} /\ CardsSame({w})
          /\ cards'[w].state = "pending" => requests[r].pc = "receipted"
          /\ questions'[w].status \in {"resolved", "cancelled"} /\ questions'[w].by = r
          /\ requests[r].pc # "loaded" =>
                questions'[w].status = "resolved" /\ questions'[w].answer = "approve"
          /\ \A v \in CardIds : v # w => questions'[v] = questions[v]

Opens(r) ==
    /\ requests[r].pc = "answered" /\ requests[r].follow \in CardIds
    /\ Moves(r, "opened", requests[r].follow)
    /\ UNCHANGED <<cards, ledger, drafts>>
    /\ questions' \in [CardIds -> Question]
    /\ questions'[requests[r].follow].status = "open"
    /\ questions'[requests[r].follow].by = 0 /\ questions'[requests[r].follow].asker = r
    /\ \A v \in CardIds : v # requests[r].follow => questions'[v] = questions[v]

Finishes(r) ==
    /\ requests[r].pc \in {"opened", "answered"}
    /\ Moves(r, "done", requests[r].follow)
    /\ UNCHANGED <<cards, questions, ledger, drafts>>

Executes(r) ==
    /\ Executing(r)
    /\ \/ Replies(r) \/ Halts(r) \/ Loads(r) \/ Replays(r) \/ Acts(r) \/ Receives(r)
       \/ Closes(r) \/ Opens(r) \/ Finishes(r)

Admits(kind, targets, answer) ==
    /\ requests' \in Seq(Requests) /\ Len(requests') = Len(requests) + 1
    /\ DOMAIN requests' = DOMAIN requests \cup {Len(requests')}
    /\ \A q \in DOMAIN requests :
          /\ q < Len(requests') /\ requests'[q] = requests[q]
          /\ requests[q].pc \notin Ended => requests'[Len(requests')].behind >= q
    /\ requests'[Len(requests')].kind = kind /\ requests'[Len(requests')].targets = targets
    /\ requests'[Len(requests')].answer = answer
    /\ requests'[Len(requests')].pc = "queued" /\ requests'[Len(requests')].follow = 0
    /\ UNCHANGED ledger

Arrives(kind, targets, answer) ==
    /\ Admits(kind, targets, answer)
    /\ UNCHANGED <<cards, questions, drafts>>
    /\ \/ kind = "message" /\ OpenQuestions = {} /\ targets = {}
       \/ kind = "protocol_error"
       \/ kind = "action" /\ OpenQuestions = {} /\ answer = "approve"
          /\ \E w \in CardIds : targets = {w}
       \/ kind = "resume" /\ \A w \in targets : questions[w].status # "none"
    /\ targets \subseteq DOMAIN cards

Displaces(w) ==
    /\ Admits("action", {w}, "approve") /\ w \in DOMAIN cards
    /\ CardsSame(OpenQuestions) /\ QuestionsSuperseded /\ DraftsKept

Uploads ==
    /\ CardAdded(OpenQuestions, "import", NewCard) /\ QuestionsSuperseded /\ DraftsKept
    /\ UNCHANGED <<ledger, requests>>

-----------------------------------------------------------------------------
(* Every step is one of these.                                             *)
LEMMA TargetIs ==
  ASSUME RowTypes, RequestSound, NEW r \in DOMAIN requests,
         requests[r].pc \in Busy
  PROVE  \E w \in DOMAIN cards : requests[r].targets = {w} /\ Target(r) = w
BY DEF RequestSound, Target

LEMMA RowsKept ==
  ASSUME RowTypes, NEW r, NEW pc, NEW f, Moves(r, pc, f), cards' \in Seq(Card),
         Len(cards') <= MaxCards, questions' \in [CardIds -> Question],
         ledger' \in [CardIds -> Nat], drafts' \in [CardIds -> DraftStates],
         faults' \in 0..MaxFaults, uploads' = uploads
  PROVE  RowTypes'
BY DEF RowTypes, Moves

LEMMA HaltHalts ==
  ASSUME RowTypes, NEW r \in DOMAIN requests,
         Step(r, "failed"), UNCHANGED <<cards, questions, ledger, drafts, uploads>>,
         faults' \in 0..MaxFaults
  PROVE  Halts(r) /\ RowTypes'
<1>1. Halts(r)
  BY StepMoves DEF Halts, Pcs, Ended
<1>2. RowTypes'
  BY <1>1, RowsKept DEF RowTypes, Halts
<1> QED
  BY <1>1, <1>2

LEMMA ReplyReplies ==
  ASSUME RowTypes, NEW r \in DOMAIN requests, Reply(r)
  PROVE  Replies(r) /\ RowTypes'
<1>1. /\ requests[r].kind = "message" /\ requests[r].pc = "queued"
      /\ UNCHANGED <<questions, ledger, faults, uploads>>
  BY DEF Reply, At
<1>2. CASE Step(r, "answered") /\ UNCHANGED <<cards, drafts>>
  <2>1. Moves(r, "answered", requests[r].follow)
    BY <1>2, StepMoves DEF Pcs
  <2>2. RowTypes'
    BY <1>1, <1>2, <2>1, RowsKept DEF RowTypes
  <2> QED
    BY <1>1, <1>2, <2>1, <2>2 DEF Replies
<1>3. ASSUME NEW kind \in Kinds \ {"import"}, NewCard \in CardIds,
             cards' = WithCard(kind, NewCard),
             drafts' = [drafts EXCEPT ![NewCard] =
                            IF kind \in DraftKinds THEN "open" ELSE "none"],
             StepAsking(r, "answered", NewCard)
      PROVE  Replies(r) /\ RowTypes'
  <2>1. Moves(r, "answered", NewCard)
    BY <1>3, AskMoves DEF Pcs
  <2>2. CardAdded({}, kind, NewCard)
    BY <1>3, WithCardAdds
  <2>3. DraftsKept
    BY <1>3 DEF DraftsKept, RowTypes, DraftStates
  <2>4. RowTypes'
    BY <1>1, <2>1, <2>2, <2>3, RowsKept DEF RowTypes, CardAdded, CardsKept, DraftsKept
  <2> QED
    BY <1>1, <2>1, <2>2, <2>3, <2>4 DEF Replies
<1> QED
  BY <1>2, <1>3 DEF Reply

LEMMA LoadLoads ==
  ASSUME RowTypes, RequestSound, NEW r \in DOMAIN requests, LoadAction(r) \/ LoadResume(r)
  PROVE  (Loads(r) \/ Replays(r) \/ Halts(r)) /\ RowTypes'
<1>1. ASSUME Halt(r) PROVE Halts(r) /\ RowTypes'
  BY <1>1, HaltHalts DEF Halt, RowTypes
<1>2. ASSUME LoadAction(r), ~Halt(r) PROVE Loads(r) /\ RowTypes'
  <2>1. /\ requests[r].kind = "action" /\ requests[r].pc = "queued" /\ Pending(Target(r))
        /\ Step(r, "loaded") /\ UNCHANGED <<cards, questions, ledger, drafts, faults, uploads>>
    BY <1>2 DEF LoadAction, At
  <2>2. PICK w \in CardIds : requests[r].targets = {w}
    BY <2>1 DEF RequestSound
  <2>3. Target(r) = w /\ w \in DOMAIN cards
    BY <2>1, <2>2 DEF Target, Pending
  <2>4. Moves(r, "loaded", requests[r].follow)
    BY <2>1, StepMoves DEF Pcs
  <2>5. RowTypes'
    BY <2>1, <2>4, RowsKept DEF RowTypes
  <2> QED
    BY <2>1, <2>2, <2>3, <2>4, <2>5 DEF Loads
<1>3. ASSUME LoadResume(r), ~Halt(r) PROVE (Loads(r) \/ Replays(r)) /\ RowTypes'
  <2>1. requests[r].kind = "resume" /\ requests[r].pc = "queued"
    BY <1>3 DEF LoadResume, At
  <2>2. CASE /\ requests[r].targets \cap OpenQuestions = {}
             /\ requests' = [requests EXCEPT ![r].pc = "answered", ![r].replays = TRUE]
             /\ UNCHANGED <<cards, questions, ledger, drafts, faults, uploads>>
    <3>1. Moves(r, "answered", requests[r].follow)
      BY <2>2, ReplayMoves
    <3>2. \A w \in requests[r].targets : w \in CardIds /\ questions[w].status # "none"
      BY <2>1, Fields DEF RequestSound
    <3>3. \A w \in CardIds : questions[w] \in Question
      BY Rowed
    <3>4. requests[r].targets \subseteq ClosedQuestions
      BY <2>2, <3>2, <3>3 DEF ClosedQuestions, OpenQuestions, Question
    <3>5. RowTypes'
      BY <2>2, <3>1, RowsKept DEF RowTypes
    <3> QED
      BY <2>1, <2>2, <3>1, <3>4, <3>5 DEF Replays
  <2>3. CASE /\ requests[r].targets = OpenQuestions /\ Answerable(Target(r))
             /\ Step(r, "loaded")
             /\ UNCHANGED <<cards, questions, ledger, drafts, faults, uploads>>
    <3>1. PICK w : requests[r].targets = {w} /\ w = Target(r) /\ Pending(w)
      BY <2>3 DEF Answerable
    <3>2. Target(r) = w /\ w \in DOMAIN cards /\ Pending(w)
      BY <2>3, <3>1 DEF Target, Pending
    <3>3. questions[w].status = "open" /\ OpenQuestions = {w}
      BY <2>3, <3>1 DEF OpenQuestions
    <3>4. Moves(r, "loaded", requests[r].follow)
      BY <2>3, StepMoves DEF Pcs
    <3>5. RowTypes'
      BY <2>3, <3>4, RowsKept DEF RowTypes
    <3> QED
      BY <2>1, <2>3, <3>1, <3>2, <3>3, <3>4, <3>5 DEF Loads
  <2> QED
    BY <1>3, <2>2, <2>3 DEF LoadResume
<1> QED
  BY <1>1, <1>2, <1>3

\* The card an executing request approves, and the subject it posts.
LEMMA ApprovedTarget ==
  ASSUME RowTypes, RequestSound, SubjectSound, NEW r \in DOMAIN requests, Approving(r)
  PROVE  /\ requests[r].pc = "loaded" /\ requests[r].answer = "approve"
         /\ \E w \in DOMAIN cards : /\ requests[r].targets = {w} /\ Target(r) = w
                                    /\ cards[w].subject \in CardIds
                                    /\ cards[w].subject \in DOMAIN cards
<1>1. requests[r].pc = "loaded" /\ requests[r].answer = "approve"
  BY DEF Approving
<1>2. requests[r].pc \in Busy
  BY <1>1 DEF Busy
<1> QED
  BY <1>1, <1>2, TargetIs, Rowed DEF SubjectSound

LEMMA PostPosts ==
  ASSUME RowTypes, RequestSound, SubjectSound, NEW r \in DOMAIN requests,
         ContributeGoal(r) \/ CommitImport(r)
  PROVE  Acts(r) /\ RowTypes'
<1>1. Approving(r) /\ Step(r, "acted") /\ UNCHANGED <<cards, questions, drafts, faults, uploads>>
  BY DEF ContributeGoal, CommitImport
<1>2. PICK w \in DOMAIN cards : /\ requests[r].targets = {w} /\ Target(r) = w
                                /\ cards[w].subject \in CardIds
  BY <1>1, ApprovedTarget
<1>3. requests[r].pc = "loaded" /\ requests[r].answer = "approve"
  BY <1>1, ApprovedTarget
<1>4. Moves(r, "acted", requests[r].follow)
  BY <1>1, StepMoves DEF Pcs
<1> DEFINE s == cards[w].subject
<1>5. \/ cards[w].kind = "goal" /\ ledger' = [ledger EXCEPT ![s] = ledger[s] + 1]
      \/ cards[w].kind = "import" /\ ledger' = [ledger EXCEPT ![s] = 1]
  BY <1>2 DEF ContributeGoal, CommitImport, Post
<1>6. s \in CardIds /\ ledger \in [CardIds -> Nat] /\ drafts' \in [CardIds -> DraftStates]
  BY <1>1, <1>2 DEF RowTypes
<1>7. ledger' \in [CardIds -> Nat]
  BY <1>5, <1>6
<1>8. Posts(r, w, s)
  BY <1>1, <1>4, <1>5, <1>6, <1>7 DEF Posts
<1>9. RowTypes'
  BY <1>1, <1>4, <1>7, RowsKept DEF RowTypes
<1> QED
  BY <1>2, <1>3, <1>8, <1>9 DEF Acts

LEMMA SaveSaves ==
  ASSUME RowTypes, NEW r \in DOMAIN requests, NEW w \in DOMAIN cards,
         cards[w].kind \in DraftKinds, cards[w].subject \in CardIds,
         NEW committed \in BOOLEAN, Saves(r, cards[w].subject, committed)
  PROVE  /\ Posts(r, w, cards[w].subject) \/ Settles(r) \/ Halts(r)
         /\ RowTypes'
<1> DEFINE s == cards[w].subject
<1>1. UNCHANGED <<cards, questions, faults, uploads>>
  BY DEF Saves
<1>2. s \in CardIds /\ ledger \in [CardIds -> Nat] /\ drafts \in [CardIds -> DraftStates]
  BY DEF RowTypes
<1>3. CASE Step(r, "acted") /\ UNCHANGED <<ledger, drafts>>
  <2>1. Moves(r, "acted", requests[r].follow)
    BY <1>3, StepMoves DEF Pcs
  <2>2. Settles(r)
    BY <1>1, <1>2, <1>3, <2>1 DEF Settles, DraftsKept
  <2>3. RowTypes'
    BY <1>1, <1>3, <2>1, RowsKept DEF RowTypes
  <2> QED
    BY <2>2, <2>3
<1>4. CASE ledger[s] = 0 /\ Post(s) /\ drafts' = [drafts EXCEPT ![s] = "committed"]
           /\ Step(r, "acted")
  <2>1. Moves(r, "acted", requests[r].follow)
    BY <1>4, StepMoves DEF Pcs
  <2>2. ledger' \in [CardIds -> Nat] /\ ledger'[s] = 1
        /\ \A v \in CardIds : v # s => ledger'[v] = ledger[v]
    BY <1>2, <1>4 DEF Post
  <2>3. drafts' \in [CardIds -> DraftStates]
        /\ \A v \in CardIds : v # s => drafts'[v] = drafts[v]
    BY <1>2, <1>4 DEF DraftStates
  <2>4. Posts(r, w, s)
    BY <1>1, <1>4, <2>1, <2>2, <2>3 DEF Posts
  <2>5. RowTypes'
    BY <1>1, <2>1, <2>2, <2>3, RowsKept DEF RowTypes
  <2> QED
    BY <2>4, <2>5
<1>5. CASE Step(r, "failed") /\ UNCHANGED <<ledger, drafts>>
  <2>1. faults' \in 0..MaxFaults
    BY <1>1 DEF RowTypes
  <2> QED
    BY <1>1, <1>5, <2>1, HaltHalts
<1> QED
  BY <1>3, <1>4, <1>5 DEF Saves

LEMMA AskAdds ==
  ASSUME RowTypes, NEW r \in DOMAIN requests, NEW w \in DOMAIN cards,
         NEW kind \in Kinds, NEW subject \in CardIds,
         \/ subject = NewCard
         \/ /\ subject = cards[w].subject /\ cards[w].kind \in DraftKinds
            /\ kind \in DraftKinds,
         AskNext(r, kind, subject), DraftsKept,
         UNCHANGED <<questions, ledger, faults, uploads>>
  PROVE  Adds(r, w, cards[w].subject) /\ RowTypes'
<1>1. NewCard \in CardIds /\ cards' = WithCard(kind, subject) /\ StepAsking(r, "acted", NewCard)
  BY DEF AskNext
<1>2. CardAdded({}, kind, subject)
  BY <1>1, WithCardAdds
<1>3. Moves(r, "acted", NewCard)
  BY <1>1, AskMoves DEF Pcs
<1>4. RowTypes'
  BY <1>2, <1>3, RowsKept DEF RowTypes, CardAdded, CardsKept, DraftsKept
<1> QED
  BY <1>2, <1>3, <1>4 DEF Adds

LEMMA DraftActs ==
  ASSUME RowTypes, RequestSound, SubjectSound, NEW r \in DOMAIN requests,
         ConfirmDraft(r) \/ ChooseField(r) \/ CancelDraft(r)
  PROVE  (Acts(r) \/ Halts(r)) /\ RowTypes'
<1>1. Approving(r) /\ cards[Target(r)].kind \in DraftKinds
  BY DEF ConfirmDraft, ChooseField, CancelDraft, DraftKinds
<1>2. PICK w \in DOMAIN cards : /\ requests[r].targets = {w} /\ Target(r) = w
                                /\ cards[w].subject \in CardIds
  BY <1>1, ApprovedTarget
<1>3. requests[r].pc = "loaded" /\ requests[r].answer = "approve"
  BY <1>1, ApprovedTarget
<1> DEFINE s == cards[w].subject
<1>4. /\ cards[w].kind \in DraftKinds /\ s \in CardIds /\ DraftKinds \subseteq Kinds
      /\ drafts \in [CardIds -> DraftStates] /\ "choose" \in DraftKinds
  BY <1>1, <1>2 DEF RowTypes, DraftKinds, Kinds
<1>5. ASSUME NEW committed \in BOOLEAN, Saves(r, s, committed)
      PROVE  (Acts(r) \/ Halts(r)) /\ RowTypes'
  <2>1. (Posts(r, w, s) \/ Settles(r) \/ Halts(r)) /\ RowTypes'
    BY <1>2, <1>4, <1>5, SaveSaves
  <2> QED
    BY <1>2, <1>3, <2>1 DEF Acts
<1>6. ASSUME NEW kind \in DraftKinds, AskNext(r, kind, s), DraftsKept,
             UNCHANGED <<questions, ledger, faults, uploads>>
      PROVE  Acts(r) /\ RowTypes'
  <2>1. Adds(r, w, s) /\ RowTypes'
    BY <1>2, <1>4, <1>6, AskAdds
  <2> QED
    BY <1>2, <1>3, <2>1 DEF Acts
<1>7. CASE ConfirmDraft(r)
  <2>1. \/ Saves(r, s, drafts[s] = "committed")
        \/ AskNext(r, "choose", s) /\ UNCHANGED <<questions, ledger, drafts, faults, uploads>>
    BY <1>2, <1>7 DEF ConfirmDraft
  <2>2. UNCHANGED drafts => DraftsKept
    BY <1>4 DEF DraftsKept
  <2> QED
    BY <1>4, <1>5, <1>6, <2>1, <2>2
<1>8. CASE ChooseField(r)
  <2>1. \/ Saves(r, s, FALSE)
        \/ \E kind \in DraftKinds :
              /\ AskNext(r, kind, s) /\ drafts' = [drafts EXCEPT ![s] = "open"]
              /\ UNCHANGED <<questions, ledger, faults, uploads>>
    BY <1>2, <1>8 DEF ChooseField
  <2>2. drafts' = [drafts EXCEPT ![s] = "open"] => DraftsKept
    BY <1>4 DEF DraftsKept, DraftStates
  <2> QED
    BY <1>5, <1>6, <2>1, <2>2
<1>9. CASE CancelDraft(r)
  <2>1. /\ UNCHANGED <<cards, questions, ledger, faults, uploads>>
        /\ \/ Step(r, "failed") /\ UNCHANGED drafts
           \/ Step(r, "acted") /\ drafts' = [drafts EXCEPT ![s] = "cancelled"]
    BY <1>2, <1>9 DEF CancelDraft
  <2>2. CASE Step(r, "failed") /\ UNCHANGED drafts
    <3>1. faults' \in 0..MaxFaults
      BY <2>1 DEF RowTypes
    <3> QED
      BY <2>1, <2>2, <3>1, HaltHalts
  <2>3. CASE Step(r, "acted") /\ drafts' = [drafts EXCEPT ![s] = "cancelled"]
    <3>1. Moves(r, "acted", requests[r].follow)
      BY <2>3, StepMoves DEF Pcs
    <3>2. DraftsKept
      BY <1>4, <2>3 DEF DraftsKept, DraftStates
    <3>3. RowTypes'
      BY <2>1, <3>1, <3>2, RowsKept DEF RowTypes, DraftsKept
    <3> QED
      BY <1>2, <1>3, <2>1, <3>1, <3>2, <3>3 DEF Acts, Settles
  <2> QED
    BY <2>1, <2>2, <2>3
<1> QED
  BY <1>7, <1>8, <1>9

LEMMA ClarificationActs ==
  ASSUME RowTypes, RequestSound, SubjectSound, NEW r \in DOMAIN requests,
         ResolveClarification(r)
  PROVE  Acts(r) /\ RowTypes'
<1>1. Approving(r) /\ cards[Target(r)].kind = "clarify" /\ UNCHANGED <<questions, faults, uploads>>
  BY DEF ResolveClarification
<1>2. PICK w \in DOMAIN cards : /\ requests[r].targets = {w} /\ Target(r) = w
                                /\ cards[w].subject \in CardIds
  BY <1>1, ApprovedTarget
<1>3. requests[r].pc = "loaded" /\ requests[r].answer = "approve"
  BY <1>1, ApprovedTarget
<1> DEFINE s == cards[w].subject
<1>4. /\ cards[w].kind = "clarify" /\ s \in CardIds /\ ledger \in [CardIds -> Nat]
      /\ drafts \in [CardIds -> DraftStates]
  BY <1>1, <1>2 DEF RowTypes
<1>5. CASE Step(r, "acted") /\ UNCHANGED <<cards, drafts>> /\ (Post(s) \/ UNCHANGED ledger)
  <2>1. Moves(r, "acted", requests[r].follow)
    BY <1>5, StepMoves DEF Pcs
  <2>2. ledger' \in [CardIds -> Nat]
    BY <1>4, <1>5 DEF Post
  <2>3. Posts(r, w, s) \/ Settles(r)
    BY <1>1, <1>4, <1>5, <2>1, <2>2 DEF Posts, Settles, Post, DraftsKept
  <2>4. RowTypes'
    BY <1>1, <1>5, <2>1, <2>2, RowsKept DEF RowTypes
  <2> QED
    BY <1>2, <1>3, <2>3, <2>4 DEF Acts
<1>6. ASSUME NEW kind \in {"confirm", "goal"}, AskNext(r, kind, NewCard), UNCHANGED ledger,
             drafts' = [drafts EXCEPT ![NewCard] = IF kind = "confirm" THEN "open" ELSE "none"]
      PROVE  Acts(r) /\ RowTypes'
  <2>1. DraftsKept
    BY <1>4, <1>6 DEF DraftsKept, DraftStates
  <2>2. kind \in Kinds /\ NewCard \in CardIds
    BY <1>6 DEF Kinds, AskNext
  <2>3. Adds(r, w, s) /\ RowTypes'
    BY <1>1, <1>2, <1>6, <2>1, <2>2, AskAdds
  <2> QED
    BY <1>2, <1>3, <2>3 DEF Acts
<1> QED
  BY <1>2, <1>5, <1>6 DEF ResolveClarification

LEMMA ReceiptReceives ==
  ASSUME RowTypes, RequestSound, NEW r \in DOMAIN requests, Receipt(r)
  PROVE  Receives(r) /\ RowTypes'
<1>1. /\ requests[r].pc = "acted" /\ requests[r].pc \in Busy
      /\ UNCHANGED <<questions, ledger, drafts, faults, uploads>>
      /\ cards' = [cards EXCEPT ![Target(r)].state = "completed"]
      /\ Step(r, IF requests[r].kind = "resume" THEN "receipted" ELSE "answered")
  BY DEF Receipt, Busy, Completed
<1>2. PICK w \in DOMAIN cards : requests[r].targets = {w} /\ Target(r) = w
  BY <1>1, TargetIs
<1>3. CardsSame({w}) /\ cards'[w].state = "completed"
  BY <1>1, <1>2, Resting
<1>4. Moves(r, IF requests[r].kind = "resume" THEN "receipted" ELSE "answered",
            requests[r].follow)
  BY <1>1, StepMoves DEF Pcs
<1>5. RowTypes'
  BY <1>1, <1>3, <1>4, RowsKept DEF RowTypes, CardsSame, CardsKept
<1> QED
  BY <1>1, <1>2, <1>3, <1>4, <1>5 DEF Receives

\* An answered question names its resume; the other questions are as they were.
LEMMA AnswerCloses ==
  ASSUME RowTypes, NEW r \in DOMAIN requests, NEW w \in CardIds, Target(r) = w,
         NEW status \in {"resolved", "cancelled"}, questions' = Answered(r, status)
  PROVE  /\ questions' \in [CardIds -> Question]
         /\ questions'[w].status = status /\ questions'[w].by = r
         /\ status = "resolved" => questions'[w].answer = requests[r].answer
         /\ \A v \in CardIds : v # w => questions'[v] = questions[v]
<1> DEFINE a == IF status = "cancelled" THEN "none" ELSE requests[r].answer
           row == [questions[w] EXCEPT !.status = status, !.by = r, !.answer = a]
<1>1. /\ questions \in [CardIds -> Question] /\ questions[w] \in Question
      /\ r \in 0..MaxRequests /\ a \in Answers \cup {"none"}
  BY Rowed, Fields DEF RowTypes
<1>2. /\ row \in Question /\ row.status = status /\ row.by = r /\ row.answer = a
  BY <1>1 DEF Question
<1>3. questions' = [questions EXCEPT ![w] = row]
  BY <1>1 DEF Answered, Question
<1> HIDE DEF row
<1> QED
  BY <1>1, <1>2, <1>3

LEMMA CloseCloses ==
  ASSUME RowTypes, RequestSound, SubjectSound, NEW r \in DOMAIN requests,
         CloseQuestion(r) \/ CloseClarification(r) \/ Decline(r) \/ ChooseToCancel(r)
  PROVE  Closes(r) /\ RowTypes'
<1>1. /\ requests[r].kind = "resume" /\ requests[r].pc \in Busy
      /\ Step(r, "answered") /\ UNCHANGED <<ledger, faults, uploads>>
  BY DEF CloseQuestion, CloseClarification, Decline, ChooseToCancel, At, Busy
<1>2. PICK w \in DOMAIN cards : requests[r].targets = {w} /\ Target(r) = w
  BY <1>1, TargetIs
<1>3. w \in CardIds /\ cards[w].subject \in CardIds /\ drafts \in [CardIds -> DraftStates]
      /\ ledger' \in [CardIds -> Nat] /\ faults' \in 0..MaxFaults
  BY <1>1, Rowed DEF RowTypes
<1>4. Moves(r, "answered", requests[r].follow)
  BY <1>1, StepMoves DEF Pcs
<1>5. PICK status \in {"resolved", "cancelled"} :
         /\ questions' = Answered(r, status)
         /\ requests[r].pc # "loaded" => status = "resolved"
  BY DEF CloseQuestion, CloseClarification, Decline, ChooseToCancel, At
<1>6. /\ questions' \in [CardIds -> Question]
      /\ questions'[w].status = status /\ questions'[w].by = r
      /\ status = "resolved" => questions'[w].answer = requests[r].answer
      /\ \A v \in CardIds : v # w => questions'[v] = questions[v]
  BY <1>2, <1>3, <1>5, AnswerCloses
<1>7. requests[r].pc # "loaded" => requests[r].answer = "approve"
  BY <1>1 DEF RequestSound, Busy
<1>8. CardsSame({w}) /\ (cards'[w].state = "pending" => requests[r].pc = "receipted")
  <2>1. CASE CloseQuestion(r)
    <3>1. cards' = cards /\ requests[r].pc = "receipted"
      BY <2>1 DEF CloseQuestion, At
    <3>2. CardsSame({w})
      BY <3>1 DEF RowTypes, CardsSame, CardsKept
    <3> QED
      BY <3>1, <3>2
  <2>2. CASE ~CloseQuestion(r)
    <3>1. \E st \in {"completed", "cancelled"} : cards' = [cards EXCEPT ![w].state = st]
      BY <1>2, <2>2 DEF CloseClarification, Decline, ChooseToCancel, Completed
    <3> QED
      BY <3>1, Resting
  <2> QED
    BY <2>1, <2>2
<1>9. DraftsKept
  <2>1. \/ drafts' = drafts
        \/ drafts' = [drafts EXCEPT ![cards[w].subject] = "cancelled"]
    BY <1>2 DEF CloseQuestion, CloseClarification, Decline, ChooseToCancel
  <2> QED
    BY <1>3, <2>1 DEF DraftsKept, DraftStates
<1>10. RowTypes'
  BY <1>1, <1>3, <1>4, <1>6, <1>8, <1>9, RowsKept DEF CardsSame, CardsKept, DraftsKept
<1> QED
  BY <1>1, <1>2, <1>4, <1>6, <1>5, <1>7, <1>8, <1>9, <1>10 DEF Closes

LEMMA OpenOpens ==
  ASSUME RowTypes, FollowSound, NEW r \in DOMAIN requests, OpenQuestion(r)
  PROVE  Opens(r) /\ RowTypes'
<1> DEFINE f == requests[r].follow
           row == [status |-> "open", answer |-> "none", by |-> 0, asker |-> r,
                   at |-> Len(cards)]
<1>1. /\ requests[r].pc = "answered" /\ f # 0 /\ Step(r, "opened")
      /\ UNCHANGED <<cards, ledger, drafts, faults, uploads>>
      /\ questions' = [questions EXCEPT ![f] = row]
  BY DEF OpenQuestion, Asks
<1>2. /\ f \in CardIds /\ r \in 0..MaxRequests /\ Len(cards) \in 0..MaxCards
      /\ questions \in [CardIds -> Question] /\ 0 \in 0..MaxRequests
  BY <1>1, Rowed DEF FollowSound, RowTypes
<1>3. row \in Question
  BY <1>2 DEF Question
<1>4. /\ row.status = "open" /\ row.by = 0 /\ row.asker = r
  OBVIOUS
<1> HIDE DEF row
<1>5. /\ questions' \in [CardIds -> Question] /\ questions'[f] = row
      /\ \A v \in CardIds : v # f => questions'[v] = questions[v]
  BY <1>1, <1>2, <1>3
<1>6. Moves(r, "opened", f)
  BY <1>1, StepMoves DEF Pcs
<1>7. RowTypes'
  BY <1>1, <1>5, <1>6, RowsKept DEF RowTypes
<1> QED
  BY <1>1, <1>2, <1>4, <1>5, <1>6, <1>7 DEF Opens

LEMMA ExecuteExecutes ==
  ASSUME RowTypes, RequestSound, FollowSound, SubjectSound, NEW r \in DOMAIN requests,
         Execute(r) \/ Fail(r)
  PROVE  Executes(r) /\ RowTypes'
<1>1. Executing(r)
  BY DEF Execute, Fail, Reply, Reject, LoadAction, LoadResume, Act, Receipt, CloseQuestion,
     CloseClarification, Decline, ChooseToCancel, OpenQuestion, Finish, At, Approving,
     ContributeGoal, CommitImport, ConfirmDraft, ChooseField, CancelDraft,
     ResolveClarification, RefuseClarification
<1>2. CASE Reject(r) \/ RefuseClarification(r)
  BY <1>1, <1>2, HaltHalts DEF Reject, RefuseClarification, Halt, Executes, RowTypes
<1>3. CASE Fail(r)
  <2>1. faults' \in 0..MaxFaults
    BY <1>3, InterruptBounds DEF Fail, RowTypes
  <2> QED
    BY <1>1, <1>3, <2>1, HaltHalts DEF Fail, Executes
<1>4. CASE Finish(r)
  <2>1. Moves(r, "done", requests[r].follow) /\ UNCHANGED <<cards, questions, ledger, drafts>>
    BY <1>4, StepMoves DEF Finish, Pcs, Ended
  <2>2. RowTypes'
    BY <1>4, <2>1, RowsKept DEF RowTypes, Finish
  <2>3. Finishes(r)
    BY <1>4, <2>1 DEF Finishes, Finish
  <2> QED
    BY <1>1, <2>2, <2>3 DEF Executes
<1>5. CASE Reply(r)
  BY <1>1, <1>5, ReplyReplies DEF Executes
<1>6. CASE LoadAction(r) \/ LoadResume(r)
  BY <1>1, <1>6, LoadLoads DEF Executes
<1>7. CASE Act(r)
  BY <1>1, <1>2, <1>7, PostPosts, DraftActs, ClarificationActs DEF Executes, Act
<1>8. CASE Receipt(r)
  BY <1>1, <1>8, ReceiptReceives DEF Executes
<1>9. CASE CloseQuestion(r) \/ CloseClarification(r) \/ Decline(r) \/ ChooseToCancel(r)
  BY <1>1, <1>9, CloseCloses DEF Executes
<1>10. CASE OpenQuestion(r)
  BY <1>1, <1>10, OpenOpens DEF Executes
<1> QED
  BY <1>2, <1>3, <1>4, <1>5, <1>6, <1>7, <1>8, <1>9, <1>10 DEF Execute

\* Every set of natural numbers has a least, and below a bound a greatest.
LEMMA LeastNumber ==
  ASSUME NEW T, T \subseteq Nat, T # {}
  PROVE  \E m \in T : \A x \in T : m <= x
<1> DEFINE R == {p \in Nat \X Nat : p[1] < p[2]}
<1>1. IsWellFoundedOn(R, Nat)
  BY NatLessThanWellFounded DEF OpToRel
<1>2. ASSUME NEW x \in Nat, NEW y \in Nat, <<y, x>> \notin R PROVE x <= y
  <2>1. <<y, x>> \in Nat \X Nat /\ <<y, x>>[1] = y /\ <<y, x>>[2] = x
    OBVIOUS
  <2>2. ~(y < x)
    BY <1>2, <2>1
  <2> QED
    BY <2>2
<1> HIDE DEF R
<1>3. PICK m \in T : \A y \in T : ~ (<<y, m>> \in R)
  BY <1>1, WFMin
<1> QED
  BY <1>2, <1>3

LEMMA GreatestNumber ==
  ASSUME NEW T, T \subseteq Nat, T # {}, NEW n \in Nat, \A x \in T : x <= n
  PROVE  \E m \in T : \A x \in T : x <= m
<1> DEFINE U == {k \in Nat : n - k \in T}
<1>1. U \subseteq Nat /\ \A x \in T : n - x \in U
  OBVIOUS
<1>2. U # {}
  BY <1>1
<1>3. PICK m \in U : \A x \in U : m <= x
  <2> HIDE DEF U
  <2> QED
    BY <1>1, <1>2, LeastNumber
<1>4. \A x \in T : x <= n - m
  BY <1>1, <1>3
<1> QED
  BY <1>3, <1>4

\* A request is admitted behind the newest unfinished one.
LEMMA LatestUnfinished ==
  ASSUME RowTypes
  PROVE  /\ Latest(Unfinished) \in 0..MaxRequests
         /\ \A q \in Unfinished : Latest(Unfinished) >= q
<1>1. /\ Unfinished \subseteq Nat /\ Unfinished \subseteq 1..MaxRequests
      /\ \A q \in Unfinished : q <= MaxRequests
  BY Rowed DEF Unfinished
<1>2. CASE Unfinished = {}
  BY <1>2, InterruptBounds DEF Latest
<1>3. CASE Unfinished # {}
  <2>1. \E m \in Unfinished : \A q \in Unfinished : q <= m
    BY <1>1, <1>3, GreatestNumber, InterruptBounds
  <2>2. Latest(Unfinished) \in Unfinished /\ \A q \in Unfinished : q <= Latest(Unfinished)
    BY <1>3, <2>1 DEF Latest
  <2>3. Latest(Unfinished) \in 1..MaxRequests /\ Latest(Unfinished) \in Nat
    BY <1>1, <2>2
  <2>4. \A q \in Unfinished : q \in Nat /\ q <= Latest(Unfinished)
    BY <1>1, <2>2
  <2> HIDE DEF Latest, Unfinished
  <2> QED
    BY <2>3, <2>4, InterruptBounds
<1> QED
  BY <1>2, <1>3

LEMMA AdmitAdmits ==
  ASSUME RowTypes, NEW kind \in {"message", "action", "resume", "protocol_error"},
         NEW targets \in SUBSET CardIds, NEW answer \in Answers \cup {"none"},
         Admit(kind, targets, answer)
  PROVE  /\ Admits(kind, targets, answer) /\ Len(requests') <= MaxRequests
         /\ UNCHANGED <<faults, uploads>>
<1> DEFINE e == [kind |-> kind, targets |-> targets, answer |-> answer, pc |-> "queued",
                 behind |-> Latest(Unfinished), follow |-> 0, replays |-> FALSE]
<1>1. /\ e \in Requests /\ e.kind = kind /\ e.targets = targets /\ e.answer = answer
      /\ e.pc = "queued" /\ e.follow = 0 /\ e.behind = Latest(Unfinished)
  BY LatestUnfinished, InterruptBounds DEF Requests
<1>2. /\ requests' = Append(requests, e) /\ Len(requests) < MaxRequests
      /\ UNCHANGED <<ledger, faults, uploads>>
  BY DEF Admit
<1> HIDE DEF e
<1>3. requests \in Seq(Requests)
  BY DEF RowTypes
<1>4. /\ requests' \in Seq(Requests) /\ Len(requests') = Len(requests) + 1
      /\ DOMAIN requests' = DOMAIN requests \cup {Len(requests) + 1}
      /\ \A q \in DOMAIN requests : requests'[q] = requests[q]
      /\ requests'[Len(requests) + 1] = e
  BY <1>1, <1>2, <1>3, Appended
<1>5. \A q \in DOMAIN requests :
         /\ q < Len(requests) + 1
         /\ requests[q].pc \notin Ended => Latest(Unfinished) >= q
  BY Rowed, LatestUnfinished DEF Unfinished
<1>6. Len(requests') <= MaxRequests
  BY <1>2, <1>4, Rowed
<1> QED
  BY <1>1, <1>2, <1>4, <1>5, <1>6 DEF Admits

LEMMA ArrivesOrDisplaces ==
  ASSUME RowTypes, QuestionSound,
         \/ PostMessage
         \/ \E w \in DOMAIN cards : PostAction(w)
         \/ \E ws \in SUBSET DOMAIN cards, answer \in Answers : PostResume(ws, answer)
  PROVE  /\ \/ \E kind, targets, answer : Arrives(kind, targets, answer)
            \/ \E w : Displaces(w)
         /\ RowTypes'
<1>1. DOMAIN cards \subseteq CardIds
  BY Rowed
<1>2. ASSUME NEW kind \in {"message", "action", "resume", "protocol_error"},
             NEW targets \in SUBSET DOMAIN cards, NEW answer \in Answers \cup {"none"},
             Admit(kind, targets, answer), UNCHANGED <<cards, questions, drafts>>,
             \/ kind = "message" /\ OpenQuestions = {} /\ targets = {}
             \/ kind = "protocol_error"
             \/ kind = "action" /\ OpenQuestions = {} /\ answer = "approve"
                /\ \E w \in CardIds : targets = {w}
             \/ kind = "resume" /\ \A w \in targets : questions[w].status # "none"
      PROVE  Arrives(kind, targets, answer) /\ RowTypes'
  <2>1. /\ Admits(kind, targets, answer) /\ Len(requests') <= MaxRequests
        /\ UNCHANGED <<faults, uploads>>
    BY <1>1, <1>2, AdmitAdmits
  <2>2. Arrives(kind, targets, answer)
    BY <1>2, <2>1 DEF Arrives
  <2>3. RowTypes'
    BY <1>2, <2>1 DEF RowTypes, Admits
  <2> QED
    BY <2>2, <2>3
<1>3. CASE PostMessage
  <2>1. \/ OpenQuestions = {} /\ Admit("message", {}, "none")
        \/ Admit("protocol_error", {}, "none")
    BY <1>3 DEF PostMessage
  <2>2. UNCHANGED <<cards, questions, drafts>>
    BY <1>3 DEF PostMessage
  <2> QED
    BY <1>2, <2>1, <2>2
<1>4. ASSUME NEW w \in DOMAIN cards, PostAction(w)
      PROVE  (Displaces(w) \/ \E kind : Arrives(kind, {w}, "approve")) /\ RowTypes'
  <2>1. w \in CardIds /\ {w} \in SUBSET CardIds /\ "approve" \in Answers
    BY <1>1 DEF Answers
  <2>2. CASE /\ UNCHANGED <<cards, questions, drafts>>
             /\ \/ OpenQuestions = {} /\ Admit("action", {w}, "approve")
                \/ Admit("protocol_error", {w}, "approve")
    BY <1>2, <2>1, <2>2
  <2>3. CASE Admit("action", {w}, "approve") /\ Supersede(OpenQuestions)
    <3>1. /\ Admits("action", {w}, "approve") /\ Len(requests') <= MaxRequests
          /\ UNCHANGED <<faults, uploads>>
      BY <2>1, <2>3, AdmitAdmits
    <3>2. CardsSame(OpenQuestions) /\ QuestionsSuperseded /\ DraftsKept
      BY <2>3, RetireKeeps, SupersededQuestions, DropKeeps DEF Supersede
    <3>3. RowTypes'
      BY <3>1, <3>2
         DEF RowTypes, Admits, CardsSame, CardsKept, QuestionsSuperseded, DraftsKept
    <3> QED
      BY <3>1, <3>2, <3>3 DEF Displaces
  <2> QED
    BY <1>4, <2>2, <2>3 DEF PostAction
<1>5. ASSUME NEW ws \in SUBSET DOMAIN cards, NEW answer \in Answers, PostResume(ws, answer)
      PROVE  Arrives("resume", ws, answer) /\ RowTypes'
  BY <1>2, <1>5 DEF PostResume
<1> QED
  BY <1>3, <1>2, <1>4, <1>5

LEMMA UploadUploads ==
  ASSUME RowTypes, Upload
  PROVE  Uploads /\ RowTypes'
<1>1. /\ NewCard \in CardIds /\ UNCHANGED <<ledger, requests, faults>>
      /\ cards' = Append(Retired(OpenQuestions),
                         [kind |-> "import", subject |-> NewCard, state |-> "pending"])
      /\ drafts' = DraftsDropped(OpenQuestions)
      /\ questions' = Superseded(OpenQuestions)
      /\ uploads' \in 0..MaxUploads
  BY InterruptBounds DEF Upload, RowTypes
<1>2. CardAdded(OpenQuestions, "import", NewCard)
  BY <1>1, UploadAdds
<1>3. QuestionsSuperseded /\ DraftsKept
  BY <1>1, SupersededQuestions, DropKeeps
<1>4. RowTypes'
  BY <1>1, <1>2, <1>3 DEF RowTypes, CardAdded, CardsKept, QuestionsSuperseded, DraftsKept
<1> QED
  BY <1>1, <1>2, <1>3, <1>4 DEF Uploads

-----------------------------------------------------------------------------
(* The requests: steps of the executing one.                               *)
LEMMA ExecutingRow ==
  ASSUME RowTypes, OrderSound, NEW r \in DOMAIN requests, Executing(r)
  PROVE  /\ requests[r].pc \notin Ended
         /\ \A q \in DOMAIN requests : q # r =>
               \/ q < r /\ requests[q].pc \in Ended
               \/ r < q /\ requests[q].pc = "queued"
<1>1. r \in Unfinished /\ \A q \in Unfinished : r <= q
  BY DEF Executing
<1>2. requests[r].pc \notin Ended
  BY <1>1 DEF Unfinished
<1>3. ASSUME NEW q \in DOMAIN requests, q # r
      PROVE  \/ q < r /\ requests[q].pc \in Ended
             \/ r < q /\ requests[q].pc = "queued"
  <2>1. q \in Nat /\ r \in Nat
    BY Rowed
  <2>2. CASE q < r
    BY <1>1, <2>1, <2>2 DEF Unfinished
  <2>3. CASE r < q
    BY <1>2, <2>3 DEF OrderSound
  <2> QED
    BY <1>3, <2>1, <2>2, <2>3
<1> QED
  BY <1>2, <1>3

LEMMA OrderExec ==
  ASSUME RowTypes, OrderSound, NEW r \in DOMAIN requests, Executing(r),
         NEW pc, NEW f, Moves(r, pc, f)
  PROVE  OrderSound'
<1> SUFFICES ASSUME NEW p \in DOMAIN requests, NEW q \in DOMAIN requests, p < q
             PROVE  /\ requests'[q].pc # "queued" => requests'[p].pc \in Ended
                    /\ requests'[p].pc \notin Ended => requests'[q].behind >= p
  BY DEF OrderSound, Moves
<1>1. /\ requests[q].pc # "queued" => requests[p].pc \in Ended
      /\ requests[p].pc \notin Ended => requests[q].behind >= p
  BY DEF OrderSound
<1>2. requests'[q].behind = requests[q].behind
  BY DEF Moves
<1>3. requests[r].pc \notin Ended
  BY ExecutingRow
<1>4. CASE q = r
  <2>1. p # r /\ requests[p].pc \in Ended
    BY <1>4, ExecutingRow, Rowed
  <2> QED
    BY <2>1 DEF Moves
<1>5. CASE q # r /\ p = r
  BY <1>1, <1>2, <1>3, <1>5 DEF Moves
<1>6. CASE q # r /\ p # r
  BY <1>1, <1>2, <1>6 DEF Moves
<1> QED
  BY <1>4, <1>5, <1>6

LEMMA RequestExec ==
  ASSUME RowTypes, RequestSound, NEW r \in DOMAIN requests,
         NEW pc, NEW f, Moves(r, pc, f), DOMAIN cards \subseteq DOMAIN cards',
         \A w \in CardIds : questions[w].status # "none" => questions'[w].status # "none",
         requests[r].kind = "protocol_error" => pc = "failed",
         pc \in Busy => /\ requests[r].kind \in {"action", "resume"}
                        /\ \E w \in CardIds : requests[r].targets = {w},
         pc \in {"acted", "receipted"} => requests[r].answer = "approve",
         pc = "receipted" => requests[r].kind = "resume",
         pc \in {"queued", "loaded"} => f = 0
  PROVE  RequestSound'
<1> SUFFICES ASSUME NEW q \in DOMAIN requests
             PROVE  /\ requests'[q].targets \subseteq DOMAIN cards'
                    /\ requests'[q].kind = "message" => requests'[q].targets = {}
                    /\ requests'[q].kind = "action" =>
                          /\ requests'[q].answer = "approve"
                          /\ \E w \in CardIds : requests'[q].targets = {w}
                    /\ requests'[q].kind = "resume" =>
                          \A w \in requests'[q].targets : questions'[w].status # "none"
                    /\ requests'[q].kind = "protocol_error" =>
                          requests'[q].pc \in {"queued", "failed"}
                    /\ requests'[q].pc \in Busy =>
                          /\ requests'[q].kind \in {"action", "resume"}
                          /\ \E w \in CardIds : requests'[q].targets = {w}
                    /\ requests'[q].pc \in {"acted", "receipted"} =>
                          requests'[q].answer = "approve"
                    /\ requests'[q].pc = "receipted" => requests'[q].kind = "resume"
                    /\ requests'[q].pc \in {"queued", "loaded"} => requests'[q].follow = 0
  BY DEF RequestSound, Moves, CardIds
<1>1. /\ requests'[q].kind = requests[q].kind /\ requests'[q].targets = requests[q].targets
      /\ requests'[q].answer = requests[q].answer
      /\ q = r => requests'[q].pc = pc /\ requests'[q].follow = f
      /\ q # r => requests'[q] = requests[q]
  BY DEF Moves
<1>2. requests[q].targets \subseteq CardIds
  BY Rowed DEF RequestSound
<1>3. CASE q = r
  BY <1>1, <1>2, <1>3 DEF RequestSound
<1>4. CASE q # r
  BY <1>1, <1>2, <1>4 DEF RequestSound
<1> QED
  BY <1>3, <1>4

\* A resume of another request than the executing one has ended or waits.
LEMMA ResumeExec ==
  ASSUME RowTypes, OrderSound, ResumeSound, NEW r \in DOMAIN requests, Executing(r),
         NEW pc, NEW f, Moves(r, pc, f),
         ClosedQuestions \subseteq ClosedQuestions',
         requests[r].kind = "resume" =>
            /\ pc \in Busy => \A w \in requests[r].targets :
                  questions'[w].status \in {"open", "cancelled"} /\ questions'[w].by = 0
            /\ pc \in {"answered", "opened", "done"} =>
                  requests[r].targets \subseteq ClosedQuestions'
  PROVE  ResumeSound'
<1> SUFFICES ASSUME NEW q \in DOMAIN requests, requests'[q].kind = "resume"
             PROVE  /\ requests'[q].pc \in Busy => \A w \in requests'[q].targets :
                          questions'[w].status \in {"open", "cancelled"} /\ questions'[w].by = 0
                    /\ requests'[q].pc \in {"answered", "opened", "done"} =>
                          requests'[q].targets \subseteq ClosedQuestions'
  BY DEF ResumeSound, Moves
<1>1. /\ requests'[q].kind = requests[q].kind /\ requests'[q].targets = requests[q].targets
      /\ q = r => requests'[q].pc = pc
      /\ q # r => requests'[q] = requests[q]
  BY DEF Moves
<1>2. CASE q = r
  BY <1>1, <1>2
<1>3. CASE q # r
  <2>1. requests[q].pc \in Ended \/ requests[q].pc = "queued"
    BY <1>3, ExecutingRow
  <2>2. requests[q].pc = "done" => requests[q].targets \subseteq ClosedQuestions
    BY <1>1 DEF ResumeSound
  <2> QED
    BY <1>1, <1>3, <2>1, <2>2 DEF Ended, Busy
<1> QED
  BY <1>2, <1>3

LEMMA FollowExec ==
  ASSUME RowTypes, OrderSound, RequestSound, FollowSound, QuestionSound,
         NEW r \in DOMAIN requests, Executing(r), NEW pc, NEW f, Moves(r, pc, f),
         CardsKept(requests[r].targets),
         f = requests[r].follow \/ Asking(f),
         \A w \in CardIds : \/ questions'[w] = questions[w] \/ w \in requests[r].targets
                            \/ pc = "opened",
         pc \in {"acted", "receipted", "answered"} =>
            requests[r].pc \in {"queued", "loaded", "acted", "receipted"}
  PROVE  FollowSound'
<1> SUFFICES ASSUME NEW q \in DOMAIN requests, requests'[q].follow # 0
             PROVE  /\ requests'[q].follow \in DOMAIN cards'
                    /\ \A p \in DOMAIN requests :
                          requests'[q].follow \in requests'[p].targets => q < p
                    /\ requests'[q].pc \in {"acted", "receipted", "answered"} =>
                          /\ requests'[q].follow \in DOMAIN cards'
                          /\ cards'[requests'[q].follow].state = "pending"
                          /\ questions'[requests'[q].follow].status = "none"
  BY DEF FollowSound, Moves, Pending
<1>1. \A p \in DOMAIN requests : requests'[p].targets = requests[p].targets
  BY DEF Moves
<1>2. DOMAIN cards \subseteq DOMAIN cards'
  BY DEF CardsKept
<1>3. CASE q # r
  <2>1. requests'[q] = requests[q]
    BY <1>3 DEF Moves
  <2>2. requests[q].pc \in Ended \/ requests[q].pc = "queued"
    BY <1>3, ExecutingRow
  <2>3. requests[q].follow \in DOMAIN cards
        /\ \A p \in DOMAIN requests : requests[q].follow \in requests[p].targets => q < p
    BY <2>1 DEF FollowSound
  <2> QED
    BY <1>1, <1>2, <2>1, <2>2, <2>3 DEF Ended
<1>4. CASE q = r /\ f = requests[r].follow
  <2>1. f # 0 /\ requests'[r].follow = f /\ requests'[r].pc = pc
    BY <1>4 DEF Moves
  <2>2. f \in DOMAIN cards
        /\ \A p \in DOMAIN requests : f \in requests[p].targets => r < p
    BY <1>4, <2>1 DEF FollowSound
  <2>3. f \notin requests[r].targets
    BY <2>2, Rowed
  <2>4. pc \in {"acted", "receipted", "answered"} =>
           cards[f].state = "pending" /\ questions[f].status = "none"
    <3>1. requests[r].pc \notin {"queued", "loaded"}
      BY <1>4, <2>1 DEF RequestSound
    <3> QED
      BY <1>4, <2>1, <3>1 DEF FollowSound, Pending
  <2>5. cards'[f] = cards[f]
    BY <2>2, <2>3 DEF CardsKept
  <2>6. f \in CardIds
    BY <2>2, Rowed
  <2> QED
    BY <1>1, <1>2, <1>4, <2>1, <2>2, <2>3, <2>4, <2>5, <2>6
<1>5. CASE q = r /\ Asking(f)
  <2>1. requests'[r].follow = f /\ requests'[r].pc = pc
    BY <1>5 DEF Moves
  <2>2. /\ f \in DOMAIN cards' /\ f \notin DOMAIN cards /\ f \in CardIds
        /\ cards'[f].state = "pending"
    BY <1>5 DEF CardAdded, Asking
  <2>3. \A p \in DOMAIN requests : f \notin requests[p].targets
    BY <2>2 DEF RequestSound
  <2>4. questions[f].status = "none"
    BY <2>2 DEF QuestionSound
  <2> QED
    BY <1>1, <1>5, <2>1, <2>2, <2>3, <2>4
<1> QED
  BY <1>3, <1>4, <1>5

\* What every step of the executing request has in common.
LEMMA ExecutesMoves ==
  ASSUME RowTypes, NEW r \in DOMAIN requests, Executes(r)
  PROVE  \E pc, f :
            /\ Moves(r, pc, f)
            /\ CardsKept(requests[r].targets)
            /\ f = requests[r].follow \/ Asking(f)
<1>1. ASSUME cards' = cards PROVE CardsKept(requests[r].targets)
  BY <1>1 DEF CardsKept, RowTypes
<1>2. ASSUME NEW kind, NEW subject, CardAdded({}, kind, subject)
      PROVE  CardsKept(requests[r].targets)
  BY <1>2 DEF CardAdded, CardsKept
<1>3. ASSUME NEW w, requests[r].targets = {w}, CardsSame({w})
      PROVE  CardsKept(requests[r].targets)
  BY <1>3 DEF CardsSame
<1> DEFINE Common(pc, f) ==
              /\ Moves(r, pc, f)
              /\ CardsKept(requests[r].targets)
              /\ f = requests[r].follow \/ Asking(f)
<1>a. ASSUME NEW pc, Moves(r, pc, requests[r].follow), CardsKept(requests[r].targets)
      PROVE  \E p, f : Common(p, f)
  <2>1. Common(pc, requests[r].follow)
    BY <1>a
  <2> QED
    BY <2>1
<1>b. ASSUME NEW pc, Moves(r, pc, NewCard), NEW kind, NEW subject, CardAdded({}, kind, subject)
      PROVE  \E p, f : Common(p, f)
  <2>1. Common(pc, NewCard)
    BY <1>2, <1>b DEF Asking
  <2> QED
    BY <2>1
<1> HIDE DEF Common
<1>4. CASE Replies(r)
  <2>1. \/ Moves(r, "answered", requests[r].follow) /\ cards' = cards
        \/ Moves(r, "answered", NewCard) /\ \E kind \in Kinds : CardAdded({}, kind, NewCard)
    BY <1>4 DEF Replies
  <2> QED
    BY <1>1, <1>a, <1>b, <2>1 DEF Common
<1>5. CASE Halts(r) \/ Loads(r) \/ Replays(r) \/ Opens(r) \/ Finishes(r)
  <2>1. cards' = cards /\ \E pc : Moves(r, pc, requests[r].follow)
    BY <1>5 DEF Halts, Loads, Replays, Opens, Finishes
  <2> QED
    BY <1>1, <1>a, <2>1 DEF Common
<1>6. CASE Acts(r)
  <2>1. \/ Moves(r, "acted", requests[r].follow) /\ cards' = cards
        \/ Moves(r, "acted", NewCard) /\ \E kind, subject : CardAdded({}, kind, subject)
    BY <1>6 DEF Acts, Posts, Adds, Settles
  <2> QED
    BY <1>1, <1>a, <1>b, <2>1 DEF Common
<1>7. CASE Receives(r)
  <2>1. \E pc : Moves(r, pc, requests[r].follow)
    BY <1>7 DEF Receives
  <2>2. \E w : requests[r].targets = {w} /\ CardsSame({w})
    BY <1>7 DEF Receives
  <2> QED
    BY <1>3, <1>a, <2>1, <2>2 DEF Common
<1>8. CASE Closes(r)
  <2>1. \E pc : Moves(r, pc, requests[r].follow)
    BY <1>8 DEF Closes
  <2>2. \E w : requests[r].targets = {w} /\ CardsSame({w})
    BY <1>8 DEF Closes
  <2> QED
    BY <1>3, <1>a, <2>1, <2>2 DEF Common
<1> QED
  BY <1>4, <1>5, <1>6, <1>7, <1>8 DEF Executes

\* What the executing request is, by the state it moves to.
LEMMA ExecutesFrom ==
  ASSUME RowTypes, RequestSound, NEW r \in DOMAIN requests, Executes(r),
         NEW pc, NEW f, Moves(r, pc, f)
  PROVE  /\ requests[r].kind = "protocol_error" => pc = "failed"
         /\ pc \in Busy => /\ requests[r].kind \in {"action", "resume"}
                           /\ \E w \in CardIds : requests[r].targets = {w}
         /\ pc \in {"acted", "receipted"} => requests[r].answer = "approve"
         /\ pc = "receipted" => requests[r].kind = "resume"
         /\ pc \in {"queued", "loaded"} => f = 0
         /\ pc \in {"acted", "receipted", "answered"} =>
               requests[r].pc \in {"queued", "loaded", "acted", "receipted"}
         /\ pc # "queued" /\ (pc = "done" => requests[r].kind # "protocol_error")
         /\ requests[r].pc = "opened" => pc \in Ended
<1>0. requests'[r].pc = pc /\ requests'[r].follow = f
  BY DEF Moves
<1>1. /\ requests[r].pc \in Busy =>
            /\ requests[r].kind \in {"action", "resume"}
            /\ \E w \in CardIds : requests[r].targets = {w}
      /\ requests[r].pc \in {"acted", "receipted"} => requests[r].answer = "approve"
      /\ requests[r].pc \in {"queued", "loaded"} => requests[r].follow = 0
      /\ requests[r].kind = "protocol_error" => requests[r].pc \in {"queued", "failed"}
  BY DEF RequestSound
<1>2. CASE Replies(r)
  BY <1>0, <1>2 DEF Replies, Moves, Busy
<1>3. CASE Halts(r)
  BY <1>0, <1>3 DEF Halts, Moves, Busy, Ended
<1>4. CASE Loads(r)
  <2>1. /\ pc = "loaded" /\ f = requests[r].follow /\ requests[r].pc = "queued"
        /\ requests[r].kind \in {"action", "resume"}
        /\ \E w \in CardIds : requests[r].targets = {w}
    BY <1>0, <1>4, Rowed DEF Loads, Moves
  <2> QED
    BY <1>1, <2>1
<1>5. CASE Replays(r)
  BY <1>0, <1>5 DEF Replays, Moves, Busy
<1>6. CASE Acts(r)
  <2>1. pc = "acted" /\ requests[r].pc = "loaded" /\ requests[r].answer = "approve"
    BY <1>0, <1>6 DEF Acts, Posts, Adds, Settles, Moves
  <2> QED
    BY <1>1, <2>1 DEF Busy
<1>7. CASE Receives(r)
  <2>1. /\ requests[r].pc = "acted"
        /\ pc = IF requests[r].kind = "resume" THEN "receipted" ELSE "answered"
    BY <1>0, <1>7 DEF Receives, Moves
  <2> QED
    BY <1>1, <2>1 DEF Busy
<1>8. CASE Closes(r)
  <2>1. pc = "answered" /\ requests[r].kind = "resume" /\ requests[r].pc \in Busy
    BY <1>0, <1>8 DEF Closes, Moves
  <2> QED
    BY <2>1 DEF Busy
<1>9. CASE Opens(r)
  <2>1. pc = "opened" /\ requests[r].pc = "answered"
    BY <1>0, <1>9 DEF Opens, Moves
  <2> QED
    BY <1>1, <2>1 DEF Busy
<1>10. CASE Finishes(r)
  <2>1. pc = "done" /\ requests[r].pc \in {"opened", "answered"}
    BY <1>0, <1>10 DEF Finishes, Moves
  <2> QED
    BY <1>1, <2>1 DEF Busy, Ended
<1> QED
  BY <1>2, <1>3, <1>4, <1>5, <1>6, <1>7, <1>8, <1>9, <1>10 DEF Executes

\* Questions change at one card: the one answered, or the one asked with.
LEMMA ExecutesQuestions ==
  ASSUME RowTypes, ResumeSound, FollowSound, NEW r \in DOMAIN requests, Executes(r),
         NEW pc, NEW f, Moves(r, pc, f)
  PROVE  /\ \A w \in CardIds : \/ questions'[w] = questions[w] \/ w \in requests[r].targets
                               \/ pc = "opened"
         /\ \A w \in CardIds : questions[w].status # "none" => questions'[w].status # "none"
         /\ ClosedQuestions \subseteq ClosedQuestions'
<1>0. requests'[r].pc = pc
  BY DEF Moves
<1>1. CASE Closes(r)
  <2>1. PICK w \in DOMAIN cards :
           /\ requests[r].targets = {w}
           /\ questions'[w].status \in {"resolved", "cancelled"}
           /\ \A v \in CardIds : v # w => questions'[v] = questions[v]
    BY <1>1 DEF Closes
  <2>2. \A v \in CardIds : v = w \/ questions'[v] = questions[v]
    BY <2>1
  <2>3. ClosedQuestions \subseteq ClosedQuestions'
    BY <2>1, <2>2 DEF ClosedQuestions, CardIds
  <2> QED
    BY <2>1, <2>2, <2>3
<1>2. CASE Opens(r)
  <2> DEFINE g == requests[r].follow
  <2>1. /\ g \in CardIds /\ requests[r].pc = "answered" /\ pc = "opened"
        /\ questions'[g].status = "open"
        /\ \A v \in CardIds : v # g => questions'[v] = questions[v]
    BY <1>0, <1>2 DEF Opens, Moves
  <2>2. questions[g].status = "none"
    <3>1. g # 0
      BY <2>1, InterruptBounds DEF CardIds
    <3> QED
      BY <2>1, <3>1 DEF FollowSound
  <2>3. ClosedQuestions \subseteq ClosedQuestions'
    BY <2>1, <2>2 DEF ClosedQuestions, CardIds
  <2> QED
    BY <2>1, <2>2, <2>3
<1>3. CASE ~Closes(r) /\ ~Opens(r)
  <2>1. questions' = questions
    BY <1>3 DEF Executes, Replies, Halts, Loads, Replays, Acts, Posts, Adds, Settles,
       Receives, Finishes
  <2> QED
    BY <2>1 DEF ClosedQuestions, CardIds
<1> QED
  BY <1>1, <1>2, <1>3

\* A resume that answers leaves no question of its own open.
LEMMA ResumeStep ==
  ASSUME RowTypes, RequestSound, ResumeSound, FollowSound, QuestionSound,
         NEW r \in DOMAIN requests, Executes(r), NEW pc, NEW f, Moves(r, pc, f), requests[r].kind = "resume"
  PROVE  /\ pc \in Busy => \A w \in requests[r].targets :
               questions'[w].status \in {"open", "cancelled"} /\ questions'[w].by = 0
         /\ pc \in {"answered", "opened", "done"} => requests[r].targets \subseteq ClosedQuestions'
<1>0. requests'[r].pc = pc
  BY DEF Moves
<1>1. /\ requests[r].pc \in Busy => \A w \in requests[r].targets :
             questions[w].status \in {"open", "cancelled"} /\ questions[w].by = 0
      /\ requests[r].pc \in {"answered", "opened", "done"} =>
            requests[r].targets \subseteq ClosedQuestions
  BY DEF ResumeSound
<1>2. ClosedQuestions \subseteq ClosedQuestions'
  BY ExecutesQuestions
<1>3. CASE Halts(r)
  BY <1>0, <1>3 DEF Halts, Moves, Busy
<1>4. CASE Loads(r)
  <2>1. PICK w \in DOMAIN cards : /\ requests[r].targets = {w}
                                  /\ questions[w].status = "open"
    BY <1>4 DEF Loads
  <2>2. pc = "loaded" /\ questions' = questions
    BY <1>0, <1>4 DEF Loads, Moves
  <2>3. questions[w].by = 0
    BY <2>1, Rowed DEF QuestionSound
  <2> QED
    BY <2>1, <2>2, <2>3
<1>5. CASE Replays(r)
  BY <1>0, <1>2, <1>5 DEF Replays, Moves, Busy
<1>6. CASE Acts(r)
  <2>1. pc = "acted" /\ requests[r].pc \in Busy /\ questions' = questions
    BY <1>0, <1>6 DEF Acts, Posts, Adds, Settles, Moves, Busy
  <2> QED
    BY <1>1, <2>1
<1>7. CASE Receives(r)
  <2>1. pc = "receipted" /\ requests[r].pc \in Busy /\ questions' = questions
    BY <1>0, <1>7 DEF Receives, Moves, Busy
  <2> QED
    BY <1>1, <2>1
<1>8. CASE Closes(r)
  <2>1. PICK w \in DOMAIN cards :
           /\ requests[r].targets = {w}
           /\ questions'[w].status \in {"resolved", "cancelled"}
    BY <1>8 DEF Closes
  <2>2. pc = "answered" /\ w \in CardIds
    BY <1>0, <1>8, <2>1, Rowed DEF Closes, Moves
  <2>3. w \in ClosedQuestions'
    BY <2>1, <2>2 DEF ClosedQuestions, CardIds
  <2> QED
    BY <2>1, <2>2, <2>3 DEF Busy
<1>9. CASE Opens(r) \/ Finishes(r)
  <2>1. pc \in {"opened", "done"} /\ requests[r].pc \in {"answered", "opened"}
    BY <1>0, <1>9 DEF Opens, Finishes, Moves
  <2> QED
    BY <1>1, <1>2, <2>1 DEF Busy
<1>10. CASE Replies(r)
  BY <1>10 DEF Replies
<1> QED
  BY <1>3, <1>4, <1>5, <1>6, <1>7, <1>8, <1>9, <1>10 DEF Executes

LEMMA RequestsExec ==
  ASSUME InterruptInv, NEW r \in DOMAIN requests, Executes(r)
  PROVE  RequestsInv'
<1>1. /\ RowTypes /\ OrderSound /\ RequestSound /\ ResumeSound /\ FollowSound /\ QuestionSound
      /\ Executing(r)
  BY DEF InterruptInv, RequestsInv, QuestionsInv, Executes
<1>2. PICK pc, f :
         /\ Moves(r, pc, f) /\ CardsKept(requests[r].targets)
         /\ f = requests[r].follow \/ Asking(f)
  BY <1>1, ExecutesMoves
<1>3. OrderSound'
  BY <1>1, <1>2, OrderExec
<1>4. RequestSound'
  <2>1. DOMAIN cards \subseteq DOMAIN cards'
    BY <1>2 DEF CardsKept
  <2> QED
    BY <1>1, <1>2, <2>1, ExecutesFrom, ExecutesQuestions, RequestExec
<1>5. ResumeSound'
  BY <1>1, <1>2, ResumeStep, ExecutesQuestions, ResumeExec
<1>6. FollowSound'
  BY <1>1, <1>2, ExecutesFrom, ExecutesQuestions, FollowExec
<1> QED
  BY <1>3, <1>4, <1>5, <1>6 DEF RequestsInv

-----------------------------------------------------------------------------
(* The requests: admissions and uploads.                                   *)
Questioned == questions' = questions \/ QuestionsSuperseded

LEMMA OrderArrive ==
  ASSUME RowTypes, OrderSound, NEW kind, NEW targets, NEW answer,
         Admits(kind, targets, answer)
  PROVE  OrderSound'
<1> DEFINE n == Len(requests')
<1>1. /\ DOMAIN requests' = DOMAIN requests \cup {n} /\ requests'[n].pc = "queued"
      /\ \A q \in DOMAIN requests :
            /\ q < n /\ requests'[q] = requests[q]
            /\ requests[q].pc \notin Ended => requests'[n].behind >= q
      /\ n \in Nat /\ \A q \in DOMAIN requests : q \in Nat
  BY Rowed DEF Admits
<1> HIDE DEF n
<1> SUFFICES ASSUME NEW p \in DOMAIN requests', NEW q \in DOMAIN requests', p < q
             PROVE  /\ requests'[q].pc # "queued" => requests'[p].pc \in Ended
                    /\ requests'[p].pc \notin Ended => requests'[q].behind >= p
  BY DEF OrderSound
<1>2. p \in DOMAIN requests
  BY <1>1
<1>3. CASE q = n
  BY <1>1, <1>2, <1>3
<1>4. CASE q \in DOMAIN requests
  BY <1>1, <1>2, <1>4 DEF OrderSound
<1> QED
  BY <1>1, <1>3, <1>4

LEMMA QuestionedStay ==
  ASSUME RowTypes, Questioned
  PROVE  /\ \A w \in CardIds : questions[w].status # "none" => questions'[w].status # "none"
         /\ \A w \in CardIds : questions[w].status = "none" => questions'[w].status = "none"
         /\ \A w \in CardIds :
               questions[w].status \in {"open", "cancelled"} /\ questions[w].by = 0
                  => questions'[w].status \in {"open", "cancelled"} /\ questions'[w].by = 0
         /\ ClosedQuestions \subseteq ClosedQuestions'
         /\ \A w \in CardIds : questions'[w].status = "open" => questions'[w] = questions[w]
BY DEF Questioned, QuestionsSuperseded, ClosedQuestions, CardIds

\* Requests that are already there.
LEMMA OldRequests ==
  ASSUME RowTypes, RequestSound, Questioned, DOMAIN cards \subseteq DOMAIN cards',
         NEW q \in DOMAIN requests, requests'[q] = requests[q]
  PROVE  /\ requests'[q].targets \subseteq DOMAIN cards'
         /\ requests'[q].kind = "message" => requests'[q].targets = {}
         /\ requests'[q].kind = "action" =>
               /\ requests'[q].answer = "approve"
               /\ \E w \in CardIds : requests'[q].targets = {w}
         /\ requests'[q].kind = "resume" =>
               \A w \in requests'[q].targets : questions'[w].status # "none"
         /\ requests'[q].kind = "protocol_error" => requests'[q].pc \in {"queued", "failed"}
         /\ requests'[q].pc \in Busy => /\ requests'[q].kind \in {"action", "resume"}
                                        /\ \E w \in CardIds : requests'[q].targets = {w}
         /\ requests'[q].pc \in {"acted", "receipted"} => requests'[q].answer = "approve"
         /\ requests'[q].pc = "receipted" => requests'[q].kind = "resume"
         /\ requests'[q].pc \in {"queued", "loaded"} => requests'[q].follow = 0
<1>1. requests[q].targets \subseteq CardIds
  BY Rowed DEF RequestSound
<1>2. \A w \in CardIds : questions[w].status # "none" => questions'[w].status # "none"
  BY QuestionedStay
<1> QED
  BY <1>1, <1>2 DEF RequestSound

LEMMA RequestArrive ==
  ASSUME RowTypes, RequestSound, Questioned, DOMAIN cards \subseteq DOMAIN cards',
         \/ requests' = requests
         \/ \E kind, targets, answer : Arrives(kind, targets, answer)
         \/ \E w : Displaces(w)
  PROVE  RequestSound'
<1>1. CASE requests' = requests
  BY <1>1, OldRequests DEF RequestSound, CardIds
<1>2. ASSUME NEW kind, NEW targets, NEW answer, Admits(kind, targets, answer),
             targets \subseteq DOMAIN cards, kind = "message" => targets = {},
             kind = "action" => answer = "approve" /\ \E w \in CardIds : targets = {w},
             kind = "resume" => \A w \in targets : questions[w].status # "none"
      PROVE  RequestSound'
  <2> DEFINE n == Len(requests')
  <2>1. /\ DOMAIN requests' = DOMAIN requests \cup {n} /\ requests'[n].pc = "queued"
        /\ \A q \in DOMAIN requests : requests'[q] = requests[q]
        /\ requests'[n].kind = kind /\ requests'[n].targets = targets
        /\ requests'[n].answer = answer /\ requests'[n].follow = 0
    BY <1>2 DEF Admits
  <2> HIDE DEF n
  <2>2. \A w \in targets : questions[w].status # "none" => questions'[w].status # "none"
    BY <1>2, QuestionedStay, Rowed
  <2>3. targets \subseteq DOMAIN cards'
    BY <1>2
  <2>4. /\ requests'[n].targets \subseteq DOMAIN cards'
        /\ requests'[n].kind = "message" => requests'[n].targets = {}
        /\ requests'[n].kind = "action" =>
              /\ requests'[n].answer = "approve"
              /\ \E w \in CardIds : requests'[n].targets = {w}
        /\ requests'[n].kind = "resume" =>
              \A w \in requests'[n].targets : questions'[w].status # "none"
        /\ requests'[n].pc = "queued" /\ requests'[n].follow = 0
    BY <1>2, <2>1, <2>2, <2>3
  <2> QED
    BY <2>1, <2>4, OldRequests DEF RequestSound, CardIds, Busy
<1>3. ASSUME NEW kind, NEW targets, NEW answer, Arrives(kind, targets, answer)
      PROVE  RequestSound'
  BY <1>2, <1>3 DEF Arrives
<1>4. ASSUME NEW w, Displaces(w) PROVE RequestSound'
  <2>1. Admits("action", {w}, "approve") /\ {w} \subseteq DOMAIN cards /\ w \in CardIds
    BY <1>4, Rowed DEF Displaces
  <2> QED
    BY <1>2, <2>1
<1> QED
  BY <1>1, <1>3, <1>4

LEMMA ResumeArrive ==
  ASSUME RowTypes, RequestSound, ResumeSound, Questioned,
         requests' = requests \/ \E kind, targets, answer : Admits(kind, targets, answer)
  PROVE  ResumeSound'
<1> SUFFICES ASSUME NEW q \in DOMAIN requests', requests'[q].kind = "resume"
             PROVE  /\ requests'[q].pc \in Busy => \A w \in requests'[q].targets :
                          questions'[w].status \in {"open", "cancelled"} /\ questions'[w].by = 0
                    /\ requests'[q].pc \in {"answered", "opened", "done"} =>
                          requests'[q].targets \subseteq ClosedQuestions'
  BY DEF ResumeSound
<1>1. \/ q \in DOMAIN requests /\ requests'[q] = requests[q]
      \/ requests'[q].pc = "queued"
  BY DEF Admits
<1>2. CASE q \in DOMAIN requests /\ requests'[q] = requests[q]
  <2>1. requests[q].targets \subseteq CardIds
    BY <1>2, Rowed DEF RequestSound
  <2> QED
    BY <1>2, <2>1, QuestionedStay DEF ResumeSound
<1>3. CASE requests'[q].pc = "queued"
  BY <1>3 DEF Busy
<1> QED
  BY <1>1, <1>2, <1>3

LEMMA FollowArrive ==
  ASSUME RowTypes, RequestSound, FollowSound, Questioned, CardsKept(OpenQuestions),
         requests' = requests \/ \E kind, targets, answer : Admits(kind, targets, answer)
  PROVE  FollowSound'
<1> SUFFICES ASSUME NEW q \in DOMAIN requests', requests'[q].follow # 0
             PROVE  /\ requests'[q].follow \in DOMAIN cards'
                    /\ \A p \in DOMAIN requests' :
                          requests'[q].follow \in requests'[p].targets => q < p
                    /\ requests'[q].pc \in {"acted", "receipted", "answered"} =>
                          /\ requests'[q].follow \in DOMAIN cards'
                          /\ cards'[requests'[q].follow].state = "pending"
                          /\ questions'[requests'[q].follow].status = "none"
  BY DEF FollowSound, Pending
<1>1. q \in DOMAIN requests /\ requests'[q] = requests[q]
  BY DEF Admits
<1>2. \A p \in DOMAIN requests' :
         (p \in DOMAIN requests /\ requests'[p] = requests[p]) \/ q < p
  BY <1>1 DEF Admits
<1> DEFINE f == requests[q].follow
<1>3. /\ f \in DOMAIN cards /\ f \in CardIds
      /\ \A p \in DOMAIN requests : f \in requests[p].targets => q < p
      /\ requests[q].pc \in {"acted", "receipted", "answered"} =>
            cards[f].state = "pending" /\ questions[f].status = "none"
  BY <1>1, Rowed DEF FollowSound, Pending
<1>4. questions[f].status = "none" => cards'[f] = cards[f] /\ questions'[f].status = "none"
  BY <1>3, QuestionedStay DEF CardsKept, OpenQuestions
<1>5. f \in DOMAIN cards'
  BY <1>3 DEF CardsKept
<1> QED
  BY <1>1, <1>2, <1>3, <1>4, <1>5

\* Admissions and uploads, by what they have in common.
LEMMA Outside ==
  ASSUME RowTypes,
         \/ \E kind, targets, answer : Arrives(kind, targets, answer)
         \/ \E w : Displaces(w)
         \/ Uploads
  PROVE  /\ Questioned /\ CardsKept(OpenQuestions) /\ ledger' = ledger /\ DraftsKept
         /\ requests' = requests \/ \E kind, targets, answer : Admits(kind, targets, answer)
         /\ \/ requests' = requests
            \/ \E kind, targets, answer : Arrives(kind, targets, answer)
            \/ \E w : Displaces(w)
<1>1. cards' = cards /\ drafts' = drafts => CardsKept(OpenQuestions) /\ DraftsKept
  BY DEF CardsKept, DraftsKept, RowTypes
<1>2. ASSUME NEW kind, NEW targets, NEW answer, Arrives(kind, targets, answer)
      PROVE  /\ Questioned /\ CardsKept(OpenQuestions) /\ ledger' = ledger /\ DraftsKept
             /\ Admits(kind, targets, answer)
  BY <1>1, <1>2 DEF Arrives, Questioned, Admits
<1>3. ASSUME NEW w, Displaces(w)
      PROVE  /\ Questioned /\ CardsKept(OpenQuestions) /\ ledger' = ledger /\ DraftsKept
             /\ Admits("action", {w}, "approve")
  BY <1>3 DEF Displaces, Questioned, CardsSame, Admits
<1>4. ASSUME Uploads
      PROVE  /\ Questioned /\ CardsKept(OpenQuestions) /\ ledger' = ledger /\ DraftsKept
             /\ requests' = requests
  BY <1>4 DEF Uploads, Questioned, CardAdded
<1> QED
  BY <1>2, <1>3, <1>4

LEMMA RequestsOutside ==
  ASSUME InterruptInv,
         \/ \E kind, targets, answer : Arrives(kind, targets, answer)
         \/ \E w : Displaces(w)
         \/ Uploads
  PROVE  RequestsInv'
<1>1. RowTypes /\ OrderSound /\ RequestSound /\ ResumeSound /\ FollowSound
  BY DEF InterruptInv, RequestsInv
<1>2. /\ Questioned /\ CardsKept(OpenQuestions)
      /\ requests' = requests \/ \E kind, targets, answer : Admits(kind, targets, answer)
      /\ \/ requests' = requests
         \/ \E kind, targets, answer : Arrives(kind, targets, answer)
         \/ \E w : Displaces(w)
  BY <1>1, Outside
<1>3. OrderSound'
  BY <1>1, <1>2, OrderArrive DEF OrderSound
<1>4. RequestSound'
  <2>1. DOMAIN cards \subseteq DOMAIN cards'
    BY <1>2 DEF CardsKept
  <2> QED
    BY <1>1, <1>2, <2>1, RequestArrive
<1>5. ResumeSound' /\ FollowSound'
  BY <1>1, <1>2, ResumeArrive, FollowArrive
<1> QED
  BY <1>3, <1>4, <1>5 DEF RequestsInv

-----------------------------------------------------------------------------
(* The questions: steps of the executing request.                          *)

\* A question that is open after the step was open, or is the one that opens.
LEMMA OpenAfter ==
  ASSUME RowTypes, NEW r \in DOMAIN requests, Executes(r), NEW v \in CardIds,
         questions'[v].status = "open"
  PROVE  \/ questions'[v] = questions[v]
         \/ Opens(r) /\ v = requests[r].follow /\ questions'[v].asker = r
<1>1. CASE Closes(r)
  BY <1>1 DEF Closes
<1>2. CASE Opens(r)
  BY <1>2 DEF Opens
<1>3. CASE ~Closes(r) /\ ~Opens(r)
  BY <1>3 DEF Executes, Replies, Halts, Loads, Replays, Acts, Posts, Adds, Settles,
     Receives, Finishes
<1> QED
  BY <1>1, <1>2, <1>3

\* The executing request's card of an open question: the request is not done,
\* or it is an action that was queued before the question opened.
LEMMA TargetAnswerable ==
  ASSUME RowTypes, RequestSound, ActionSound, NEW r \in DOMAIN requests,
         NEW pc, NEW f, Moves(r, pc, f), pc = "done" => requests[r].kind # "protocol_error",
         ResumeSound', NEW w \in CardIds, w \in requests[r].targets,
         questions'[w].status = "open", questions'[w] = questions[w]
  PROVE  \/ requests'[r].pc # "done"
         \/ requests'[r].kind = "action" /\ requests'[r].behind >= questions'[w].asker
<1>1. /\ requests'[r].pc = pc /\ requests'[r].kind = requests[r].kind
      /\ requests'[r].targets = requests[r].targets /\ requests'[r].behind = requests[r].behind
      /\ DOMAIN requests' = DOMAIN requests
  BY DEF Moves
<1>2. CASE requests[r].kind = "action"
  BY <1>1, <1>2 DEF ActionSound
<1>3. CASE requests[r].kind = "message"
  BY <1>3 DEF RequestSound
<1>4. CASE requests[r].kind = "protocol_error"
  BY <1>1, <1>4
<1>5. CASE requests[r].kind = "resume" /\ requests'[r].pc = "done"
  <2>1. requests'[r].targets \subseteq ClosedQuestions'
    BY <1>1, <1>5 DEF ResumeSound
  <2>2. w \in ClosedQuestions'
    BY <1>1, <2>1
  <2> QED
    BY <2>2 DEF ClosedQuestions
<1> QED
  BY <1>2, <1>3, <1>4, <1>5, Fields

LEMMA QuestionExec ==
  ASSUME RowTypes, FollowSound, QuestionSound, NEW r \in DOMAIN requests, Executes(r),
         NEW pc, NEW f, Moves(r, pc, f), requests[r].pc = "opened" => pc \in Ended,
         DOMAIN cards \subseteq DOMAIN cards'
  PROVE  QuestionSound'
<1>0. requests[r].pc \in {"opened"} \cup Ended => requests'[r].pc \in Ended
  BY DEF Moves, Executes, Executing, Unfinished
<1>1. /\ DOMAIN requests' = DOMAIN requests
      /\ \A q \in DOMAIN requests : q # r => requests'[q] = requests[q]
  BY DEF Moves
<1> SUFFICES ASSUME NEW w \in CardIds
             PROVE  /\ questions'[w].status # "none" => w \in DOMAIN cards'
                    /\ questions'[w].status = "open" =>
                          /\ questions'[w].by = 0 /\ questions'[w].asker \in DOMAIN requests'
                          /\ requests'[questions'[w].asker].pc \in {"opened"} \cup Ended
  BY DEF QuestionSound, CardIds
<1>2. CASE questions'[w] = questions[w]
  BY <1>0, <1>1, <1>2 DEF QuestionSound
<1>3. CASE Closes(r) /\ questions'[w] # questions[w]
  BY <1>3 DEF Closes
<1>4. CASE Opens(r) /\ questions'[w] # questions[w]
  <2>1. /\ w = requests[r].follow /\ questions'[w].by = 0 /\ questions'[w].asker = r
        /\ requests'[r].pc = "opened"
    BY <1>4 DEF Opens, Moves
  <2>2. w # 0
    BY InterruptBounds DEF CardIds
  <2>3. w \in DOMAIN cards
    BY <2>1, <2>2 DEF FollowSound
  <2> QED
    BY <1>1, <2>1, <2>3
<1>5. CASE ~Closes(r) /\ ~Opens(r)
  <2>1. questions' = questions
    BY <1>5 DEF Executes, Replies, Halts, Loads, Replays, Acts, Posts, Adds, Settles,
       Receives, Finishes
  <2> QED
    BY <1>2, <2>1
<1> QED
  BY <1>2, <1>3, <1>4, <1>5

\* The executing request behind the gate of a question that stays open.
LEMMA GateStep ==
  ASSUME RowTypes, RequestSound, NEW r \in DOMAIN requests, Executes(r),
         NEW pc, NEW f, Moves(r, pc, f), NEW v \in CardIds,
         questions[v].status = "open", questions'[v] = questions[v],
         requests[r].kind = "resume",
         \/ requests[r].pc = "queued" \/ requests[r].pc \in Ended
         \/ requests[r].pc = "answered" /\ requests[r].follow = 0
         \/ requests[r].pc \in Busy /\ v \in requests[r].targets
  PROVE  \/ pc = "queued" \/ pc \in Ended
         \/ pc = "answered" /\ f = 0
         \/ pc \in Busy /\ v \in requests[r].targets
<1>0. requests'[r].pc = pc /\ requests'[r].follow = f
  BY DEF Moves
<1>1. requests[r].pc \notin Ended
  BY DEF Executes, Executing, Unfinished
<1>2. CASE Replies(r)
  BY <1>2 DEF Replies
<1>3. CASE Halts(r) \/ Finishes(r)
  BY <1>0, <1>3 DEF Halts, Finishes, Moves, Ended
<1>4. CASE Loads(r)
  <2>1. v \in OpenQuestions /\ pc = "loaded"
    BY <1>0, <1>4 DEF OpenQuestions, Loads, Moves
  <2> QED
    BY <1>4, <2>1 DEF Loads, Busy
<1>5. CASE Replays(r)
  <2>1. requests[r].follow = 0
    BY <1>5 DEF Replays, RequestSound
  <2> QED
    BY <1>0, <1>5, <2>1 DEF Replays, Moves
<1>6. CASE Acts(r)
  BY <1>0, <1>1, <1>6 DEF Acts, Posts, Adds, Settles, Moves, Busy
<1>7. CASE Receives(r)
  BY <1>0, <1>1, <1>7 DEF Receives, Moves, Busy
<1>8. CASE Closes(r)
  <2>1. requests[r].pc \in Busy
    BY <1>8 DEF Closes
  <2>2. v \in requests[r].targets
    BY <1>1, <2>1 DEF Busy, Ended
  <2> QED
    BY <1>8, <2>2 DEF Closes
<1>9. CASE Opens(r)
  <2>1. requests[r].pc = "answered" /\ requests[r].follow # 0
    BY <1>9, InterruptBounds DEF Opens, CardIds
  <2> QED
    BY <1>1, <2>1 DEF Busy
<1> QED
  BY <1>2, <1>3, <1>4, <1>5, <1>6, <1>7, <1>8, <1>9 DEF Executes

LEMMA GateExec ==
  ASSUME RowTypes, OrderSound, RequestSound, GateSound, NEW r \in DOMAIN requests, Executes(r),
         NEW pc, NEW f, Moves(r, pc, f)
  PROVE  GateSound'
<1> SUFFICES ASSUME NEW v \in CardIds, questions'[v].status = "open",
                    NEW q \in DOMAIN requests,
                    questions'[v].asker < q, requests'[q].behind < questions'[v].asker
             PROVE  \/ requests'[q].kind = "protocol_error"
                    \/ /\ requests'[q].kind = "resume"
                       /\ \/ requests'[q].pc = "queued" \/ requests'[q].pc \in Ended
                          \/ requests'[q].pc = "answered" /\ requests'[q].follow = 0
                          \/ requests'[q].pc \in Busy /\ v \in requests'[q].targets
  BY DEF GateSound, Moves, OpenQuestions, CardIds
<1>1. /\ requests'[q].kind = requests[q].kind /\ requests'[q].targets = requests[q].targets
      /\ requests'[q].behind = requests[q].behind
      /\ q = r => requests'[q].pc = pc /\ requests'[q].follow = f
      /\ q # r => requests'[q] = requests[q]
  BY DEF Moves
<1>2. Executing(r) /\ requests[r].pc \notin Ended
  BY DEF Executes, Executing, Unfinished
<1>3. CASE questions'[v] = questions[v]
  <2>1. \/ requests[q].kind = "protocol_error"
        \/ /\ requests[q].kind = "resume"
           /\ \/ requests[q].pc = "queued" \/ requests[q].pc \in Ended
              \/ requests[q].pc = "answered" /\ requests[q].follow = 0
              \/ requests[q].pc \in Busy /\ v \in requests[q].targets
    BY <1>1, <1>3 DEF GateSound, OpenQuestions
  <2>2. CASE q # r
    BY <1>1, <2>1, <2>2
  <2>3. CASE q = r
    BY <1>1, <1>3, <2>1, <2>3, GateStep
  <2> QED
    BY <2>2, <2>3
<1>4. CASE Opens(r) /\ v = requests[r].follow /\ questions'[v].asker = r
  <2>1. r < q /\ requests[q].behind >= r
    BY <1>2, <1>4 DEF OrderSound
  <2>2. requests[q].behind < r
    BY <1>1, <1>4
  <2> QED
    BY <2>1, <2>2, Fields, Rowed
<1> QED
  BY <1>3, <1>4, OpenAfter

LEMMA ActionExec ==
  ASSUME RowTypes, OrderSound, RequestSound, FollowSound, ActionSound,
         NEW r \in DOMAIN requests, Executes(r), NEW pc, NEW f, Moves(r, pc, f)
  PROVE  ActionSound'
<1> SUFFICES ASSUME NEW q \in DOMAIN requests, requests'[q].kind = "action",
                    NEW w \in requests'[q].targets, questions'[w].status = "open"
             PROVE  requests'[q].behind >= questions'[w].asker
  BY DEF ActionSound, Moves
<1>1. /\ requests'[q].kind = requests[q].kind /\ requests'[q].targets = requests[q].targets
      /\ requests'[q].behind = requests[q].behind
  BY DEF Moves
<1>2. Executing(r) /\ requests[r].pc \notin Ended
  BY DEF Executes, Executing, Unfinished
<1>3. w \in requests[q].targets /\ w \in CardIds
  BY <1>1, Rowed DEF RequestSound
<1>4. CASE questions'[w] = questions[w]
  BY <1>1, <1>3, <1>4 DEF ActionSound
<1>5. CASE Opens(r) /\ w = requests[r].follow /\ questions'[w].asker = r
  <2>1. w # 0
    BY <1>3, InterruptBounds DEF CardIds
  <2>2. r < q
    BY <1>3, <1>5, <2>1 DEF FollowSound
  <2> QED
    BY <1>1, <1>2, <1>5, <2>2 DEF OrderSound
<1> QED
  BY <1>3, <1>4, <1>5, OpenAfter

LEMMA TwoExec ==
  ASSUME RowTypes, OrderSound, RequestSound, QuestionSound, GateSound, TwoQuestionsNeedQueue,
         NEW r \in DOMAIN requests, Executes(r), NEW pc, NEW f, Moves(r, pc, f)
  PROVE  TwoQuestionsNeedQueue'
<1> SUFFICES ASSUME NEW v \in CardIds, NEW w \in CardIds,
                    questions'[v].status = "open", questions'[w].status = "open",
                    questions'[v].asker < questions'[w].asker
             PROVE  requests'[questions'[w].asker].behind >= questions'[v].asker
  BY DEF TwoQuestionsNeedQueue, OpenQuestions, CardIds
<1>1. Executing(r)
  BY DEF Executes
<1>2. \A q \in DOMAIN requests : requests'[q].behind = requests[q].behind
  BY DEF Moves
<1>3. \A u \in CardIds : questions[u].status = "open" =>
         /\ questions[u].asker \in DOMAIN requests /\ questions[u].asker \in Nat
         /\ requests[questions[u].asker].pc # "queued"
  BY Rowed DEF QuestionSound, Ended
<1>4. CASE questions'[v] = questions[v] /\ questions'[w] = questions[w]
  BY <1>2, <1>3, <1>4 DEF TwoQuestionsNeedQueue, OpenQuestions
<1>5. CASE questions'[w].asker = r /\ Opens(r) /\ questions'[v] = questions[v]
  <2>1. requests[r].pc = "answered" /\ requests[r].follow # 0
    BY <1>5, InterruptBounds DEF Opens, CardIds
  <2>2. requests[r].kind # "protocol_error"
    BY <2>1 DEF RequestSound
  <2>3. ~(requests[r].behind < questions[v].asker)
    BY <1>5, <2>1, <2>2 DEF GateSound, OpenQuestions, Ended, Busy
  <2>4. requests[r].behind \in Nat /\ questions[v].asker \in Nat
    BY <1>3, <1>5, Fields
  <2> QED
    BY <1>2, <1>5, <2>3, <2>4
<1>6. CASE questions'[v].asker = r /\ questions'[w] = questions[w]
  <2> DEFINE a == questions[w].asker
  <2>1. a \in DOMAIN requests /\ requests[a].pc # "queued" /\ r < a
    BY <1>3, <1>6
  <2>2. a # r /\ ~(a < r)
    BY <2>1, Rowed
  <2> QED
    BY <1>1, <2>1, <2>2, ExecutingRow
<1>7. CASE questions'[v].asker = r /\ questions'[w].asker = r
  BY <1>7, Rowed
<1> QED
  BY <1>4, <1>5, <1>6, <1>7, OpenAfter

LEMMA AskerExec ==
  ASSUME RowTypes, QuestionSound, AskerSound, NEW r \in DOMAIN requests, Executes(r)
  PROVE  AskerSound'
<1> SUFFICES ASSUME NEW v \in CardIds, NEW w \in CardIds, v # w,
                    questions'[v].status = "open", questions'[w].status = "open"
             PROVE  questions'[v].asker # questions'[w].asker
  BY DEF AskerSound, OpenQuestions, CardIds
<1>1. CASE questions'[v] = questions[v] /\ questions'[w] = questions[w]
  BY <1>1 DEF AskerSound, OpenQuestions
<1>2. Opens(r) => \A u \in CardIds : questions[u].status = "open" => questions[u].asker # r
  BY DEF Opens, QuestionSound, Ended
<1>3. CASE Opens(r) /\ questions'[v].asker = r /\ questions'[w] = questions[w]
  BY <1>2, <1>3
<1>4. CASE Opens(r) /\ questions'[w].asker = r /\ questions'[v] = questions[v]
  BY <1>2, <1>4
<1> QED
  BY <1>1, <1>3, <1>4, OpenAfter

LEMMA CardExec ==
  ASSUME RowTypes, RequestSound, FollowSound, ActionSound, QuestionSound,
         CardSound, NEW r \in DOMAIN requests, Executes(r),
         NEW pc, NEW f, Moves(r, pc, f), pc = "done" => requests[r].kind # "protocol_error",
         CardsKept(requests[r].targets), ResumeSound'
  PROVE  CardSound'
<1> SUFFICES ASSUME NEW w \in CardIds, questions'[w].status = "open"
             PROVE  \/ w \in DOMAIN cards' /\ cards'[w].state = "pending"
                    \/ \E q \in DOMAIN requests' :
                          /\ w \in requests'[q].targets
                          /\ \/ requests'[q].pc # "done"
                             \/ /\ requests'[q].kind = "action"
                                /\ requests'[q].behind >= questions'[w].asker
  BY DEF CardSound, ActedOn, OpenQuestions, Pending, CardIds
<1>1. /\ DOMAIN requests' = DOMAIN requests /\ requests'[r].targets = requests[r].targets
      /\ \A q \in DOMAIN requests : q # r => requests'[q] = requests[q]
  BY DEF Moves
<1>2. CASE questions'[w] = questions[w] /\ w \in requests[r].targets
  BY <1>1, <1>2, TargetAnswerable
<1>3. CASE questions'[w] = questions[w] /\ w \notin requests[r].targets
  <2>1. CASE w \in DOMAIN cards /\ cards[w].state = "pending"
    BY <1>3, <2>1 DEF CardsKept
  <2>2. ASSUME NEW q \in DOMAIN requests, w \in requests[q].targets,
               \/ requests[q].pc # "done"
               \/ requests[q].kind = "action" /\ requests[q].behind >= questions[w].asker
        PROVE  \E p \in DOMAIN requests' :
                  /\ w \in requests'[p].targets
                  /\ \/ requests'[p].pc # "done"
                     \/ /\ requests'[p].kind = "action"
                        /\ requests'[p].behind >= questions'[w].asker
    <3>1. q # r
      BY <1>3, <2>2
    <3> QED
      BY <1>1, <1>3, <2>2, <3>1
  <2> QED
    BY <1>3, <2>1, <2>2 DEF CardSound, ActedOn, OpenQuestions, Pending
<1>4. CASE Opens(r) /\ w = requests[r].follow
  <2>1. w # 0 /\ requests[r].pc = "answered" /\ cards' = cards
    BY <1>4, InterruptBounds DEF Opens, CardIds
  <2>2. Pending(w)
    BY <1>4, <2>1 DEF FollowSound
  <2> QED
    BY <2>1, <2>2 DEF Pending
<1> QED
  BY <1>2, <1>3, <1>4, OpenAfter

LEMMA QuestionsExec ==
  ASSUME InterruptInv, NEW r \in DOMAIN requests, Executes(r)
  PROVE  QuestionsInv'
<1>1. /\ RowTypes /\ OrderSound /\ RequestSound /\ ResumeSound /\ FollowSound /\ QuestionSound
      /\ GateSound /\ ActionSound /\ TwoQuestionsNeedQueue /\ AskerSound /\ CardSound
  BY DEF InterruptInv, RequestsInv, QuestionsInv
<1>2. PICK pc, f : Moves(r, pc, f) /\ CardsKept(requests[r].targets)
  BY <1>1, ExecutesMoves
<1>3. /\ pc = "done" => requests[r].kind # "protocol_error"
      /\ requests[r].pc = "opened" => pc \in Ended
  BY <1>1, <1>2, ExecutesFrom
<1>4. DOMAIN cards \subseteq DOMAIN cards'
  BY <1>2 DEF CardsKept
<1>5. ResumeSound'
  BY RequestsExec DEF RequestsInv
<1>6. QuestionSound'
  BY <1>1, <1>2, <1>3, <1>4, QuestionExec
<1>7. GateSound' /\ ActionSound'
  BY <1>1, <1>2, GateExec, ActionExec
<1>8. TwoQuestionsNeedQueue'
  BY <1>1, <1>2, TwoExec
<1>9. AskerSound' /\ CardSound'
  BY <1>1, <1>2, <1>3, <1>5, AskerExec, CardExec
<1> QED
  BY <1>6, <1>7, <1>8, <1>9 DEF QuestionsInv

-----------------------------------------------------------------------------
(* The questions: admissions and uploads.                                  *)

\* While a question stays open outside requests are refused, or they wait.
LEMMA Gated ==
  ASSUME RowTypes,
         \/ \E kind, targets, answer : Arrives(kind, targets, answer)
         \/ \E w : Displaces(w)
         \/ Uploads,
         NEW v \in CardIds, questions'[v].status = "open"
  PROVE  /\ questions' = questions /\ cards' = cards
         /\ \E n : /\ DOMAIN requests' = DOMAIN requests \cup {n} /\ n \notin DOMAIN requests
                   /\ requests'[n].pc = "queued"
                   /\ requests'[n].kind \in {"protocol_error", "resume"}
         /\ \A q \in DOMAIN requests : requests'[q] = requests[q]
<1>1. ~QuestionsSuperseded
  BY DEF QuestionsSuperseded
<1>2. PICK kind, targets, answer : Arrives(kind, targets, answer)
  BY <1>1 DEF Displaces, Uploads
<1>3. questions' = questions /\ cards' = cards /\ Admits(kind, targets, answer)
  BY <1>2 DEF Arrives
<1>4. OpenQuestions # {}
  BY <1>3 DEF OpenQuestions
<1>5. kind \in {"protocol_error", "resume"}
  BY <1>2, <1>4 DEF Arrives
<1>6. Len(requests') \notin DOMAIN requests
  BY <1>3, Rowed DEF Admits
<1> QED
  BY <1>3, <1>5, <1>6 DEF Admits

LEMMA QuestionOutside ==
  ASSUME RowTypes, QuestionSound, Questioned, CardsKept(OpenQuestions),
         requests' = requests \/ \E kind, targets, answer : Admits(kind, targets, answer)
  PROVE  QuestionSound'
<1>1. /\ DOMAIN requests \subseteq DOMAIN requests'
      /\ \A q \in DOMAIN requests : requests'[q] = requests[q]
  BY DEF Admits
<1>2. DOMAIN cards \subseteq DOMAIN cards'
  BY DEF CardsKept
<1> SUFFICES ASSUME NEW w \in CardIds
             PROVE  /\ questions'[w].status # "none" => w \in DOMAIN cards'
                    /\ questions'[w].status = "open" =>
                          /\ questions'[w].by = 0 /\ questions'[w].asker \in DOMAIN requests'
                          /\ requests'[questions'[w].asker].pc \in {"opened"} \cup Ended
  BY DEF QuestionSound, CardIds
<1>3. /\ questions'[w].status # "none" => questions[w].status # "none"
      /\ questions'[w].status = "open" => questions'[w] = questions[w]
  BY QuestionedStay
<1> QED
  BY <1>1, <1>2, <1>3 DEF QuestionSound

LEMMA QuestionsOutside ==
  ASSUME InterruptInv, RowTypes',
         \/ \E kind, targets, answer : Arrives(kind, targets, answer)
         \/ \E w : Displaces(w)
         \/ Uploads
  PROVE  QuestionsInv'
<1>1. /\ RowTypes /\ RequestSound /\ QuestionSound /\ GateSound /\ ActionSound
      /\ TwoQuestionsNeedQueue /\ AskerSound /\ CardSound
  BY DEF InterruptInv, RequestsInv, QuestionsInv
<1>2. /\ Questioned /\ CardsKept(OpenQuestions)
      /\ requests' = requests \/ \E kind, targets, answer : Admits(kind, targets, answer)
  BY <1>1, Outside
<1>3. QuestionSound'
  BY <1>1, <1>2, QuestionOutside
<1>4. CASE \A v \in CardIds : questions'[v].status # "open"
  <2>1. OpenQuestions' = {}
    BY <1>4 DEF OpenQuestions, CardIds
  <2>2. GateSound' /\ TwoQuestionsNeedQueue' /\ AskerSound' /\ CardSound'
    BY <2>1 DEF GateSound, TwoQuestionsNeedQueue, AskerSound, CardSound
  <2>3. RequestSound'
    BY RequestsOutside DEF RequestsInv
  <2>4. DOMAIN cards' \subseteq CardIds
    BY Indices, InterruptBounds DEF RowTypes, CardIds
  <2>5. ActionSound'
    BY <1>4, <2>3, <2>4 DEF ActionSound, RequestSound
  <2> QED
    BY <1>3, <2>2, <2>5 DEF QuestionsInv
<1>5. ASSUME NEW v \in CardIds, questions'[v].status = "open"
      PROVE  QuestionsInv'
  <2>1. PICK n :
           /\ questions' = questions /\ cards' = cards
           /\ DOMAIN requests' = DOMAIN requests \cup {n} /\ n \notin DOMAIN requests
           /\ requests'[n].pc = "queued" /\ requests'[n].kind \in {"protocol_error", "resume"}
           /\ \A q \in DOMAIN requests : requests'[q] = requests[q]
    BY <1>1, <1>5, Gated
  <2>2. OpenQuestions' = OpenQuestions
    BY <2>1 DEF OpenQuestions, CardIds
  <2>3. GateSound'
    BY <1>1, <2>1, <2>2 DEF GateSound
  <2>4. ActionSound'
    BY <1>1, <2>1 DEF ActionSound
  <2>5. \A w \in OpenQuestions : questions[w].asker \in DOMAIN requests
    BY <1>1 DEF QuestionSound, OpenQuestions
  <2>6. TwoQuestionsNeedQueue'
    BY <1>1, <2>1, <2>2, <2>5 DEF TwoQuestionsNeedQueue
  <2>7. AskerSound' /\ CardSound'
    BY <1>1, <2>1, <2>2 DEF AskerSound, CardSound, ActedOn, Pending
  <2> QED
    BY <1>3, <2>3, <2>4, <2>6, <2>7 DEF QuestionsInv
<1> QED
  BY <1>4, <1>5

-----------------------------------------------------------------------------
(* What was posted.                                                        *)
LEMMA SubjectSame ==
  ASSUME SubjectSound, NEW ws, CardsKept(ws), DOMAIN cards' = DOMAIN cards
  PROVE  SubjectSound'
<1>1. \A w \in DOMAIN cards : /\ cards'[w].kind = cards[w].kind
                             /\ cards'[w].subject = cards[w].subject
                             /\ cards[w].subject \in DOMAIN cards
  BY DEF SubjectSound, CardsKept
<1> QED
  BY <1>1 DEF SubjectSound

LEMMA SubjectAdded ==
  ASSUME RowTypes, SubjectSound, NEW ws, NEW kind, NEW subject, CardAdded(ws, kind, subject),
         \/ subject = NewCard
         \/ /\ kind \in DraftKinds /\ subject \in DOMAIN cards
            /\ cards[subject].kind \in DraftKinds /\ cards[subject].subject = subject
  PROVE  SubjectSound'
<1> DEFINE n == NewCard
<1>1. /\ DOMAIN cards' = DOMAIN cards \cup {n} /\ n \notin DOMAIN cards /\ n \in Nat
      /\ \A v \in DOMAIN cards : v < n
      /\ cards'[n].kind = kind /\ cards'[n].subject = subject
      /\ \A v \in DOMAIN cards :
            cards'[v].kind = cards[v].kind /\ cards'[v].subject = cards[v].subject
  BY Rowed DEF CardAdded, CardsKept
<1> HIDE DEF n
<1> SUFFICES ASSUME NEW w \in DOMAIN cards'
             PROVE  /\ cards'[w].subject \in DOMAIN cards' /\ cards'[w].subject <= w
                    /\ cards'[cards'[w].subject].subject = cards'[w].subject
                    /\ cards'[w].kind \in DraftKinds =>
                          cards'[cards'[w].subject].kind \in DraftKinds
                    /\ cards'[w].kind \notin DraftKinds => cards'[w].subject = w
  BY DEF SubjectSound
<1>2. CASE w \in DOMAIN cards
  BY <1>1, <1>2 DEF SubjectSound
<1>3. CASE w = n /\ subject = n
  BY <1>1, <1>3
<1>4. CASE w = n /\ subject \in DOMAIN cards /\ kind \in DraftKinds
           /\ cards[subject].kind \in DraftKinds /\ cards[subject].subject = subject
  <2>1. subject < n /\ subject \in Nat
    BY <1>1, <1>4, Rowed
  <2> QED
    BY <1>1, <1>4, <2>1
<1> QED
  BY <1>1, <1>2, <1>3, <1>4 DEF n

\* Failures and actions on a subject are never forgotten.
LEMMA TaintStays ==
  ASSUME RequestSound, DOMAIN requests \subseteq DOMAIN requests', NEW ws, CardsKept(ws),
         \A q \in DOMAIN requests :
            /\ requests'[q].kind = requests[q].kind /\ requests'[q].answer = requests[q].answer
            /\ requests'[q].targets = requests[q].targets
            /\ requests[q].pc = "failed" => requests'[q].pc = "failed"
  PROVE  /\ \A s : Tainted(s) => Tainted(s)'
         /\ \A s : FailedOn(s) => FailedOn(s)'
         /\ \A q \in DOMAIN requests : \A s : Concerns(q, s) => Concerns(q, s)'
<1>1. ASSUME NEW q \in DOMAIN requests, NEW s, Concerns(q, s) PROVE Concerns(q, s)'
  <2>1. requests[q].targets \subseteq DOMAIN cards
    BY DEF RequestSound
  <2> QED
    BY <1>1, <2>1 DEF Concerns, CardsKept
<1>2. ASSUME NEW s, Tainted(s) PROVE Tainted(s)'
  BY <1>1, <1>2 DEF Tainted
<1>3. ASSUME NEW s, FailedOn(s) PROVE FailedOn(s)'
  BY <1>1, <1>3 DEF FailedOn
<1> QED
  BY <1>1, <1>2, <1>3

LEMMA TaintExec ==
  ASSUME RowTypes, RequestSound, NEW r \in DOMAIN requests, Executing(r), NEW pc, NEW f,
         Moves(r, pc, f), CardsKept(requests[r].targets)
  PROVE  /\ \A s : Tainted(s) => Tainted(s)'
         /\ \A s : FailedOn(s) => FailedOn(s)'
         /\ \A q \in DOMAIN requests : \A s : Concerns(q, s) => Concerns(q, s)'
<1>1. requests[r].pc # "failed"
  BY DEF Executing, Unfinished, Ended
<1>2. /\ DOMAIN requests \subseteq DOMAIN requests'
      /\ \A q \in DOMAIN requests :
            /\ requests'[q].kind = requests[q].kind /\ requests'[q].answer = requests[q].answer
            /\ requests'[q].targets = requests[q].targets
            /\ requests[q].pc = "failed" => requests'[q].pc = "failed"
  BY <1>1 DEF Moves
<1> QED
  BY <1>2, TaintStays

LEMMA TaintOutside ==
  ASSUME RequestSound, NEW ws, CardsKept(ws),
         requests' = requests \/ \E kind, targets, answer : Admits(kind, targets, answer)
  PROVE  /\ \A s : Tainted(s) => Tainted(s)'
         /\ \A s : FailedOn(s) => FailedOn(s)'
<1>1. /\ DOMAIN requests \subseteq DOMAIN requests'
      /\ \A q \in DOMAIN requests : requests'[q] = requests[q]
  BY DEF Admits
<1> QED
  BY <1>1, TaintStays

\* Only the executing request has a card loaded or acted on.
LEMMA TargetedNow ==
  ASSUME RowTypes, OrderSound, NEW r \in DOMAIN requests, Executing(r),
         NEW pc \in {"loaded", "acted"}, NEW s
  PROVE  Targeted(s, pc) <=> requests[r].pc = pc /\ s \in requests[r].targets
<1>1. \A q \in DOMAIN requests : q # r => requests[q].pc # pc
  BY ExecutingRow DEF Ended
<1> QED
  BY <1>1 DEF Targeted

LEMMA TargetedNext ==
  ASSUME RowTypes, OrderSound, NEW r \in DOMAIN requests, Executing(r),
         NEW pc, NEW f, Moves(r, pc, f), NEW p \in {"loaded", "acted"}, NEW s
  PROVE  Targeted(s, p)' <=> pc = p /\ s \in requests[r].targets
<1>1. /\ DOMAIN requests' = DOMAIN requests /\ requests'[r].pc = pc
      /\ requests'[r].targets = requests[r].targets
      /\ \A q \in DOMAIN requests : q # r => requests'[q] = requests[q]
  BY DEF Moves
<1>2. \A q \in DOMAIN requests : q # r => requests'[q].pc # p
  BY <1>1, ExecutingRow DEF Ended
<1> QED
  BY <1>1, <1>2 DEF Targeted

\* A request that acted on a card fails, or takes the card out of pending.
LEMMA ActedEnds ==
  ASSUME RowTypes, RequestSound, NEW r \in DOMAIN requests, Executes(r), NEW pc, NEW f,
         Moves(r, pc, f), NEW s \in DOMAIN cards, s \in requests[r].targets,
         requests[r].pc = "acted"
  PROVE  pc = "failed" \/ (cards'[s].state # "pending" /\ pc # "loaded")
<1>0. requests'[r].pc = pc
  BY DEF Moves
<1>1. CASE Halts(r)
  BY <1>0, <1>1 DEF Halts, Moves
<1>2. CASE Receives(r)
  <2>1. PICK w \in DOMAIN cards : requests[r].targets = {w} /\ cards'[w].state = "completed"
    BY <1>2 DEF Receives
  <2> QED
    BY <1>0, <1>2, <2>1 DEF Receives, Moves
<1>3. CASE Closes(r)
  <2>1. PICK w \in DOMAIN cards : /\ requests[r].targets = {w}
                                  /\ cards'[w].state = "pending" => requests[r].pc = "receipted"
    BY <1>3 DEF Closes
  <2> QED
    BY <1>0, <1>3, <2>1 DEF Closes, Moves
<1> QED
  BY <1>1, <1>2, <1>3
     DEF Executes, Replies, Loads, Replays, Acts, Opens, Finishes

LEMMA LoadsPending ==
  ASSUME RowTypes, NEW r \in DOMAIN requests, Executes(r), NEW pc, NEW f,
         Moves(r, pc, f), pc = "loaded", NEW s, s \in requests[r].targets
  PROVE  Pending(s) /\ requests[r].pc = "queued"
<1>0. requests'[r].pc = "loaded"
  BY DEF Moves
<1>1. CASE Loads(r)
  BY <1>1 DEF Loads
<1>2. CASE ~Loads(r)
  BY <1>0, <1>2 DEF Executes, Replies, Halts, Replays, Acts, Posts, Adds, Settles, Receives,
     Closes, Opens, Finishes, Moves
<1> QED
  BY <1>1, <1>2

LEMMA PostedStays ==
  ASSUME RowTypes, OrderSound, RequestSound, PostSound, NEW r \in DOMAIN requests, Executes(r),
         NEW pc, NEW f, Moves(r, pc, f), CardsKept(requests[r].targets),
         NEW s \in CardIds, ledger[s] > 0, ledger'[s] = ledger[s],
         cards[s].kind \in {"goal", "clarify"}
  PROVE  \/ FailedOn(s)'
         \/ /\ ledger'[s] = 1 /\ ~Targeted(s, "loaded")'
            /\ Pending(s)' => Targeted(s, "acted")'
<1>1. s \in DOMAIN cards /\ cards[s].subject = s /\ Executing(r)
  BY DEF PostSound, Executes
<1>2. CASE FailedOn(s)
  BY <1>1, <1>2, TaintExec
<1>3. CASE ledger[s] = 1 /\ ~Targeted(s, "loaded") /\ (Pending(s) => Targeted(s, "acted"))
  <2>1. CASE requests[r].pc = "acted" /\ s \in requests[r].targets
    <3>1. CASE pc = "failed"
      <4>1. Concerns(r, s)'
        BY <1>1, <2>1, TaintExec DEF Concerns
      <4>2. r \in DOMAIN requests' /\ requests'[r].pc = "failed"
        BY <3>1 DEF Moves
      <4> QED
        BY <4>1, <4>2 DEF FailedOn
    <3>2. CASE cards'[s].state # "pending" /\ pc # "loaded"
      <4>1. ~Targeted(s, "loaded")'
        BY <1>1, <3>2, TargetedNext
      <4>2. ~Pending(s)'
        BY <3>2 DEF Pending
      <4> QED
        BY <1>3, <4>1, <4>2
    <3> QED
      BY <1>1, <2>1, <3>1, <3>2, ActedEnds
  <2>2. CASE ~(requests[r].pc = "acted" /\ s \in requests[r].targets)
    <3>1. ~Pending(s)
      BY <1>1, <1>3, <2>2, TargetedNow
    <3>2. ~Pending(s)'
      BY <1>1, <3>1 DEF Pending, CardsKept
    <3>3. ~(pc = "loaded" /\ s \in requests[r].targets)
      BY <3>1, LoadsPending
    <3>4. ~Targeted(s, "loaded")'
      BY <1>1, <3>3, TargetedNext
    <3> QED
      BY <1>3, <3>2, <3>4
  <2> QED
    BY <2>1, <2>2
<1> QED
  BY <1>2, <1>3 DEF PostSound

\* Steps that post nothing.
LEMMA PostExec ==
  ASSUME RowTypes, OrderSound, RequestSound, PostSound, NEW r \in DOMAIN requests, Executes(r),
         NEW pc, NEW f, Moves(r, pc, f), CardsKept(requests[r].targets),
         ledger' = ledger, DraftsKept
  PROVE  PostSound'
<1> SUFFICES ASSUME NEW s \in CardIds
             PROVE  /\ ledger'[s] > 0 => s \in DOMAIN cards' /\ cards'[s].subject = s
                    /\ s \in DOMAIN cards' /\ cards'[s].kind \in DraftKinds \cup {"import"}
                          => ledger'[s] <= 1
                    /\ drafts'[s] = "committed" =>
                          ledger'[s] = 1 /\ cards'[s].kind \in DraftKinds
                    /\ ledger'[s] > 0 /\ cards'[s].kind \in {"goal", "clarify"} =>
                          \/ FailedOn(s)'
                          \/ /\ ledger'[s] = 1 /\ ~Targeted(s, "loaded")'
                             /\ Pending(s)' => Targeted(s, "acted")'
  BY DEF PostSound, CardIds
<1>1. ledger'[s] = ledger[s] /\ ledger[s] \in Nat
      /\ (drafts'[s] = "committed" => drafts[s] = "committed")
  BY Rowed DEF DraftsKept
<1>2. CASE ledger[s] > 0
  <2>1. s \in DOMAIN cards /\ cards[s].subject = s
    BY <1>2 DEF PostSound
  <2>2. s \in DOMAIN cards' /\ cards'[s].kind = cards[s].kind /\ cards'[s].subject = s
    BY <2>1 DEF CardsKept
  <2>3. cards[s].kind \in {"goal", "clarify"} =>
           \/ FailedOn(s)'
           \/ /\ ledger'[s] = 1 /\ ~Targeted(s, "loaded")'
              /\ Pending(s)' => Targeted(s, "acted")'
    BY <1>1, <1>2, PostedStays
  <2> QED
    BY <1>1, <1>2, <2>1, <2>2, <2>3 DEF PostSound
<1>3. CASE ledger[s] = 0
  BY <1>1, <1>3 DEF PostSound
<1> QED
  BY <1>1, <1>2, <1>3

\* The step that posts.
LEMMA PostPost ==
  ASSUME RowTypes, OrderSound, RequestSound, SubjectSound, PostSound,
         NEW r \in DOMAIN requests, Executes(r), requests[r].pc = "loaded",
         NEW w \in DOMAIN cards, requests[r].targets = {w}, Posts(r, w, cards[w].subject)
  PROVE  PostSound'
<1> DEFINE t == cards[w].subject
<1>1. /\ Moves(r, "acted", requests[r].follow) /\ cards' = cards /\ Executing(r)
      /\ \A v \in CardIds : v # t => ledger'[v] = ledger[v] /\ drafts'[v] = drafts[v]
  BY DEF Posts, Executes
<1>2. CardsKept(requests[r].targets)
  BY <1>1 DEF RowTypes, CardsKept
<1>3. /\ t \in DOMAIN cards /\ cards[t].subject = t /\ t \in CardIds
      /\ cards[w].kind \in DraftKinds => cards[t].kind \in DraftKinds
      /\ cards[w].kind \notin DraftKinds => t = w
  BY Rowed DEF SubjectSound
<1> SUFFICES ASSUME NEW s \in CardIds
             PROVE  /\ ledger'[s] > 0 => s \in DOMAIN cards /\ cards[s].subject = s
                    /\ s \in DOMAIN cards /\ cards[s].kind \in DraftKinds \cup {"import"}
                          => ledger'[s] <= 1
                    /\ drafts'[s] = "committed" =>
                          ledger'[s] = 1 /\ cards[s].kind \in DraftKinds
                    /\ ledger'[s] > 0 /\ cards[s].kind \in {"goal", "clarify"} =>
                          \/ FailedOn(s)'
                          \/ /\ ledger'[s] = 1 /\ ~Targeted(s, "loaded")'
                             /\ Pending(s)' => Targeted(s, "acted")'
  BY <1>1 DEF PostSound, CardIds
<1>4. CASE s # t
  <2>1. ledger'[s] = ledger[s] /\ drafts'[s] = drafts[s]
    BY <1>1, <1>4
  <2>2. ledger[s] > 0 /\ cards[s].kind \in {"goal", "clarify"} =>
           \/ FailedOn(s)'
           \/ /\ ledger'[s] = 1 /\ ~Targeted(s, "loaded")'
              /\ Pending(s)' => Targeted(s, "acted")'
    BY <1>1, <1>2, <2>1, PostedStays
  <2> QED
    BY <2>1, <2>2 DEF PostSound
<1>5. CASE s = t /\ cards[w].kind \in DraftKinds
  <2>1. ledger'[s] = 1 /\ cards[s].kind \in DraftKinds
    BY <1>3, <1>5 DEF Posts, DraftKinds
  <2> QED
    BY <1>3, <1>5, <2>1 DEF DraftKinds
<1>6. CASE s = t /\ cards[w].kind = "import"
  <2>1. ledger'[s] = 1 /\ cards[s].kind = "import" /\ drafts'[s] = drafts[s]
    BY <1>3, <1>6 DEF Posts, DraftKinds
  <2> QED
    BY <1>3, <1>6, <2>1 DEF DraftKinds, PostSound
<1>7. CASE s = t /\ cards[w].kind \in {"goal", "clarify"}
  <2>1. /\ s = w /\ ledger'[s] = ledger[s] + 1 /\ drafts'[s] = drafts[s]
    BY <1>3, <1>7 DEF Posts, DraftKinds
  <2>2. Targeted(s, "loaded") /\ ledger[s] \in Nat
    BY <1>1, <2>1, TargetedNow, Rowed
  <2>3. ledger[s] > 0 => FailedOn(s)
    BY <1>7, <2>1, <2>2 DEF PostSound
  <2>4. FailedOn(s) => FailedOn(s)'
    BY <1>1, <1>2, TaintExec
  <2>5. ~Targeted(s, "loaded")' /\ Targeted(s, "acted")'
    BY <1>1, <2>1, TargetedNext
  <2>6. drafts[s] # "committed"
    BY <1>7, <2>1 DEF PostSound, DraftKinds
  <2> QED
    BY <1>3, <1>7, <2>1, <2>2, <2>3, <2>4, <2>5, <2>6 DEF DraftKinds
<1>8. cards[w].kind \in Kinds
  BY Rowed
<1> QED
  BY <1>4, <1>5, <1>6, <1>7, <1>8 DEF Kinds, DraftKinds

\* Subjects, over the steps of the executing request.
LEMMA SubjectExec ==
  ASSUME RowTypes, SubjectSound, NEW r \in DOMAIN requests, Executes(r)
  PROVE  SubjectSound'
<1>1. ASSUME DOMAIN cards' = DOMAIN cards, CardsKept(requests[r].targets) PROVE SubjectSound'
  BY <1>1, SubjectSame
<1>2. ASSUME NEW kind, CardAdded({}, kind, NewCard) PROVE SubjectSound'
  BY <1>2, SubjectAdded
<1>3. CardsKept(requests[r].targets)
  BY ExecutesMoves
<1>4. CASE Replies(r)
  BY <1>1, <1>2, <1>3, <1>4 DEF Replies
<1>5. CASE Acts(r)
  <2>1. PICK w \in DOMAIN cards :
           \/ cards' = cards
           \/ Adds(r, w, cards[w].subject)
    BY <1>5 DEF Acts, Posts, Settles
  <2> DEFINE s == cards[w].subject
  <2>2. CASE cards' = cards
    BY <1>1, <1>3, <2>2
  <2>3. ASSUME cards[w].kind \in DraftKinds, NEW kind \in DraftKinds, CardAdded({}, kind, s)
        PROVE  SubjectSound'
    <3>1. s \in DOMAIN cards /\ cards[s].subject = s /\ cards[s].kind \in DraftKinds
      BY <2>3 DEF SubjectSound
    <3> QED
      BY <2>3, <3>1, SubjectAdded
  <2> QED
    BY <1>2, <2>1, <2>2, <2>3 DEF Adds
<1>6. CASE ~Replies(r) /\ ~Acts(r)
  <2>1. DOMAIN cards' = DOMAIN cards
    BY <1>6 DEF Executes, Halts, Loads, Replays, Receives, Closes, Opens, Finishes, CardsSame
  <2> QED
    BY <1>1, <1>3, <2>1
<1> QED
  BY <1>4, <1>5, <1>6

\* Only an approved action or resume posts.
LEMMA QuietExec ==
  ASSUME RowTypes, NEW r \in DOMAIN requests, Executes(r)
  PROVE  \/ ledger' = ledger /\ DraftsKept
         \/ /\ requests[r].pc = "loaded" /\ requests[r].answer = "approve"
            /\ \E w \in DOMAIN cards :
                  requests[r].targets = {w} /\ Posts(r, w, cards[w].subject)
<1>1. drafts' = drafts => DraftsKept
  BY DEF DraftsKept, RowTypes
<1>2. CASE Acts(r)
  BY <1>2 DEF Acts, Adds, Settles
<1>3. CASE ~Acts(r)
  BY <1>1, <1>3 DEF Executes, Replies, Halts, Loads, Replays, Receives, Closes, Opens, Finishes
<1> QED
  BY <1>2, <1>3

LEMMA PostOutside ==
  ASSUME RowTypes, RequestSound, PostSound, NEW ws, CardsKept(ws), ledger' = ledger, DraftsKept,
         requests' = requests \/ \E kind, targets, answer : Admits(kind, targets, answer)
  PROVE  PostSound'
<1>1. \A s, pc : pc \in {"loaded", "acted"} => (Targeted(s, pc)' <=> Targeted(s, pc))
  BY DEF Targeted, Admits
<1>2. \A s : FailedOn(s) => FailedOn(s)'
  BY TaintOutside
<1> SUFFICES ASSUME NEW s \in CardIds
             PROVE  /\ ledger'[s] > 0 => s \in DOMAIN cards' /\ cards'[s].subject = s
                    /\ s \in DOMAIN cards' /\ cards'[s].kind \in DraftKinds \cup {"import"}
                          => ledger'[s] <= 1
                    /\ drafts'[s] = "committed" =>
                          ledger'[s] = 1 /\ cards'[s].kind \in DraftKinds
                    /\ ledger'[s] > 0 /\ cards'[s].kind \in {"goal", "clarify"} =>
                          \/ FailedOn(s)'
                          \/ /\ ledger'[s] = 1 /\ ~Targeted(s, "loaded")'
                             /\ Pending(s)' => Targeted(s, "acted")'
  BY DEF PostSound, CardIds
<1>3. ledger'[s] = ledger[s] /\ ledger[s] \in Nat
      /\ (drafts'[s] = "committed" => drafts[s] = "committed")
  BY Rowed DEF DraftsKept
<1>4. CASE ledger[s] > 0
  <2>1. s \in DOMAIN cards /\ cards[s].subject = s
    BY <1>4 DEF PostSound
  <2>2. s \in DOMAIN cards' /\ cards'[s].kind = cards[s].kind /\ cards'[s].subject = s
    BY <2>1 DEF CardsKept
  <2>3. Pending(s)' => Pending(s)
    BY <2>1 DEF Pending, CardsKept
  <2>4. (Targeted(s, "loaded")' <=> Targeted(s, "loaded"))
        /\ (Targeted(s, "acted")' <=> Targeted(s, "acted"))
    BY <1>1
  <2>5. FailedOn(s) => FailedOn(s)'
    BY <1>2
  <2> QED
    BY <1>3, <1>4, <2>1, <2>2, <2>3, <2>4, <2>5 DEF PostSound
<1>5. CASE ledger[s] = 0
  BY <1>3, <1>5 DEF PostSound
<1> QED
  BY <1>3, <1>4, <1>5

-----------------------------------------------------------------------------
(* Whatever was posted is accounted for.                                   *)
Accounted(w) ==
    \/ Tainted(cards[w].subject)
    \/ questions[w].status = "resolved" /\ questions[w].answer = "approve"
    \/ ledger[cards[w].subject] = 0 /\ Newest(w)
    \/ \E r \in DOMAIN requests :
          /\ requests[r].kind = "resume" /\ requests[r].pc \in {"acted", "receipted"}
          /\ w \in requests[r].targets

LEMMA AccountedAll == TraceSound <=> \A w \in DOMAIN cards : Accounted(w)
BY DEF TraceSound, Accounted

LEMMA NewestStays ==
  ASSUME SubjectSound, NEW ws, CardsKept(ws), NEW w \in DOMAIN cards, Newest(w),
         \/ DOMAIN cards' = DOMAIN cards
         \/ \E kind, subject :
               CardAdded(ws, kind, subject) /\ subject # cards[w].subject
  PROVE  Newest(w)'
<1>1. /\ cards'[w].subject = cards[w].subject
      /\ \A v \in DOMAIN cards : cards'[v].subject = cards[v].subject
  BY DEF CardsKept
<1>2. CASE DOMAIN cards' = DOMAIN cards
  BY <1>1, <1>2 DEF Newest
<1>3. ASSUME NEW kind, NEW subject, CardAdded(ws, kind, subject), subject # cards[w].subject
      PROVE  Newest(w)'
  BY <1>1, <1>3 DEF Newest, CardAdded
<1> QED
  BY <1>2, <1>3

\* A card persisted about a new subject has posted nothing.
LEMMA FreshAccounted ==
  ASSUME RowTypes, PostSound, SubjectSound, NEW ws, NEW kind, NEW n, n = NewCard,
         CardAdded(ws, kind, n), ledger' = ledger
  PROVE  Accounted(n)' /\ \A w \in DOMAIN cards : n # cards[w].subject
<1>1. /\ n \in CardIds /\ n \notin DOMAIN cards /\ \A w \in DOMAIN cards : w < n
      /\ DOMAIN cards' = DOMAIN cards \cup {n} /\ cards'[n].subject = n
      /\ \A w \in DOMAIN cards : cards'[w].subject = cards[w].subject
  BY DEF CardAdded, CardsKept
<1>2. ledger'[n] = 0
  BY <1>1, Rowed DEF PostSound
<1>3. \A w \in DOMAIN cards : cards[w].subject # n
  BY <1>1 DEF SubjectSound
<1>4. Newest(n)'
  BY <1>1, <1>3, Rowed DEF Newest
<1> QED
  BY <1>1, <1>2, <1>3, <1>4 DEF Accounted

\* An approving resume leaves its card accounted for, whatever it does next.
LEMMA ApprovedStays ==
  ASSUME RowTypes, RequestSound, NEW r \in DOMAIN requests, Executes(r), NEW pc, NEW f,
         Moves(r, pc, f), CardsKept(requests[r].targets), NEW w \in DOMAIN cards,
         requests[r].kind = "resume", requests[r].pc \in {"acted", "receipted"},
         w \in requests[r].targets
  PROVE  Accounted(w)'
<1>0. /\ DOMAIN requests' = DOMAIN requests /\ requests'[r].pc = pc
      /\ requests'[r].kind = "resume" /\ requests'[r].targets = requests[r].targets
      /\ requests'[r].answer = "approve" /\ cards'[w].subject = cards[w].subject
  BY DEF Moves, RequestSound, CardsKept
<1>1. CASE Halts(r)
  <2>1. requests'[r].pc = "failed"
    BY <1>1 DEF Halts, Moves
  <2>2. Concerns(r, cards[w].subject)'
    BY <1>0 DEF Concerns
  <2>3. Tainted(cards[w].subject)'
    BY <1>0, <2>1, <2>2 DEF Tainted
  <2> QED
    BY <2>3 DEF Accounted
<1>2. CASE Receives(r)
  <2>1. requests'[r].pc = "receipted"
    BY <1>2 DEF Receives, Moves
  <2> QED
    BY <1>0, <2>1 DEF Accounted
<1>3. CASE Closes(r)
  <2>1. questions'[w].status = "resolved" /\ questions'[w].answer = "approve"
    BY <1>3 DEF Closes
  <2> QED
    BY <2>1 DEF Accounted
<1> QED
  BY <1>1, <1>2, <1>3
     DEF Executes, Replies, Loads, Replays, Acts, Opens, Finishes

\* Resolved questions stay as they are.
LEMMA ResolvedStays ==
  ASSUME RowTypes, ResumeSound, FollowSound, NEW r \in DOMAIN requests, Executes(r),
         NEW w \in CardIds, questions[w].status = "resolved"
  PROVE  questions'[w] = questions[w]
<1>1. CASE Closes(r)
  BY <1>1 DEF Closes, ResumeSound
<1>2. CASE Opens(r)
  <2>1. requests[r].follow # 0 /\ requests[r].pc = "answered"
    BY <1>2, InterruptBounds DEF Opens, CardIds
  <2>2. w # requests[r].follow
    BY <2>1 DEF FollowSound
  <2> QED
    BY <1>2, <2>2 DEF Opens
<1>3. CASE ~Closes(r) /\ ~Opens(r)
  BY <1>3 DEF Executes, Replies, Halts, Loads, Replays, Acts, Posts, Adds, Settles,
     Receives, Finishes
<1> QED
  BY <1>1, <1>2, <1>3

LEMMA AccountKept ==
  ASSUME RowTypes, OrderSound, RequestSound, ResumeSound, FollowSound,
         NEW r \in DOMAIN requests, Executes(r), NEW pc, NEW f,
         Moves(r, pc, f), CardsKept(requests[r].targets), NEW w \in DOMAIN cards, Accounted(w),
         ledger[cards[w].subject] = 0 /\ Newest(w) =>
            \/ Tainted(cards[w].subject)'
            \/ ledger'[cards[w].subject] = 0 /\ Newest(w)'
            \/ requests[r].kind = "resume" /\ pc = "acted" /\ w \in requests[r].targets
  PROVE  Accounted(w)'
<1>0. cards'[w].subject = cards[w].subject /\ w \in CardIds /\ Executing(r)
  BY Rowed DEF CardsKept, Executes
<1>1. CASE Tainted(cards[w].subject)
  BY <1>0, <1>1, TaintExec DEF Accounted
<1>2. CASE questions[w].status = "resolved" /\ questions[w].answer = "approve"
  BY <1>0, <1>2, ResolvedStays DEF Accounted
<1>3. CASE ledger[cards[w].subject] = 0 /\ Newest(w)
  <2>1. CASE Tainted(cards[w].subject)'
    BY <1>0, <2>1 DEF Accounted
  <2>2. CASE ledger'[cards[w].subject] = 0 /\ Newest(w)'
    BY <1>0, <2>2 DEF Accounted
  <2>3. CASE requests[r].kind = "resume" /\ pc = "acted" /\ w \in requests[r].targets
    BY <2>3 DEF Accounted, Moves
  <2> QED
    BY <1>3, <2>1, <2>2, <2>3
<1>4. CASE \E q \in DOMAIN requests :
              /\ requests[q].kind = "resume" /\ requests[q].pc \in {"acted", "receipted"}
              /\ w \in requests[q].targets
  <2>1. /\ requests[r].kind = "resume" /\ requests[r].pc \in {"acted", "receipted"}
        /\ w \in requests[r].targets
    BY <1>0, <1>4, ExecutingRow DEF Ended
  <2> QED
    BY <2>1, ApprovedStays
<1> QED
  BY <1>1, <1>2, <1>3, <1>4 DEF Accounted

\* Before an approval posts, its subject is tainted or has posted nothing.
LEMMA ApprovalFinds ==
  ASSUME RowTypes, OrderSound, RequestSound, ResumeSound, TraceSound,
         NEW r \in DOMAIN requests, Executing(r),
         requests[r].pc = "loaded", requests[r].answer = "approve",
         NEW w \in DOMAIN cards, requests[r].targets = {w}
  PROVE  \/ Tainted(cards[w].subject)
         \/ /\ requests[r].kind = "resume"
            /\ ledger[cards[w].subject] = 0 /\ Newest(w)
<1>1. Concerns(r, cards[w].subject)
  BY DEF Concerns
<1>2. CASE requests[r].kind = "action"
  BY <1>1, <1>2 DEF Tainted
<1>3. CASE requests[r].kind = "resume"
  <2>1. questions[w].status # "resolved"
    BY <1>3 DEF ResumeSound, Busy
  <2>2. ~ \E q \in DOMAIN requests :
             /\ requests[q].kind = "resume" /\ requests[q].pc \in {"acted", "receipted"}
             /\ w \in requests[q].targets
    BY ExecutingRow DEF Ended
  <2> QED
    BY <1>3, <2>1, <2>2 DEF TraceSound
<1>4. requests[r].kind \in {"action", "resume"}
  BY DEF RequestSound, Busy
<1> QED
  BY <1>2, <1>3, <1>4

LEMMA TraceExec ==
  ASSUME InterruptInv, NEW r \in DOMAIN requests, Executes(r)
  PROVE  TraceSound'
<1>1. /\ RowTypes /\ OrderSound /\ RequestSound /\ ResumeSound /\ FollowSound
      /\ SubjectSound /\ PostSound /\ TraceSound /\ Executing(r)
  BY DEF InterruptInv, RequestsInv, PostsInv, Executes
<1>2. PICK pc, f : Moves(r, pc, f) /\ CardsKept(requests[r].targets)
  BY <1>1, ExecutesMoves
<1>3. \A w \in DOMAIN cards : Accounted(w) /\ cards'[w].subject = cards[w].subject
  BY <1>1, <1>2, AccountedAll DEF CardsKept
<1>4. \A s : Tainted(s) => Tainted(s)'
  BY <1>1, <1>2, TaintExec
<1>5. SUFFICES \A w \in DOMAIN cards' : Accounted(w)'
  BY DEF TraceSound, Accounted
\* No card is added and nothing is posted.
<1>6. ASSUME cards' = cards \/ DOMAIN cards' = DOMAIN cards, ledger' = ledger
      PROVE  \A w \in DOMAIN cards' : Accounted(w)'
  <2> TAKE w \in DOMAIN cards'
  <2>1. w \in DOMAIN cards
    BY <1>6
  <2>2. Newest(w) => Newest(w)'
    BY <1>1, <1>2, <1>6, <2>1, NewestStays
  <2> QED
    BY <1>1, <1>2, <1>3, <1>6, <2>1, <2>2, AccountKept
\* A card is added about a new subject.
<1>7. ASSUME NEW kind, CardAdded({}, kind, NewCard), ledger' = ledger
      PROVE  \A w \in DOMAIN cards' : Accounted(w)'
  <2>n. PICK n : n = NewCard
    OBVIOUS
  <2>1. Accounted(n)' /\ \A w \in DOMAIN cards : n # cards[w].subject
    BY <1>1, <1>7, <2>n, FreshAccounted
  <2>2. ASSUME NEW w \in DOMAIN cards PROVE Accounted(w)'
    <3>1. CardsKept({}) /\ NewCard # cards[w].subject
      BY <1>7, <2>1, <2>n DEF CardAdded
    <3>2. Newest(w) => Newest(w)'
      BY <1>1, <1>7, <3>1, NewestStays
    <3> QED
      BY <1>1, <1>2, <1>3, <1>7, <3>2, AccountKept
  <2>3. DOMAIN cards' = DOMAIN cards \cup {n}
    BY <1>7, <2>n DEF CardAdded
  <2> QED
    BY <2>1, <2>2, <2>3
<1>8. CASE Acts(r)
  <2>1. requests[r].pc = "loaded" /\ requests[r].answer = "approve"
    BY <1>8 DEF Acts
  <2>2. PICK w0 \in DOMAIN cards :
           /\ requests[r].targets = {w0}
           /\ \/ Posts(r, w0, cards[w0].subject) \/ Adds(r, w0, cards[w0].subject)
              \/ Settles(r)
    BY <1>8 DEF Acts
  <2>s. PICK s : s = cards[w0].subject
    OBVIOUS
  <2>3. pc = "acted"
    BY <1>2, <2>2 DEF Moves, Posts, Adds, Settles
  <2>4. \/ Tainted(s)'
        \/ requests[r].kind = "resume" /\ ledger[s] = 0 /\ Newest(w0)
    BY <1>1, <1>4, <2>1, <2>2, <2>s, ApprovalFinds
  \* The approved card, and the other cards of its subject.
  <2>5. ASSUME NEW w \in DOMAIN cards, cards[w].subject = s PROVE Accounted(w)'
    <3>1. Newest(w) /\ Newest(w0) => w = w0
      <4>1. w \in Nat /\ w0 \in Nat
        BY <1>1, Rowed
      <4> QED
        BY <2>5, <2>s, <4>1 DEF Newest
    <3>2. CASE Tainted(s)'
      BY <1>3, <2>5, <3>2 DEF Accounted
    <3>3. CASE requests[r].kind = "resume" /\ Newest(w0)
      <4>1. Newest(w) => w \in requests[r].targets
        BY <2>2, <3>1, <3>3
      <4> QED
        BY <1>1, <1>2, <1>3, <2>3, <3>3, <4>1, AccountKept
    <3> QED
      BY <2>4, <3>2, <3>3
  <2>6. CASE Settles(r)
    <3>1. cards' = cards /\ ledger' = ledger
      BY <2>6 DEF Settles
    <3> QED
      BY <1>6, <3>1
  <2>7. CASE Posts(r, w0, s)
    <3>1. /\ cards' = cards
          /\ \A v \in CardIds : v # s => ledger'[v] = ledger[v]
      BY <2>7, <2>s DEF Posts
    <3> SUFFICES ASSUME NEW w \in DOMAIN cards PROVE Accounted(w)'
      BY <3>1
    <3>2. CASE cards[w].subject # s
      <4>1. ledger'[cards[w].subject] = ledger[cards[w].subject]
        BY <1>1, <3>1, <3>2, Rowed
      <4>2. Newest(w) => Newest(w)'
        BY <3>1 DEF Newest
      <4> QED
        BY <1>1, <1>2, <1>3, <4>1, <4>2, AccountKept
    <3> QED
      BY <2>5, <3>2
  <2>8. CASE Adds(r, w0, s)
    <3>1. ledger' = ledger
      BY <2>8 DEF Adds
    <3>2. ASSUME NEW kind, CardAdded({}, kind, NewCard)
          PROVE  \A w \in DOMAIN cards' : Accounted(w)'
      BY <1>7, <3>1, <3>2
    <3>3. ASSUME NEW kind, CardAdded({}, kind, s)
          PROVE  \A w \in DOMAIN cards' : Accounted(w)'
      <4>n. PICK n : n = NewCard
        OBVIOUS
      <4>1. /\ DOMAIN cards' = DOMAIN cards \cup {n} /\ cards'[n].subject = s
            /\ \A w \in DOMAIN cards : w < n /\ cards'[w].subject = cards[w].subject
            /\ CardsKept({}) /\ n \in Nat
        BY <1>1, <3>3, <4>n, Rowed DEF CardAdded, CardsKept
      <4>2. ASSUME NEW w \in DOMAIN cards PROVE Accounted(w)'
        <5>1. CASE cards[w].subject # s
          <6>1. Newest(w) => Newest(w)'
            BY <1>1, <3>3, <4>1, <5>1, NewestStays
          <6> QED
            BY <1>1, <1>2, <1>3, <3>1, <6>1, AccountKept
        <5> QED
          BY <2>5, <5>1
      <4>3. Accounted(n)'
        <5>1. Newest(n)'
          <6>1. \A w \in DOMAIN cards : w \in Nat /\ w <= n
            BY <1>1, <4>1, Rowed
          <6> QED
            BY <4>1, <6>1 DEF Newest
        <5>2. CASE Tainted(s)'
          BY <4>1, <5>2 DEF Accounted
        <5>3. CASE ledger[s] = 0
          BY <3>1, <4>1, <5>1, <5>3 DEF Accounted
        <5> QED
          BY <2>4, <5>2, <5>3
      <4> QED
        BY <4>1, <4>2, <4>3
    <3> QED
      BY <2>8, <2>s, <3>2, <3>3 DEF Adds
  <2> QED
    BY <2>2, <2>s, <2>6, <2>7, <2>8
<1>9. CASE Replies(r)
  BY <1>6, <1>7, <1>9 DEF Replies
<1>10. CASE ~Acts(r) /\ ~Replies(r)
  <2>1. DOMAIN cards' = DOMAIN cards /\ ledger' = ledger
    BY <1>10 DEF Executes, Halts, Loads, Replays, Receives, Closes, Opens, Finishes, CardsSame
  <2> QED
    BY <1>6, <2>1
<1> QED
  BY <1>8, <1>9, <1>10

LEMMA PostsExec ==
  ASSUME InterruptInv, NEW r \in DOMAIN requests, Executes(r)
  PROVE  PostsInv'
<1>1. RowTypes /\ OrderSound /\ RequestSound /\ SubjectSound /\ PostSound
  BY DEF InterruptInv, RequestsInv, PostsInv
<1>2. PICK pc, f : Moves(r, pc, f) /\ CardsKept(requests[r].targets)
  BY <1>1, ExecutesMoves
<1>3. ASSUME ledger' = ledger, DraftsKept PROVE PostSound'
  BY <1>1, <1>2, <1>3, PostExec
<1>4. ASSUME requests[r].pc = "loaded", NEW w \in DOMAIN cards, requests[r].targets = {w},
             Posts(r, w, cards[w].subject)
      PROVE  PostSound'
  BY <1>1, <1>4, PostPost
<1>5. PostSound'
  BY <1>1, <1>3, <1>4, QuietExec
<1> QED
  BY <1>1, <1>5, SubjectExec, TraceExec DEF PostsInv

LEMMA TraceOutside ==
  ASSUME InterruptInv,
         \/ \E kind, targets, answer : Arrives(kind, targets, answer)
         \/ \E w : Displaces(w)
         \/ Uploads
  PROVE  SubjectSound' /\ TraceSound'
<1>1. RowTypes /\ RequestSound /\ SubjectSound /\ PostSound /\ TraceSound
  BY DEF InterruptInv, RequestsInv, PostsInv
<1>2. /\ Questioned /\ CardsKept(OpenQuestions) /\ ledger' = ledger
      /\ requests' = requests \/ \E kind, targets, answer : Admits(kind, targets, answer)
  BY <1>1, Outside
<1>3. \/ DOMAIN cards' = DOMAIN cards
      \/ CardAdded(OpenQuestions, "import", NewCard)
  BY DEF Arrives, Displaces, Uploads, CardsSame
<1>4. SubjectSound'
  BY <1>1, <1>2, <1>3, SubjectSame, SubjectAdded
<1>5. ASSUME NEW w \in DOMAIN cards, Newest(w) => Newest(w)' PROVE Accounted(w)'
  <2>1. /\ DOMAIN requests \subseteq DOMAIN requests'
        /\ \A q \in DOMAIN requests : requests'[q] = requests[q]
    BY <1>2 DEF Admits
  <2>2. \A s : Tainted(s) => Tainted(s)'
    BY <1>1, <1>2, TaintOutside
  <2>3. questions[w].status = "resolved" => questions'[w] = questions[w]
    BY <1>1, <1>2, Rowed DEF Questioned, QuestionsSuperseded
  <2>4. cards'[w].subject = cards[w].subject
    BY <1>2 DEF CardsKept
  <2>5. Accounted(w)
    BY <1>1, AccountedAll
  <2> QED
    BY <1>2, <1>5, <2>1, <2>2, <2>3, <2>4, <2>5 DEF Accounted
<1>6. CASE DOMAIN cards' = DOMAIN cards
  <2>1. \A w \in DOMAIN cards : Newest(w) => Newest(w)'
    BY <1>1, <1>2, <1>6, NewestStays
  <2>2. \A w \in DOMAIN cards' : Accounted(w)'
    BY <1>5, <1>6, <2>1
  <2> QED
    BY <1>4, <2>2 DEF TraceSound, Accounted
<1>7. CASE CardAdded(OpenQuestions, "import", NewCard)
  <2>n. PICK n : n = NewCard
    OBVIOUS
  <2>1. Accounted(n)' /\ \A w \in DOMAIN cards : NewCard # cards[w].subject
    BY <1>1, <1>2, <1>7, <2>n, FreshAccounted
  <2>2. \A w \in DOMAIN cards : Newest(w) => Newest(w)'
    BY <1>1, <1>2, <1>7, <2>1, NewestStays
  <2>3. DOMAIN cards' = DOMAIN cards \cup {n}
    BY <1>7, <2>n DEF CardAdded
  <2>4. \A w \in DOMAIN cards' : Accounted(w)'
    BY <1>5, <2>1, <2>2, <2>3
  <2> QED
    BY <1>4, <2>4 DEF TraceSound, Accounted
<1> QED
  BY <1>3, <1>6, <1>7

LEMMA PostsOutside ==
  ASSUME InterruptInv,
         \/ \E kind, targets, answer : Arrives(kind, targets, answer)
         \/ \E w : Displaces(w)
         \/ Uploads
  PROVE  PostsInv'
<1>1. RowTypes /\ RequestSound /\ PostSound
  BY DEF InterruptInv, RequestsInv, PostsInv
<1>2. PostSound'
  BY <1>1, Outside, PostOutside
<1> QED
  BY <1>2, TraceOutside DEF PostsInv

-----------------------------------------------------------------------------
(* The inductive invariant, and what follows from it.                      *)
LEMMA InitInterruptInv == InterruptInit => InterruptInv
<1> SUFFICES ASSUME InterruptInit PROVE InterruptInv
  OBVIOUS
<1>1. /\ cards = <<>> /\ requests = <<>> /\ faults = 0 /\ uploads = 0
      /\ DOMAIN cards = {} /\ DOMAIN requests = {} /\ Len(cards) = 0 /\ Len(requests) = 0
      /\ cards \in Seq(Card) /\ requests \in Seq(Requests)
  BY EmptySeq DEF InterruptInit
<1>2. \A w \in CardIds : /\ questions[w] = NoQuestion /\ questions[w].status = "none"
                         /\ ledger[w] = 0 /\ drafts[w] = "none"
  BY DEF InterruptInit, NoQuestion
<1>3. RowTypes
  <2>1. NoQuestion \in Question
    BY InterruptBounds DEF NoQuestion, Question
  <2>2. questions \in [CardIds -> Question]
    BY <2>1 DEF InterruptInit
  <2> QED
    BY <1>1, <2>2, InterruptBounds DEF RowTypes, InterruptInit, DraftStates
<1>4. RequestsInv
  BY <1>1 DEF RequestsInv, OrderSound, RequestSound, ResumeSound, FollowSound
<1>5. QuestionsInv
  <2>1. OpenQuestions = {}
    BY <1>2 DEF OpenQuestions
  <2> QED
    BY <1>1, <1>2, <2>1 DEF QuestionsInv, QuestionSound, GateSound, ActionSound,
       TwoQuestionsNeedQueue, AskerSound, CardSound
<1>6. PostsInv
  BY <1>1, <1>2 DEF PostsInv, SubjectSound, PostSound, TraceSound
<1> QED
  BY <1>3, <1>4, <1>5, <1>6 DEF InterruptInv

LEMMA StepInterruptInv ==
  ASSUME InterruptInv, InterruptNext \/ UNCHANGED interruptVars
  PROVE  InterruptInv'
<1>1. /\ RowTypes /\ RequestSound /\ FollowSound /\ SubjectSound /\ QuestionSound
  BY DEF InterruptInv, RequestsInv, QuestionsInv, PostsInv
<1>2. ASSUME NEW r \in DOMAIN requests, Execute(r) \/ Fail(r) PROVE InterruptInv'
  <2>1. Executes(r) /\ RowTypes'
    BY <1>1, <1>2, ExecuteExecutes
  <2> QED
    BY <2>1, RequestsExec, QuestionsExec, PostsExec DEF InterruptInv
<1>3. ASSUME RowTypes',
             \/ \E kind, targets, answer : Arrives(kind, targets, answer)
             \/ \E w : Displaces(w)
             \/ Uploads
      PROVE  InterruptInv'
  BY <1>3, RequestsOutside, QuestionsOutside, PostsOutside DEF InterruptInv
<1>4. CASE \/ PostMessage
           \/ \E w \in DOMAIN cards : PostAction(w)
           \/ \E ws \in SUBSET DOMAIN cards, answer \in Answers : PostResume(ws, answer)
  BY <1>1, <1>3, <1>4, ArrivesOrDisplaces
<1>5. CASE Upload
  BY <1>1, <1>3, <1>5, UploadUploads
<1>6. CASE UNCHANGED interruptVars
  BY <1>6 DEF interruptVars, InterruptInv, RowTypes, RequestsInv, OrderSound, RequestSound,
     ResumeSound, FollowSound, QuestionsInv, QuestionSound, GateSound, ActionSound,
     TwoQuestionsNeedQueue, AskerSound, CardSound, ActedOn, PostsInv, SubjectSound, PostSound,
     TraceSound, OpenQuestions, ClosedQuestions, Pending, Targeted, FailedOn, Concerns,
     Tainted, Newest
<1> QED
  BY <1>2, <1>4, <1>5, <1>6 DEF InterruptNext

(* The requests, questions and posts of a conversation stay as the three   *)
(* parts of the invariant describe them.                                   *)
THEOREM InterruptInvariant == InterruptSpec => []InterruptInv
BY InitInterruptInv, StepInterruptInv, PTL DEF InterruptSpec

-----------------------------------------------------------------------------
(* What the invariant gives.                                               *)

(* Every persisted card, interrupt, draft and run has the shape its model  *)
(* declares, however long the conversation: a card's subject is never      *)
(* newer than the card (InterruptTypeOK).                                  *)
THEOREM InterruptTypes == InterruptSpec => []InterruptTypeOK
<1>1. InterruptInv => InterruptTypeOK
  <2> SUFFICES ASSUME InterruptInv PROVE InterruptTypeOK
    OBVIOUS
  <2>1. RowTypes /\ SubjectSound
    BY DEF InterruptInv, PostsInv
  <2>2. \A w \in DOMAIN cards : cards[w] \in Card /\ cards[w].subject <= w
    BY <2>1, Rowed DEF SubjectSound
  <2>3. \A r \in DOMAIN requests : requests[r] \in Requests
    BY <2>1, Rowed
  <2> QED
    BY <2>1, <2>2, <2>3 DEF InterruptTypeOK, RowTypes, Card, Question, DraftStates
<1> QED
  BY <1>1, InterruptInvariant, PTL

(* A draft becomes one transaction and a statement posts its records once, *)
(* whatever cards, retries, failures and uploads surround them.            *)
THEOREM DraftsPostOnce == InterruptSpec => []PostedOnce
<1>1. InterruptInv => PostedOnce
  <2> SUFFICES ASSUME InterruptInv, NEW w \in DOMAIN cards
               PROVE  /\ cards[w].kind \in DraftKinds \cup {"import"}
                            => ledger[cards[w].subject] <= 1
                      /\ drafts[w] = "committed" => ledger[w] = 1
    BY DEF PostedOnce
  <2>1. RowTypes /\ SubjectSound /\ PostSound
    BY DEF InterruptInv, PostsInv
  <2>2. w \in CardIds /\ cards[w].subject \in CardIds /\ cards[w].subject \in DOMAIN cards
    BY <2>1, Rowed DEF SubjectSound
  <2>3. cards[w].kind \in DraftKinds \cup {"import"}
          => cards[cards[w].subject].kind \in DraftKinds \cup {"import"}
    BY <2>1 DEF SubjectSound
  <2> QED
    BY <2>1, <2>2, <2>3 DEF PostSound
<1> QED
  BY <1>1, InterruptInvariant, PTL

(* A contribution or a resolved clarification is posted again only after a *)
(* request about it failed between its commits.                            *)
THEOREM RepeatsFollowFailures == InterruptSpec => []RepeatNeedsFailure
<1>1. InterruptInv => RepeatNeedsFailure
  <2> SUFFICES ASSUME InterruptInv, NEW s \in CardIds, ledger[s] > 1 PROVE FailedOn(s)
    BY DEF RepeatNeedsFailure
  <2>1. RowTypes /\ PostSound
    BY DEF InterruptInv, PostsInv
  <2>2. ledger[s] \in Nat /\ ledger[s] > 0 /\ ledger[s] # 1 /\ ~(ledger[s] <= 1)
    BY <2>1, Rowed
  <2>3. s \in DOMAIN cards /\ cards[s].kind \notin DraftKinds \cup {"import"}
    BY <2>1, <2>2 DEF PostSound
  <2>4. cards[s].kind \in {"goal", "clarify"}
    BY <2>1, <2>3, Rowed DEF Kinds, DraftKinds
  <2> QED
    BY <2>1, <2>2, <2>4 DEF PostSound
<1> QED
  BY <1>1, InterruptInvariant, PTL

(* A declined or superseded question posted nothing, unless a request that *)
(* approved its card failed, is still executing, or acted outside it.      *)
THEOREM DeclinedLeavesNothing == InterruptSpec => []DeclinedPostsNothing
<1>1. InterruptInv => DeclinedPostsNothing
  <2> SUFFICES ASSUME InterruptInv, NEW w \in ClosedQuestions,
                      questions[w].status = "cancelled" \/ questions[w].answer = "deny",
                      ledger[cards[w].subject] # 0
               PROVE  \E r \in DOMAIN requests :
                         /\ requests[r].answer = "approve" /\ Concerns(r, cards[w].subject)
                         /\ requests[r].pc # "done" \/ requests[r].kind = "action"
    BY DEF DeclinedPostsNothing
  <2>1. QuestionSound /\ TraceSound /\ RequestSound
    BY DEF InterruptInv, QuestionsInv, PostsInv, RequestsInv
  <2>2. w \in DOMAIN cards
    BY <2>1 DEF ClosedQuestions, QuestionSound
  <2>3. CASE Tainted(cards[w].subject)
    BY <2>3 DEF Tainted
  <2>4. CASE \E r \in DOMAIN requests :
                /\ requests[r].kind = "resume" /\ requests[r].pc \in {"acted", "receipted"}
                /\ w \in requests[r].targets
    <3>1. PICK r \in DOMAIN requests :
             /\ requests[r].pc \in {"acted", "receipted"} /\ w \in requests[r].targets
      BY <2>4
    <3>2. requests[r].answer = "approve" /\ requests[r].pc # "done"
      BY <2>1, <3>1 DEF RequestSound
    <3>3. Concerns(r, cards[w].subject)
      BY <3>1 DEF Concerns
    <3> QED
      BY <3>2, <3>3
  <2>5. ~(questions[w].status = "resolved" /\ questions[w].answer = "approve")
    OBVIOUS
  <2> QED
    BY <2>1, <2>2, <2>3, <2>4, <2>5 DEF TraceSound
<1> QED
  BY <1>1, InterruptInvariant, PTL

(* The gate: a second question of a thread is asked only by a request that *)
(* was admitted while the one asking the first was unfinished.             *)
THEOREM SecondQuestionsWereQueued == InterruptSpec => []TwoQuestionsNeedQueue
<1>1. InterruptInv => TwoQuestionsNeedQueue
  BY DEF InterruptInv, QuestionsInv
<1> QED
  BY <1>1, InterruptInvariant, PTL

(* An open question that no resume can answer shares the thread with one   *)
(* whose asker was queued with its own, or a request on its card has not   *)
(* ended, failed half way, or was queued before the question opened.       *)
THEOREM UnanswerableQuestionsHaveCause == InterruptSpec => []UnanswerableHasCause
<1>1. InterruptInv => UnanswerableHasCause
  <2> SUFFICES ASSUME InterruptInv, NEW w \in OpenQuestions, ~Answerable(w)
               PROVE  IF Pending(w)
                      THEN \E v \in OpenQuestions \ {w} : Waited(v, w) \/ Waited(w, v)
                      ELSE ActedOn(w)
    BY DEF UnanswerableHasCause
  <2>1. /\ RowTypes /\ QuestionSound /\ TwoQuestionsNeedQueue /\ AskerSound /\ CardSound
    BY DEF InterruptInv, QuestionsInv
  <2>2. CASE ~Pending(w)
    BY <2>1, <2>2 DEF CardSound
  <2>3. CASE Pending(w)
    <3>1. PICK v \in OpenQuestions \ {w} : TRUE
      BY <2>3 DEF Answerable
    <3>2. questions[v].asker \in Nat /\ questions[w].asker \in Nat
      BY <2>1, Rowed DEF QuestionSound, OpenQuestions
    <3>3. questions[v].asker < questions[w].asker \/ questions[w].asker < questions[v].asker
      BY <2>1, <3>2 DEF AskerSound
    <3>4. Waited(v, w) \/ Waited(w, v)
      BY <2>1, <3>3 DEF TwoQuestionsNeedQueue, Waited
    <3> QED
      BY <2>3, <3>4
  <2> QED
    BY <2>2, <2>3
<1> QED
  BY <1>1, InterruptInvariant, PTL

\* One closed question, one step: the resume that had loaded it may answer.
StaysClosed(w) ==
    questions'[w] # questions[w]
        => /\ questions[w].status = "cancelled" /\ questions[w].by = 0
           /\ \E r \in DOMAIN requests :
                 /\ requests[r].kind = "resume" /\ w \in requests[r].targets
                 /\ requests[r].pc \in Busy /\ questions'[w].by = r

LEMMA ClosedStep ==
  ASSUME InterruptInv, InterruptNext \/ UNCHANGED interruptVars, NEW w \in ClosedQuestions
  PROVE  StaysClosed(w)
<1>1. /\ RowTypes /\ RequestSound /\ ResumeSound /\ FollowSound /\ SubjectSound
      /\ QuestionSound
  BY DEF InterruptInv, RequestsInv, QuestionsInv, PostsInv
<1>2. w \in CardIds /\ questions[w].status \in {"resolved", "cancelled"}
  BY DEF ClosedQuestions
<1>3. ASSUME questions'[w] = questions[w] PROVE StaysClosed(w)
  BY <1>3 DEF StaysClosed
<1>4. ASSUME QuestionsSuperseded PROVE StaysClosed(w)
  BY <1>2, <1>3, <1>4 DEF QuestionsSuperseded
<1>5. ASSUME NEW r \in DOMAIN requests, Executes(r) PROVE StaysClosed(w)
  <2>1. CASE Closes(r)
    <3>1. PICK v \in DOMAIN cards :
             /\ requests[r].targets = {v} /\ questions'[v].by = r
             /\ \A u \in CardIds : u # v => questions'[u] = questions[u]
      BY <2>1 DEF Closes
    <3>2. CASE v # w
      BY <1>2, <1>3, <3>1, <3>2
    <3>3. CASE v = w
      <4>1. requests[r].kind = "resume" /\ requests[r].pc \in Busy /\ w \in requests[r].targets
        BY <2>1, <3>1, <3>3 DEF Closes
      <4>2. questions[w].status \in {"open", "cancelled"} /\ questions[w].by = 0
        BY <1>1, <4>1 DEF ResumeSound
      <4> QED
        BY <1>2, <3>1, <3>3, <4>1, <4>2 DEF StaysClosed
    <3> QED
      BY <3>2, <3>3
  <2>2. CASE Opens(r)
    <3>1. /\ requests[r].follow \in CardIds /\ requests[r].pc = "answered"
          /\ \A v \in CardIds : v # requests[r].follow => questions'[v] = questions[v]
      BY <2>2 DEF Opens
    <3>2. requests[r].follow # 0
      BY <3>1, InterruptBounds DEF CardIds
    <3>3. questions[requests[r].follow].status = "none"
      BY <1>1, <3>1, <3>2 DEF FollowSound
    <3>4. w # requests[r].follow
      BY <1>2, <3>3
    <3> QED
      BY <1>2, <1>3, <3>1, <3>4
  <2>3. CASE ~Closes(r) /\ ~Opens(r)
    <3>1. questions' = questions
      BY <1>5, <2>3 DEF Executes, Replies, Halts, Loads, Replays, Acts, Posts, Adds,
         Settles, Receives, Finishes
    <3> QED
      BY <1>3, <3>1
  <2> QED
    BY <2>1, <2>2, <2>3
<1>6. CASE \E r \in DOMAIN requests : Execute(r) \/ Fail(r)
  BY <1>1, <1>5, <1>6, ExecuteExecutes
<1>7. CASE \/ PostMessage
           \/ \E v \in DOMAIN cards : PostAction(v)
           \/ \E ws \in SUBSET DOMAIN cards, answer \in Answers : PostResume(ws, answer)
  <2>1. \/ \E kind, targets, answer : Arrives(kind, targets, answer)
        \/ \E v : Displaces(v)
    BY <1>1, <1>7, ArrivesOrDisplaces
  <2>2. questions' = questions \/ QuestionsSuperseded
    BY <2>1 DEF Arrives, Displaces
  <2> QED
    BY <1>3, <1>4, <2>2
<1>8. CASE Upload
  BY <1>1, <1>4, <1>8, UploadUploads DEF Uploads
<1>9. CASE UNCHANGED interruptVars
  BY <1>3, <1>9 DEF interruptVars
<1> QED
  BY <1>6, <1>7, <1>8, <1>9 DEF InterruptNext

(* An answered question keeps its answer, and a superseded one changes     *)
(* only under the resume that had loaded it while it was open.             *)
THEOREM AnswersAreKept == InterruptSpec => ClosedStaysClosed
<1> DEFINE Kept == \A w \in ClosedQuestions :
         questions'[w] # questions[w]
            => /\ questions[w].status = "cancelled" /\ questions[w].by = 0
               /\ \E r \in DOMAIN requests :
                     /\ requests[r].kind = "resume" /\ w \in requests[r].targets
                     /\ requests[r].pc \in {"loaded", "acted", "receipted"}
                     /\ questions'[w].by = r
<1>1. InterruptInv /\ [InterruptNext]_interruptVars => [Kept]_interruptVars
  BY ClosedStep DEF StaysClosed, Busy
<1>2. ([][Kept]_interruptVars) <=> ClosedStaysClosed
  BY DEF ClosedStaysClosed
<1> QED
  BY <1>1, <1>2, InterruptInvariant, PTL DEF InterruptSpec
=============================================================================
