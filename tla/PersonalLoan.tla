---------------------------- MODULE PersonalLoan ----------------------------
(***************************************************************************)
(* One personal loan shared by its two parties: the terms they propose and *)
(* acknowledge, the documents the lender asks for, funding, repayments     *)
(* that one party records and the other confirms, two-party closing, and   *)
(* the row each party's portfolio keeps of the loan.                       *)
(*                                                                         *)
(* Code: backend/app/services/personal_loans.py, with accept_revision of   *)
(* services/documents.py and the invitation of services/shared_records.py. *)
(* Every command locks the agreement row before it reads anything it       *)
(* decides on and commits once, so a command is one step; a command that   *)
(* raises is rolled back, and one whose idempotency key has a receipt      *)
(* returns without a change.  What interleaves is the two people: a        *)
(* command acts on whatever its sender last read.                          *)
(***************************************************************************)
EXTENDS Integers, Sequences, FiniteSets, FiniteSetsExt

CONSTANTS
  Principal,    \* principal_minor, the same in every version of the terms
  Interests,    \* the total_interest_minor that a version may carry
  MaxEntries    \* bound: versions of the terms and repayments, together

ASSUME PrincipalAssumption == Principal \in Nat \ {0}
ASSUME InterestsAssumption == Interests \subseteq Nat
ASSUME BoundsAssumption    == MaxEntries \in Nat

Parties  == {"lender", "borrower"}
Nobody   == "nobody"

VARIABLES
  status,        \* PersonalLoanAgreement.status
  funding,       \* PersonalLoanAgreement.funding_status
  intent,        \* "recorded": the money has moved; "offer": it has not
  member,        \* SharedRecordParticipant: invited, member, or left
  terms,         \* LoanTermVersion with its document revision, by version
  current,       \* current_terms_version
  payments,      \* the repayment LoanCashflows, in the order of recording
  disbursement,  \* the disbursement LoanCashflow
  requested,     \* the lender's document requests still unanswered
  assurance,     \* the state of the loan's security items
  closeBy,       \* the actor of the last loan.closure_proposed event
  fresh,         \* parties that have read the present row_version
  seen,          \* the number of term versions each party has read
  projected      \* the Loan row in each party's portfolio

vars == <<status, funding, intent, member, terms, current, payments, disbursement,
          requested, assurance, closeBy, fresh, seen, projected>>

Statuses == {"none", "pending_acceptance", "active", "funding_pending",
             "settlement_pending", "closed"}

\* A version of the terms and the acknowledgements of its document revision.
Term == [interest : Interests, state : {"proposed", "accepted", "superseded"},
         acks : SUBSET Parties]

\* A cashflow: proposed by one party until the other confirms it.
Payment == [principal : Nat, interest : Nat, by : Parties,
            state : {"proposed", "confirmed"}]
Disbursement == [by : Parties \cup {Nobody}, state : {"none", "proposed", "confirmed"}]

\* No Loan row in a portfolio.
NoProjection == [outstanding |-> 0, accrued |-> 0, status |-> "none",
                 responseNeeded |-> FALSE]

\* What the two parties' commands leave in the rows stays in range, and the
\* current version is one that exists.
TypeOK ==
  /\ status \in Statuses
  /\ funding \in {"pending", "confirmed"}
  /\ intent \in {"recorded", "offer"}
  /\ member \in [Parties -> {"invited", "member", "left"}]
  /\ terms \in Seq(Term)
  /\ current \in 0 .. Len(terms)
  /\ payments \in Seq(Payment)
  /\ disbursement \in Disbursement
  /\ requested \in SUBSET {"required", "optional"}
  /\ assurance \in {"none", "proposed", "acknowledged", "return_pending", "returned"}
  /\ closeBy \in Parties \cup {Nobody}
  /\ fresh \in SUBSET Parties
  /\ seen \in [Parties -> Nat]

Init ==
  /\ status = "none" /\ funding = "pending" /\ intent = "recorded"
  /\ member = [p \in Parties |-> "invited"]
  /\ terms = <<>> /\ current = 0
  /\ payments = <<>>
  /\ disbursement = [by |-> Nobody, state |-> "none"]
  /\ requested = {} /\ assurance = "none" /\ closeBy = Nobody
  /\ fresh = {} /\ seen = [p \in Parties |-> 0]
  /\ projected = [p \in Parties |-> NoProjection]

-----------------------------------------------------------------------------
(* Balances and the portfolio row.                                         *)

Latest == Len(terms)

\* _confirmed_totals: only confirmed repayments count.  Amounts are whole minor
\* units, so a total is the number of the units that were paid, each the unit of
\* one repayment.
Confirmed(ps)     == {i \in DOMAIN ps : ps[i].state = "confirmed"}
Units(i, amount)  == {i} \X (1 .. amount)
PrincipalPaid(ps) == Cardinality(UNION {Units(i, ps[i].principal) : i \in Confirmed(ps)})
InterestPaid(ps)  == Cardinality(UNION {Units(i, ps[i].interest) : i \in Confirmed(ps)})

\* _remaining, under the current terms.
Unpaid(amount, paid) == IF paid < amount THEN amount - paid ELSE 0
PrincipalDue == Unpaid(Principal, PrincipalPaid(payments))
InterestDue  == Unpaid(terms[current].interest, InterestPaid(payments))
Due          == PrincipalDue + InterestDue

\* _response_needed
ResponseNeeded(p) ==
  \/ terms[Latest].state = "proposed" /\ p \notin terms[Latest].acks
  \/ \E i \in DOMAIN payments : payments[i].state = "proposed" /\ payments[i].by # p
  \/ disbursement.state = "proposed" /\ disbursement.by # p
  \/ assurance = "return_pending" /\ p # "lender"

\* rebuild_projection_for_participant: what the portfolio of p shows.
Projection(p) == [outstanding |-> PrincipalDue, accrued |-> InterestDue,
                  status |-> status, responseNeeded |-> ResponseNeeded(p)]

\* Mutant: the rows are computed before the command's changes are flushed.
Rebuild_Unflushed ==
  projected' = [p \in Parties |-> IF member'[p] = "member" /\ terms # <<>>
                                  THEN Projection(p) ELSE projected[p]]

\* rebuild_projections, after everything else the command changes.
Rebuild ==
  projected' = [p \in Parties |-> IF member'[p] = "member" THEN Projection(p)'
                                  ELSE projected[p]]

\* A command of a participant that raises row_version: what anybody had read
\* is no longer the present version.
Commit(p) ==
  /\ member[p] = "member"
  /\ fresh' = {}
  /\ UNCHANGED seen
  /\ Rebuild

\* Bound: another version or repayment may be recorded.
Room == Latest + Len(payments) < MaxEntries

\* Mutant: expected_row_version is not compared.
UpToDate_Any(p) == member[p] = "member"

\* Commands that carry expected_row_version.
UpToDate(p) == p \in fresh

-----------------------------------------------------------------------------
(* Opening a loan, joining and leaving it, reading it.                     *)

\* create_personal_loan: the creator has acknowledged the first version.
Create(p) ==
  /\ status = "none"
  /\ status' = "pending_acceptance"
  /\ intent' \in {"recorded", "offer"}
  /\ member' = [member EXCEPT ![p] = "member"]
  /\ \E i \in Interests :
       terms' = <<[interest |-> i, state |-> "proposed", acks |-> {p}]>>
  /\ current' = 1
  /\ disbursement' = IF intent' = "recorded" THEN [by |-> p, state |-> "proposed"]
                     ELSE disbursement
  /\ requested' \in SUBSET {"required", "optional"}
  /\ requested' # {} => p = "lender"
  /\ assurance' \in {"none", "proposed"}
  /\ UNCHANGED <<funding, payments, closeBy, fresh, seen>>
  /\ Rebuild

\* redeem_loan_invitation: the invited person claims the other role.
Redeem(p) ==
  /\ status # "none"
  /\ member[p] = "invited"
  /\ member' = [member EXCEPT ![p] = "member"]
  /\ fresh' = {}
  /\ UNCHANGED <<status, funding, intent, terms, current, payments, disbursement,
                 requested, assurance, closeBy, seen>>
  /\ Rebuild

\* delete_user_data: the participant is detached and its portfolio deleted,
\* the shared record stays.
DeleteAccount(p) ==
  /\ member[p] = "member"
  /\ member' = [member EXCEPT ![p] = "left"]
  /\ projected' = [projected EXCEPT ![p] = NoProjection]
  /\ fresh' = fresh \ {p}
  /\ seen' = [seen EXCEPT ![p] = 0]
  /\ UNCHANGED <<status, funding, intent, terms, current, payments, disbursement,
                 requested, assurance, closeBy>>

\* detail_payload: a party reads the agreement and its row_version.
Read(p) ==
  /\ status # "none"
  /\ member[p] = "member"
  /\ fresh' = fresh \cup {p}
  /\ seen' = [seen EXCEPT ![p] = Latest]
  /\ UNCHANGED <<status, funding, intent, member, terms, current, payments,
                 disbursement, requested, assurance, closeBy, projected>>

-----------------------------------------------------------------------------
(* The terms.                                                              *)

Acknowledged(p) == [terms EXCEPT ![Latest].acks = @ \cup {p}]

\* Mutant: the version that was in force stays accepted.
InForce_KeepPrevious(ts) == [ts EXCEPT ![Len(ts)].state = "accepted"]

\* accept_current_terms, both have acknowledged: the latest version supersedes
\* the current one.
InForce(ts) ==
  [i \in DOMAIN ts |->
     IF i = Len(ts) THEN [ts[i] EXCEPT !.state = "accepted"]
     ELSE IF i = current THEN [ts[i] EXCEPT !.state = "superseded"] ELSE ts[i]]

\* Mutant: a settled loan is not reopened by an acceptance.
Activate_KeepSettled ==
  /\ status' = IF status \in {"settlement_pending", "closed"} THEN status
               ELSE IF intent = "recorded" THEN "active" ELSE "funding_pending"
  /\ current' = Latest
  /\ UNCHANGED <<disbursement, funding, assurance>>

\* Mutant: the funding status is set to the status of the agreement.
Activate_OneStatus ==
  /\ status' = IF intent = "recorded" THEN "active" ELSE "funding_pending"
  /\ funding' = status'
  /\ current' = Latest
  /\ UNCHANGED <<disbursement, assurance>>

\* The agreement follows its intent, whatever its status was; money recorded
\* and not yet confirmed counts as confirmed by this acceptance.
Activate ==
  /\ status' = IF intent = "recorded" THEN "active" ELSE "funding_pending"
  /\ current' = Latest
  /\ IF disbursement.state = "proposed"
     THEN /\ disbursement' = [disbursement EXCEPT !.state = "confirmed"]
          /\ funding' = "confirmed"
     ELSE UNCHANGED <<disbursement, funding>>
  /\ assurance' = IF assurance = "proposed" THEN "acknowledged" ELSE assurance

MissingDocuments(p) == p = "borrower" /\ "required" \in requested

\* accept_current_terms
Accept(p) ==
  /\ status # "none"
  /\ UpToDate(p)
  /\ terms[Latest].state = "proposed"
  /\ ~MissingDocuments(p)
  /\ IF Acknowledged(p)[Latest].acks = Parties
     THEN /\ terms' = InForce(Acknowledged(p))
          /\ Activate
     ELSE /\ terms' = Acknowledged(p)
          /\ UNCHANGED <<status, current, disbursement, funding, assurance>>
  /\ UNCHANGED <<intent, member, payments, requested, closeBy>>
  /\ Commit(p)

\* Mutant: an amendment does not wait for the answer to the previous one.
AmendmentPending_Never == FALSE

\* propose_terms and fulfill_document_requests refuse a second open amendment.
AmendmentPending == terms[Latest].state = "proposed" /\ Latest # current

\* A new version, acknowledged by the party that proposes it.
Offer(p, interest) ==
  terms' = Append(terms, [interest |-> interest, state |-> "proposed", acks |-> {p}])

\* propose_terms
ProposeTerms(p) ==
  /\ status \in {"active", "pending_acceptance"}
  /\ UpToDate(p)
  /\ ~AmendmentPending
  /\ Room
  /\ \E i \in Interests : Offer(p, i)
  /\ UNCHANGED <<status, funding, intent, member, current, payments, disbursement,
                 requested, assurance, closeBy>>
  /\ Commit(p)

\* fulfill_document_requests: all the required documents at once, bound to a new
\* version with the terms in force.
Fulfill ==
  /\ status # "none"
  /\ UpToDate("borrower")
  /\ ~AmendmentPending
  /\ Room
  /\ \E items \in SUBSET requested \ {{}} :
       /\ "required" \in requested => "required" \in items
       /\ requested' = requested \ items
  /\ Offer("borrower", terms[current].interest)
  /\ UNCHANGED <<status, funding, intent, member, current, payments, disbursement,
                 assurance, closeBy>>
  /\ Commit("borrower")

-----------------------------------------------------------------------------
(* The money.                                                              *)

\* record_funding
RecordFunding ==
  /\ status = "funding_pending" /\ funding = "pending"
  /\ disbursement.state = "none"
  /\ disbursement' = [by |-> "lender", state |-> "proposed"]
  /\ UNCHANGED <<status, funding, intent, member, terms, current, payments,
                 requested, assurance, closeBy>>
  /\ Commit("lender")

\* confirm_payment, of a disbursement
ConfirmFunding(p) ==
  /\ UpToDate(p)
  /\ disbursement.state = "proposed" /\ disbursement.by # p
  /\ disbursement' = [disbursement EXCEPT !.state = "confirmed"]
  /\ funding' = "confirmed"
  /\ status' = "active"
  /\ UNCHANGED <<intent, member, terms, current, payments, requested, assurance,
                 closeBy>>
  /\ Commit(p)

\* A payment covers the interest due before the principal.
InterestPart(amount) == Min({amount, InterestDue})

\* record_payment: the amount is split into interest and principal by what is
\* due when it is recorded.
RecordPayment(p) ==
  /\ status \in {"active", "settlement_pending"}
  /\ Room
  /\ \E amount \in 1 .. Due :
       payments' = Append(payments, [principal |-> amount - InterestPart(amount),
                                     interest |-> InterestPart(amount), by |-> p,
                                     state |-> "proposed"])
  /\ UNCHANGED <<status, funding, intent, member, terms, current, disbursement,
                 requested, assurance, closeBy>>
  /\ Commit(p)

\* confirm_payment, of a repayment: the last one makes the loan ready to close.
ConfirmPayment(p, i) ==
  /\ UpToDate(p)
  /\ payments[i].state = "proposed" /\ payments[i].by # p
  /\ payments' = [payments EXCEPT ![i].state = "confirmed"]
  /\ UNCHANGED <<terms, current>>
  /\ status' = IF Due' = 0 THEN "settlement_pending" ELSE status
  /\ UNCHANGED <<funding, intent, member, disbursement, requested, assurance,
                 closeBy>>
  /\ Commit(p)

\* close_loan: one party proposes, and returns what it holds; the other confirms.
CloseStep(p) ==
  /\ Due = 0
  /\ IF closeBy = Nobody
     THEN /\ assurance # "none" => p = "lender"
          /\ status' = "settlement_pending"
          /\ assurance' = IF assurance \in {"none", "returned"} THEN assurance
                          ELSE "return_pending"
          /\ closeBy' = p
     ELSE /\ closeBy # p
          /\ status' = "closed"
          /\ assurance' = IF assurance = "none" THEN "none" ELSE "returned"
          /\ UNCHANGED closeBy

Close(p) ==
  /\ status # "none"
  /\ CloseStep(p)
  /\ UNCHANGED <<funding, intent, member, terms, current, payments, disbursement,
                 requested>>
  /\ Commit(p)

-----------------------------------------------------------------------------
Next ==
  \/ RecordFunding \/ Fulfill
  \/ \E p \in Parties :
       \/ Create(p) \/ Redeem(p) \/ DeleteAccount(p) \/ Read(p)
       \/ Accept(p) \/ ProposeTerms(p)
       \/ ConfirmFunding(p) \/ RecordPayment(p) \/ Close(p)
       \/ \E i \in DOMAIN payments : ConfirmPayment(p, i)

Spec == Init /\ [][Next]_vars

-----------------------------------------------------------------------------
(* What the parties rely on.                                               *)

\* The history of the terms is linear: everything before the current version
\* is superseded, an accepted version is the current one and carries both
\* acknowledgements, and at most one amendment is open.  The balance is
\* computed from the current version (_current_term), so a second accepted
\* version or a second open amendment would let the parties agree on two loans.
TermsInForce ==
  /\ Latest \in {current, current + 1}
  /\ \A i \in DOMAIN terms :
       /\ terms[i].state = "superseded" <=> i < current
       /\ terms[i].state = "accepted" => terms[i].acks = Parties
       /\ i > current => terms[i].state = "proposed" /\ terms[i].acks # Parties

\* Every party that has read the present row_version has read all the terms.
FreshHasSeen == \A p \in fresh : seen[p] = Latest

\* The inductive invariant behind TermsInForce and NoBlindAcknowledgement.
IInv ==
  /\ terms \in Seq(Term) /\ current \in Nat
  /\ fresh \subseteq Parties /\ seen \in [Parties -> Nat]
  /\ status = "none" => terms = <<>> /\ current = 0 /\ fresh = {}
  /\ status # "none" => current > 0
  /\ TermsInForce
  /\ FreshHasSeen

\* Nobody acknowledges terms unread: an acknowledgement that a step adds is of a
\* version its party had read, or had just written, however the other party's
\* commands interleave (expected_row_version of accept_current_terms).
NoBlindAcknowledgement ==
  [][\A i \in DOMAIN terms' : \A p \in terms'[i].acks :
       \/ i \in DOMAIN terms /\ p \in terms[i].acks
       \/ i <= seen[p]
       \/ i \notin DOMAIN terms /\ terms'[i].acks = {p}]_vars

\* Both portfolios show the same loan, and each asks its owner for an answer
\* exactly while one is awaited (rebuild_projections after every command;
\* verify_projection_integrity is the code's own audit of it).
PortfoliosAgree ==
  \A p \in Parties : member[p] = "member" => projected[p] = Projection(p)

\* A loan is ready to close or closed only while nothing is due under the terms
\* in force, and closed only when the lender's security is given back, whatever
\* late confirmations and amendments arrive (confirm_payment and close_loan look
\* at neither status).
SettledOwesNothing ==
  /\ status \in {"settlement_pending", "closed"} => Due = 0
  /\ status = "closed" => assurance \in {"none", "returned"}

-----------------------------------------------------------------------------
(* What the documentation, a message or a test says, and the code does not *)
(* keep.                                                                   *)

\* "Payments can be recorded after both people agree to the plan"
\* (personal_loans.py:1144): an agreement open for payments has current terms
\* that both acknowledged.
AgreedBeforeActive ==
  status \in {"active", "settlement_pending", "closed"} =>
    terms[current].state = "accepted"

\* "Provide the required documents before acknowledging this agreement."
\* (personal_loans.py:725): terms are in force only when the documents the
\* lender requires have been provided.
RequiredDocumentsFirst ==
  \A i \in DOMAIN terms : terms[i].state = "accepted" => "required" \notin requested

\* "Confirmation allocates principal, interest, and fees according to the
\* accepted plan" (PERSONAL_LENDING_PRODUCT_PLAN.md:286): the interest part of a
\* repayment is what was due when it was confirmed.
AllocatedAtConfirmation ==
  [][\A i \in DOMAIN payments :
       payments'[i].state # payments[i].state =>
         payments[i].interest =
           Min({payments[i].principal + payments[i].interest, InterestDue})]_vars
=============================================================================
