-------------------------- MODULE PersonalLoanProofs --------------------------
(***************************************************************************)
(* A loan, for every number of versions and repayments: the history of the *)
(* terms is linear, nobody acknowledges terms unread, both portfolios show *)
(* the same loan, and a settled one owes nothing.                          *)
(***************************************************************************)
EXTENDS PersonalLoan, FiniteSetTheorems, TLAPS

\* The acknowledgements of the latest version, as a fact about its record.
LEMMA AcknowledgedTerms ==
  ASSUME terms \in Seq(Term), terms # <<>>, NEW p \in Parties
  PROVE  /\ Acknowledged(p) \in Seq(Term)
         /\ Len(Acknowledged(p)) = Latest
         /\ Latest \in Nat \ {0}
         /\ \A i \in 1 .. Latest :
              /\ Acknowledged(p)[i].state = terms[i].state
              /\ Acknowledged(p)[i].interest = terms[i].interest
              /\ i # Latest => Acknowledged(p)[i] = terms[i]
              /\ i = Latest => Acknowledged(p)[i].acks = terms[i].acks \cup {p}
<1>1. Latest \in Nat \ {0} /\ terms[Latest] \in Term
  BY DEF Latest
<1>2. [terms[Latest] EXCEPT !.acks = @ \cup {p}] \in Term
  BY <1>1 DEF Term
<1> QED
  BY <1>1, <1>2 DEF Acknowledged, Latest, Term

LEMMA Started ==
  ASSUME IInv, status # "none"
  PROVE  terms # <<>> /\ current \in 1 .. Latest /\ Latest \in Nat \ {0}
  BY DEF IInv, TermsInForce, Latest

\* A step that leaves the terms alone and lets nobody read more than there is.
LEMMA TermsKept ==
  ASSUME IInv, UNCHANGED <<terms, current, seen>>, fresh' \subseteq fresh,
         status' = status \/ (status # "none" /\ status' # "none")
  PROVE  IInv'
  BY DEF IInv, TermsInForce, FreshHasSeen, Latest

\* An acknowledgement: the latest version stays proposed, or supersedes the
\* current one.
LEMMA AcceptTerms ==
  ASSUME IInv, NEW p \in Parties, Accept(p)
  PROVE  IInv'
<1>1. /\ status # "none" /\ terms[Latest].state = "proposed"
      /\ fresh' = {} /\ UNCHANGED seen
  BY DEF Accept, Commit
<1>2. /\ terms \in Seq(Term) /\ current \in 1 .. Latest
      /\ Latest \in {current, current + 1} /\ Latest \in Nat \ {0}
  BY <1>1, Started DEF IInv, TermsInForce
<1> DEFINE ts == Acknowledged(p)
<1>3. /\ ts \in Seq(Term) /\ Len(ts) = Latest
      /\ \A i \in 1 .. Latest :
           /\ ts[i].state = terms[i].state
           /\ i # Latest => ts[i] = terms[i]
           /\ i = Latest => ts[i].acks = terms[i].acks \cup {p}
  BY <1>1, <1>2, Started, AcknowledgedTerms
<1>4. \A i \in 1 .. Latest :
        /\ terms[i].state = "superseded" <=> i < current
        /\ terms[i].state = "accepted" => terms[i].acks = Parties
        /\ i > current => terms[i].state = "proposed"
  BY <1>2 DEF IInv, TermsInForce, Latest
<1> HIDE DEF ts
<1>5. CASE ts[Latest].acks # Parties
  <2>1. terms' = ts /\ UNCHANGED <<status, current>>
    BY <1>5 DEF Accept, ts
  <2>2. DOMAIN terms' = 1 .. Latest /\ Latest' = Latest
    BY <1>3, <2>1 DEF Latest
  <2>3. TermsInForce'
    BY <1>1, <1>2, <1>3, <1>4, <1>5, <2>1, <2>2 DEF TermsInForce
  <2> QED
    BY <1>1, <1>3, <2>1, <2>3 DEF IInv, FreshHasSeen
<1>6. CASE ts[Latest].acks = Parties
  <2>1. terms' = InForce(ts) /\ current' = Latest /\ status' # "none"
    BY <1>6 DEF Accept, Activate, ts
  <2>2. DOMAIN ts = 1 .. Latest
    BY <1>3
  <2>3. \A i \in 1 .. Latest :
          /\ terms'[i] \in Term
          /\ i = Latest => terms'[i].state = "accepted" /\ terms'[i].acks = Parties
          /\ i < Latest => terms'[i].state = "superseded"
    <3>1. SUFFICES ASSUME NEW i \in 1 .. Latest
                   PROVE  /\ terms'[i] \in Term
                          /\ i = Latest => /\ terms'[i].state = "accepted"
                                           /\ terms'[i].acks = Parties
                          /\ i < Latest => terms'[i].state = "superseded"
      OBVIOUS
    <3>2. ts[i] \in Term
      BY <1>3
    <3>3. CASE i = Latest
      <4>1. terms'[i] = [ts[i] EXCEPT !.state = "accepted"]
        BY <1>3, <2>1, <2>2, <3>3 DEF InForce
      <4> QED
        BY <1>6, <3>2, <3>3, <4>1 DEF Term
    <3>4. CASE i # Latest /\ i = current
      <4>1. terms'[i] = [ts[i] EXCEPT !.state = "superseded"]
        BY <1>3, <2>1, <2>2, <3>4 DEF InForce
      <4> QED
        BY <3>2, <3>4, <4>1 DEF Term
    <3>5. CASE i # Latest /\ i # current
      <4>1. terms'[i] = ts[i]
        BY <1>3, <2>1, <2>2, <3>5 DEF InForce
      <4>2. i < current
        BY <1>2, <3>5
      <4> QED
        BY <1>3, <1>4, <3>2, <3>5, <4>1, <4>2
    <3> QED
      BY <3>3, <3>4, <3>5
  <2>4. terms' \in Seq(Term) /\ DOMAIN terms' = 1 .. Latest /\ Len(terms') = Latest
    <3>1. terms' = [i \in 1 .. Latest |-> terms'[i]]
      BY <2>1, <2>2 DEF InForce
    <3>2. \A i \in 1 .. Latest : terms'[i] \in Term
      BY <2>3
    <3> QED
      BY <1>2, <3>1, <3>2
  <2>5. TermsInForce'
    BY <1>2, <2>1, <2>3, <2>4 DEF TermsInForce, Latest
  <2> QED
    BY <1>1, <1>2, <2>1, <2>4, <2>5 DEF IInv, FreshHasSeen
<1> QED
  BY <1>5, <1>6

\* A new version opens the one amendment there may be.
LEMMA OfferTerms ==
  ASSUME IInv, status # "none", ~AmendmentPending, NEW p \in Parties,
         NEW i \in Interests, Offer(p, i), UNCHANGED <<status, current, seen>>,
         fresh' = {}
  PROVE  IInv'
<1>1. /\ terms \in Seq(Term) /\ current \in 1 .. Latest
      /\ Latest \in {current, current + 1} /\ Latest \in Nat \ {0}
  BY Started DEF IInv, TermsInForce
<1>2. Latest = current
  BY <1>1 DEF IInv, TermsInForce, AmendmentPending, Latest
<1> DEFINE t == [interest |-> i, state |-> "proposed", acks |-> {p}]
<1>3. t \in Term /\ t.state = "proposed" /\ t.acks # Parties
  BY DEF Term, Parties
<1>4. terms' = Append(terms, t)
  BY DEF Offer
<1> HIDE DEF t
<1>5. /\ terms' \in Seq(Term) /\ Len(terms') = Latest + 1
      /\ DOMAIN terms' = 1 .. (Latest + 1)
      /\ \A k \in 1 .. Latest : terms'[k] = terms[k]
      /\ terms'[Latest + 1] = t
  BY <1>1, <1>3, <1>4 DEF Latest
<1>6. TermsInForce'
  BY <1>1, <1>2, <1>3, <1>5 DEF IInv, TermsInForce, Latest
<1> QED
  BY <1>1, <1>5, <1>6 DEF IInv, FreshHasSeen

LEMMA CreateTerms ==
  ASSUME IInv, NEW p \in Parties, Create(p)
  PROVE  IInv'
<1>1. PICK i \in Interests :
        terms' = <<[interest |-> i, state |-> "proposed", acks |-> {p}]>>
  BY DEF Create
<1>2. [interest |-> i, state |-> "proposed", acks |-> {p}] \in Term
  BY DEF Term
<1>3. /\ terms' \in Seq(Term) /\ Len(terms') = 1 /\ DOMAIN terms' = {1}
      /\ terms'[1].state = "proposed"
  BY <1>1, <1>2
<1>4. /\ status = "none" /\ status' = "pending_acceptance" /\ current' = 1
      /\ UNCHANGED <<fresh, seen>>
  BY DEF Create
<1>5. TermsInForce'
  BY <1>3, <1>4 DEF TermsInForce, Latest
<1> QED
  BY <1>3, <1>4, <1>5 DEF IInv, FreshHasSeen

LEMMA StepIInv ==
  ASSUME IInv, [Next]_vars
  PROVE  IInv'
<1>1. CASE UNCHANGED vars
  BY <1>1, TermsKept DEF vars
<1>2. CASE RecordFunding
  BY <1>2, TermsKept DEF RecordFunding, Commit
<1>3. CASE Fulfill
  <2>1. /\ status # "none" /\ ~AmendmentPending /\ fresh' = {}
        /\ UNCHANGED <<status, current, seen>>
        /\ Offer("borrower", terms[current].interest)
    BY <1>3 DEF Fulfill, Commit
  <2>2. terms[current] \in Term
    BY <2>1, Started DEF IInv, Latest
  <2> QED
    BY <2>1, <2>2, OfferTerms DEF Parties, Term
<1>4. ASSUME NEW p \in Parties, Create(p) PROVE IInv'
  BY <1>4, CreateTerms
<1>5. ASSUME NEW p \in Parties, Redeem(p) \/ DeleteAccount(p) PROVE IInv'
  <2>1. CASE Redeem(p)
    BY <2>1, TermsKept DEF Redeem
  <2>2. CASE DeleteAccount(p)
    BY <2>2 DEF DeleteAccount, IInv, TermsInForce, FreshHasSeen, Latest
  <2> QED
    BY <1>5, <2>1, <2>2
<1>6. ASSUME NEW p \in Parties, Read(p) PROVE IInv'
  <2>1. /\ status # "none" /\ UNCHANGED <<status, terms, current>>
        /\ fresh' = fresh \cup {p} /\ seen' = [seen EXCEPT ![p] = Latest]
    BY <1>6 DEF Read
  <2>2. seen' \in [Parties -> Nat]
    BY <2>1, Started DEF IInv
  <2>3. FreshHasSeen'
    BY <2>1 DEF IInv, FreshHasSeen, Latest
  <2> QED
    BY <2>1, <2>2, <2>3 DEF IInv, TermsInForce, Latest
<1>7. ASSUME NEW p \in Parties, Accept(p) PROVE IInv'
  BY <1>7, AcceptTerms
<1>8. ASSUME NEW p \in Parties, ProposeTerms(p) PROVE IInv'
  BY <1>8, OfferTerms DEF ProposeTerms, Commit
<1>9. ASSUME NEW p \in Parties, ConfirmFunding(p) PROVE IInv'
  <2>1. status # "none"
    BY <1>9 DEF ConfirmFunding, UpToDate, IInv
  <2> QED
    BY <1>9, <2>1, TermsKept DEF ConfirmFunding, Commit
<1>10. ASSUME NEW p \in Parties, RecordPayment(p) PROVE IInv'
  BY <1>10, TermsKept DEF RecordPayment, Commit
<1>11. ASSUME NEW p \in Parties, NEW i \in DOMAIN payments, ConfirmPayment(p, i)
       PROVE  IInv'
  <2>1. status # "none"
    BY <1>11 DEF ConfirmPayment, UpToDate, IInv
  <2>2. status' \in {"settlement_pending", status}
    BY <1>11 DEF ConfirmPayment
  <2> QED
    BY <1>11, <2>1, <2>2, TermsKept DEF ConfirmPayment, Commit
<1>12. ASSUME NEW p \in Parties, Close(p) PROVE IInv'
  <2>1. status # "none" /\ status' \in {"settlement_pending", "closed"}
    BY <1>12 DEF Close, CloseStep
  <2> QED
    BY <1>12, <2>1, TermsKept DEF Close, Commit
<1> QED
  BY <1>1, <1>2, <1>3, <1>4, <1>5, <1>6, <1>7, <1>8, <1>9, <1>10, <1>11, <1>12
     DEF Next

LEMMA InitIInv == Init => IInv
  BY DEF Init, IInv, TermsInForce, FreshHasSeen, Latest

\* IInv is an invariant of the loan, whatever the parties' commands and however
\* many versions and repayments there are.
THEOREM LoanInvariant == Spec => []IInv
  BY InitIInv, StepIInv, PTL DEF Spec

\* The history of the terms is linear: one version in force, agreed by both, and
\* at most one open amendment.
THEOREM TermsStayInForce == Spec => []TermsInForce
<1>1. IInv => TermsInForce
  BY DEF IInv
<1> QED
  BY <1>1, LoanInvariant, PTL

-----------------------------------------------------------------------------
\* What a step may add to the acknowledgements.
Acknowledges ==
  \A i \in DOMAIN terms' : \A p \in terms'[i].acks :
    \/ i \in DOMAIN terms /\ p \in terms[i].acks
    \/ i <= seen[p]
    \/ i \notin DOMAIN terms /\ terms'[i].acks = {p}

LEMMA OfferAcknowledges ==
  ASSUME IInv, NEW p \in Parties, NEW interest, Offer(p, interest)
  PROVE  Acknowledges
<1> DEFINE t == [interest |-> interest, state |-> "proposed", acks |-> {p}]
<1>1. terms' = Append(terms, t) /\ t.acks = {p}
  BY DEF Offer
<1> HIDE DEF t
<1>2. /\ DOMAIN terms = 1 .. Latest /\ DOMAIN terms' = 1 .. (Latest + 1)
      /\ Latest \in Nat
      /\ \A i \in 1 .. Latest : terms'[i] = terms[i]
      /\ terms'[Latest + 1] = t
  BY <1>1 DEF IInv, Latest
<1> QED
  BY <1>1, <1>2 DEF Acknowledges

LEMMA AcceptAcknowledges ==
  ASSUME IInv, NEW p \in Parties, Accept(p)
  PROVE  Acknowledges
<1>1. status # "none" /\ p \in fresh /\ seen[p] = Latest
  BY DEF Accept, UpToDate, IInv, FreshHasSeen
<1>2. terms \in Seq(Term) /\ terms # <<>>
  BY <1>1, Started DEF IInv
<1> DEFINE ts == Acknowledged(p)
<1>3. /\ ts \in Seq(Term) /\ Len(ts) = Latest /\ Latest \in Nat
      /\ \A i \in 1 .. Latest :
           /\ i # Latest => ts[i].acks = terms[i].acks
           /\ i = Latest => ts[i].acks = terms[i].acks \cup {p}
  BY <1>2, AcknowledgedTerms
<1>4. terms' = ts \/ terms' = InForce(ts)
  BY DEF Accept
<1> HIDE DEF ts
<1>5. \A i \in 1 .. Latest : InForce(ts)[i].acks = ts[i].acks
  <2>1. \A i \in 1 .. Latest : ts[i] \in Term
    BY <1>3
  <2>2. \A i \in 1 .. Latest :
          InForce(ts)[i] \in {ts[i], [ts[i] EXCEPT !.state = "accepted"],
                              [ts[i] EXCEPT !.state = "superseded"]}
    BY <1>3 DEF InForce
  <2> QED
    BY <2>1, <2>2 DEF Term
<1>6. DOMAIN terms' = 1 .. Latest /\ DOMAIN terms = 1 .. Latest
  BY <1>2, <1>3, <1>4 DEF InForce, Latest
<1>7. \A i \in 1 .. Latest : terms'[i].acks \in {terms[i].acks, terms[i].acks \cup {p}}
                             /\ (i # Latest => terms'[i].acks = terms[i].acks)
  BY <1>3, <1>4, <1>5
<1> QED
  BY <1>1, <1>3, <1>6, <1>7 DEF Acknowledges

LEMMA StepAcknowledges ==
  ASSUME IInv, Next
  PROVE  Acknowledges
<1>1. ASSUME UNCHANGED terms PROVE Acknowledges
  BY <1>1 DEF Acknowledges
<1>2. CASE RecordFunding
  BY <1>1, <1>2 DEF RecordFunding
<1>3. CASE Fulfill
  BY <1>3, OfferAcknowledges DEF Fulfill, Parties
<1>4. ASSUME NEW p \in Parties, Create(p) PROVE Acknowledges
  <2>1. terms = <<>>
    BY <1>4 DEF Create, IInv
  <2>2. PICK i \in Interests :
          terms' = <<[interest |-> i, state |-> "proposed", acks |-> {p}]>>
    BY <1>4 DEF Create
  <2> QED
    BY <2>1, <2>2 DEF Acknowledges
<1>5. ASSUME NEW p \in Parties, Accept(p) PROVE Acknowledges
  BY <1>5, AcceptAcknowledges
<1>6. ASSUME NEW p \in Parties, ProposeTerms(p) PROVE Acknowledges
  BY <1>6, OfferAcknowledges DEF ProposeTerms
<1>7. ASSUME NEW p \in Parties,
             \/ Redeem(p) \/ DeleteAccount(p) \/ Read(p) \/ ConfirmFunding(p)
             \/ RecordPayment(p) \/ Close(p)
             \/ \E i \in DOMAIN payments : ConfirmPayment(p, i)
      PROVE  Acknowledges
  <2>1. UNCHANGED terms
    BY <1>7 DEF Redeem, DeleteAccount, Read, ConfirmFunding, RecordPayment, Close,
       ConfirmPayment
  <2> QED
    BY <1>1, <2>1
<1> QED
  BY <1>2, <1>3, <1>4, <1>5, <1>6, <1>7 DEF Next

\* No party ever acknowledges terms it has not read.
THEOREM NobodyAgreesUnread == Spec => NoBlindAcknowledgement
<1>1. IInv /\ [Next]_vars => [Acknowledges]_vars
  BY StepAcknowledges
<1> QED
  BY <1>1, LoanInvariant, PTL DEF Spec, NoBlindAcknowledgement, Acknowledges

-----------------------------------------------------------------------------
(* Amounts.                                                                *)

\* The units of the repayments are finitely many.
LEMMA UnitsFinite ==
  ASSUME NEW ps \in Seq(Payment), NEW paid \in [DOMAIN ps -> Nat]
  PROVE  IsFiniteSet(UNION {Units(i, paid[i]) : i \in Confirmed(ps)})
<1> DEFINE C == Confirmed(ps)
           F == {Units(i, paid[i]) : i \in C}
           f == [i \in C |-> Units(i, paid[i])]
<1>1. IsFiniteSet(C)
  <2>1. Len(ps) \in Nat /\ DOMAIN ps = 1 .. Len(ps)
    OBVIOUS
  <2>2. C \in SUBSET (1 .. Len(ps)) /\ IsFiniteSet(1 .. Len(ps))
    BY <2>1, FS_Interval DEF Confirmed
  <2> QED
    BY <2>2, FS_Subset
<1>2. f \in Surjection(C, F)
  BY DEF Surjection
<1>3. IsFiniteSet(F)
  <2> HIDE DEF C, F, f
  <2> QED
    BY <1>1, <1>2, FS_Surjection
<1>4. ASSUME NEW S \in F PROVE IsFiniteSet(S)
  <2>1. PICK i \in C : S = Units(i, paid[i])
    OBVIOUS
  <2>2. paid[i] \in Nat
    BY DEF Confirmed
  <2> DEFINE n == paid[i]
  <2>3. IsFiniteSet({i}) /\ IsFiniteSet(1 .. n)
    <3>1. 1 \in Int /\ n \in Int
      BY <2>2
    <3> HIDE DEF n
    <3> QED
      BY <3>1, FS_Singleton, FS_Interval
  <2> QED
    BY <2>1, <2>3, FS_Product DEF Units
<1> HIDE DEF F
<1>5. IsFiniteSet(UNION F)
  BY <1>3, <1>4, FS_UNION
<1> QED
  BY <1>5 DEF F

\* What has been paid is a number of units.
LEMMA PaidType ==
  ASSUME NEW ps \in Seq(Payment)
  PROVE  PrincipalPaid(ps) \in Nat /\ InterestPaid(ps) \in Nat
<1>1. \A i \in DOMAIN ps : ps[i] \in Payment
  OBVIOUS
<1>2. ASSUME NEW paid \in [DOMAIN ps -> Nat]
      PROVE  Cardinality(UNION {Units(i, paid[i]) : i \in Confirmed(ps)}) \in Nat
  BY UnitsFinite, FS_CardinalityType
<1>3. [i \in DOMAIN ps |-> ps[i].principal] \in [DOMAIN ps -> Nat]
  BY <1>1 DEF Payment
<1>4. [i \in DOMAIN ps |-> ps[i].interest] \in [DOMAIN ps -> Nat]
  BY <1>1 DEF Payment
<1> QED
  BY <1>2, <1>3, <1>4 DEF PrincipalPaid, InterestPaid, Confirmed

\* A confirmation adds units and takes none away.
LEMMA PaidGrows ==
  ASSUME NEW ps \in Seq(Payment), NEW qs \in Seq(Payment), DOMAIN qs = DOMAIN ps,
         \A i \in DOMAIN ps : /\ qs[i].principal = ps[i].principal
                              /\ qs[i].interest = ps[i].interest
                              /\ ps[i].state = "confirmed" => qs[i].state = "confirmed"
  PROVE  PrincipalPaid(ps) <= PrincipalPaid(qs) /\ InterestPaid(ps) <= InterestPaid(qs)
<1>1. \A i \in DOMAIN ps : ps[i] \in Payment /\ qs[i] \in Payment
  OBVIOUS
<1>2. Confirmed(ps) \subseteq Confirmed(qs)
  BY DEF Confirmed
<1>3. ASSUME NEW paid \in [DOMAIN ps -> Nat]
      PROVE  Cardinality(UNION {Units(i, paid[i]) : i \in Confirmed(ps)}) <=
             Cardinality(UNION {Units(i, paid[i]) : i \in Confirmed(qs)})
  <2> DEFINE S == UNION {Units(i, paid[i]) : i \in Confirmed(ps)}
             T == UNION {Units(i, paid[i]) : i \in Confirmed(qs)}
  <2>1. IsFiniteSet(T)
    BY UnitsFinite
  <2>2. S \in SUBSET T
    BY <1>2
  <2> HIDE DEF S, T
  <2>3. Cardinality(S) <= Cardinality(T)
    BY <2>1, <2>2, FS_Subset
  <2> QED
    BY <2>3 DEF S, T
<1> DEFINE f == [i \in DOMAIN ps |-> ps[i].principal]
           g == [i \in DOMAIN ps |-> ps[i].interest]
<1>4. f \in [DOMAIN ps -> Nat] /\ g \in [DOMAIN ps -> Nat]
  BY <1>1 DEF Payment
<1>5. ASSUME NEW i \in DOMAIN ps
      PROVE  /\ f[i] = ps[i].principal /\ f[i] = qs[i].principal
             /\ g[i] = ps[i].interest /\ g[i] = qs[i].interest
  OBVIOUS
<1>6. Confirmed(ps) \subseteq DOMAIN ps /\ Confirmed(qs) \subseteq DOMAIN ps
  BY DEF Confirmed
<1> HIDE DEF f, g
<1>7. /\ {Units(i, ps[i].principal) : i \in Confirmed(ps)} = {Units(i, f[i]) : i \in Confirmed(ps)}
      /\ {Units(i, qs[i].principal) : i \in Confirmed(qs)} = {Units(i, f[i]) : i \in Confirmed(qs)}
      /\ {Units(i, ps[i].interest) : i \in Confirmed(ps)} = {Units(i, g[i]) : i \in Confirmed(ps)}
      /\ {Units(i, qs[i].interest) : i \in Confirmed(qs)} = {Units(i, g[i]) : i \in Confirmed(qs)}
  BY <1>5, <1>6
<1> QED
  BY <1>3, <1>4, <1>7 DEF PrincipalPaid, InterestPaid

LEMMA MinOfTwo ==
  ASSUME NEW a \in Nat, NEW b \in Nat
  PROVE  Min({a, b}) = IF a <= b THEN a ELSE b
<1>1. \E x \in {a, b} : \A y \in {a, b} : x <= y
  OBVIOUS
<1>2. Min({a, b}) \in {a, b} /\ \A y \in {a, b} : Min({a, b}) <= y
  BY <1>1 DEF Min
<1> QED
  BY <1>2

\* What is due is a number of units, once there are terms.
LEMMA DueType ==
  ASSUME IInv, TypeOK, status # "none"
  PROVE  /\ current \in 1 .. Latest /\ terms[current] \in Term
         /\ PrincipalDue \in Nat /\ InterestDue \in Nat /\ Due \in Nat
         /\ Due = 0 <=> /\ PrincipalPaid(payments) >= Principal
                       /\ InterestPaid(payments) >= terms[current].interest
<1>1. current \in 1 .. Latest /\ terms[current] \in Term
  BY Started DEF IInv, Latest
<1>2. terms[current].interest \in Nat /\ Principal \in Nat
  BY <1>1, InterestsAssumption, PrincipalAssumption DEF Term
<1>3. PrincipalPaid(payments) \in Nat /\ InterestPaid(payments) \in Nat
  BY PaidType DEF TypeOK
<1> QED
  BY <1>1, <1>2, <1>3 DEF Due, PrincipalDue, InterestDue, Unpaid

-----------------------------------------------------------------------------
(* The types.                                                              *)

LEMMA InRange ==
  ASSUME NEW ts, NEW c \in Nat, ts \in Seq(Term), Len(ts) \in {c, c + 1}
  PROVE  c \in 0 .. Len(ts)
  OBVIOUS

\* What TypeOK says beyond the terms, which are the business of IInv.
LEMMA TypesFollow ==
  ASSUME IInv',
         status' \in Statuses, funding' \in {"pending", "confirmed"},
         intent' \in {"recorded", "offer"},
         member' \in [Parties -> {"invited", "member", "left"}],
         payments' \in Seq(Payment), disbursement' \in Disbursement,
         requested' \in SUBSET {"required", "optional"},
         assurance' \in {"none", "proposed", "acknowledged", "return_pending", "returned"},
         closeBy' \in Parties \cup {Nobody}
  PROVE  TypeOK'
<1>1. current' \in 0 .. Len(terms')
  <2>1. terms' \in Seq(Term) /\ current' \in Nat /\ TermsInForce'
    BY DEF IInv
  <2>2. Len(terms') \in {current', current' + 1}
    BY <2>1 DEF TermsInForce, Latest
  <2> QED
    BY <2>1, <2>2, InRange
<1> QED
  BY <1>1 DEF IInv, TypeOK

\* A repayment splits an amount that is due, so neither part is negative.
LEMMA RecordedPayment ==
  ASSUME IInv, TypeOK, NEW p \in Parties, RecordPayment(p)
  PROVE  payments' \in Seq(Payment)
<1>1. InterestDue \in Nat /\ Due \in Nat
  BY DueType DEF RecordPayment
<1>2. PICK amount \in 1 .. Due :
        payments' = Append(payments, [principal |-> amount - InterestPart(amount),
                                      interest |-> InterestPart(amount), by |-> p,
                                      state |-> "proposed"])
  BY DEF RecordPayment
<1>3. amount \in Nat /\ InterestPart(amount) \in Nat /\ InterestPart(amount) <= amount
  BY <1>1, MinOfTwo DEF InterestPart
<1>4. amount - InterestPart(amount) \in Nat
  BY <1>3
<1>5. [principal |-> amount - InterestPart(amount), interest |-> InterestPart(amount),
       by |-> p, state |-> "proposed"] \in Payment
  BY <1>3, <1>4 DEF Payment
<1> QED
  BY <1>2, <1>5 DEF TypeOK

LEMMA ConfirmedPayment ==
  ASSUME TypeOK, NEW p \in Parties, NEW i \in DOMAIN payments, ConfirmPayment(p, i)
  PROVE  /\ payments' \in Seq(Payment)
         /\ PrincipalPaid(payments) <= PrincipalPaid(payments')
         /\ InterestPaid(payments) <= InterestPaid(payments')
<1>1. payments \in Seq(Payment) /\ payments[i] \in Payment
  BY DEF TypeOK
<1> DEFINE paid == [payments[i] EXCEPT !.state = "confirmed"]
<1>2. /\ paid \in Payment /\ paid.state = "confirmed"
      /\ paid.principal = payments[i].principal /\ paid.interest = payments[i].interest
  BY <1>1 DEF Payment
<1>3. payments' = [payments EXCEPT ![i] = paid]
  BY DEF ConfirmPayment
<1> HIDE DEF paid
<1>4. /\ payments' \in Seq(Payment) /\ DOMAIN payments' = DOMAIN payments
      /\ \A k \in DOMAIN payments : payments'[k] = IF k = i THEN paid ELSE payments[k]
  BY <1>1, <1>2, <1>3
<1>5. \A k \in DOMAIN payments :
        /\ payments'[k].principal = payments[k].principal
        /\ payments'[k].interest = payments[k].interest
        /\ payments[k].state = "confirmed" => payments'[k].state = "confirmed"
  BY <1>2, <1>4
<1> QED
  BY <1>1, <1>4, <1>5, PaidGrows

LEMMA StepTypes ==
  ASSUME IInv, TypeOK, [Next]_vars
  PROVE  TypeOK'
<1>1. IInv'
  BY StepIInv
<1>2. CASE UNCHANGED vars
  BY <1>2 DEF vars, TypeOK
<1>3. CASE RecordFunding
  BY <1>1, <1>3, TypesFollow DEF RecordFunding, TypeOK, Disbursement, Parties
<1>4. CASE Fulfill
  BY <1>1, <1>4, TypesFollow DEF Fulfill, TypeOK
<1>5. ASSUME NEW p \in Parties, Create(p) PROVE TypeOK'
  <2>1. disbursement' \in Disbursement
    BY <1>5 DEF Create, TypeOK, Disbursement
  <2> QED
    BY <1>1, <1>5, <2>1, TypesFollow DEF Create, TypeOK, Statuses
<1>6. ASSUME NEW p \in Parties, Redeem(p) \/ DeleteAccount(p) \/ Read(p) PROVE TypeOK'
  <2>1. member' \in [Parties -> {"invited", "member", "left"}]
    BY <1>6 DEF Redeem, DeleteAccount, Read, TypeOK
  <2>2. UNCHANGED <<status, funding, intent, payments, disbursement, requested, assurance,
                    closeBy>>
    BY <1>6 DEF Redeem, DeleteAccount, Read
  <2> QED
    BY <1>1, <2>1, <2>2, TypesFollow DEF TypeOK
<1>7. ASSUME NEW p \in Parties, Accept(p) PROVE TypeOK'
  <2>1. /\ UNCHANGED <<intent, member, payments, requested, closeBy>>
        /\ status' \in Statuses /\ funding' \in {"pending", "confirmed"}
        /\ assurance' \in {"none", "proposed", "acknowledged", "return_pending", "returned"}
    BY <1>7 DEF Accept, Activate, TypeOK, Statuses
  <2>2. disbursement' \in Disbursement
    BY <1>7 DEF Accept, Activate, TypeOK, Disbursement
  <2> QED
    BY <1>1, <2>1, <2>2, TypesFollow DEF TypeOK
<1>8. ASSUME NEW p \in Parties, ProposeTerms(p) PROVE TypeOK'
  BY <1>1, <1>8, TypesFollow DEF ProposeTerms, TypeOK
<1>9. ASSUME NEW p \in Parties, ConfirmFunding(p) PROVE TypeOK'
  <2>1. disbursement' \in Disbursement
    BY <1>9 DEF ConfirmFunding, TypeOK, Disbursement
  <2> QED
    BY <1>1, <1>9, <2>1, TypesFollow DEF ConfirmFunding, TypeOK, Statuses
<1>10. ASSUME NEW p \in Parties, RecordPayment(p) PROVE TypeOK'
  BY <1>1, <1>10, RecordedPayment, TypesFollow DEF RecordPayment, TypeOK
<1>11. ASSUME NEW p \in Parties, NEW i \in DOMAIN payments, ConfirmPayment(p, i)
       PROVE  TypeOK'
  <2>1. payments' \in Seq(Payment)
    BY <1>11, ConfirmedPayment
  <2>2. status' \in Statuses
    BY <1>11 DEF ConfirmPayment, TypeOK, Statuses
  <2> QED
    BY <1>1, <1>11, <2>1, <2>2, TypesFollow DEF ConfirmPayment, TypeOK
<1>12. ASSUME NEW p \in Parties, Close(p) PROVE TypeOK'
  BY <1>1, <1>12, TypesFollow DEF Close, CloseStep, TypeOK, Statuses
<1> QED
  BY <1>2, <1>3, <1>4, <1>5, <1>6, <1>7, <1>8, <1>9, <1>10, <1>11, <1>12 DEF Next

LEMMA InitTypes == Init => TypeOK
  BY DEF Init, TypeOK, Statuses, Disbursement

\* The rows stay in range, however many repayments are recorded of whatever is
\* due: no repayment has a negative part.
THEOREM LoanTypes == Spec => []TypeOK
  BY LoanInvariant, InitTypes, StepTypes, PTL DEF Spec

-----------------------------------------------------------------------------
(* The portfolios.                                                         *)

PortfoliosSound == PortfoliosAgree /\ DOMAIN projected = Parties

LEMMA RebuiltAgree ==
  ASSUME Rebuild
  PROVE  PortfoliosSound'
BY DEF Rebuild, PortfoliosSound, PortfoliosAgree

\* Every command rebuilds the rows after its last change, and the steps that do
\* not are those that leave alone everything a row shows.
LEMMA StepAgrees ==
  ASSUME TypeOK, PortfoliosSound, [Next]_vars
  PROVE  PortfoliosSound'
<1>1. ASSUME NEW p \in Parties, Commit(p) PROVE Rebuild
  BY <1>1 DEF Commit
<1>2. ASSUME UNCHANGED <<status, terms, current, payments, disbursement, assurance>>
      PROVE  \A q \in Parties : Projection(q)' = Projection(q)
  BY <1>2 DEF Projection, PrincipalDue, InterestDue, ResponseNeeded, Latest
<1>3. CASE UNCHANGED vars
  BY <1>2, <1>3 DEF vars, PortfoliosSound, PortfoliosAgree
<1>4. ASSUME NEW p \in Parties, Read(p)
      PROVE  PortfoliosSound'
  BY <1>2, <1>4 DEF Read, PortfoliosSound, PortfoliosAgree
<1>5. ASSUME NEW p \in Parties, DeleteAccount(p)
      PROVE  PortfoliosSound'
  <2>1. \A q \in Parties : member'[q] = "member" => q # p /\ member[q] = "member"
    <3>1. member' = [member EXCEPT ![p] = "left"] /\ DOMAIN member = Parties
      BY <1>5 DEF DeleteAccount, TypeOK
    <3> QED
      BY <3>1
  <2>2. \A q \in Parties : q # p => projected'[q] = projected[q]
    <3>1. projected' = [projected EXCEPT ![p] = NoProjection]
      BY <1>5 DEF DeleteAccount
    <3> QED
      BY <3>1 DEF PortfoliosSound
  <2> QED
    BY <1>2, <1>5, <2>1, <2>2 DEF DeleteAccount, PortfoliosSound, PortfoliosAgree
<1>6. CASE RecordFunding \/ Fulfill
  BY <1>6, RebuiltAgree DEF RecordFunding, Fulfill, Commit
<1>7. ASSUME NEW p \in Parties,
             \/ Create(p) \/ Redeem(p) \/ Accept(p) \/ ProposeTerms(p)
             \/ ConfirmFunding(p) \/ RecordPayment(p) \/ Close(p)
             \/ \E i \in DOMAIN payments : ConfirmPayment(p, i)
      PROVE  PortfoliosSound'
  <2>1. Rebuild
    BY <1>7 DEF Create, Redeem, Accept, ProposeTerms, ConfirmFunding, RecordPayment,
       Close, ConfirmPayment, Commit
  <2> QED
    BY <2>1, RebuiltAgree
<1> QED
  BY <1>3, <1>4, <1>5, <1>6, <1>7 DEF Next

\* Both portfolios show the loan as it is after every step.
THEOREM PortfoliosStayEqual == Spec => []PortfoliosAgree
<1>1. Init => PortfoliosSound
  BY DEF Init, PortfoliosSound, PortfoliosAgree
<1>2. PortfoliosSound => PortfoliosAgree
  BY DEF PortfoliosSound
<1> QED
  BY <1>1, <1>2, StepAgrees, LoanTypes, PTL DEF Spec

-----------------------------------------------------------------------------
(* Settled loans.                                                          *)

\* Whoever closed the loan answered somebody's proposal, and no command takes the
\* proposal back.
SettledSound == SettledOwesNothing /\ (status = "closed" => closeBy # Nobody)

\* Nothing that is paid, and no amendment that keeps the interest in force, makes
\* a settled loan owe again.
LEMMA DueKept ==
  ASSUME IInv, TypeOK, status # "none", Due = 0, payments' \in Seq(Payment),
         PrincipalPaid(payments) <= PrincipalPaid(payments'),
         InterestPaid(payments) <= InterestPaid(payments'),
         terms'[current'].interest = terms[current].interest
  PROVE  Due' = 0
<1>1. /\ PrincipalPaid(payments) >= Principal
      /\ InterestPaid(payments) >= terms[current].interest
      /\ terms[current].interest \in Nat
  BY DueType, InterestsAssumption DEF Term
<1>2. /\ PrincipalPaid(payments) \in Nat /\ InterestPaid(payments) \in Nat
      /\ PrincipalPaid(payments') \in Nat /\ InterestPaid(payments') \in Nat
  BY PaidType DEF TypeOK
<1>3. PrincipalDue' = 0
  BY <1>1, <1>2, PrincipalAssumption DEF PrincipalDue, Unpaid
<1>4. InterestDue' = 0
  BY <1>1, <1>2 DEF InterestDue, Unpaid
<1> QED
  BY <1>3, <1>4 DEF Due

\* The steps that leave the repayments and the interest in force alone.
LEMMA SettledKept ==
  ASSUME IInv, TypeOK, SettledSound, UNCHANGED <<status, payments, assurance, closeBy>>,
         status # "none" => terms'[current'].interest = terms[current].interest
  PROVE  SettledSound'
<1>1. ASSUME status \in {"settlement_pending", "closed"} PROVE Due' = 0
  <2>1. Due = 0 /\ status # "none"
    BY <1>1 DEF SettledSound, SettledOwesNothing
  <2>2. /\ payments' = payments /\ payments \in Seq(Payment)
        /\ PrincipalPaid(payments) <= PrincipalPaid(payments)
        /\ InterestPaid(payments) <= InterestPaid(payments)
    BY PaidType DEF TypeOK
  <2> QED
    BY <2>1, <2>2, DueKept
<1> QED
  BY <1>1 DEF SettledSound, SettledOwesNothing

LEMMA OfferSettled ==
  ASSUME IInv, TypeOK, SettledSound, status # "none", NEW p \in Parties, NEW interest,
         Offer(p, interest), UNCHANGED <<status, current, payments, assurance, closeBy>>
  PROVE  SettledSound'
<1>1. current \in 1 .. Latest /\ terms \in Seq(Term)
  BY Started DEF IInv
<1> DEFINE t == [interest |-> interest, state |-> "proposed", acks |-> {p}]
<1>2. terms' = Append(terms, t)
  BY DEF Offer
<1> HIDE DEF t
<1>3. terms'[current'] = terms[current]
  BY <1>1, <1>2 DEF Latest
<1> QED
  BY <1>3, SettledKept

LEMMA StepSettled ==
  ASSUME IInv, TypeOK, SettledSound, [Next]_vars
  PROVE  SettledSound'
<1>1. ASSUME status' \notin {"settlement_pending", "closed"} PROVE SettledSound'
  BY <1>1 DEF SettledSound, SettledOwesNothing
<1>2. CASE UNCHANGED vars
  BY <1>2, SettledKept DEF vars
<1>3. CASE RecordFunding
  BY <1>1, <1>3 DEF RecordFunding
<1>4. CASE Fulfill
  BY <1>4, OfferSettled DEF Fulfill, Parties
<1>5. ASSUME NEW p \in Parties, Create(p) \/ ProposeTerms(p) \/ ConfirmFunding(p)
      PROVE  SettledSound'
  BY <1>1, <1>5 DEF Create, ProposeTerms, ConfirmFunding
<1>6. ASSUME NEW p \in Parties, Redeem(p) \/ DeleteAccount(p) \/ Read(p)
      PROVE  SettledSound'
  <2>1. UNCHANGED <<status, payments, assurance, closeBy, terms, current>>
    BY <1>6 DEF Redeem, DeleteAccount, Read
  <2> QED
    BY <2>1, SettledKept
<1>7. ASSUME NEW p \in Parties, Accept(p) PROVE SettledSound'
  <2>1. CASE Acknowledged(p)[Latest].acks = Parties
    BY <1>1, <1>7, <2>1 DEF Accept, Activate
  <2>2. CASE Acknowledged(p)[Latest].acks # Parties
    <3>1. /\ terms' = Acknowledged(p) /\ status # "none"
          /\ UNCHANGED <<status, current, assurance, payments, closeBy>>
      BY <1>7, <2>2 DEF Accept
    <3>2. terms \in Seq(Term) /\ terms # <<>> /\ current \in 1 .. Latest
      BY <3>1, Started DEF IInv
    <3>3. terms'[current'].interest = terms[current].interest
      BY <3>1, <3>2, AcknowledgedTerms
    <3> QED
      BY <3>1, <3>3, SettledKept
  <2> QED
    BY <2>1, <2>2
<1>8. ASSUME NEW p \in Parties, RecordPayment(p) PROVE SettledSound'
  <2>1. Due # 0
    <3>1. Due \in Nat /\ \E amount \in 1 .. Due : TRUE
      BY <1>8, DueType DEF RecordPayment
    <3> QED
      BY <3>1
  <2> QED
    BY <1>1, <1>8, <2>1 DEF RecordPayment, SettledSound, SettledOwesNothing
<1>9. ASSUME NEW p \in Parties, NEW i \in DOMAIN payments, ConfirmPayment(p, i)
      PROVE  SettledSound'
  <2>1. /\ UNCHANGED <<terms, current, assurance, closeBy>>
        /\ status' = IF Due' = 0 THEN "settlement_pending" ELSE status
    BY <1>9 DEF ConfirmPayment
  <2>2. CASE Due' = 0
    BY <2>1, <2>2 DEF SettledSound, SettledOwesNothing
  <2>3. CASE Due' # 0
    <3>1. Due = 0 /\ status # "none" => Due' = 0
      BY <1>9, <2>1, ConfirmedPayment, DueKept
    <3> QED
      BY <1>1, <2>1, <2>3, <3>1 DEF SettledSound, SettledOwesNothing
  <2> QED
    BY <2>2, <2>3
<1>10. ASSUME NEW p \in Parties, Close(p) PROVE SettledSound'
  <2>1. /\ UNCHANGED <<terms, current, payments>> /\ Due = 0
        /\ status' \in {"settlement_pending", "closed"} /\ closeBy' # Nobody
        /\ status' = "closed" => assurance' \in {"none", "returned"}
    BY <1>10 DEF Close, CloseStep, Parties, Nobody
  <2>2. Due' = 0
    BY <2>1 DEF Due, PrincipalDue, InterestDue
  <2> QED
    BY <2>1, <2>2 DEF SettledSound, SettledOwesNothing
<1> QED
  BY <1>2, <1>3, <1>4, <1>5, <1>6, <1>7, <1>8, <1>9, <1>10 DEF Next

\* Only what owes nothing is ready to close, and only what was given back is
\* closed, however late confirmations and amendments arrive.
THEOREM SettledLoansOweNothing == Spec => []SettledOwesNothing
<1>1. Init => SettledSound
  BY DEF Init, SettledSound, SettledOwesNothing
<1>2. SettledSound => SettledOwesNothing
  BY DEF SettledSound
<1> QED
  BY <1>1, <1>2, StepSettled, LoanInvariant, LoanTypes, PTL DEF Spec

=============================================================================
