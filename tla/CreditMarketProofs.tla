-------------------------- MODULE CreditMarketProofs --------------------------
(* Proofs about Directory and CreditMarket, for any registry, budgets,        *)
(* targets, postures and number of events, attempts and ticks.                *)
(*                                                                            *)
(* Why the approval stands: the row of the approval is written once, and      *)
(* before it is written no workflow goes on and no target holds a policy.     *)
(* From then on the workflow proposes the row, a target is sent the row, and  *)
(* a target that answers "ok" holds it; a second attempt finds in a target    *)
(* the row of the first.  Why the credit is acceptable: an offer is made for  *)
(* the approved price under the approved cap, and what the selection returns  *)
(* is one of the live offers (SelectionProofs).  Why it is the best: it has   *)
(* the highest score, and with shares that are fine enough for what a lender  *)
(* may ask, a better offer has a higher score.                                *)
EXTENDS CreditMarket, SelectionProofs

Registering == {"created", "ranked", "provisioning", "refused"}

\* There is an attempt left when the workflow is about to make one.
AttemptsLeft ==
    /\ stage = "created" => attempts = 0
    /\ stage = "ranked" => attempts < MaxAttempts

\* The operator approves what the budget of the approval can pay.
ApprovalPays == approval # None => approval.price <= approval.cap

\* A target that was sent a policy holds the approved one.
TargetsHoldApproval ==
    \A t \in Targets : policyAt[t] # None => approval # None /\ policyAt[t] = approval

\* A workflow that went on has the approval of its request's budget.
WorkflowHoldsApproval ==
    stage \notin {"created", "refused"} =>
        approval # None /\ proposal = approval /\ approval.cap = budget

\* An acknowledgement says that the target holds the approved policy, and the
\* workflow goes on to the market when every target has given one.
AcknowledgedIsHeld ==
    /\ \A t \in Targets : answer[t] = "ok" => policyAt[t] = approval /\ approval # None
    /\ stage \notin Registering => \A t \in Targets : answer[t] = "ok"

ApprovalInv ==
    /\ AttemptsLeft
    /\ ApprovalPays
    /\ TargetsHoldApproval
    /\ WorkflowHoldsApproval
    /\ AcknowledgedIsHeld

\* An offer is for the approved price, which its lender found within the cap and
\* its posture, for the fee of the posture; and it lasts its validity at most.
OffersCoverApproval ==
    \A l \in Lenders : quote[l].kind \in {"sent", "offer"} =>
        /\ approval # None /\ quote[l].principal = approval.price
        /\ quote[l].principal > 0 /\ quote[l].principal <= approval.cap
        /\ quote[l].principal <= Posture[l].maxPrincipal
        /\ quote[l].fee = Fee(Posture[l], quote[l].principal)
        /\ quote[l].expires <= now + Validity

Scores ==
    OfferScore(Offers, EligibleOffers(Offers, approval.price, now), approval.price, now)

\* A live offer that is as cheap and lasts as long as the selected one has the
\* same score, and a later identifier: it is better by less than a share.
OnlyTiesLose ==
    stage = "selected" =>
        \A l \in DOMAIN Offers \ {chosen} :
            /\ Offers[l].expires > now
            /\ Repayment(Offers[l]) <= Repayment(Offers[chosen])
            /\ Offers[l].expires >= Offers[chosen].expires
            => Scores[l] = Scores[chosen] /\ chosen < l

\* Shares that are fine enough leave ties to equal offers only.
BestIfFine == FineShares => ChosenIsBest

MarketInv == OffersCoverApproval /\ CreditIsAcceptable /\ OnlyTiesLose /\ BestIfFine

IInv == TypeOK /\ ApprovalInv /\ MarketInv

-----------------------------------------------------------------------------
\* Nothing is approved, proposed, held or offered at first.
LEMMA InitInv == Init => IInv
<1> SUFFICES ASSUME Init PROVE IInv
  OBVIOUS
<1> USE DEF Init, InitDirectory, InitMarket
<1>1. TypeOK
  BY LimitsAssumption, TimeAssumption DEF TypeOK, DirectoryTypeOK, Quotes
<1>2. ApprovalInv
  BY AnswersAssumption, LimitsAssumption
  DEF ApprovalInv, AttemptsLeft, ApprovalPays, TargetsHoldApproval,
      WorkflowHoldsApproval, AcknowledgedIsHeld, Registering
<1>3. MarketInv
  BY DEF MarketInv, OffersCoverApproval, CreditIsAcceptable, OnlyTiesLose, BestIfFine,
      ChosenIsBest
<1> QED BY <1>1, <1>2, <1>3 DEF IInv

-----------------------------------------------------------------------------
(* The directory.                                                             *)

\* Reputations are natural numbers, and a policy for a registered provider has
\* the shape of a policy.
LEMMA PolicyShape ==
  ASSUME TypeOK, NEW cap \in Budgets, NEW id \in Ids
  PROVE  Reputations[id] \in Nat /\ Policy(cap, id) \in PolicyRecords
<1>1. successes[id] + 1 \in Nat /\ successes[id] + failures[id] + 2 \in Nat \ {0}
  <2>1. successes[id] \in Nat /\ failures[id] \in Nat
    BY DEF TypeOK, DirectoryTypeOK
  <2> QED BY <2>1
<1>2. Reputations[id] \in Nat
  BY <1>1, ShareGrows DEF Reputations, Reputation
<1>3. (CHOOSE p \in Registry : p.id = id).price \in Nat
  <2>1. \E p \in Registry : p.id = id
    BY DEF Ids
  <2> QED BY <2>1, RegistryAssumption
<1> QED BY <1>2, <1>3 DEF Policy, PolicyRecords

\* The provider that is approved is a registered one.
LEMMA ApprovedIsRegistered ==
  ASSUME TypeOK, NEW cap \in Budgets, Approve(cap)
  PROVE  \E id \in Ids : approval' = Policy(cap, id) /\ Policy(cap, id).price <= cap
<1>1. \A p \in Registry : p.id \in Ids /\ Reputations[p.id] \in Int
  BY PolicyShape DEF Ids
<1>2. \E p \in Registry :
        /\ p.capability = Capability
        /\ p.id = RankProviders(Registry, Reputations, Capability, cap)[1]
  BY <1>1, RankedIsRegistered, RegistryAssumption, LimitsAssumption DEF Approve, IsProvider
<1> QED BY <1>1, <1>2 DEF Approve

\* The market is not disturbed by a step that leaves it alone and does not
\* change an approval that stands.
LEMMA MarketUntouched ==
  ASSUME IInv, UNCHANGED marketVars, approval # None => approval' = approval,
         stage' \in {"selected", "no credit"} => UNCHANGED <<stage, policyAt>>
  PROVE  MarketInv'
<1> USE DEF IInv, marketVars
<1>1. OffersCoverApproval'
  BY DEF MarketInv, OffersCoverApproval
<1>2. ASSUME stage' \in {"selected", "no credit"} PROVE UNCHANGED <<approval, stage, policyAt>>
  BY <1>2 DEF ApprovalInv, WorkflowHoldsApproval
<1>3. CreditIsAcceptable'
  BY <1>2 DEF MarketInv, CreditIsAcceptable, Offers
<1>4. OnlyTiesLose'
  <2>1. CASE stage' = "selected"
    <3>1. Scores' = Scores /\ Offers' = Offers
      BY <1>2, <2>1 DEF Scores, Offers
    <3> QED BY <1>2, <2>1, <3>1 DEF MarketInv, OnlyTiesLose
  <2>2. CASE stage' # "selected"
    BY <2>2 DEF OnlyTiesLose
  <2> QED BY <2>1, <2>2
<1>5. BestIfFine'
  BY <1>2 DEF MarketInv, BestIfFine, ChosenIsBest, Offers
<1> QED BY <1>1, <1>3, <1>4, <1>5 DEF MarketInv

\* Counting one more leaves counts.
LEMMA OneMore ==
  ASSUME NEW S, NEW count \in [S -> Nat], NEW s \in S
  PROVE  [count EXCEPT ![s] = @ + 1] \in [S -> Nat]
OBVIOUS

\* Events of other missions move no approval.
LEMMA RecordEventInv ==
  ASSUME IInv, NEW p \in Ids, RecordEvent(p), UNCHANGED marketVars
  PROVE  IInv'
<1> USE AnswersAssumption, LimitsAssumption DEF IInv, RecordEvent
<1>1. TypeOK'
  <2>1. successes \in [Ids -> Nat] /\ failures \in [Ids -> Nat]
    BY DEF TypeOK, DirectoryTypeOK
  <2>3. /\ [successes EXCEPT ![p] = @ + 1] \in [Ids -> Nat]
        /\ [failures EXCEPT ![p] = @ + 1] \in [Ids -> Nat]
    BY <2>1, OneMore
  <2>4. successes' \in [Ids -> Nat] /\ failures' \in [Ids -> Nat]
    BY <2>1, <2>3
  <2> QED BY <2>4 DEF TypeOK, DirectoryTypeOK, marketVars
<1>2. ApprovalInv'
  BY DEF TypeOK, DirectoryTypeOK, ApprovalInv, AttemptsLeft, ApprovalPays, TargetsHoldApproval,
      WorkflowHoldsApproval, AcknowledgedIsHeld, Registering
<1>3. MarketInv'
  BY MarketUntouched
<1> QED BY <1>1, <1>2, <1>3

\* The approval is written while nothing rests on it, and within its budget.
LEMMA ApproveInv ==
  ASSUME IInv, NEW cap \in Budgets, Approve(cap), UNCHANGED marketVars
  PROVE  IInv'
<1> USE DEF IInv
<1>1. PICK id \in Ids : approval' = Policy(cap, id) /\ Policy(cap, id).price <= cap
  BY ApprovedIsRegistered
<1>2. /\ approval = None
      /\ UNCHANGED <<successes, failures, stage, budget, proposal, policyAt, answer, attempts>>
  BY DEF Approve
<1>3. TypeOK'
  BY <1>1, <1>2, PolicyShape DEF TypeOK, DirectoryTypeOK, marketVars
<1>4. ApprovalInv'
  BY <1>1, <1>2
  DEF Policy, ApprovalInv, AttemptsLeft, ApprovalPays, TargetsHoldApproval,
      WorkflowHoldsApproval, AcknowledgedIsHeld, Registering
<1>5. MarketInv'
  BY <1>2, MarketUntouched
<1> QED BY <1>3, <1>4, <1>5

\* The workflow goes on with the stored approval of its budget.
LEMMA RankInv ==
  ASSUME IInv, Rank, UNCHANGED marketVars
  PROVE  IInv'
<1> USE AnswersAssumption, LimitsAssumption DEF IInv, Rank, ApprovedFor
<1>1. TypeOK'
  BY DEF TypeOK, DirectoryTypeOK, marketVars, ApprovalInv, AttemptsLeft
<1>2. ApprovalInv'
  BY DEF TypeOK, DirectoryTypeOK, ApprovalInv, AttemptsLeft, ApprovalPays, TargetsHoldApproval,
      WorkflowHoldsApproval, AcknowledgedIsHeld, Registering
<1>3. MarketInv'
  BY MarketUntouched
<1> QED BY <1>1, <1>2, <1>3

\* An attempt forgets the answers and sends what is proposed.
LEMMA ProvisionInv ==
  ASSUME IInv, Provision, UNCHANGED marketVars
  PROVE  IInv'
<1> USE AnswersAssumption, LimitsAssumption DEF IInv, Provision
<1>1. TypeOK'
  BY DEF TypeOK, DirectoryTypeOK, marketVars, ApprovalInv, AttemptsLeft
<1>2. ApprovalInv'
  BY DEF TypeOK, DirectoryTypeOK, ApprovalInv, AttemptsLeft, ApprovalPays, TargetsHoldApproval,
      WorkflowHoldsApproval, AcknowledgedIsHeld, Registering
<1>3. MarketInv'
  BY MarketUntouched
<1> QED BY <1>1, <1>2, <1>3

\* A target takes the approval, or keeps it.
LEMMA RegisterInv ==
  ASSUME IInv, NEW t \in Targets, Register(t), UNCHANGED marketVars
  PROVE  IInv'
<1> USE AnswersAssumption, LimitsAssumption DEF IInv, Register
<1>1. TypeOK'
  BY DEF TypeOK, DirectoryTypeOK, marketVars, ApprovalInv, AttemptsLeft
<1>2. ApprovalInv'
  BY DEF TypeOK, DirectoryTypeOK, ApprovalInv, AttemptsLeft, ApprovalPays, TargetsHoldApproval,
      WorkflowHoldsApproval, AcknowledgedIsHeld, Registering
<1>3. MarketInv'
  BY MarketUntouched
<1> QED BY <1>1, <1>2, <1>3

\* A call that does not arrive changes no target.
LEMMA UnreachableInv ==
  ASSUME IInv, NEW t \in Targets, Unreachable(t), UNCHANGED marketVars
  PROVE  IInv'
<1> USE AnswersAssumption, LimitsAssumption DEF IInv, Unreachable
<1>1. TypeOK'
  BY DEF TypeOK, DirectoryTypeOK, marketVars, ApprovalInv, AttemptsLeft
<1>2. ApprovalInv'
  BY DEF TypeOK, DirectoryTypeOK, ApprovalInv, AttemptsLeft, ApprovalPays, TargetsHoldApproval,
      WorkflowHoldsApproval, AcknowledgedIsHeld, Registering
<1>3. MarketInv'
  BY MarketUntouched
<1> QED BY <1>1, <1>2, <1>3

\* The workflow is provisioned only when every target acknowledged.
LEMMA SettledInv ==
  ASSUME IInv, Settled, UNCHANGED marketVars
  PROVE  IInv'
<1> USE AnswersAssumption, LimitsAssumption DEF IInv, Settled
<1>1. TypeOK'
  BY DEF TypeOK, DirectoryTypeOK, marketVars, ApprovalInv, AttemptsLeft
<1>2. ApprovalInv'
  BY DEF TypeOK, DirectoryTypeOK, ApprovalInv, AttemptsLeft, ApprovalPays, TargetsHoldApproval,
      WorkflowHoldsApproval, AcknowledgedIsHeld, Registering
<1>3. MarketInv'
  BY MarketUntouched
<1> QED BY <1>1, <1>2, <1>3

-----------------------------------------------------------------------------
(* The market.                                                                *)

\* The market changes nothing that the directory keeps, and goes on.
LEMMA ApprovalUntouched ==
  ASSUME IInv, InMarket,
         stage' = stage \/ (stage \notin Registering /\ stage' \notin Registering)
  PROVE  ApprovalInv'
BY DEF InMarket, IInv, ApprovalInv, AttemptsLeft, ApprovalPays, TargetsHoldApproval,
       WorkflowHoldsApproval, AcknowledgedIsHeld, Registering

LEMMA DirectoryShape ==
  ASSUME TypeOK, InMarket
  PROVE  DirectoryTypeOK'
BY DEF InMarket, TypeOK, DirectoryTypeOK

\* In the market the workflow and every lender have the approved policy.
LEMMA InTheMarket ==
  ASSUME IInv, stage \notin Registering
  PROVE  /\ approval \in PolicyRecords /\ proposal = approval
         /\ approval.price \in Nat /\ approval.cap \in Nat
         /\ \A l \in Lenders : policyAt[l] = approval
BY LendersAssumption, LimitsAssumption
DEF IInv, TypeOK, DirectoryTypeOK, PolicyRecords, ApprovalInv, WorkflowHoldsApproval,
    AcknowledgedIsHeld, Registering

\* Nothing is selected while the balance is read and the quotes are awaited.
LEMMA NothingSelected ==
  ASSUME stage' \notin {"selected", "no credit"}
  PROVE  CreditIsAcceptable' /\ OnlyTiesLose' /\ BestIfFine'
BY DEF CreditIsAcceptable, OnlyTiesLose, BestIfFine, ChosenIsBest

\* The balance decides whether the mission borrows.
LEMMA ReadBalanceInv ==
  ASSUME IInv, NEW balance, ReadBalance(balance)
  PROVE  IInv'
<1> USE DEF IInv, ReadBalance
<1>1. TypeOK'
  BY DirectoryShape DEF TypeOK, marketVars
<1>2. ApprovalInv'
  BY ApprovalUntouched DEF Registering
<1>3. MarketInv'
  BY NothingSelected DEF InMarket, marketVars, MarketInv, OffersCoverApproval
<1> QED BY <1>1, <1>2, <1>3

\* A fee is a natural number, and no more than the price unless it is over 100%.
LEMMA FeeIsNat ==
  ASSUME NEW l \in Lenders, NEW price \in Nat
  PROVE  /\ Fee(Posture[l], price) \in Nat
         /\ Posture[l].feeBps <= 10000 => Fee(Posture[l], price) <= price
<1> DEFINE bps == Posture[l].feeBps
           asked == price * bps
<1>1. bps \in Nat
  BY LendersAssumption
<1> HIDE DEF bps
<1>2. asked \in Nat
  BY <1>1
<1>3. bps <= 10000 => asked <= price * 10000
  BY <1>1
<1> HIDE DEF asked
<1>4. /\ (asked + 9999) \div 10000 \in Nat
      /\ bps <= 10000 => (asked + 9999) \div 10000 <= price
  BY <1>2, <1>3
<1> QED BY <1>4 DEF Fee, asked, bps

\* A lender offers the price it was asked for, under the cap it was given.
LEMMA QuoteInv ==
  ASSUME IInv, NEW l \in Lenders, Quote(l)
  PROVE  IInv'
<1> USE DEF IInv
<1>1. /\ stage = "quoting" /\ InMarket /\ UNCHANGED <<stage, now, chosen>>
      /\ proposal = approval /\ approval # None /\ policyAt[l] = approval
      /\ approval.price \in Nat /\ approval.cap \in Nat
  BY InTheMarket DEF Quote, Registering, ApprovalInv, WorkflowHoldsApproval
<1> DEFINE sent == [kind |-> "sent", principal |-> approval.price,
                    fee |-> Fee(Posture[l], approval.price), expires |-> now + Validity]
<1>2. PICK q : /\ quote' = [quote EXCEPT ![l] = q]
               /\ \/ q = [kind |-> "error"] \/ q = [kind |-> "declined"]
                  \/ /\ q = sent /\ approval.price <= approval.cap /\ approval.price > 0
                     /\ approval.price <= Posture[l].maxPrincipal
  <2> DEFINE lends == Lends(Posture[l], proposal.price, Term, BorrowerReputation)
             q == IF policyAt[l] = None \/ proposal.price > policyAt[l].cap
                    THEN [kind |-> "error"]
                  ELSE IF ~lends THEN [kind |-> "declined"]
                  ELSE [kind |-> "sent", principal |-> proposal.price,
                        fee |-> Fee(Posture[l], proposal.price), expires |-> now + Validity]
  <2>1. quote' = [quote EXCEPT ![l] = q]
    BY DEF Quote
  <2>2. lends => proposal.price > 0 /\ proposal.price <= Posture[l].maxPrincipal
    BY DEF Lends
  <2> HIDE DEF lends
  <2>3. \/ q = [kind |-> "error"] \/ q = [kind |-> "declined"]
        \/ q = sent /\ lends /\ ~(proposal.price > policyAt[l].cap)
    BY <1>1
  <2>4. q = sent /\ lends /\ ~(proposal.price > policyAt[l].cap) =>
          /\ approval.price <= approval.cap /\ approval.price > 0
          /\ approval.price <= Posture[l].maxPrincipal
    BY <1>1, <2>2
  <2> HIDE DEF q, sent
  <2> QED BY <2>1, <2>3, <2>4
<1>3. /\ q \in Quotes
      /\ q.kind \in {"sent", "offer"} =>
           /\ q = sent /\ approval.price <= approval.cap /\ approval.price > 0
           /\ approval.price <= Posture[l].maxPrincipal
  BY <1>1, <1>2, FeeIsNat, TimeAssumption DEF Quotes, TypeOK
<1>4. TypeOK'
  BY <1>1, <1>2, <1>3, DirectoryShape DEF TypeOK
<1>5. ApprovalInv'
  BY <1>1, ApprovalUntouched
<1>6. OffersCoverApproval'
  <2>1. q.kind \in {"sent", "offer"} =>
          /\ q.principal = approval.price
          /\ q.principal > 0 /\ q.principal <= approval.cap
          /\ q.principal <= Posture[l].maxPrincipal
          /\ q.fee = Fee(Posture[l], q.principal) /\ q.expires = now + Validity
    BY <1>1, <1>3
  <2>2. \A k \in Lenders : quote'[k] = IF k = l THEN q ELSE quote[k]
    BY <1>2 DEF TypeOK
  <2>3. now + Validity <= now + Validity
    <3>1. now \in 0 .. MaxTime
      BY DEF TypeOK
    <3> QED BY <3>1, TimeAssumption
  <2>4. approval' = approval /\ now' = now
    BY <1>1 DEF InMarket
  <2> HIDE DEF sent
  <2> QED BY <1>1, <2>1, <2>2, <2>3, <2>4 DEF MarketInv, OffersCoverApproval
<1> QED BY <1>1, <1>4, <1>5, <1>6, NothingSelected DEF MarketInv

\* An offer that arrives is the one that was sent.
LEMMA ReceiveInv ==
  ASSUME IInv, NEW l \in Lenders, Receive(l) \/ QuoteFails(l)
  PROVE  IInv'
<1> USE DEF IInv
<1>1. stage = "quoting" /\ InMarket /\ UNCHANGED <<stage, now, chosen>>
  BY DEF Receive, QuoteFails
<1>2. PICK q : /\ quote' = [quote EXCEPT ![l] = q]
               /\ \/ q = [kind |-> "error"]
                  \/ /\ quote[l].kind = "sent"
                     /\ q = [quote[l] EXCEPT !.kind = "offer"]
  BY DEF Receive, QuoteFails
<1>3. /\ q \in Quotes
      /\ q.kind \in {"sent", "offer"} =>
           /\ quote[l].kind = "sent" /\ q.principal = quote[l].principal
           /\ q.fee = quote[l].fee /\ q.expires = quote[l].expires
  <2>1. quote[l] \in Quotes
    BY DEF TypeOK
  <2>2. \A r \in Quotes : r.kind = "sent" =>
          /\ [r EXCEPT !.kind = "offer"] \in Quotes
          /\ [r EXCEPT !.kind = "offer"].principal = r.principal
          /\ [r EXCEPT !.kind = "offer"].fee = r.fee
          /\ [r EXCEPT !.kind = "offer"].expires = r.expires
    BY DEF Quotes
  <2>3. [kind |-> "error"] \in Quotes
    BY DEF Quotes
  <2> HIDE DEF IInv
  <2>4. CASE q = [kind |-> "error"]
    BY <2>3, <2>4
  <2>5. CASE quote[l].kind = "sent" /\ q = [quote[l] EXCEPT !.kind = "offer"]
    BY <2>1, <2>2, <2>5
  <2> QED BY <1>2, <2>4, <2>5
<1>4. TypeOK'
  BY <1>1, <1>2, <1>3, DirectoryShape DEF TypeOK
<1>5. ApprovalInv'
  BY <1>1, ApprovalUntouched
<1>6. OffersCoverApproval'
  BY <1>1, <1>2, <1>3 DEF InMarket, MarketInv, OffersCoverApproval, TypeOK
<1> QED BY <1>1, <1>4, <1>5, <1>6, NothingSelected DEF MarketInv

\* Time passes while the quotes are awaited only.
LEMMA TickInv ==
  ASSUME IInv, Tick
  PROVE  IInv'
<1> USE DEF IInv, Tick
<1>1. TypeOK'
  BY DirectoryShape, TimeAssumption DEF TypeOK
<1>2. ApprovalInv'
  BY ApprovalUntouched
<1>3. MarketInv'
  <2>1. now \in Nat /\ Validity \in Nat
    BY TimeAssumption DEF TypeOK
  <2>2. \A l \in Lenders : quote[l].kind \in {"sent", "offer"} => quote[l].expires \in Nat
    BY DEF TypeOK, Quotes
  <2>3. \A x \in Nat : x <= now + Validity => x <= now + 1 + Validity
    BY <2>1
  <2>4. OffersCoverApproval'
    BY <2>2, <2>3 DEF InMarket, MarketInv, OffersCoverApproval
  <2> QED BY <2>4, NothingSelected DEF MarketInv
<1> QED BY <1>1, <1>2, <1>3

\* The offers at hand, and which of them are eligible.
LEMMA OffersAtHand ==
  ASSUME IInv, stage \notin Registering
  PROVE  LET eligible == EligibleOffers(Offers, approval.price, now) IN
         /\ IsFiniteSet(DOMAIN Offers) /\ DOMAIN Offers \subseteq Lenders \cap Int
         /\ \A l \in DOMAIN Offers : /\ Offers[l].principal = approval.price
                                     /\ Offers[l].principal <= approval.cap
         /\ \A l \in DOMAIN Offers : Offers[l].expires \in Nat
         /\ eligible = {l \in DOMAIN Offers : Offers[l].expires > now}
         /\ \A l \in eligible : IsOffer(Offers[l], approval.price, now)
<1> USE DEF IInv
<1>1. IsFiniteSet(DOMAIN Offers) /\ DOMAIN Offers \subseteq Lenders \cap Int
  BY FS_Subset, LendersAssumption DEF Offers
<1>2. approval.price \in Nat
  BY InTheMarket
<1>3. ASSUME NEW l \in DOMAIN Offers
      PROVE  /\ Offers[l].principal = approval.price /\ Offers[l].principal <= approval.cap
             /\ Offers[l].principal \in Nat \ {0} /\ Offers[l].fee \in Nat
             /\ Offers[l].expires \in Nat
  <2>1. l \in Lenders /\ quote[l].kind = "offer" /\ Offers[l] = quote[l]
    BY DEF Offers
  <2>2. quote[l] \in Quotes
    BY <2>1 DEF TypeOK
  <2>3. /\ quote[l].principal \in Nat /\ quote[l].fee \in Nat /\ quote[l].expires \in Nat
    BY <2>1, <2>2 DEF Quotes
  <2>4. /\ quote[l].principal = approval.price
        /\ quote[l].principal > 0 /\ quote[l].principal <= approval.cap
    BY <2>1 DEF MarketInv, OffersCoverApproval
  <2> QED BY <2>1, <2>3, <2>4
<1>4. EligibleOffers(Offers, approval.price, now) = {l \in DOMAIN Offers : Offers[l].expires > now}
  BY <1>2, <1>3 DEF EligibleOffers
<1> QED BY <1>1, <1>2, <1>3, <1>4 DEF IsOffer

\* What the offers ask for, and for how long, when the shares are fine enough.
LEMMA OffersAreFine ==
  ASSUME IInv, stage \notin Registering, FineShares, NEW l \in DOMAIN Offers
  PROVE  /\ approval.price \in Nat \ {0} /\ 4 * approval.price <= Scale
         /\ Repayment(Offers[l]) <= 2 * approval.price
         /\ Offers[l].expires - now <= Scale
<1> USE DEF IInv
<1>1. l \in Lenders /\ quote[l].kind = "offer" /\ Offers[l] = quote[l]
  BY DEF Offers
<1>2. /\ quote[l].principal = approval.price /\ quote[l].principal > 0
      /\ quote[l].principal <= Posture[l].maxPrincipal
      /\ quote[l].fee = Fee(Posture[l], quote[l].principal)
      /\ quote[l].expires <= now + Validity
  BY <1>1 DEF MarketInv, OffersCoverApproval
<1>3. approval.price \in Nat
  BY InTheMarket
<1>4. quote[l].expires \in Nat
  BY <1>1, OffersAtHand
<1>5. /\ Posture[l].maxPrincipal \in Nat /\ 4 * Posture[l].maxPrincipal <= Scale
      /\ Posture[l].feeBps <= 10000 /\ Validity <= Scale
  BY <1>1, LendersAssumption DEF FineShares
<1>6. quote[l].fee \in Nat /\ quote[l].fee <= approval.price
  BY <1>1, <1>2, <1>3, <1>5, FeeIsNat
<1>7. Repayment(Offers[l]) <= 2 * approval.price
  BY <1>1, <1>2, <1>3, <1>6 DEF Repayment
<1>8. now \in Nat
  <2>1. now \in 0 .. MaxTime
    BY DEF TypeOK
  <2> QED BY <2>1, TimeAssumption
<1>9. Offers[l].expires - now <= Scale
  <2> HIDE DEF IInv
  <2> QED BY <1>1, <1>2, <1>4, <1>5, <1>8, ScaleAssumption, TimeAssumption
<1> QED BY <1>2, <1>3, <1>5, <1>7, <1>9, ScaleAssumption

\* The selection takes a live offer that no other beats, if there is one.
LEMMA SelectLenderInv ==
  ASSUME IInv, SelectLender
  PROVE  IInv'
<1> USE DEF IInv
<1> DEFINE eligible == EligibleOffers(Offers, approval.price, now)
           ranked == SelectCreditOffer(Offers, approval.price, now)
<1>1. /\ stage = "quoting" /\ InMarket /\ UNCHANGED <<now, quote>>
      /\ chosen' = IF ranked = <<>> THEN None ELSE ranked[1]
      /\ stage' = IF ranked = <<>> THEN "no credit" ELSE "selected"
      /\ approval.price \in Nat /\ now \in Nat /\ stage \notin Registering
      /\ \A l \in Lenders : policyAt'[l] = approval
      /\ approval' = approval
  <2>1. stage = "quoting" /\ stage \notin Registering
    BY DEF SelectLender, Registering
  <2>2. /\ proposal = approval /\ approval.price \in Nat
        /\ \A l \in Lenders : policyAt[l] = approval
    BY <2>1, InTheMarket
  <2>3. now \in Nat
    <3>1. now \in 0 .. MaxTime
      BY DEF TypeOK
    <3> QED BY <3>1, TimeAssumption
  <2>4. /\ InMarket /\ UNCHANGED <<now, quote>>
        /\ chosen' = IF ranked = <<>> THEN None ELSE ranked[1]
        /\ stage' = IF ranked = <<>> THEN "no credit" ELSE "selected"
    BY <2>2 DEF SelectLender
  <2>5. policyAt' = policyAt /\ approval' = approval
    BY <2>4 DEF InMarket
  <2> QED BY <2>1, <2>2, <2>3, <2>4, <2>5
<1>2. /\ IsFiniteSet(DOMAIN Offers) /\ DOMAIN Offers \subseteq Lenders \cap Int
      /\ \A l \in DOMAIN Offers : /\ Offers[l].principal = approval.price
                                  /\ Offers[l].principal <= approval.cap
      /\ eligible = {l \in DOMAIN Offers : Offers[l].expires > now}
      /\ \A l \in eligible : IsOffer(Offers[l], approval.price, now)
  BY <1>1, OffersAtHand
<1>3. /\ ranked = <<>> <=> eligible = {}
      /\ eligible # {} => IsFirst(Scores, ranked[1], eligible)
  BY <1>1, <1>2, OfferIsSelected DEF Scores
<1>4. Offers' = Offers
  BY <1>1 DEF Offers
<1> HIDE DEF eligible, ranked
<1>5. ApprovalInv'
  BY <1>1, ApprovalUntouched DEF Registering
<1>6. OffersCoverApproval'
  BY <1>1 DEF MarketInv, OffersCoverApproval
<1>7. CASE eligible = {}
  <2>1. chosen' = None /\ stage' = "no credit"
    BY <1>1, <1>3, <1>7
  <2>2. TypeOK'
    BY <1>1, <2>1, DirectoryShape DEF TypeOK
  <2>3. CreditIsAcceptable' /\ OnlyTiesLose'
    <3>1. ASSUME NEW l \in DOMAIN Offers PROVE Offers[l].expires <= now
      <4>1. ~(Offers[l].expires > now)
        BY <1>2, <1>7
      <4>2. Offers[l].expires \in Nat
        BY <1>1, OffersAtHand
      <4>3. now \in Nat
        BY <1>1
      <4>4. \A x, y \in Nat : ~(x > y) => x <= y
        OBVIOUS
      <4> HIDE DEF IInv
      <4> QED BY <4>1, <4>2, <4>3, <4>4
    <3>2. CreditIsAcceptable'
      BY <1>1, <1>4, <2>1, <3>1 DEF CreditIsAcceptable
    <3> QED BY <2>1, <3>2 DEF OnlyTiesLose
  <2>4. BestIfFine'
    BY <2>1 DEF BestIfFine, ChosenIsBest
  <2> QED BY <2>4, <1>5, <1>6, <2>2, <2>3 DEF MarketInv
<1>8. CASE eligible # {}
  <2>1. chosen' = ranked[1] /\ stage' = "selected" /\ IsFirst(Scores, chosen', eligible)
    BY <1>1, <1>3, <1>8
  <2>2. chosen' \in eligible
    BY <2>1 DEF IsFirst
  <2>3. TypeOK'
    BY <1>1, <1>2, <2>1, <2>2, DirectoryShape DEF TypeOK
  <2>4. CreditIsAcceptable'
    BY <1>1, <1>2, <1>4, <2>1, <2>2 DEF CreditIsAcceptable
  <2>5. Scores' = Scores
    BY <1>1, <1>4 DEF Scores
  <2>6. ASSUME NEW l \in DOMAIN Offers \ {chosen'}, Offers[l].expires > now,
               Repayment(Offers[l]) <= Repayment(Offers[chosen']),
               Offers[l].expires >= Offers[chosen'].expires
        PROVE  Scores[l] = Scores[chosen'] /\ chosen' < l
    <3>1. l \in eligible
      BY <1>2, <2>6
    <3>2. Before(Scores, chosen', l)
      BY <2>1, <2>6, <3>1 DEF IsFirst
    <3>3. eligible \subseteq Int /\ IsFiniteSet(eligible)
      BY <1>2, FS_Subset
    <3>4. Scored(Scores, eligible) /\ Scores[l] >= Scores[chosen']
      BY <1>1, <1>2, <1>8, <2>2, <2>6, <3>1, <3>3, OffersScored DEF Scores, eligible
    <3> QED BY <2>2, <3>1, <3>2, <3>4 DEF Before, Scored
  <2>7. OnlyTiesLose'
    BY <1>1, <1>4, <2>5, <2>6 DEF OnlyTiesLose
  <2>8. ASSUME FineShares, NEW l \in DOMAIN Offers, Offers[l].expires > now,
               Repayment(Offers[l]) <= Repayment(Offers[chosen']),
               Offers[l].expires >= Offers[chosen'].expires,
               \/ Repayment(Offers[l]) < Repayment(Offers[chosen'])
               \/ Offers[l].expires > Offers[chosen'].expires
               \/ l < chosen'
        PROVE  FALSE
    <3>1. l \in eligible /\ chosen' \in eligible
      BY <1>2, <2>2, <2>8
    <3>2. eligible \subseteq Int /\ IsFiniteSet(eligible) /\ eligible \subseteq DOMAIN Offers
      BY <1>2, FS_Subset
    <3>3. CASE l < chosen'
      <4>1. l \in Int /\ chosen' \in Int
        BY <3>1, <3>2
      <4>2. l # chosen' /\ ~(chosen' < l)
        BY <3>3, <4>1
      <4> QED BY <2>6, <2>8, <4>2
    <3>4. CASE \/ Repayment(Offers[l]) < Repayment(Offers[chosen'])
               \/ Offers[l].expires > Offers[chosen'].expires
      <4>1. /\ approval.price \in Nat \ {0} /\ 4 * approval.price <= Scale
            /\ \A k \in eligible : /\ Offers[k].principal = approval.price
                                   /\ Repayment(Offers[k]) <= 2 * approval.price
                                   /\ Offers[k].expires - now <= Scale
        BY <1>1, <1>2, <2>8, <3>1, <3>2, OffersAreFine
      <4>2. Scores[l] > Scores[chosen']
        BY <1>1, <1>2, <1>8, <2>8, <3>1, <3>2, <3>4, <4>1, BetterScoresHigher
        DEF Scores, eligible
      <4>3. Scored(Scores, eligible)
        BY <1>1, <1>2, <1>8, <3>2, OffersScored DEF Scores, eligible
      <4>4. Scores[l] \in Int /\ Scores[chosen'] \in Int
        BY <3>1, <4>3 DEF Scored
      <4>5. l # chosen' /\ Before(Scores, chosen', l)
        BY <2>1, <3>1, <4>2, <4>4 DEF IsFirst
      <4> QED BY <4>2, <4>4, <4>5 DEF Before
    <3> QED BY <2>8, <3>3, <3>4
  <2>9. BestIfFine'
    BY <1>1, <1>4, <2>1, <2>8 DEF BestIfFine, ChosenIsBest
  <2> QED BY <1>5, <1>6, <2>3, <2>4, <2>7, <2>9 DEF MarketInv
<1> QED BY <1>7, <1>8

\* Every step of the directory and of the market preserves the invariant.
LEMMA NextInv == IInv /\ [Next]_vars => IInv'
<1> SUFFICES ASSUME IInv, [Next]_vars PROVE IInv'
  OBVIOUS
<1>1. CASE DirectoryNext /\ UNCHANGED marketVars
  BY <1>1, RecordEventInv, ApproveInv, RankInv, ProvisionInv, RegisterInv, UnreachableInv,
     SettledInv DEF DirectoryNext
<1>2. ASSUME NEW balance \in Balances, ReadBalance(balance) PROVE IInv'
  BY <1>2, ReadBalanceInv
<1>3. ASSUME NEW l \in Lenders, Quote(l) \/ Receive(l) \/ QuoteFails(l) PROVE IInv'
  BY <1>3, QuoteInv, ReceiveInv
<1>4. CASE UNCHANGED vars
  <2>1. TypeOK' /\ ApprovalInv'
    BY <1>4, ApprovalUntouched DEF vars, directoryVars, marketVars, InMarket, IInv, TypeOK,
       DirectoryTypeOK
  <2> QED BY <1>4, <2>1, MarketUntouched DEF vars, directoryVars, IInv
<1> QED BY <1>1, <1>2, <1>3, <1>4, TickInv, SelectLenderInv DEF Next

-----------------------------------------------------------------------------
\* The invariant holds in every reachable state.
THEOREM Invariance == Spec => []IInv
BY InitInv, NextInv, PTL DEF Spec

\* Every variable has its shape.
THEOREM TypeCorrect == Spec => []TypeOK
<1>1. IInv => TypeOK
  BY DEF IInv
<1> QED BY <1>1, Invariance, PTL

\* Every target that holds a policy, and the workflow once it is provisioned,
\* holds the approved one, which the request's budget can pay.
THEOREM ApprovalIsFrozen == Spec => []ApprovalStands
<1>1. IInv => ApprovalStands
  BY DEF IInv, ApprovalInv, ApprovalPays, TargetsHoldApproval, WorkflowHoldsApproval,
         AcknowledgedIsHeld, Registering, ApprovalStands
<1> QED BY <1>1, Invariance, PTL

\* The selected offer is live and within the approval, and no live offer is
\* overlooked.
THEOREM SelectedIsAcceptable == Spec => []CreditIsAcceptable
<1>1. IInv => CreditIsAcceptable
  BY DEF IInv, MarketInv
<1> QED BY <1>1, Invariance, PTL

\* With shares that are fine enough for the lenders' postures and the validity,
\* the selected offer is the best: no live one is as good, and better in one or
\* the first of equals.
THEOREM BestIsSelected == FineShares => (Spec => []ChosenIsBest)
<1> SUFFICES ASSUME FineShares PROVE Spec => []ChosenIsBest
  OBVIOUS
<1>1. IInv => ChosenIsBest
  BY DEF IInv, MarketInv, BestIfFine
<1> QED BY <1>1, Invariance, PTL

\* Whatever the shares, a live offer that is at least as good as the selected one
\* is not better by a share: the two tie, and the identifiers decided.
THEOREM SelectedLosesToNone == Spec => []OnlyTiesLose
<1>1. IInv => OnlyTiesLose
  BY DEF IInv, MarketInv
<1> QED BY <1>1, Invariance, PTL
==============================================================================
