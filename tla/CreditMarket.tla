---------------------------- MODULE CreditMarket ----------------------------
(* The choice of a lender: agents/consumer/src/mission.ts asks every lender   *)
(* for a quote at once and selects one of the offers when all have answered,  *)
(* declined or failed; agents/lenders/src/server.ts prices the request with   *)
(* the lender's posture.  The clock runs while answers are on their way, and  *)
(* an offer may expire before the last of them comes.  The mission was        *)
(* approved and provisioned as in Directory.                                  *)
EXTENDS Directory

CONSTANTS
    Posture,            \* each lender's policy options, by number
    BorrowerReputation, \* as the lenders are configured
    Term,               \* requestedTermSeconds
    Balances,           \* what the borrower's account may hold
    Validity,           \* offerValiditySeconds, in ticks
    MaxTime             \* bound on the clock

Lenders == DOMAIN Posture

ASSUME LendersAssumption ==
    /\ Lenders \subseteq Targets \cap Int /\ IsFiniteSet(Lenders)
    /\ \A l \in Lenders : Posture[l].feeBps \in Nat /\ Posture[l].maxPrincipal \in Nat
ASSUME TimeAssumption == Validity \in Nat /\ MaxTime \in Nat

VARIABLES
    now,
    quote,  \* what became of each lender's quote
    chosen  \* the lender whose offer is selected

marketVars == <<now, quote, chosen>>
vars == <<directoryVars, marketVars>>

InitMarket ==
    /\ now = 0
    /\ quote = [l \in Lenders |-> [kind |-> "none"]]
    /\ chosen = None

InMarket == UNCHANGED <<successes, failures, approval, budget, proposal, policyAt, answer, attempts>>

\* execute(): an insufficient balance borrows the whole price.
ReadBalance(balance) ==
    /\ stage = "provisioned"
    /\ stage' = IF proposal.price > balance THEN "quoting" ELSE "paying"
    /\ InMarket /\ UNCHANGED marketVars

\* POST /credit/quote: no policy, or one the principal exceeds, is an error; an
\* offer is stored, and answered again for the same request.
Quote(l) ==
    /\ stage = "quoting" /\ quote[l].kind = "none"
    /\ quote' = [quote EXCEPT ![l] =
         IF policyAt[l] = None \/ proposal.price > policyAt[l].cap
           THEN [kind |-> "error"]
         ELSE IF ~Lends(Posture[l], proposal.price, Term, BorrowerReputation)
           THEN [kind |-> "declined"]
         ELSE [kind |-> "sent", principal |-> proposal.price,
               fee |-> Fee(Posture[l], proposal.price), expires |-> now + Validity]]
    /\ InMarket /\ UNCHANGED <<stage, now, chosen>>

\* HttpLenderClient.quote validates the offer as it arrives.
Receive(l) ==
    /\ stage = "quoting" /\ quote[l].kind = "sent"
    /\ quote' = [quote EXCEPT ![l] =
         IF quote[l].expires > now THEN [@ EXCEPT !.kind = "offer"] ELSE [kind |-> "error"]]
    /\ InMarket /\ UNCHANGED <<stage, now, chosen>>

\* The request or its answer is lost, or takes too long.
QuoteFails(l) ==
    /\ stage = "quoting" /\ quote[l].kind \in {"none", "sent"}
    /\ quote' = [quote EXCEPT ![l] = [kind |-> "error"]]
    /\ InMarket /\ UNCHANGED <<stage, now, chosen>>

Tick ==
    /\ stage = "quoting" /\ now < MaxTime
    /\ now' = now + 1
    /\ InMarket /\ UNCHANGED <<stage, quote, chosen>>

Offers == [l \in {k \in Lenders : quote[k].kind = "offer"} |-> quote[l]]

\* A plausible bug: the expiry is compared with the time the quotes were asked at.
SelectLenderThen ==
    LET ranked == SelectCreditOffer(Offers, proposal.price, 0) IN
    /\ stage = "quoting"
    /\ \A l \in Lenders : quote[l].kind \in {"offer", "declined", "error"}
    /\ chosen' = IF ranked = <<>> THEN None ELSE ranked[1]
    /\ stage' = IF ranked = <<>> THEN "no credit" ELSE "selected"
    /\ InMarket /\ UNCHANGED <<now, quote>>

\* selectLender, after Promise.all: no eligible offer fails the mission.
SelectLender ==
    LET ranked == SelectCreditOffer(Offers, proposal.price, now) IN
    /\ stage = "quoting"
    /\ \A l \in Lenders : quote[l].kind \in {"offer", "declined", "error"}
    /\ chosen' = IF ranked = <<>> THEN None ELSE ranked[1]
    /\ stage' = IF ranked = <<>> THEN "no credit" ELSE "selected"
    /\ InMarket /\ UNCHANGED <<now, quote>>

Init == InitDirectory /\ InitMarket

Next ==
    \/ DirectoryNext /\ UNCHANGED marketVars
    \/ \E balance \in Balances : ReadBalance(balance)
    \/ \E l \in Lenders : Quote(l) \/ Receive(l) \/ QuoteFails(l)
    \/ Tick
    \/ SelectLender

Spec == Init /\ [][Next]_vars

-----------------------------------------------------------------------------
Quotes ==
    [kind : {"none", "declined", "error"}]
        \cup [kind : {"sent", "offer"}, principal : Nat, fee : Nat, expires : Nat]

\* Every variable has its shape.
TypeOK ==
    /\ DirectoryTypeOK
    /\ stage \in {"created", "ranked", "provisioning", "provisioned", "refused",
                  "quoting", "paying", "selected", "no credit"}
    /\ now \in 0 .. MaxTime
    /\ quote \in [Lenders -> Quotes]
    /\ chosen \in Lenders \cup {None}

\* However long the answers take, the selected offer can still be accepted when
\* it is selected, and covers the approved price within the cap its lender was
\* given; and a mission fails for want of credit only when no live offer
\* arrived: a lender that declines, fails or is late hides nobody else's offer.
CreditIsAcceptable ==
    /\ stage = "selected" =>
         /\ chosen \in DOMAIN Offers /\ Offers[chosen].expires > now
         /\ Offers[chosen].principal >= approval.price
         /\ Offers[chosen].principal <= policyAt[chosen].cap
    /\ stage = "no credit" => \A l \in DOMAIN Offers : Offers[l].expires <= now

\* The shares tell any two offers apart: an offer costs at most twice its
\* principal, of which there are at most Scale \div 4 tinybar.  With Scale 10^12
\* (RATIO_SCALE), 25 HBAR, 5 percent and 300 s the code is far within.
FineShares ==
    /\ Validity <= Scale
    /\ \A l \in Lenders : Posture[l].feeBps <= 10000 /\ 4 * Posture[l].maxPrincipal <= Scale

\* Whatever the order of the answers, no other live offer is as cheap and lasts
\* as long as the selected one, and is better in one of the two or comes first
\* by its identifier: of equal offers the same one is always selected.
ChosenIsBest ==
    stage = "selected" =>
        LET best == Offers[chosen] IN
        \A l \in DOMAIN Offers :
            Offers[l].expires > now =>
              ~ /\ Repayment(Offers[l]) <= Repayment(best)
                /\ Offers[l].expires >= best.expires
                /\ \/ Repayment(Offers[l]) < Repayment(best)
                   \/ Offers[l].expires > best.expires
                   \/ l < chosen
=============================================================================
