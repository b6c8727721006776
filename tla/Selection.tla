----------------------------- MODULE Selection -----------------------------
(* The scoring policies of packages/policy: providers are ranked by price,    *)
(* reputation and latency (provider-ranking.ts), credit offers by repayment,  *)
(* headroom and remaining validity (offer-selection.ts), and select.ts sorts  *)
(* the candidates by score, with their ids to break a tie.  A share of one is *)
(* a number of 1/Scale, where the code has a float.                           *)
EXTENDS Integers, FiniteSets, FiniteSetsExt, SequencesExt

CONSTANT Scale

ASSUME ScaleAssumption == Scale \in Nat \ {0}

Share(numerator, denominator) == (numerator * Scale) \div denominator

\* A plausible bug: a tie is broken the other way.
LastFirst(score, a, b) == score[a] > score[b] \/ (score[a] = score[b] /\ a > b)

\* sort() of selectBest: a higher score first, then compareIds.
Before(score, a, b) == score[a] > score[b] \/ (score[a] = score[b] /\ a < b)

SelectBest(score) ==
    CHOOSE ranked \in SetToSeqs(DOMAIN score) :
        \A i, j \in DOMAIN ranked : i < j => Before(score, ranked[i], ranked[j])

\* computeReputation; more reports than failures raise it above one half.
Reputation(successes, failures) == Share(successes + 1, successes + failures + 2)

PriceScore(price, maxPrice) ==
    IF maxPrice = 0 THEN IF price = 0 THEN Scale ELSE 0
    ELSE Scale - Min({Share(price, maxPrice), Scale})

LatencyScore(latencyMs) == Share(1000, 1000 + latencyMs)

\* PROVIDER_RANKING_WEIGHTS, in tenths.
ProviderScore(p, reputation, maxPrice) ==
    4 * PriceScore(p.price, maxPrice) + 4 * reputation + 2 * LatencyScore(p.latency)

\* rankProviders: the ids of the providers of a capability, the best first.
RankProviders(providers, reputation, capability, maxPrice) ==
    LET eligible == {p \in providers : p.capability = capability}
        Provider(id) == CHOOSE p \in eligible : p.id = id
    IN SelectBest([id \in {p.id : p \in eligible} |->
                     ProviderScore(Provider(id), reputation[id], maxPrice)])

\* The ideal principal is a tenth above the one required, which is positive.
HeadroomScore(principal, required) ==
    LET ideal == Max({required \div 10, 1})
        headroom == principal - required
    IN Share(ideal, ideal + Max({headroom - ideal, ideal - headroom}))

Repayment(offer) == offer.principal + offer.fee

\* The filters of selectCreditOffer; a signature that does not verify makes no
\* offer here, the client has thrown on it.
EligibleOffers(offers, required, now) ==
    {l \in DOMAIN offers : /\ offers[l].principal >= required
                           /\ offers[l].expires > now}

\* OFFER_SELECTION_WEIGHTS, in tenths; repayment and validity are relative to
\* the best of the eligible offers.
OfferScore(offers, eligible, required, now) ==
    LET least == Min({Repayment(offers[l]) : l \in eligible})
        longest == Max({offers[l].expires - now : l \in eligible})
    IN [l \in eligible |->
          6 * Share(least, Repayment(offers[l]))
          + 2 * HeadroomScore(offers[l].principal, required)
          + 2 * Share(offers[l].expires - now, longest)]

\* selectCreditOffer: the offers in order, none when none is eligible.
SelectCreditOffer(offers, required, now) ==
    LET eligible == EligibleOffers(offers, required, now)
    IN IF eligible = {} THEN <<>>
       ELSE SelectBest(OfferScore(offers, eligible, required, now))

\* evaluateLenderPolicy: whether a lender's posture covers a request, and the
\* fee it asks for, rounded up.
Lends(posture, principal, term, reputation) ==
    /\ principal > 0 /\ principal <= posture.maxPrincipal
    /\ term > 0 /\ term <= posture.maxTerm
    /\ reputation >= posture.minReputation

Fee(posture, principal) == (principal * posture.feeBps + 9999) \div 10000
=============================================================================
