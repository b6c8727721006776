--------------------------- MODULE SelectionProofs ---------------------------
(* What selectBest returns, for any finite number of candidates: a ranking    *)
(* of all of them exists, and its first one is before every other.  The       *)
(* library's induction over finite sets is used as a minimal-counterexample   *)
(* argument: WFMin gives a least set of candidates that cannot be ranked.     *)
EXTENDS Selection, FiniteSetTheorems, TLAPS

\* Candidates have numbers for identifiers and for scores.
Scored(score, S) == \A a \in S : a \in Int /\ score[a] \in Int

IsFirst(score, a, S) == a \in S /\ \A b \in S \ {a} : Before(score, a, b)

Rankings(score, S) ==
    {ranked \in SetToSeqs(S) :
        \A i, j \in DOMAIN ranked : i < j => Before(score, ranked[i], ranked[j])}

\* A set of subsets of a finite set has a member with no smaller one in it.
LEMMA LeastSubset ==
  ASSUME NEW S, IsFiniteSet(S), NEW F, F \subseteq SUBSET S, F # {}
  PROVE  \E T \in F : \A U \in F : ~(U \subseteq T /\ U # T)
<1>1. FiniteSubsetsOf(S) = SUBSET S
  BY FS_FiniteSubsetsOfFinite
<1>2. IsWellFoundedOn(StrictSubsetOrdering(S), SUBSET S)
  BY <1>1, FS_StrictSubsetOrderingWellFounded
<1>3. PICK T \in F : \A U \in F : <<U, T>> \notin StrictSubsetOrdering(S)
  BY <1>2, WFMin
<1> QED BY <1>3 DEF StrictSubsetOrdering

\* The comparison of two candidates is a strict and total order.
LEMMA BeforeOrders ==
  ASSUME NEW score, NEW S, Scored(score, S)
  PROVE  /\ \A a, b \in S : a # b => Before(score, a, b) \/ Before(score, b, a)
         /\ \A a, b, c \in S : Before(score, a, b) /\ Before(score, b, c) => Before(score, a, c)
BY DEF Scored, Before

\* Some candidate is before all the others.
LEMMA FirstExists ==
  ASSUME NEW score, NEW S, IsFiniteSet(S), S # {}, Scored(score, S)
  PROVE  \E a \in S : IsFirst(score, a, S)
<1> DEFINE Bad == {T \in SUBSET S : T # {} /\ ~\E a \in T : IsFirst(score, a, T)}
<1> SUFFICES ASSUME Bad # {} PROVE FALSE
  OBVIOUS
<1>1. PICK T \in Bad : \A U \in Bad : ~(U \subseteq T /\ U # T)
  <2>1. Bad \subseteq SUBSET S
    OBVIOUS
  <2> HIDE DEF Bad
  <2> QED BY <2>1, LeastSubset
<1>2. PICK t \in T : TRUE
  BY <1>1
<1>3. CASE T = {t}
  BY <1>1, <1>3 DEF IsFirst
<1>4. CASE T # {t}
  <2>1. T \ {t} \in SUBSET S /\ T \ {t} # {} /\ T \ {t} \notin Bad
    BY <1>1, <1>2, <1>4
  <2>2. PICK u \in T \ {t} : IsFirst(score, u, T \ {t})
    BY <2>1
  <2>3. IsFirst(score, t, T) \/ IsFirst(score, u, T)
    BY <1>1, <1>2, <2>2, BeforeOrders DEF IsFirst
  <2> QED BY <1>1, <1>2, <2>2, <2>3
<1> QED BY <1>3, <1>4

\* All candidates can be ranked: the first one, and then the others.
LEMMA RankingExists ==
  ASSUME NEW score, NEW S, IsFiniteSet(S), Scored(score, S)
  PROVE  Rankings(score, S) # {}
<1> DEFINE Bad == {T \in SUBSET S : Rankings(score, T) = {}}
<1> SUFFICES ASSUME Bad # {} PROVE FALSE
  OBVIOUS
<1>1. PICK T \in Bad : \A U \in Bad : ~(U \subseteq T /\ U # T)
  <2>1. Bad \subseteq SUBSET S
    OBVIOUS
  <2> HIDE DEF Bad
  <2> QED BY <2>1, LeastSubset
<1>2. IsFiniteSet(T) /\ Scored(score, T) /\ Cardinality(T) \in Nat
  BY <1>1, FS_Subset, FS_CardinalityType DEF Scored
<1>3. CASE T = {}
  <2> DEFINE none == [i \in 1..0 |-> 0]
  <2>1. Cardinality(T) = 0
    BY <1>3, FS_EmptySet
  <2>2. none \in SetToSeqs(T)
    BY <2>1 DEF SetToSeqs
  <2>3. none \in Rankings(score, T)
    BY <2>2 DEF Rankings
  <2> QED BY <1>1, <2>3
<1>4. CASE T # {}
  <2>1. PICK x \in T : IsFirst(score, x, T)
    BY <1>2, <1>4, FirstExists
  <2> DEFINE U == T \ {x}
             n == Cardinality(T)
  <2>2. U \in SUBSET S /\ U # T /\ U \subseteq T
    BY <1>1, <2>1
  <2>3. PICK rest : rest \in Rankings(score, U)
    BY <1>1, <2>2
  <2>4. IsFiniteSet(U) /\ Cardinality(U) = n - 1
    BY <1>2, FS_RemoveElement
  <2>5. /\ rest \in [1..n - 1 -> U]
        /\ \A i, j \in 1..n - 1 : i # j => rest[i] # rest[j]
        /\ \A i, j \in 1..n - 1 : i < j => Before(score, rest[i], rest[j])
    BY <2>3, <2>4 DEF Rankings, SetToSeqs
  <2> DEFINE all == [i \in 1..n |-> IF i = 1 THEN x ELSE rest[i - 1]]
  <2> HIDE DEF n
  <2>6. n \in Nat
    BY <1>2 DEF n
  <2>7. \A i \in 2..n : i - 1 \in 1..n - 1 /\ all[i] = rest[i - 1] /\ all[i] \in U
    BY <2>5, <2>6
  <2>8. \A i \in 1..n : (i = 1 /\ all[i] = x) \/ i \in 2..n
    BY <2>6
  <2> HIDE DEF all
  <2>9. all \in [1..n -> T]
    BY <2>7, <2>8 DEF all
  <2>10. \A i, j \in 1..n : i # j => all[i] # all[j]
    BY <2>5, <2>6, <2>7, <2>8
  <2>11. ASSUME NEW i \in 1..n, NEW j \in 1..n, i < j
         PROVE  Before(score, all[i], all[j])
    <3>1. j \in 2..n
      BY <2>6, <2>11
    <3>2. CASE i = 1
      BY <2>1, <2>7, <2>8, <3>1, <3>2 DEF IsFirst
    <3>3. CASE i # 1
      BY <2>5, <2>6, <2>7, <2>8, <2>11, <3>1, <3>3
    <3> QED BY <3>2, <3>3
  <2>12. all \in SetToSeqs(T)
    BY <2>9, <2>10 DEF SetToSeqs, n
  <2>13. all \in Rankings(score, T)
    BY <2>9, <2>11, <2>12 DEF Rankings
  <2> QED BY <1>1, <2>13
<1> QED BY <1>3, <1>4

\* A ranking names every candidate.
LEMMA RankingIsComplete ==
  ASSUME NEW S, IsFiniteSet(S), NEW ranked \in SetToSeqs(S), NEW a \in S
  PROVE  \E i \in 1..Cardinality(S) : ranked[i] = a
<1> DEFINE n == Cardinality(S)
<1>1. n \in Nat /\ IsFiniteSet(1..n) /\ Cardinality(1..n) = n
  BY FS_CardinalityType, FS_Interval
<1>2. ranked \in Injection(1..n, S)
  BY DEF SetToSeqs, Injection, IsInjective
<1>3. ranked \in Surjection(1..n, S)
  BY <1>1, <1>2, FS_Injection
<1> QED BY <1>3 DEF Surjection

\* selectBest ranks the candidates it is given, all of them, and its winner is
\* before every other one; there is no winner only when there is no candidate.
THEOREM WinnerIsBest ==
  ASSUME NEW score, IsFiniteSet(DOMAIN score), Scored(score, DOMAIN score)
  PROVE  /\ SelectBest(score) = <<>> <=> DOMAIN score = {}
         /\ DOMAIN score # {} => IsFirst(score, SelectBest(score)[1], DOMAIN score)
<1> DEFINE S == DOMAIN score
           ranked == SelectBest(score)
           n == Cardinality(S)
<1>1. ranked \in Rankings(score, S)
  BY RankingExists DEF SelectBest, Rankings
<1>2. /\ ranked \in [1..n -> S] /\ ranked \in SetToSeqs(S)
      /\ \A i, j \in 1..n : i < j => Before(score, ranked[i], ranked[j])
  BY <1>1 DEF Rankings, SetToSeqs
<1>3. n \in Nat /\ (n = 0 <=> S = {})
  BY FS_CardinalityType, FS_EmptySet
<1> HIDE DEF ranked, n
<1>4. ranked = <<>> <=> S = {}
  <2>1. CASE S = {}
    BY <1>2, <1>3, <2>1
  <2>2. CASE S # {}
    BY <1>2, <1>3, <2>2
  <2> QED BY <2>1, <2>2
<1>5. ASSUME S # {} PROVE IsFirst(score, ranked[1], S)
  <2>1. 1 \in 1..n
    BY <1>3, <1>5
  <2>2. ASSUME NEW a \in S \ {ranked[1]} PROVE Before(score, ranked[1], a)
    <3>1. PICK i \in 1..n : ranked[i] = a
      BY <1>2, RankingIsComplete DEF n
    <3> QED BY <1>2, <1>3, <2>1, <2>2, <3>1
  <2> QED BY <1>2, <2>1, <2>2 DEF IsFirst
<1> QED BY <1>4, <1>5 DEF ranked

-----------------------------------------------------------------------------
(* The scores are numbers, and an offer that is as good scores as high.       *)

\* The greatest and the least of some numbers.
LEMMA MaxMin ==
  ASSUME NEW S, IsFiniteSet(S), S # {}, S \subseteq Int
  PROVE  /\ Max(S) \in S /\ \A x \in S : Max(S) >= x
         /\ Min(S) \in S /\ \A x \in S : Min(S) <= x
<1>1. \E m \in S : \A x \in S : m >= x
  <2> DEFINE up == [x \in S |-> x]
  <2>1. PICK m \in S : IsFirst(up, m, S)
    BY FirstExists DEF Scored
  <2> QED BY <2>1 DEF IsFirst, Before
<1>2. \E m \in S : \A x \in S : m <= x
  <2> DEFINE down == [x \in S |-> 0 - x]
  <2>1. DOMAIN down = S /\ \A x \in S : down[x] = 0 - x
    OBVIOUS
  <2> HIDE DEF down
  <2>2. Scored(down, S)
    BY <2>1 DEF Scored
  <2>3. PICK m \in S : IsFirst(down, m, S)
    BY <2>2, FirstExists
  <2> QED BY <2>1, <2>3 DEF IsFirst, Before
<1>3. Max(S) \in S /\ \A x \in S : Max(S) >= x
  BY <1>1 DEF Max
<1>4. Min(S) \in S /\ \A x \in S : Min(S) <= x
  BY <1>2 DEF Min
<1> QED BY <1>3, <1>4

\* The greater of two numbers.
LEMMA MaxOfTwo ==
  ASSUME NEW a \in Int, NEW b \in Int
  PROVE  Max({a, b}) \in Int /\ Max({a, b}) >= a /\ Max({a, b}) >= b
<1>1. PICK m \in {a, b} : \A x \in {a, b} : m >= x
  OBVIOUS
<1> QED BY <1>1 DEF Max

\* The less of two numbers.
LEMMA MinOfTwo ==
  ASSUME NEW a \in Int, NEW b \in Int
  PROVE  Min({a, b}) \in Int /\ Min({a, b}) <= a /\ Min({a, b}) <= b
<1>1. PICK m \in {a, b} : \A x \in {a, b} : m <= x
  OBVIOUS
<1> QED BY <1>1 DEF Min

\* A quotient rounded down: what it is, and that it is the only one.
LEMMA Quotient ==
  ASSUME NEW n \in Nat, NEW d \in Nat \ {0}
  PROVE  n \div d \in Nat /\ (n \div d) * d <= n /\ n < (n \div d) * d + d
OBVIOUS

\* A share grows with what is shared and falls with what it is a share of.
LEMMA ShareGrows ==
  ASSUME NEW n \in Nat, NEW m \in Nat, n <= m, NEW d \in Nat \ {0}, NEW e \in Nat \ {0}, e <= d
  PROVE  Share(n, d) \in Nat /\ Share(m, e) \in Nat /\ Share(n, d) <= Share(m, e)
<1> USE ScaleAssumption
<1>1. n * Scale \in Nat /\ m * Scale \in Nat /\ n * Scale <= m * Scale
  OBVIOUS
<1> DEFINE x == n * Scale
           y == m * Scale
           p == x \div d
           q == y \div e
<1> HIDE DEF x, y
<1>2. x \in Nat /\ y \in Nat /\ x <= y
  BY <1>1 DEF x, y
<1>3. p \in Nat /\ p * d <= x
  BY <1>2, Quotient
<1>4. q \in Nat /\ y < q * e + e
  BY <1>2, Quotient
<1> HIDE DEF p, q
<1>5. p <= q
  <2> SUFFICES ASSUME p >= q + 1 PROVE FALSE
    BY <1>3, <1>4
  <2>1. (q + 1) * e <= p * e
    BY <1>3, <1>4
  <2>2. p * e <= p * d
    BY <1>3
  <2>3. (q + 1) * e = q * e + e
    BY <1>4
  <2>4. q * e \in Int /\ p * d \in Int /\ p * e \in Int /\ (q + 1) * e \in Int
    BY <1>3, <1>4
  <2> QED BY <1>2, <1>3, <1>4, <2>1, <2>2, <2>3, <2>4
<1> QED BY <1>3, <1>4, <1>5 DEF Share, p, q, x, y

\* A share of more is greater, when shares are fine enough for the whole.
LEMMA ShareOfMore ==
  ASSUME NEW d \in Nat \ {0}, d <= Scale, NEW n \in Nat, NEW m \in Nat, n < m
  PROVE  Share(n, d) < Share(m, d)
<1> USE ScaleAssumption
<1> DEFINE x == n * Scale
           y == m * Scale
           p == x \div d
           q == y \div d
<1>1. x \in Nat /\ y \in Nat /\ x + Scale <= y
  <2>1. (n + 1) * Scale <= m * Scale
    OBVIOUS
  <2>2. (n + 1) * Scale = n * Scale + Scale
    OBVIOUS
  <2> QED BY <2>1, <2>2
<1> HIDE DEF x, y
<1>2. p \in Nat /\ p * d <= x
  BY <1>1, Quotient
<1>3. q \in Nat /\ y < q * d + d
  BY <1>1, Quotient
<1> HIDE DEF p, q
<1>4. p < q
  <2> SUFFICES ASSUME q <= p PROVE FALSE
    BY <1>2, <1>3
  <2>1. q * d <= p * d
    BY <1>2, <1>3
  <2>2. q * d \in Int /\ p * d \in Int
    BY <1>2, <1>3
  <2> QED BY <1>1, <1>2, <1>3, <2>1, <2>2
<1> QED BY <1>4 DEF Share, p, q, x, y

\* A share of a greater whole is less, when shares are fine enough for both.
LEMMA ShareOfGreater ==
  ASSUME NEW n \in Nat, NEW d \in Nat \ {0}, NEW e \in Nat \ {0}, d < e, d * e <= n * Scale
  PROVE  Share(n, e) < Share(n, d)
<1> USE ScaleAssumption
<1> DEFINE x == n * Scale
           p == x \div d
           q == x \div e
<1>1. x \in Nat /\ d * e <= x
  OBVIOUS
<1> HIDE DEF x
<1>2. p \in Nat /\ x < p * d + d
  BY <1>1, Quotient
<1>3. q \in Nat /\ q * e <= x /\ x < q * e + e
  BY <1>1, Quotient
<1> HIDE DEF p, q
<1>4. q >= d
  <2> SUFFICES ASSUME q + 1 <= d PROVE FALSE
    BY <1>3
  <2>1. (q + 1) * e <= d * e
    BY <1>3
  <2>2. (q + 1) * e = q * e + e
    BY <1>3
  <2>3. q * e \in Int /\ d * e \in Int /\ (q + 1) * e \in Int
    BY <1>3
  <2> QED BY <1>1, <1>3, <2>1, <2>2, <2>3
<1>5. q < p
  <2> SUFFICES ASSUME p <= q PROVE FALSE
    BY <1>2, <1>3
  <2>1. p * d <= q * d
    BY <1>2, <1>3
  <2>2. q * d + q <= q * e
    <3>1. q * (d + 1) <= q * e
      BY <1>3
    <3>2. q * (d + 1) = q * d + q
      BY <1>3
    <3> QED BY <3>1, <3>2
  <2>3. p * d \in Int /\ q * d \in Int /\ q * e \in Int
    BY <1>2, <1>3
  <2> QED BY <1>1, <1>2, <1>3, <1>4, <2>1, <2>2, <2>3
<1> QED BY <1>5 DEF Share, p, q, x

\* What an offer brings to the selection: a covering principal, and time left.
IsOffer(o, required, now) ==
    /\ o.principal \in Nat \ {0} /\ o.fee \in Nat /\ o.expires \in Nat
    /\ o.principal >= required /\ o.expires > now

\* What an eligible offer costs, and how long it lasts.
LEMMA OfferNumbers ==
  ASSUME NEW o, NEW required \in Nat, NEW now \in Nat, IsOffer(o, required, now)
  PROVE  /\ Repayment(o) \in Nat \ {0} /\ Repayment(o) >= o.principal
         /\ o.expires \in Nat /\ o.expires - now \in Nat \ {0}
<1>1. /\ o.principal \in Nat \ {0} /\ o.fee \in Nat /\ o.expires \in Nat /\ o.expires > now
  BY DEF IsOffer
<1>2. o.principal + o.fee \in Nat \ {0} /\ o.principal + o.fee >= o.principal
  BY <1>1
<1>3. o.expires - now \in Nat \ {0}
  BY <1>1
<1> QED BY <1>1, <1>2, <1>3 DEF Repayment

\* An offer that covers what is required has a number for its headroom.
LEMMA HeadroomIsNat ==
  ASSUME NEW principal \in Nat, NEW required \in Nat, principal >= required
  PROVE  HeadroomScore(principal, required) \in Nat
<1> DEFINE ideal == Max({required \div 10, 1})
           headroom == principal - required
           off == Max({headroom - ideal, ideal - headroom})
<1>1. ideal \in Int /\ ideal >= 1
  <2>1. required \div 10 \in Int
    OBVIOUS
  <2> QED BY <2>1, MaxOfTwo
<1> HIDE DEF ideal
<1>2. off \in Int /\ off >= headroom - ideal /\ off >= ideal - headroom
  <2>1. headroom - ideal \in Int /\ ideal - headroom \in Int
    BY <1>1
  <2> HIDE DEF headroom
  <2> QED BY <2>1, MaxOfTwo
<1>3. off >= 0
  BY <1>1, <1>2
<1> HIDE DEF off
<1>4. Share(ideal, ideal + off) \in Nat
  BY <1>1, <1>2, <1>3, ShareGrows
<1> QED BY <1>4 DEF HeadroomScore, ideal, off

\* A score is the weighted sum of three shares, which are numbers.
ScoreParts(offers, eligible, required, now, least, longest) ==
    /\ \E l \in eligible : least = Repayment(offers[l])
    /\ \E l \in eligible : longest = offers[l].expires - now
    /\ \A l \in eligible :
         /\ Share(least, Repayment(offers[l])) \in Nat
         /\ HeadroomScore(offers[l].principal, required) \in Nat
         /\ Share(offers[l].expires - now, longest) \in Nat
    /\ OfferScore(offers, eligible, required, now) =
         [l \in eligible |->
            6 * Share(least, Repayment(offers[l]))
            + 2 * HeadroomScore(offers[l].principal, required)
            + 2 * Share(offers[l].expires - now, longest)]

\* Eligible offers have scores of that form.
LEMMA PartsExist ==
  ASSUME NEW offers, NEW eligible, IsFiniteSet(eligible), eligible # {}, eligible \subseteq Int,
         NEW required \in Nat, NEW now \in Nat,
         \A l \in eligible : IsOffer(offers[l], required, now)
  PROVE  \E least \in Nat \ {0}, longest \in Nat \ {0} :
           ScoreParts(offers, eligible, required, now, least, longest)
<1> DEFINE costs == {Repayment(offers[l]) : l \in eligible}
           times == {offers[l].expires - now : l \in eligible}
           least == Min(costs)
           longest == Max(times)
<1>1. IsFiniteSet(costs) /\ costs # {} /\ costs \subseteq Nat \ {0}
  <2> DEFINE f == [l \in eligible |-> Repayment(offers[l])]
  <2>1. f \in Surjection(eligible, costs)
    BY DEF Surjection
  <2>2. costs \subseteq Nat \ {0}
    BY OfferNumbers
  <2> QED BY <2>1, <2>2, FS_Surjection
<1>2. IsFiniteSet(times) /\ times # {} /\ times \subseteq Nat \ {0}
  <2> DEFINE f == [l \in eligible |-> offers[l].expires - now]
  <2>1. f \in Surjection(eligible, times)
    BY DEF Surjection
  <2>2. times \subseteq Nat \ {0}
    BY OfferNumbers
  <2> QED BY <2>1, <2>2, FS_Surjection
<1>3. least \in Nat \ {0} /\ longest \in Nat \ {0}
  <2> HIDE DEF costs, times
  <2>1. costs \subseteq Int /\ times \subseteq Int
    BY <1>1, <1>2
  <2>2. least \in costs /\ longest \in times
    BY <1>1, <1>2, <2>1, MaxMin
  <2> QED BY <1>1, <1>2, <2>2
<1>4. /\ \E l \in eligible : least = Repayment(offers[l])
      /\ \E l \in eligible : longest = offers[l].expires - now
  <2> HIDE DEF costs, times
  <2>1. costs \subseteq Int /\ times \subseteq Int
    BY <1>1, <1>2
  <2>2. least \in costs /\ longest \in times
    BY <1>1, <1>2, <2>1, MaxMin
  <2> HIDE DEF least, longest
  <2> QED BY <2>2 DEF costs, times
<1> HIDE DEF least, longest
<1>5. ASSUME NEW l \in eligible
      PROVE  /\ Share(least, Repayment(offers[l])) \in Nat
             /\ HeadroomScore(offers[l].principal, required) \in Nat
             /\ Share(offers[l].expires - now, longest) \in Nat
  <2>1. Repayment(offers[l]) \in Nat \ {0} /\ offers[l].expires - now \in Nat
    BY OfferNumbers
  <2>2. Share(least, Repayment(offers[l])) \in Nat
    BY <1>3, <2>1, ShareGrows
  <2>3. Share(offers[l].expires - now, longest) \in Nat
    BY <1>3, <2>1, ShareGrows
  <2> QED BY <2>2, <2>3, HeadroomIsNat DEF IsOffer
<1>6. OfferScore(offers, eligible, required, now) =
        [l \in eligible |->
          6 * Share(least, Repayment(offers[l]))
          + 2 * HeadroomScore(offers[l].principal, required)
          + 2 * Share(offers[l].expires - now, longest)]
  BY DEF OfferScore, least, longest
<1> QED BY <1>3, <1>4, <1>5, <1>6 DEF ScoreParts

\* Every eligible offer has a number for its score; and of two offers of one
\* principal, the one that asks for no more and lasts no less scores no less,
\* however coarse the shares are.
LEMMA OffersScored ==
  ASSUME NEW offers, NEW eligible, IsFiniteSet(eligible), eligible # {}, eligible \subseteq Int,
         NEW required \in Nat, NEW now \in Nat,
         \A l \in eligible : IsOffer(offers[l], required, now)
  PROVE  /\ DOMAIN OfferScore(offers, eligible, required, now) = eligible
         /\ Scored(OfferScore(offers, eligible, required, now), eligible)
         /\ \A a, b \in eligible :
              /\ offers[a].principal = offers[b].principal
              /\ Repayment(offers[a]) <= Repayment(offers[b])
              /\ offers[a].expires >= offers[b].expires
              => OfferScore(offers, eligible, required, now)[a]
                   >= OfferScore(offers, eligible, required, now)[b]
<1> DEFINE score == OfferScore(offers, eligible, required, now)
<1>1. PICK least \in Nat \ {0}, longest \in Nat \ {0} :
           ScoreParts(offers, eligible, required, now, least, longest)
  BY PartsExist
<1>2. DOMAIN score = eligible /\ Scored(score, eligible)
  BY <1>1 DEF Scored, ScoreParts
<1>3. ASSUME NEW a \in eligible, NEW b \in eligible,
             offers[a].principal = offers[b].principal,
             Repayment(offers[a]) <= Repayment(offers[b]),
             offers[a].expires >= offers[b].expires
      PROVE  score[a] >= score[b]
  <2>1. /\ Repayment(offers[a]) \in Nat \ {0} /\ Repayment(offers[b]) \in Nat \ {0}
        /\ offers[a].expires - now \in Nat /\ offers[b].expires - now \in Nat
        /\ offers[b].expires - now <= offers[a].expires - now
    BY <1>3 DEF IsOffer, Repayment
  <2>2. Share(least, Repayment(offers[b])) <= Share(least, Repayment(offers[a]))
    <3> DEFINE ra == Repayment(offers[a])
               rb == Repayment(offers[b])
    <3>1. ra \in Nat \ {0} /\ rb \in Nat \ {0} /\ ra <= rb
      BY <1>3, <2>1
    <3>2. least \in Nat /\ least <= least
      OBVIOUS
    <3> HIDE DEF ra, rb
    <3>3. Share(least, rb) <= Share(least, ra)
      BY <3>1, <3>2, ShareGrows
    <3> QED BY <3>3 DEF ra, rb
  <2>3. Share(offers[b].expires - now, longest) <= Share(offers[a].expires - now, longest)
    BY <1>1, <2>1, ShareGrows
  <2>4. HeadroomScore(offers[a].principal, required)
          = HeadroomScore(offers[b].principal, required)
    BY <1>3
  <2> QED BY <1>1, <2>2, <2>3, <2>4 DEF ScoreParts
<1> QED BY <1>2, <1>3

\* When no offer costs more than twice the price it is for, and the shares are
\* fine enough, the better of two offers scores higher.
LEMMA BetterScoresHigher ==
  ASSUME NEW offers, NEW eligible, IsFiniteSet(eligible), eligible # {}, eligible \subseteq Int,
         NEW required \in Nat, NEW now \in Nat,
         \A l \in eligible : IsOffer(offers[l], required, now),
         NEW price \in Nat \ {0}, 4 * price <= Scale,
         \A l \in eligible :
           /\ offers[l].principal = price /\ Repayment(offers[l]) <= 2 * price
           /\ offers[l].expires - now <= Scale
  PROVE  \A a, b \in eligible :
           /\ Repayment(offers[a]) <= Repayment(offers[b])
           /\ offers[a].expires >= offers[b].expires
           /\ \/ Repayment(offers[a]) < Repayment(offers[b])
              \/ offers[a].expires > offers[b].expires
           => OfferScore(offers, eligible, required, now)[a]
                > OfferScore(offers, eligible, required, now)[b]
<1> DEFINE score == OfferScore(offers, eligible, required, now)
<1>1. PICK least \in Nat \ {0}, longest \in Nat \ {0} :
           ScoreParts(offers, eligible, required, now, least, longest)
  BY PartsExist
<1>2. \A l \in eligible :
        /\ Repayment(offers[l]) \in Nat \ {0} /\ Repayment(offers[l]) >= price
        /\ offers[l].expires - now \in Nat /\ offers[l].expires \in Nat
  BY OfferNumbers
<1>3. least >= price /\ longest <= Scale
  BY <1>1, <1>2 DEF ScoreParts
<1> SUFFICES ASSUME NEW a \in eligible, NEW b \in eligible,
                    Repayment(offers[a]) <= Repayment(offers[b]),
                    offers[a].expires >= offers[b].expires,
                    \/ Repayment(offers[a]) < Repayment(offers[b])
                    \/ offers[a].expires > offers[b].expires
             PROVE  score[a] > score[b]
  OBVIOUS
<1> DEFINE ra == Repayment(offers[a])
           rb == Repayment(offers[b])
           ta == offers[a].expires - now
           tb == offers[b].expires - now
<1>4. /\ ra \in Nat \ {0} /\ rb \in Nat \ {0} /\ ra <= 2 * price /\ rb <= 2 * price
      /\ ta \in Nat /\ tb \in Nat /\ ra <= rb /\ tb <= ta /\ (ra < rb \/ tb < ta)
  BY <1>2
<1>5. Share(least, rb) <= Share(least, ra) /\ Share(tb, longest) <= Share(ta, longest)
  <2> HIDE DEF ra, rb, ta, tb
  <2>1. Share(least, rb) <= Share(least, ra)
    BY <1>1, <1>4, ShareGrows
  <2>2. Share(tb, longest) <= Share(ta, longest)
    BY <1>1, <1>4, ShareGrows
  <2> QED BY <2>1, <2>2
<1>6. ra < rb => Share(least, rb) < Share(least, ra)
  <2> HIDE DEF ra, rb
  <2>1. ra * rb <= least * Scale
    <3>1. ra * rb <= (2 * price) * (2 * price)
      BY <1>4
    <3>2. (2 * price) * (2 * price) = price * (4 * price)
      OBVIOUS
    <3>3. price * (4 * price) <= price * Scale
      BY ScaleAssumption
    <3>4. price * Scale <= least * Scale
      BY <1>1, <1>3, ScaleAssumption
    <3>5. {ra * rb, (2 * price) * (2 * price), price * (4 * price), price * Scale,
           least * Scale} \subseteq Int
      BY <1>1, <1>4, ScaleAssumption
    <3> QED BY <3>1, <3>2, <3>3, <3>4, <3>5
  <2> QED BY <1>1, <1>4, <2>1, ShareOfGreater
<1>7. tb < ta => Share(tb, longest) < Share(ta, longest)
  <2> HIDE DEF ta, tb
  <2> QED BY <1>1, <1>3, <1>4, ShareOfMore
<1>8. /\ score[a] = 6 * Share(least, ra) + 2 * HeadroomScore(offers[a].principal, required)
                      + 2 * Share(ta, longest)
      /\ score[b] = 6 * Share(least, rb) + 2 * HeadroomScore(offers[b].principal, required)
                      + 2 * Share(tb, longest)
      /\ Share(least, ra) \in Nat /\ Share(least, rb) \in Nat
      /\ Share(ta, longest) \in Nat /\ Share(tb, longest) \in Nat
      /\ HeadroomScore(offers[a].principal, required) \in Nat
      /\ HeadroomScore(offers[b].principal, required) \in Nat
      /\ HeadroomScore(offers[a].principal, required)
           = HeadroomScore(offers[b].principal, required)
  BY <1>1 DEF ScoreParts
<1> HIDE DEF score, ra, rb, ta, tb
<1> QED BY <1>4, <1>5, <1>6, <1>7, <1>8

\* selectCreditOffer returns a winner exactly when an offer is eligible.
THEOREM OfferIsSelected ==
  ASSUME NEW offers, IsFiniteSet(DOMAIN offers), DOMAIN offers \subseteq Int,
         NEW required \in Nat, NEW now \in Nat,
         \A l \in EligibleOffers(offers, required, now) : IsOffer(offers[l], required, now)
  PROVE  LET ranked == SelectCreditOffer(offers, required, now)
             eligible == EligibleOffers(offers, required, now)
         IN /\ ranked = <<>> <=> eligible = {}
            /\ eligible # {} =>
                 IsFirst(OfferScore(offers, eligible, required, now), ranked[1], eligible)
<1> DEFINE ranked == SelectCreditOffer(offers, required, now)
           eligible == EligibleOffers(offers, required, now)
           score == OfferScore(offers, eligible, required, now)
<1>1. eligible \subseteq DOMAIN offers /\ IsFiniteSet(eligible)
  BY FS_Subset DEF EligibleOffers
<1>2. CASE eligible = {}
  BY <1>2 DEF SelectCreditOffer
<1>3. CASE eligible # {}
  <2>1. DOMAIN score = eligible /\ Scored(score, eligible)
    BY <1>1, <1>3, OffersScored
  <2>2. ranked = SelectBest(score)
    BY <1>3 DEF SelectCreditOffer
  <2> HIDE DEF score, ranked, eligible
  <2>3. ranked # <<>> /\ IsFirst(score, ranked[1], eligible)
    BY <1>1, <1>3, <2>1, <2>2, WinnerIsBest
  <2> QED BY <1>3, <2>3 DEF score, ranked, eligible
<1> QED BY <1>2, <1>3

-----------------------------------------------------------------------------
(* Providers.                                                                 *)

\* What a registered provider brings to the ranking.
IsProvider(p) == p.id \in Int /\ p.price \in Nat /\ p.latency \in Nat

\* A price has a number for its score, whatever the greatest price is.
LEMMA PriceIsInt ==
  ASSUME NEW price \in Nat, NEW maxPrice \in Nat
  PROVE  PriceScore(price, maxPrice) \in Int
<1> USE ScaleAssumption
<1>1. CASE maxPrice = 0
  BY <1>1 DEF PriceScore
<1>2. CASE maxPrice # 0
  <2>1. Share(price, maxPrice) \in Int
    BY <1>2, ShareGrows
  <2>2. \A s \in Int : Min({s, Scale}) \in Int
    BY MinOfTwo
  <2>3. Min({Share(price, maxPrice), Scale}) \in Int
    BY <2>1, <2>2
  <2> QED BY <1>2, <2>3 DEF PriceScore
<1> QED BY <1>1, <1>2

\* The first provider of a ranking is registered with the capability.
THEOREM RankedIsRegistered ==
  ASSUME NEW providers, IsFiniteSet(providers), \A p \in providers : IsProvider(p),
         NEW reputation, \A p \in providers : reputation[p.id] \in Int,
         NEW capability, NEW maxPrice \in Nat,
         RankProviders(providers, reputation, capability, maxPrice) # <<>>
  PROVE  \E p \in providers :
           /\ p.capability = capability
           /\ p.id = RankProviders(providers, reputation, capability, maxPrice)[1]
<1> DEFINE eligible == {p \in providers : p.capability = capability}
           ids == {p.id : p \in eligible}
           Provider(id) == CHOOSE p \in eligible : p.id = id
           score == [id \in ids |-> ProviderScore(Provider(id), reputation[id], maxPrice)]
<1>1. IsFiniteSet(ids) /\ ids \subseteq Int
  <2> DEFINE f == [p \in eligible |-> p.id]
  <2>1. IsFiniteSet(eligible)
    BY FS_Subset
  <2>2. f \in Surjection(eligible, ids)
    BY DEF Surjection
  <2> QED BY <2>1, <2>2, FS_Surjection DEF IsProvider
<1>2. ASSUME NEW id \in ids PROVE ProviderScore(Provider(id), reputation[id], maxPrice) \in Int
  <2>1. Provider(id) \in eligible /\ reputation[id] \in Int
    OBVIOUS
  <2> HIDE DEF Provider
  <2>2. Provider(id).price \in Nat /\ Provider(id).latency \in Nat
    BY <2>1 DEF IsProvider
  <2>3. LatencyScore(Provider(id).latency) \in Int
    BY <2>2, ShareGrows DEF LatencyScore
  <2>4. PriceScore(Provider(id).price, maxPrice) \in Int
    BY <2>2, PriceIsInt
  <2> QED BY <2>1, <2>3, <2>4 DEF ProviderScore
<1>3. RankProviders(providers, reputation, capability, maxPrice) = SelectBest(score)
  BY DEF RankProviders
<1>4. DOMAIN score = ids /\ Scored(score, ids)
  BY <1>1, <1>2 DEF Scored
<1> HIDE DEF score
<1>5. SelectBest(score)[1] \in ids
  BY <1>1, <1>3, <1>4, WinnerIsBest DEF IsFirst
<1> QED BY <1>3, <1>5
==============================================================================
