-------------------------- MODULE PaymentGateProofs --------------------------
(***************************************************************************)
(* Proofs about PaymentGate, for every set of missions, calls, policies    *)
(* and challenges and for any number of crashes.                           *)
(*                                                                         *)
(* The inductive invariant adds to the checked invariants what a call      *)
(* carries from one step to the next: while it waits, its mission has a    *)
(* policy that approves its challenge; while it builds, it is at the head  *)
(* of its mission's line; once it has reserved, its authorization is in    *)
(* the store; what it has read of the acceptance is still true; and it is  *)
(* at one place of the line of its mission while it queues or builds.  The *)
(* balances are the sums of the reserved amounts, tinybar by tinybar.      *)
(***************************************************************************)
EXTENDS PaymentGate, FiniteSetTheorems, TLAPS

CallOK(c) ==
  /\ pc[c] \in Waiting =>
       challenge[c] \in Challenges /\ policy[challenge[c].mission] # None
  /\ pc[c] \in {"queued", "building", "reserved"} => Approved(challenge[c])
  /\ pc[c] = "building" => HoldsLock(c)
  /\ pc[c] = "reserved" => Payment(c) \in authorizations

CallInv == \A c \in Calls : CallOK(c)

SessionInv ==
  \A m \in Missions : policy[m] # None => session[policy[m].session] # None

\* What was read of an acceptance stays true; what was not there may come.
SeenInv ==
  /\ \A c \in Calls : pc[c] \in Waiting =>
       /\ seen[c] # None => acceptance[challenge[c].mission] # None
       /\ ~PaysBoundIntent(challenge[c]) => seen[c] = None
  /\ \A a \in authorizations :
       /\ pc[a.call] \in {"reserved"} \cup Ended
       /\ seen[a.call] # None => acceptance[a.mission] # None

\* A line holds the calls of its mission that queue for the lock or hold it,
\* each at one place.
InLock(c) == pc[c] \in {"queued", "building"}

LineInv ==
  /\ \A m \in Missions : \A i \in 1..Len(queue[m]) :
       InLock(queue[m][i]) /\ challenge[queue[m][i]].mission = m
  /\ \A m \in Missions : \A i, j \in 1..Len(queue[m]) :
       queue[m][i] = queue[m][j] => i = j
  /\ \A c \in Calls : InLock(c) =>
       \E i \in 1..Len(queue[challenge[c].mission]) : queue[challenge[c].mission][i] = c

\* The authorizations pay a finite number of tinybars, charged to their budgets.
ReservedInv == IsFiniteSet(Tinybars(authorizations)) /\ BudgetIsReserved

StateInv == TypeOK /\ CallInv /\ SessionInv
IInv ==
  /\ StateInv
  /\ WithinCaps
  /\ OnePaymentPerNonce
  /\ ReleasedIsReserved
  /\ SeenInv
  /\ IntentBinding
  /\ LineInv
  /\ ReservedInv

------------------------------------------------------------------------------
(* Sums of reserved amounts.                                               *)

\* Nothing is paid by no authorization.
LEMMA TotalOfNone == Tinybars({}) = {} /\ IsFiniteSet(Tinybars({})) /\ Total({}) = 0
BY FS_EmptySet DEF Tinybars, Total

\* Fewer authorizations pay a finite number of tinybars.
LEMMA FewerTinybars ==
  ASSUME NEW S, IsFiniteSet(Tinybars(S)), NEW T \in SUBSET S
  PROVE  IsFiniteSet(Tinybars(T))
<1>1. Tinybars(T) \subseteq Tinybars(S)
  BY DEF Tinybars
<1> QED BY <1>1, FS_Subset

\* One more authorization adds its amount to the sum.
LEMMA TotalOfOneMore ==
  ASSUME NEW S, IsFiniteSet(Tinybars(S)), NEW a, a \notin S, a.amount \in Nat
  PROVE  /\ IsFiniteSet(Tinybars(S \cup {a}))
         /\ Total(S) \in Nat
         /\ Total(S \cup {a}) = Total(S) + a.amount
<1> DEFINE A == {a} \X (1..a.amount)
<1>1. Tinybars(S \cup {a}) = Tinybars(S) \cup A
  BY DEF Tinybars
<1>2. Tinybars(S) \cap A = {}
  BY DEF Tinybars
<1>3. IsFiniteSet(1..a.amount) /\ Cardinality(1..a.amount) = a.amount
  BY FS_Interval
<1>4. IsFiniteSet({a}) /\ Cardinality({a}) = 1
  BY FS_Singleton
<1>5. IsFiniteSet(A) /\ Cardinality(A) = 1 * a.amount
  BY <1>3, <1>4, FS_Product
<1> HIDE DEF A
<1>6. Cardinality(Tinybars(S)) \in Nat
  BY FS_CardinalityType
<1>7. /\ IsFiniteSet(Tinybars(S) \cup A)
      /\ Cardinality(Tinybars(S) \cup A) = Cardinality(Tinybars(S)) + Cardinality(A)
                                            - Cardinality(Tinybars(S) \cap A)
  BY <1>5, FS_Union
<1>8. Cardinality(Tinybars(S) \cap A) = 0
  BY <1>2, FS_EmptySet
<1>9. Total(S) = Cardinality(Tinybars(S)) /\ Total(S \cup {a}) = Cardinality(Tinybars(S) \cup A)
  BY <1>1 DEF Total
<1>10. Cardinality(A) = a.amount
  BY <1>5
<1>11. IsFiniteSet(Tinybars(S \cup {a}))
  BY <1>1, <1>7
<1>12. Cardinality(Tinybars(S) \cup A) = Cardinality(Tinybars(S)) + a.amount
  BY <1>6, <1>7, <1>8, <1>10
<1> QED BY <1>6, <1>9, <1>11, <1>12

------------------------------------------------------------------------------
(* The shape of the state.                                                 *)

\* The initial state satisfies every part of the invariant.
LEMMA InitInv == Init => IInv
<1> SUFFICES ASSUME Init PROVE IInv
  OBVIOUS
<1>1. StateInv /\ WithinCaps /\ OnePaymentPerNonce /\ ReleasedIsReserved
        /\ SeenInv /\ IntentBinding /\ LineInv
  BY CrashAssumption, NoneAssumption
  DEF Init, StateInv, TypeOK, CallInv, CallOK, SessionInv, WithinCaps,
      OnePaymentPerNonce, ReleasedIsReserved, SeenInv, IntentBinding,
      LineInv, InLock, Waiting, Ended, Payments
<1>2. ReservedInv
  <2>1. \A m \in Missions : {a \in authorizations : a.mission = m} = {}
    BY DEF Init
  <2> QED BY <2>1, TotalOfNone DEF Init, ReservedInv, BudgetIsReserved
<1> QED BY <1>1, <1>2 DEF IInv

\* Shape of the parts of a policy and of a challenge, and None is neither.
LEMMA Shapes ==
  /\ None \notin Policies /\ None \notin Challenges
  /\ \A p \in Policies : /\ p.session \in Sessions /\ p.provider \in Providers
                          /\ p.cap \in Nat /\ p.sessionCap \in Nat
  /\ \A ch \in Challenges : /\ ch.mission \in Missions /\ ch.nonce \in Nonces
                             /\ ch.recipient \in Providers /\ ch.amount \in Nat
  BY PoliciesAssumption, ChallengesAssumption, NoneAssumption
  DEF PolicyRecords, ChallengeRecords

\* A call that holds a challenge of the instance builds a payment for it.
LEMMA PaymentShape ==
  ASSUME NEW c \in Calls, challenge[c] \in Challenges
  PROVE  /\ Payment(c) \in Payments
         /\ ChallengeOf(Payment(c)) = challenge[c]
         /\ Payment(c).call = c
         /\ Payment(c).mission = challenge[c].mission
         /\ Payment(c).recipient = challenge[c].recipient
         /\ Payment(c).amount = challenge[c].amount
  BY Shapes, ChallengesAssumption
  DEF Payment, Payments, ChallengeOf, ChallengeRecords

\* Registering a policy keeps the shape of the state.
LEMMA RegisterState ==
  ASSUME StateInv, NEW m \in Missions, NEW p \in Policies,
         RegisterMissionPolicy(m, p)
  PROVE  StateInv'
<1> USE DEF RegisterMissionPolicy, process
<1>1. TypeOK'
  BY Shapes DEF StateInv, TypeOK, SessionFor
<1>2. CallInv'
  <2> SUFFICES ASSUME NEW c \in Calls PROVE CallOK(c)'
    BY DEF CallInv
  <2>1. pc[c] \in Waiting => /\ challenge[c] \in Challenges
                             /\ policy'[challenge[c].mission] = policy[challenge[c].mission]
    BY Shapes DEF StateInv, TypeOK, CallInv, CallOK
  <2> QED BY <2>1 DEF StateInv, CallInv, CallOK, Waiting, Approved, HoldsLock, Payment
<1>3. SessionInv'
  BY Shapes, NoneAssumption DEF StateInv, TypeOK, SessionInv, SessionFor
<1> QED BY <1>1, <1>2, <1>3 DEF StateInv

\* So does saving an acceptance.
LEMMA AcceptState ==
  ASSUME StateInv, NEW m \in Missions, NEW i \in Challenges \cup {None},
         SignCreditAcceptance(m, i)
  PROVE  StateInv'
  BY DEF SignCreditAcceptance, process, StateInv, TypeOK, CallInv, CallOK,
         SessionInv, Approved, HoldsLock, Payment

\* A refused call keeps the shape; it is no longer waiting.
LEMMA RejectState ==
  ASSUME StateInv, NEW c \in Calls, Reject(c),
         UNCHANGED <<store, zkMode, released, crashes>>,
         queue' \in [Missions -> Seq(Calls)],
         \A d \in Calls \ {c} : pc[d] = "building" =>
            queue'[challenge[d].mission] = queue[challenge[d].mission]
  PROVE  StateInv'
<1> USE DEF Reject, store
<1>1. TypeOK' BY DEF StateInv, TypeOK, Ended
<1>2. CallInv'
  <2> SUFFICES ASSUME NEW d \in Calls PROVE CallOK(d)'
    BY DEF CallInv
  <2>1. CASE d = c
    BY <2>1 DEF StateInv, TypeOK, CallOK, Waiting
  <2>2. CASE d # c
    BY <2>2 DEF StateInv, TypeOK, CallInv, CallOK, Approved, HoldsLock, Payment
  <2> QED BY <2>1, <2>2
<1>3. SessionInv' BY DEF StateInv, SessionInv
<1> QED BY <1>1, <1>2, <1>3 DEF StateInv

\* A line keeps its head when a call joins behind it.
LEMMA AppendHead ==
  ASSUME NEW q \in Seq(Calls), NEW c \in Calls, q # <<>>
  PROVE  Append(q, c) # <<>> /\ Head(Append(q, c)) = Head(q)
  OBVIOUS

\* Joining the line behind the others keeps the head of every line that has one.
LEMMA EnqueueState ==
  ASSUME StateInv, NEW c \in Calls, NEW ch \in Challenges,
         NEW acc \in [intent : Challenges \cup {None}] \cup {None},
         policy[ch.mission] # None, pc[c] # "building",
         Enqueue(c, ch, acc), UNCHANGED <<store, zkMode, released, crashes>>
  PROVE  StateInv'
<1>1. CASE ~Approved(ch)
  BY <1>1, RejectState DEF Enqueue, StateInv, TypeOK
<1>2. CASE Approved(ch)
  <2> USE <1>2 DEF Enqueue, store
  <2>1. TypeOK'
    <3>1. queue' \in [Missions -> Seq(Calls)]
      <4>1. Append(queue[ch.mission], c) \in Seq(Calls)
        BY Shapes DEF StateInv, TypeOK
      <4> QED BY <4>1, Shapes DEF StateInv, TypeOK
    <3> QED BY <3>1, Shapes DEF StateInv, TypeOK, Waiting
  <2>2. CallInv'
    <3> SUFFICES ASSUME NEW d \in Calls PROVE CallOK(d)'
      BY DEF CallInv
    <3>1. CASE d = c
      BY <3>1 DEF StateInv, TypeOK, CallOK, Approved
    <3>2. CASE d # c
      <4>1. pc'[d] = pc[d] /\ challenge'[d] = challenge[d]
        BY <3>2 DEF StateInv, TypeOK
      <4>2. pc[d] = "building" => HoldsLock(d)'
        <5> SUFFICES ASSUME pc[d] = "building" PROVE HoldsLock(d)'
          OBVIOUS
        <5>1. HoldsLock(d) /\ challenge[d] \in Challenges
          BY DEF StateInv, CallInv, CallOK, Waiting
        <5>2. queue[challenge[d].mission] \in Seq(Calls)
          BY <5>1, Shapes DEF StateInv, TypeOK
        <5>3. CASE challenge[d].mission = ch.mission
          <6>1. queue'[ch.mission] = Append(queue[ch.mission], c)
            BY Shapes DEF StateInv, TypeOK
          <6> QED BY <4>1, <5>1, <5>2, <5>3, <6>1, AppendHead DEF HoldsLock
        <5>4. CASE challenge[d].mission # ch.mission
          BY <4>1, <5>1, <5>4, Shapes DEF StateInv, TypeOK, HoldsLock
        <5> QED BY <5>3, <5>4
      <4> QED
        BY <4>1, <4>2 DEF StateInv, CallInv, CallOK, Approved, Payment
    <3> QED BY <3>1, <3>2
  <2>3. SessionInv' BY DEF StateInv, SessionInv
  <2> QED BY <2>1, <2>2, <2>3 DEF StateInv
<1> QED BY <1>1, <1>2

\* The first half of the handler.
LEMMA AuthorizeState ==
  ASSUME StateInv, NEW c \in Calls, NEW ch \in Challenges, Authorize(c, ch)
  PROVE  StateInv'
<1>1. CASE ~PaysBoundIntent(ch)
  BY <1>1, RejectState DEF Authorize, StateInv, TypeOK
<1>2. CASE PaysBoundIntent(ch) /\ ~zkMode
  <2>1. acceptance[ch.mission] \in [intent : Challenges \cup {None}] \cup {None}
    BY Shapes DEF StateInv, TypeOK
  <2> QED BY <1>2, <2>1, EnqueueState DEF Authorize
<1>3. CASE PaysBoundIntent(ch) /\ zkMode
  <2> USE <1>3 DEF Authorize, store
  <2>1. TypeOK' BY Shapes DEF StateInv, TypeOK, Waiting
  <2>2. CallInv'
    <3> SUFFICES ASSUME NEW d \in Calls PROVE CallOK(d)'
      BY DEF CallInv
    <3> QED
      BY DEF StateInv, TypeOK, CallInv, CallOK, Approved, HoldsLock, Payment
  <2>3. SessionInv' BY DEF StateInv, SessionInv
  <2> QED BY <2>1, <2>2, <2>3 DEF StateInv
<1> QED BY <1>1, <1>2, <1>3

\* The answer of the proof check keeps the shape of the state.
LEMMA ProofState ==
  ASSUME StateInv, NEW c \in Calls, ProofVerified(c) \/ ProofRefused(c)
  PROVE  StateInv'
<1>1. CASE ProofVerified(c)
  <2>1. /\ challenge[c] \in Challenges /\ policy[challenge[c].mission] # None
        /\ seen[c] \in [intent : Challenges \cup {None}] \cup {None}
    BY <1>1 DEF ProofVerified, StateInv, TypeOK, CallInv, CallOK, Waiting
  <2> QED BY <1>1, <2>1, EnqueueState DEF ProofVerified
<1>2. CASE ProofRefused(c)
  BY <1>2, RejectState DEF ProofRefused, StateInv, TypeOK
<1> QED BY <1>1, <1>2

\* So does the grant of the lock.
LEMMA BuildState ==
  ASSUME StateInv, NEW c \in Calls, Build(c)
  PROVE  StateInv'
<1> USE DEF Build, store
<1>1. TypeOK' BY DEF StateInv, TypeOK, Waiting
<1>2. CallInv'
  BY DEF StateInv, TypeOK, CallInv, CallOK, Approved, HoldsLock, Payment, Waiting
<1>3. SessionInv' BY DEF StateInv, SessionInv
<1> QED BY <1>1, <1>2, <1>3 DEF StateInv

\* Whoever builds is alone at the head of its line, so the call that leaves the
\* line cannot take it from another builder.
LEMMA UnlockOthers ==
  ASSUME StateInv, NEW c \in Calls, pc[c] = "building", Unlock(c)
  PROVE  /\ queue' \in [Missions -> Seq(Calls)]
         /\ \A d \in Calls \ {c} : pc[d] = "building" =>
              queue'[challenge[d].mission] = queue[challenge[d].mission]
<1>1. \A d \in Calls : pc[d] = "building" =>
        /\ challenge[d].mission \in Missions
        /\ queue[challenge[d].mission] \in Seq(Calls) \ {<<>>}
        /\ Head(queue[challenge[d].mission]) = d
  BY Shapes DEF StateInv, TypeOK, CallInv, CallOK, HoldsLock, Waiting
<1>2. \A q \in Seq(Calls) \ {<<>>} : Tail(q) \in Seq(Calls)
  OBVIOUS
<1>3. Tail(queue[challenge[c].mission]) \in Seq(Calls)
  BY <1>1, <1>2
<1>4. queue' \in [Missions -> Seq(Calls)]
  BY <1>3 DEF Unlock, StateInv, TypeOK
<1>5. ASSUME NEW d \in Calls \ {c}, pc[d] = "building"
      PROVE  queue'[challenge[d].mission] = queue[challenge[d].mission]
  BY <1>1, <1>5 DEF Unlock, StateInv, TypeOK
<1> QED BY <1>4, <1>5

\* So does a failure inside the lock, which frees it.
LEMMA ReserveRefusedState ==
  ASSUME StateInv, NEW c \in Calls, ReserveRefused(c)
  PROVE  StateInv'
  BY UnlockOthers, RejectState DEF ReserveRefused

\* What a reservation does to the two balances.
LEMMA ReserveBalances ==
  ASSUME StateInv, NEW c \in Calls, Reserve(c)
  PROVE  /\ Payment(c).mission \in Missions
         /\ policy[Payment(c).mission] \in Policies
         /\ session[policy[Payment(c).mission].session] \in [cap : Nat, spent : Nat]
         /\ Payment(c).amount \in Nat
         /\ Payment(c) \in Payments
         /\ spent[Payment(c).mission] \in Nat
<1>1. challenge[c] \in Challenges /\ policy[challenge[c].mission] # None
  BY DEF Reserve, StateInv, CallInv, CallOK, Waiting
<1>2. policy[challenge[c].mission] \in Policies
  BY <1>1, Shapes DEF StateInv, TypeOK
<1>3. session[policy[challenge[c].mission].session] # None
  BY <1>1, Shapes DEF StateInv, SessionInv
<1>4. session[policy[challenge[c].mission].session] \in [cap : Nat, spent : Nat]
  BY <1>2, <1>3, Shapes DEF StateInv, TypeOK
<1> QED BY <1>1, <1>2, <1>4, PaymentShape, Shapes DEF StateInv, TypeOK

\* A reservation keeps the shape: both balances stay natural numbers and the
\* authorization of the call is in the store.
LEMMA ReserveState ==
  ASSUME StateInv, NEW c \in Calls, Reserve(c)
  PROVE  StateInv'
<1> DEFINE a == Payment(c)
           s == policy[a.mission].session
<1>a. /\ a.mission \in Missions /\ a \in Payments /\ a.amount \in Nat
      /\ s \in Sessions /\ session[s] \in [cap : Nat, spent : Nat]
  BY ReserveBalances, Shapes
<1>b. /\ spent' = [spent EXCEPT ![a.mission] = @ + a.amount]
      /\ session' = [session EXCEPT ![s].spent = @ + a.amount]
      /\ authorizations' = authorizations \cup {a}
      /\ pc' = [pc EXCEPT ![c] = "reserved"]
      /\ UNCHANGED <<policy, acceptance, zkMode, challenge, seen, released, crashes>>
      /\ pc[c] = "building" /\ Unlock(c)
  BY DEF Reserve, ReserveBudget
<1>c. /\ spent \in [Missions -> Nat]
      /\ session \in [Sessions -> [cap : Nat, spent : Nat] \cup {None}]
      /\ policy \in [Missions -> Policies \cup {None}]
      /\ pc \in [Calls -> {"idle"} \cup Waiting \cup Ended]
  BY DEF StateInv, TypeOK
<1> HIDE DEF a, s
<1>0. queue' \in [Missions -> Seq(Calls)]
  BY <1>b, UnlockOthers
<1>1. TypeOK'
  <2>1. spent' \in [Missions -> Nat]
    BY <1>a, <1>b, <1>c
  <2>2. session' \in [Sessions -> [cap : Nat, spent : Nat] \cup {None}]
    BY <1>a, <1>b, <1>c
  <2>3. authorizations' \subseteq Payments
    BY <1>a, <1>b DEF StateInv, TypeOK
  <2>4. pc' \in [Calls -> {"idle"} \cup Waiting \cup Ended]
    BY <1>b, <1>c DEF Waiting
  <2> QED BY <1>0, <1>b, <2>1, <2>2, <2>3, <2>4 DEF StateInv, TypeOK
<1>2. CallInv'
  <2> SUFFICES ASSUME NEW d \in Calls PROVE CallOK(d)'
    BY DEF CallInv
  <2>1. CASE d = c
    BY <1>b, <1>c, <2>1
    DEF StateInv, CallInv, CallOK, Approved, Payment, Waiting, a
  <2>2. CASE d # c
    <3>1. pc'[d] = pc[d] /\ challenge'[d] = challenge[d] /\ policy' = policy
      BY <1>b, <1>c, <2>2
    <3>2. pc[d] = "building" => HoldsLock(d)'
      BY <1>b, <2>2, <3>1, UnlockOthers DEF StateInv, CallInv, CallOK, HoldsLock
    <3> QED
      BY <1>b, <3>1, <3>2 DEF StateInv, CallInv, CallOK, Approved, Payment
  <2> QED BY <2>1, <2>2
<1>3. SessionInv'
  <2>1. session'[s] # None
    BY <1>a, <1>b, <1>c, NoneAssumption
  <2> QED BY <1>b, <1>c, <2>1, Shapes DEF StateInv, SessionInv
<1> QED BY <1>1, <1>2, <1>3 DEF StateInv

\* Answering keeps the shape.
LEMMA RespondState ==
  ASSUME StateInv, NEW c \in Calls, Respond(c)
  PROVE  StateInv'
<1> USE DEF Respond, store
<1>1. Payment(c) \in Payments
  BY PaymentShape DEF StateInv, CallInv, CallOK, Waiting
<1>2. TypeOK' BY <1>1 DEF StateInv, TypeOK, Waiting, Ended
<1>3. CallInv'
  <2> SUFFICES ASSUME NEW d \in Calls PROVE CallOK(d)'
    BY DEF CallInv
  <2> QED
    BY DEF StateInv, TypeOK, CallInv, CallOK, Approved, HoldsLock, Payment, Waiting
<1>4. SessionInv' BY DEF StateInv, SessionInv
<1> QED BY <1>2, <1>3, <1>4 DEF StateInv

\* A crash empties the lines and forgets the calls; the store keeps its shape.
LEMMA CrashState ==
  ASSUME StateInv, Crash
  PROVE  StateInv'
<1> USE DEF Crash, store
<1>1. TypeOK'
  <2>1. pc' \in [Calls -> {"idle"} \cup Waiting \cup Ended]
    BY DEF StateInv, TypeOK, Ended
  <2>2. queue' \in [Missions -> Seq(Calls)]
    OBVIOUS
  <2> QED BY <2>1, <2>2 DEF StateInv, TypeOK
<1>2. CallInv' BY DEF StateInv, TypeOK, CallInv, CallOK, Waiting
<1>3. SessionInv' BY DEF StateInv, SessionInv
<1> QED BY <1>1, <1>2, <1>3 DEF StateInv

\* A step that changes nothing keeps everything.
LEMMA StutterState ==
  ASSUME StateInv, UNCHANGED vars
  PROVE  StateInv'
  BY DEF vars, StateInv, TypeOK, CallInv, CallOK, SessionInv, Approved,
         HoldsLock, Payment

\* The shape of the state is inductive by itself.
LEMMA StateNext == StateInv /\ [Next]_vars => StateInv'
<1> SUFFICES ASSUME StateInv, [Next]_vars PROVE StateInv'
  OBVIOUS
<1>1. CASE \E m \in Missions, p \in Policies : RegisterMissionPolicy(m, p)
  BY <1>1, RegisterState
<1>2. CASE \E m \in Missions, i \in Challenges \cup {None} : SignCreditAcceptance(m, i)
  BY <1>2, AcceptState
<1>3. CASE \E c \in Calls, ch \in Challenges : Authorize(c, ch)
  BY <1>3, AuthorizeState
<1>4. CASE \E c \in Calls : Handle(c)
  BY <1>4, ProofState, BuildState, ReserveState, ReserveRefusedState, RespondState
  DEF Handle
<1>5. CASE Crash
  BY <1>5, CrashState
<1>6. CASE UNCHANGED vars
  BY <1>6, StutterState
<1> QED BY <1>1, <1>2, <1>3, <1>4, <1>5, <1>6 DEF Next

------------------------------------------------------------------------------
(* The money.  Only Reserve charges a balance, only RegisterMissionPolicy  *)
(* opens one.                                                              *)

\* Only a registration and a reservation touch policies, budgets and
\* authorizations.
LEMMA MoneyUntouched ==
  ASSUME StateInv, [Next]_vars,
         ~\E m \in Missions, p \in Policies : RegisterMissionPolicy(m, p),
         ~\E c \in Calls : Reserve(c)
  PROVE  UNCHANGED <<policy, session, spent, authorizations>>
  BY DEF Next, Handle, vars, store, SignCreditAcceptance, Authorize, ProofVerified,
         ProofRefused, Build, ReserveRefused, Respond, Crash

\* No step takes a mission or a session over its cap.
LEMMA CapsNext ==
  ASSUME StateInv, WithinCaps, [Next]_vars
  PROVE  WithinCaps'
<1>1. CASE \E m \in Missions, p \in Policies : RegisterMissionPolicy(m, p)
  <2> PICK m \in Missions, p \in Policies : RegisterMissionPolicy(m, p)
    BY <1>1
  <2>1. /\ policy' = [policy EXCEPT ![m] = p] /\ policy[m] = None
        /\ spent' = [spent EXCEPT ![m] = 0]
        /\ session' = [session EXCEPT ![p.session] = SessionFor(p)]
        /\ authorizations' = authorizations
    BY DEF RegisterMissionPolicy
  <2>2. /\ policy \in [Missions -> Policies \cup {None}]
        /\ spent \in [Missions -> Nat]
        /\ session \in [Sessions -> [cap : Nat, spent : Nat] \cup {None}]
        /\ \A a \in authorizations : a.mission \in Missions
    BY DEF StateInv, TypeOK, Payments
  <2>3. \A n \in Missions : policy'[n] # None => spent'[n] <= policy'[n].cap
    BY <2>1, <2>2, Shapes DEF WithinCaps
  <2>4. \A s \in Sessions : session'[s] # None => session'[s].spent <= session'[s].cap
    BY <2>1, <2>2, Shapes DEF WithinCaps, SessionFor
  <2>5. \A a \in authorizations :
          policy'[a.mission] # None /\ a.recipient = policy'[a.mission].provider
    BY <2>1, <2>2 DEF WithinCaps
  <2> QED BY <2>1, <2>3, <2>4, <2>5 DEF WithinCaps
<1>2. CASE \E c \in Calls : Reserve(c)
  <2> PICK c \in Calls : Reserve(c)
    BY <1>2
  <2> DEFINE a == Payment(c)
             s == policy[a.mission].session
  <2>1. /\ a.mission \in Missions /\ a.amount \in Nat
        /\ s \in Sessions /\ session[s] \in [cap : Nat, spent : Nat]
    BY ReserveBalances, Shapes
  <2>2. /\ spent' = [spent EXCEPT ![a.mission] = @ + a.amount]
        /\ session' = [session EXCEPT ![s].spent = @ + a.amount]
        /\ authorizations' = authorizations \cup {a}
        /\ policy' = policy
        /\ spent[a.mission] + a.amount <= policy[a.mission].cap
        /\ session[s].spent + a.amount <= session[s].cap
    BY DEF Reserve, ReserveBudget, MayReserve
  <2>3. /\ spent \in [Missions -> Nat]
        /\ session \in [Sessions -> [cap : Nat, spent : Nat] \cup {None}]
    BY DEF StateInv, TypeOK
  <2>4. policy[a.mission] # None /\ a.recipient = policy[a.mission].provider
    BY PaymentShape DEF Reserve, StateInv, CallInv, CallOK, Approved, Waiting
  <2> HIDE DEF a, s
  <2>5. \A m \in Missions : policy'[m] # None => spent'[m] <= policy'[m].cap
    BY <2>1, <2>2, <2>3 DEF WithinCaps
  <2>6. \A t \in Sessions : session'[t] # None => session'[t].spent <= session'[t].cap
    BY <2>1, <2>2, <2>3 DEF WithinCaps
  <2> QED BY <2>2, <2>4, <2>5, <2>6 DEF WithinCaps
<1>3. CASE UNCHANGED <<policy, session, spent, authorizations>>
  BY <1>3 DEF WithinCaps
<1> QED BY <1>1, <1>2, <1>3, MoneyUntouched

\* A registration opens budgets that nothing has been taken from.
LEMMA RegisterReserved ==
  ASSUME StateInv, WithinCaps, ReservedInv, NEW m \in Missions, NEW p \in Policies,
         RegisterMissionPolicy(m, p)
  PROVE  ReservedInv'
<1> USE DEF ReservedInv
<1>1. /\ policy' = [policy EXCEPT ![m] = p] /\ policy[m] = None
      /\ spent' = [spent EXCEPT ![m] = 0]
      /\ session' = [session EXCEPT ![p.session] = SessionFor(p)]
      /\ authorizations' = authorizations
  BY DEF RegisterMissionPolicy
<1>2. /\ spent \in [Missions -> Nat]
      /\ session \in [Sessions -> [cap : Nat, spent : Nat] \cup {None}]
      /\ policy \in [Missions -> Policies \cup {None}]
      /\ \A a \in authorizations : a.mission \in Missions /\ policy[a.mission] # None
  BY DEF StateInv, TypeOK, Payments, WithinCaps
<1>3. \A a \in authorizations : a.mission # m /\ policy'[a.mission] = policy[a.mission]
  BY <1>1, <1>2
<1>4. ASSUME NEW n \in Missions
      PROVE  spent'[n] = Total({a \in authorizations' : a.mission = n})
  <2>1. CASE n = m
    <3>1. {a \in authorizations' : a.mission = n} = {}
      BY <1>1, <1>3, <2>1
    <3>2. spent'[n] = 0
      BY <1>1, <1>2, <2>1
    <3> QED BY <3>1, <3>2, TotalOfNone
  <2>2. CASE n # m
    <3>1. spent'[n] = spent[n]
      BY <1>1, <1>2, <2>2
    <3> QED BY <1>1, <3>1 DEF BudgetIsReserved
  <2> QED BY <2>1, <2>2
<1>5. ASSUME NEW s \in Sessions, session'[s] # None
      PROVE  session'[s].spent = Total({a \in authorizations' : policy'[a.mission].session = s})
  <2>1. {a \in authorizations' : policy'[a.mission].session = s}
          = {a \in authorizations : policy[a.mission].session = s}
    BY <1>1, <1>3
  <2>2. CASE session[s] # None
    <3>1. session'[s] = session[s]
      BY <1>1, <1>2, <2>2, Shapes DEF SessionFor
    <3> QED BY <2>1, <2>2, <3>1 DEF BudgetIsReserved
  <2>3. CASE session[s] = None
    <3>1. session'[s].spent = 0
      BY <1>1, <1>2, <1>5, <2>3, Shapes DEF SessionFor
    <3>2. {a \in authorizations : policy[a.mission].session = s} = {}
      BY <1>2, <2>3 DEF StateInv, SessionInv
    <3> QED BY <2>1, <3>1, <3>2, TotalOfNone
  <2> QED BY <2>2, <2>3
<1> QED BY <1>1, <1>4, <1>5 DEF BudgetIsReserved

\* A reservation takes its amount once from the mission and once from its session.
LEMMA ReserveReserved ==
  ASSUME StateInv, WithinCaps, ReservedInv, NEW c \in Calls, Reserve(c)
  PROVE  ReservedInv'
<1> DEFINE a == Payment(c)
           s == policy[a.mission].session
<1>1. /\ a.mission \in Missions /\ a.amount \in Nat
      /\ s \in Sessions /\ session[s] \in [cap : Nat, spent : Nat]
  BY ReserveBalances, Shapes
<1>2. /\ spent' = [spent EXCEPT ![a.mission] = @ + a.amount]
      /\ session' = [session EXCEPT ![s].spent = @ + a.amount]
      /\ authorizations' = authorizations \cup {a}
      /\ policy' = policy
      /\ a \notin authorizations
  BY DEF Reserve, ReserveBudget, MayReserve
<1>3. /\ spent \in [Missions -> Nat]
      /\ session \in [Sessions -> [cap : Nat, spent : Nat] \cup {None}]
  BY DEF StateInv, TypeOK
<1>4. s = policy[a.mission].session
  OBVIOUS
<1> HIDE DEF a, s
<1>5. IsFiniteSet(Tinybars(authorizations'))
  BY <1>1, <1>2, TotalOfOneMore DEF ReservedInv
<1>6. ASSUME NEW m \in Missions
      PROVE  spent'[m] = Total({b \in authorizations' : b.mission = m})
  <2> DEFINE M == {b \in authorizations : b.mission = m}
  <2>1. IsFiniteSet(Tinybars(M)) /\ spent[m] = Total(M)
    BY FewerTinybars DEF ReservedInv, BudgetIsReserved
  <2>2. CASE m = a.mission
    <3>1. {b \in authorizations' : b.mission = m} = M \cup {a} /\ a \notin M
      BY <1>2, <2>2
    <3>2. spent'[m] = spent[m] + a.amount
      BY <1>2, <1>3, <2>2
    <3> QED BY <1>1, <2>1, <3>1, <3>2, TotalOfOneMore
  <2>3. CASE m # a.mission
    <3>1. {b \in authorizations' : b.mission = m} = M
      BY <1>2, <2>3
    <3>2. spent'[m] = spent[m]
      BY <1>2, <1>3, <2>3
    <3> QED BY <2>1, <3>1, <3>2
  <2> QED BY <2>2, <2>3
<1>7. ASSUME NEW r \in Sessions, session'[r] # None
      PROVE  session'[r].spent = Total({b \in authorizations' : policy'[b.mission].session = r})
  <2> DEFINE S == {b \in authorizations : policy[b.mission].session = r}
  <2>1. IsFiniteSet(Tinybars(S))
    BY FewerTinybars DEF ReservedInv
  <2>2. CASE r = s
    <3>1. /\ {b \in authorizations' : policy'[b.mission].session = r} = S \cup {a}
          /\ a \notin S
      BY <1>2, <1>4, <2>2
    <3>2. session'[r].spent = session[r].spent + a.amount /\ session[r] # None
      BY <1>1, <1>2, <1>3, <2>2, NoneAssumption
    <3>3. session[r].spent = Total(S)
      BY <3>2 DEF ReservedInv, BudgetIsReserved
    <3> QED BY <1>1, <2>1, <3>1, <3>2, <3>3, TotalOfOneMore
  <2>3. CASE r # s
    <3>1. {b \in authorizations' : policy'[b.mission].session = r} = S
      BY <1>2, <1>4, <2>3
    <3>2. session'[r] = session[r]
      BY <1>1, <1>2, <1>3, <2>3
    <3> QED BY <1>7, <3>1, <3>2 DEF ReservedInv, BudgetIsReserved
  <2> QED BY <2>2, <2>3
<1> QED BY <1>5, <1>6, <1>7 DEF ReservedInv, BudgetIsReserved

\* No step charges a budget otherwise.
LEMMA ReservedNext ==
  ASSUME StateInv, WithinCaps, ReservedInv, [Next]_vars
  PROVE  ReservedInv'
<1>1. CASE \E m \in Missions, p \in Policies : RegisterMissionPolicy(m, p)
  BY <1>1, RegisterReserved
<1>2. CASE \E c \in Calls : Reserve(c)
  BY <1>2, ReserveReserved
<1>3. CASE /\ ~\E m \in Missions, p \in Policies : RegisterMissionPolicy(m, p)
           /\ ~\E c \in Calls : Reserve(c)
  <2>1. UNCHANGED <<policy, session, spent, authorizations>>
    BY <1>3, MoneyUntouched
  <2> QED BY <2>1 DEF ReservedInv, BudgetIsReserved
<1> QED BY <1>1, <1>2, <1>3

\* No step reserves a nonce of a mission a second time.
LEMMA NonceNext ==
  ASSUME StateInv, OnePaymentPerNonce, [Next]_vars
  PROVE  OnePaymentPerNonce'
<1>1. CASE \E c \in Calls : Reserve(c)
  BY <1>1 DEF Reserve, MayReserve, OnePaymentPerNonce
<1>2. CASE \E m \in Missions, p \in Policies : RegisterMissionPolicy(m, p)
  BY <1>2 DEF RegisterMissionPolicy, OnePaymentPerNonce
<1>3. CASE UNCHANGED <<policy, session, spent, authorizations>>
  BY <1>3 DEF OnePaymentPerNonce
<1> QED BY <1>1, <1>2, <1>3, MoneyUntouched

\* Authorizations are never taken back.
LEMMA AuthorizationsGrow ==
  ASSUME StateInv, [Next]_vars
  PROVE  authorizations \subseteq authorizations'
  BY MoneyUntouched DEF Reserve, RegisterMissionPolicy

\* No step gives out what is not reserved.
LEMMA ReleasedNext ==
  ASSUME StateInv, ReleasedIsReserved, [Next]_vars
  PROVE  ReleasedIsReserved'
<1>1. CASE \E c \in Calls : Respond(c)
  BY <1>1 DEF Respond, store, StateInv, CallInv, CallOK, ReleasedIsReserved
<1>2. CASE ~\E c \in Calls : Respond(c)
  <2>1. released' = released
    BY <1>2 DEF Next, Handle, vars, store, process, RegisterMissionPolicy,
       SignCreditAcceptance, Authorize, ProofVerified, ProofRefused, Build,
       Reserve, ReserveRefused, Crash
  <2> QED BY <2>1, AuthorizationsGrow DEF ReleasedIsReserved
<1> QED BY <1>1, <1>2

------------------------------------------------------------------------------
(* The acceptance.                                                         *)

IntentInv == SeenInv /\ IntentBinding

\* Saving an acceptance leaves only those other payments behind whose calls had
\* read the store before.
LEMMA AcceptIntent ==
  ASSUME StateInv, IntentInv, NEW m \in Missions, NEW i \in Challenges \cup {None},
         SignCreditAcceptance(m, i)
  PROVE  IntentInv'
<1> USE DEF SignCreditAcceptance, process
<1>1. /\ acceptance \in [Missions -> [intent : Challenges \cup {None}] \cup {None}]
      /\ acceptance' = [acceptance EXCEPT ![m] = [intent |-> i]]
      /\ acceptance[m] = None /\ [intent |-> i] # None
      /\ \A c \in Calls : pc[c] \in Waiting => challenge[c].mission \in Missions
      /\ \A a \in authorizations : a.mission \in Missions
  <2>1. [intent |-> i] # None
    BY NoneAssumption, ChallengesAssumption
  <2>2. \A c \in Calls : pc[c] \in Waiting => challenge[c].mission \in Missions
    BY Shapes DEF StateInv, CallInv, CallOK
  <2> QED BY <2>1, <2>2 DEF StateInv, TypeOK, Payments
<1>2. SeenInv'
  <2>1. ASSUME NEW c \in Calls, pc[c] \in Waiting
        PROVE  /\ seen[c] # None => acceptance'[challenge[c].mission] # None
               /\ ~PaysBoundIntent(challenge[c])' => seen[c] = None
    <3>1. CASE challenge[c].mission = m
      BY <1>1, <2>1, <3>1 DEF IntentInv, SeenInv
    <3>2. CASE challenge[c].mission # m
      <4>1. acceptance'[challenge[c].mission] = acceptance[challenge[c].mission]
        BY <1>1, <2>1, <3>2
      <4>2. PaysBoundIntent(challenge[c])' <=> PaysBoundIntent(challenge[c])
        BY <4>1 DEF PaysBoundIntent, Binds
      <4> QED BY <2>1, <4>1, <4>2 DEF IntentInv, SeenInv
    <3> QED BY <3>1, <3>2
  <2>2. ASSUME NEW a \in authorizations
        PROVE  /\ pc[a.call] \in {"reserved"} \cup Ended
               /\ seen[a.call] # None => acceptance'[a.mission] # None
    BY <1>1 DEF IntentInv, SeenInv
  <2> QED BY <2>1, <2>2 DEF SeenInv
<1>3. IntentBinding'
  BY <1>1 DEF IntentInv, SeenInv, IntentBinding, ChallengeOf, Binds
<1> QED BY <1>2, <1>3 DEF IntentInv

\* A step that leaves the acceptances and the payments alone, and in which each
\* call keeps what it holds, stops waiting, or holds what it has just checked.
LEMMA CallIntent ==
  ASSUME StateInv, IntentInv, UNCHANGED <<acceptance, authorizations>>,
         \A d \in Calls :
           \/ /\ pc'[d] \in Waiting => pc[d] \in Waiting
              /\ pc[d] \in {"reserved"} \cup Ended => pc'[d] \in {"reserved"} \cup Ended
              /\ pc'[d] \in Waiting => challenge'[d] = challenge[d]
              /\ seen'[d] \in {seen[d], None}
           \/ /\ pc[d] = "idle"
              /\ pc'[d] \in Waiting
              /\ PaysBoundIntent(challenge'[d])
              /\ seen'[d] = acceptance[challenge'[d].mission]
  PROVE  IntentInv'
<1>1. \A ch : PaysBoundIntent(ch)' <=> PaysBoundIntent(ch)
  BY DEF PaysBoundIntent, Binds
<1>2. \A a \in authorizations : a.call \in Calls
  BY DEF StateInv, TypeOK, Payments
<1>3. \A a \in authorizations : seen'[a.call] \in {seen[a.call], None}
  BY <1>2 DEF IntentInv, SeenInv, Ended
<1>4. SeenInv'
  <2>1. ASSUME NEW d \in Calls, pc'[d] \in Waiting
        PROVE  /\ seen'[d] # None => acceptance[challenge'[d].mission] # None
               /\ ~PaysBoundIntent(challenge'[d]) => seen'[d] = None
    BY <2>1 DEF IntentInv, SeenInv
  <2>2. ASSUME NEW a \in authorizations
        PROVE  pc'[a.call] \in {"reserved"} \cup Ended
    BY <1>2 DEF IntentInv, SeenInv, Ended
  <2> QED BY <1>1, <1>3, <2>1, <2>2 DEF IntentInv, SeenInv, PaysBoundIntent, Binds
<1>5. IntentBinding'
  BY <1>3 DEF IntentInv, IntentBinding, Binds, ChallengeOf
<1> QED BY <1>4, <1>5 DEF IntentInv

\* The new authorization is for a challenge that passed the check when its call
\* read the acceptance.
LEMMA ReserveIntent ==
  ASSUME StateInv, IntentInv, NEW c \in Calls, Reserve(c)
  PROVE  IntentInv'
<1>1. /\ challenge[c] \in Challenges /\ pc[c] \in Waiting
      /\ ChallengeOf(Payment(c)) = challenge[c] /\ Payment(c).call = c
      /\ Payment(c).mission = challenge[c].mission
  BY PaymentShape DEF Reserve, StateInv, CallInv, CallOK, Waiting
<1>2. /\ authorizations' = authorizations \cup {Payment(c)}
      /\ pc \in [Calls -> {"idle"} \cup Waiting \cup Ended]
      /\ pc' = [pc EXCEPT ![c] = "reserved"]
      /\ UNCHANGED <<acceptance, challenge, seen>>
  BY DEF Reserve, StateInv, TypeOK
<1>3. SeenInv'
  <2>1. \A d \in Calls : pc'[d] \in Waiting => pc[d] \in Waiting
    BY <1>1, <1>2
  <2>2. \A a \in authorizations' :
          /\ pc'[a.call] \in {"reserved"} \cup Ended
          /\ seen[a.call] # None => acceptance[a.mission] # None
    <3>1. \A a \in authorizations : a.call \in Calls
      BY DEF StateInv, TypeOK, Payments
    <3> QED BY <1>1, <1>2, <3>1 DEF IntentInv, SeenInv, Ended
  <2> QED BY <1>2, <2>1, <2>2 DEF IntentInv, SeenInv, PaysBoundIntent, Binds
<1>4. IntentBinding'
  <2>1. ~PaysBoundIntent(challenge[c]) => seen[c] = None
    BY <1>1 DEF IntentInv, SeenInv
  <2> QED
    BY <1>1, <1>2, <2>1 DEF IntentInv, IntentBinding, PaysBoundIntent, Binds, ChallengeOf
<1> QED BY <1>3, <1>4 DEF IntentInv

\* No step reserves a payment that the acceptance read by its call forbids.
LEMMA IntentNext ==
  ASSUME StateInv, IntentInv, [Next]_vars
  PROVE  IntentInv'
<1>0. /\ pc \in [Calls -> {"idle"} \cup Waiting \cup Ended]
      /\ challenge \in [Calls -> Challenges \cup {None}]
      /\ seen \in [Calls -> [intent : Challenges \cup {None}] \cup {None}]
  BY DEF StateInv, TypeOK
<1>1. CASE \E m \in Missions, p \in Policies : RegisterMissionPolicy(m, p)
  BY <1>1, CallIntent DEF RegisterMissionPolicy, process
<1>2. CASE \E m \in Missions, i \in Challenges \cup {None} : SignCreditAcceptance(m, i)
  BY <1>2, AcceptIntent
<1>3. ASSUME NEW c \in Calls, NEW ch \in Challenges, Authorize(c, ch)
      PROVE  IntentInv'
  BY <1>0, <1>3, CallIntent DEF Authorize, Enqueue, Reject, store, Waiting, Ended
<1>4. ASSUME NEW c \in Calls, ProofVerified(c) \/ ProofRefused(c)
      PROVE  IntentInv'
  BY <1>0, <1>4, CallIntent
  DEF ProofVerified, ProofRefused, Enqueue, Reject, store, Waiting, Ended
<1>5. ASSUME NEW c \in Calls, Build(c) \/ ReserveRefused(c) \/ Respond(c)
      PROVE  IntentInv'
  BY <1>0, <1>5, CallIntent
  DEF Build, ReserveRefused, Respond, Reject, store, Waiting, Ended
<1>6. CASE Crash
  BY <1>0, <1>6, CallIntent DEF Crash, store, Waiting, Ended
<1>7. CASE UNCHANGED vars
  BY <1>7, CallIntent DEF vars
<1> QED
  BY <1>1, <1>2, <1>3, <1>4, <1>5, <1>6, <1>7, ReserveIntent DEF Next, Handle

------------------------------------------------------------------------------
(* The lines.  A call joins one in Enqueue and leaves it in Unlock.        *)

\* Every line is a sequence of calls, and who waits in one has a challenge.
LEMMA LineShapes ==
  ASSUME StateInv
  PROVE  /\ \A m \in Missions : queue[m] \in Seq(Calls)
         /\ \A m \in Missions : \A i \in 1..Len(queue[m]) : queue[m][i] \in Calls
         /\ \A c \in Calls : InLock(c) =>
              challenge[c] \in Challenges /\ challenge[c].mission \in Missions
<1>1. \A m \in Missions : queue[m] \in Seq(Calls)
  BY DEF StateInv, TypeOK
<1>2. \A m \in Missions : \A i \in 1..Len(queue[m]) : queue[m][i] \in Calls
  BY <1>1
<1> QED BY <1>1, <1>2, Shapes DEF StateInv, CallInv, CallOK, Waiting, InLock

\* A step that leaves the lines and those who wait in them alone.
LEMMA LineUntouched ==
  ASSUME StateInv, LineInv, UNCHANGED queue,
         \A c \in Calls : /\ InLock(c)' <=> InLock(c)
                          /\ InLock(c) => challenge'[c] = challenge[c]
  PROVE  LineInv'
<1>1. ASSUME NEW m \in Missions, NEW i \in 1..Len(queue'[m])
      PROVE  (InLock(queue[m][i]) /\ challenge[queue[m][i]].mission = m)'
  BY <1>1, LineShapes DEF LineInv, InLock
<1>2. ASSUME NEW c \in Calls, InLock(c)'
      PROVE  (\E i \in 1..Len(queue[challenge[c].mission]) :
                queue[challenge[c].mission][i] = c)'
  BY <1>2, LineShapes DEF LineInv
<1> QED BY <1>1, <1>2 DEF LineInv

\* A call that joins the end of a line is in no line yet.
LEMMA LineJoined ==
  ASSUME StateInv, LineInv, NEW c \in Calls, ~InLock(c), NEW ch \in Challenges,
         pc' = [pc EXCEPT ![c] = "queued"], challenge' = [challenge EXCEPT ![c] = ch],
         queue' = [queue EXCEPT ![ch.mission] = Append(@, c)]
  PROVE  LineInv'
<1> DEFINE q == queue[ch.mission]
<1>0. /\ ch.mission \in Missions /\ q \in Seq(Calls)
      /\ queue'[ch.mission] = Append(q, c)
      /\ \A m \in Missions : m # ch.mission => queue'[m] = queue[m]
      /\ InLock(c)' /\ challenge'[c] = ch
      /\ \A d \in Calls \ {c} : (InLock(d)' <=> InLock(d)) /\ challenge'[d] = challenge[d]
  BY Shapes, LineShapes DEF StateInv, TypeOK, InLock
<1>1. /\ Len(queue'[ch.mission]) = Len(q) + 1 /\ queue'[ch.mission][Len(q) + 1] = c
      /\ \A i \in 1..Len(q) : queue'[ch.mission][i] = q[i] /\ q[i] \in Calls
      /\ Len(q) \in Nat
  BY <1>0
<1>2. \A m \in Missions : \A i \in 1..Len(queue[m]) : queue[m][i] \in Calls \ {c}
  BY LineShapes DEF LineInv
<1> HIDE DEF q
<1>3. ASSUME NEW m \in Missions, NEW i \in 1..Len(queue'[m])
      PROVE  (InLock(queue[m][i]) /\ challenge[queue[m][i]].mission = m)'
  <2>1. CASE m = ch.mission /\ i = Len(q) + 1
    BY <1>0, <1>1, <2>1 DEF InLock
  <2>2. CASE m # ch.mission \/ i \in 1..Len(q)
    <3>1. i \in 1..Len(queue[m]) /\ queue'[m][i] = queue[m][i]
      BY <1>0, <1>1, <1>3, <2>2 DEF q
    <3> QED BY <1>0, <1>2, <3>1 DEF LineInv, InLock
  <2> QED BY <1>1, <1>3, <2>1, <2>2
<1>4. ASSUME NEW m \in Missions, NEW i \in 1..Len(queue'[m]), NEW j \in 1..Len(queue'[m]),
             queue'[m][i] = queue'[m][j]
      PROVE  i = j
  <2>1. CASE m = ch.mission
    BY <1>0, <1>1, <1>2, <1>4, <2>1 DEF LineInv, q
  <2>2. CASE m # ch.mission
    BY <1>0, <1>4, <2>2 DEF LineInv
  <2> QED BY <2>1, <2>2
<1>5. ASSUME NEW d \in Calls, InLock(d)'
      PROVE  (\E i \in 1..Len(queue[challenge[d].mission]) :
                queue[challenge[d].mission][i] = d)'
  <2>1. CASE d = c
    BY <1>0, <1>1, <2>1
  <2>2. CASE d # c
    <3>1. PICK i \in 1..Len(queue[challenge[d].mission]) :
            queue[challenge[d].mission][i] = d
      BY <1>0, <1>5, <2>2 DEF LineInv
    <3>2. /\ challenge[d].mission \in Missions
          /\ i \in 1..Len(queue'[challenge[d].mission])
          /\ queue'[challenge[d].mission][i] = d
      BY <1>0, <1>1, <1>5, <2>2, <3>1, LineShapes DEF q
    <3> QED BY <1>0, <2>2, <3>2
  <2> QED BY <2>1, <2>2
<1> QED BY <1>3, <1>4, <1>5 DEF LineInv

\* The call at the head leaves its line and is in no other.
LEMMA LineLeft ==
  ASSUME StateInv, LineInv, NEW c \in Calls, pc[c] = "building", Unlock(c),
         NEW s, s \notin {"queued", "building"}, pc' = [pc EXCEPT ![c] = s],
         \A d \in Calls \ {c} : challenge'[d] = challenge[d]
  PROVE  LineInv'
<1> DEFINE n == challenge[c].mission
           q == queue[n]
<1>0. /\ n \in Missions /\ q \in Seq(Calls) /\ q # <<>> /\ Head(q) = c
      /\ queue'[n] = Tail(q)
      /\ \A m \in Missions : m # n => queue'[m] = queue[m]
      /\ ~InLock(c)'
      /\ \A d \in Calls \ {c} : InLock(d)' <=> InLock(d)
  BY LineShapes DEF Unlock, StateInv, TypeOK, CallInv, CallOK, HoldsLock, InLock
<1>1. /\ Len(q) \in Nat \ {0} /\ q[1] = c
      /\ Len(queue'[n]) = Len(q) - 1
      /\ \A i \in 1..Len(queue'[n]) : queue'[n][i] = q[i + 1]
  BY <1>0
<1>2. /\ \A i \in 1..Len(q) : q[i] = c => i = 1
      /\ \A m \in Missions : m # n => \A i \in 1..Len(queue[m]) : queue[m][i] \in Calls \ {c}
      /\ \A i \in 1..Len(q) : q[i] \in Calls
  BY <1>0, <1>1, LineShapes DEF LineInv
<1> HIDE DEF n, q
<1>3. ASSUME NEW m \in Missions, NEW i \in 1..Len(queue'[m])
      PROVE  \E k \in 1..Len(queue[m]) : /\ queue'[m][i] = queue[m][k]
                                         /\ queue[m][k] \in Calls \ {c}
                                         /\ k = IF m = n THEN i + 1 ELSE i
  <2>1. CASE m = n
    <3>1. i + 1 \in 1..Len(q) /\ i + 1 # 1
      BY <1>1, <1>3, <2>1
    <3> QED BY <1>0, <1>1, <1>2, <1>3, <2>1, <3>1 DEF q
  <2>2. CASE m # n
    BY <1>0, <1>2, <1>3, <2>2
  <2> QED BY <2>1, <2>2
<1>4. ASSUME NEW m \in Missions, NEW i \in 1..Len(queue'[m])
      PROVE  (InLock(queue[m][i]) /\ challenge[queue[m][i]].mission = m)'
  <2>1. PICK k \in 1..Len(queue[m]) :
          queue'[m][i] = queue[m][k] /\ queue[m][k] \in Calls \ {c}
    BY <1>3, <1>4
  <2>2. InLock(queue[m][k]) /\ challenge[queue[m][k]].mission = m
    BY <2>1 DEF LineInv
  <2> QED BY <1>0, <2>1, <2>2 DEF InLock
<1>5. ASSUME NEW m \in Missions, NEW i \in 1..Len(queue'[m]), NEW j \in 1..Len(queue'[m]),
             queue'[m][i] = queue'[m][j]
      PROVE  i = j
  <2> DEFINE Before(k) == IF m = n THEN k + 1 ELSE k
  <2>1. /\ Before(i) \in 1..Len(queue[m]) /\ queue'[m][i] = queue[m][Before(i)]
        /\ Before(j) \in 1..Len(queue[m]) /\ queue'[m][j] = queue[m][Before(j)]
    BY <1>3, <1>5
  <2>2. \A k, l \in 1..Len(queue[m]) : queue[m][k] = queue[m][l] => k = l
    BY DEF LineInv
  <2>3. Before(i) = Before(j)
    <3> HIDE DEF Before
    <3> QED BY <1>5, <2>1, <2>2
  <2> QED BY <1>5, <2>3
<1>6. ASSUME NEW d \in Calls, InLock(d)'
      PROVE  (\E i \in 1..Len(queue[challenge[d].mission]) :
                queue[challenge[d].mission][i] = d)'
  <2>1. d # c /\ InLock(d) /\ challenge'[d] = challenge[d] /\ challenge[d].mission \in Missions
    BY <1>0, <1>6, LineShapes
  <2>2. PICK i \in 1..Len(queue[challenge[d].mission]) :
          queue[challenge[d].mission][i] = d
    BY <2>1 DEF LineInv
  <2>3. CASE challenge[d].mission = n
    <3>1. i - 1 \in 1..Len(queue'[n]) /\ queue'[n][i - 1] = d
      BY <1>1, <2>1, <2>2, <2>3 DEF q
    <3> QED BY <2>1, <2>3, <3>1
  <2>4. CASE challenge[d].mission # n
    BY <1>0, <2>1, <2>2, <2>4
  <2> QED BY <2>3, <2>4
<1> QED BY <1>4, <1>5, <1>6 DEF LineInv

\* No step puts a call in a line twice, loses one from it or lets one pass.
LEMMA LineNext ==
  ASSUME StateInv, LineInv, [Next]_vars
  PROVE  LineInv'
<1>0. /\ pc \in [Calls -> {"idle"} \cup Waiting \cup Ended]
      /\ challenge \in [Calls -> Challenges \cup {None}]
  BY DEF StateInv, TypeOK
<1>1. CASE \E m \in Missions, p \in Policies : RegisterMissionPolicy(m, p)
  BY <1>1, LineUntouched DEF RegisterMissionPolicy, process, InLock
<1>2. CASE \E m \in Missions, i \in Challenges \cup {None} : SignCreditAcceptance(m, i)
  BY <1>2, LineUntouched DEF SignCreditAcceptance, process, InLock
<1>3. ASSUME NEW c \in Calls, NEW ch \in Challenges, NEW acc, Enqueue(c, ch, acc), ~InLock(c)
      PROVE  LineInv'
  <2>1. CASE Approved(ch)
    BY <1>3, <2>1, LineJoined DEF Enqueue
  <2>2. CASE ~Approved(ch)
    BY <1>0, <1>3, <2>2, LineUntouched DEF Enqueue, Reject, InLock
  <2> QED BY <2>1, <2>2
<1>4. ASSUME NEW c \in Calls, NEW ch \in Challenges, Authorize(c, ch)
      PROVE  LineInv'
  <2>1. CASE PaysBoundIntent(ch) /\ ~zkMode
    BY <1>3, <1>4, <2>1 DEF Authorize, InLock
  <2>2. CASE ~(PaysBoundIntent(ch) /\ ~zkMode)
    BY <1>0, <1>4, <2>2, LineUntouched DEF Authorize, Reject, InLock
  <2> QED BY <2>1, <2>2
<1>5. ASSUME NEW c \in Calls, ProofVerified(c)
      PROVE  LineInv'
  BY <1>3, <1>5 DEF ProofVerified, StateInv, CallInv, CallOK, Waiting, InLock
<1>6. ASSUME NEW c \in Calls, ProofRefused(c) \/ Build(c) \/ Respond(c)
      PROVE  LineInv'
  BY <1>0, <1>6, LineUntouched DEF ProofRefused, Build, Respond, Reject, InLock
<1>7. ASSUME NEW c \in Calls, Reserve(c) \/ ReserveRefused(c)
      PROVE  LineInv'
  BY <1>0, <1>7, LineLeft DEF Reserve, ReserveRefused, Reject
<1>8. CASE Crash
  BY <1>0, <1>8 DEF Crash, LineInv, InLock, Waiting
<1>9. CASE UNCHANGED vars
  BY <1>9, LineUntouched DEF vars, InLock
<1> QED BY <1>1, <1>2, <1>4, <1>5, <1>6, <1>7, <1>8, <1>9 DEF Next, Handle

------------------------------------------------------------------------------
(* Theorems                                                                *)

\* Every behaviour keeps the inductive invariant.
THEOREM Invariance == Spec => []IInv
<1>1. IInv /\ [Next]_vars => IInv'
  BY StateNext, CapsNext, NonceNext, ReleasedNext, IntentNext, LineNext, ReservedNext
  DEF IInv, IntentInv
<1> QED BY InitInv, <1>1, PTL DEF Spec

\* Every variable keeps its shape.
THEOREM TypeCorrect == Spec => []TypeOK
<1>1. IInv => TypeOK BY DEF IInv, StateInv
<1> QED BY Invariance, <1>1, PTL

\* No mission and no session is ever charged beyond its cap, and only the
\* mission's provider is paid.
THEOREM CapsHold == Spec => []WithinCaps
<1>1. IInv => WithinCaps BY DEF IInv
<1> QED BY Invariance, <1>1, PTL

\* Each balance is the sum of what was reserved against it.
THEOREM BudgetsAddUp == Spec => []BudgetIsReserved
<1>1. IInv => BudgetIsReserved BY DEF IInv, ReservedInv
<1> QED BY Invariance, <1>1, PTL

\* A nonce of a mission pays at most once.
THEOREM NoncesPayOnce == Spec => []OnePaymentPerNonce
<1>1. IInv => OnePaymentPerNonce BY DEF IInv
<1> QED BY Invariance, <1>1, PTL

\* Nothing leaves the process that is not reserved.
THEOREM BytesAreReserved == Spec => []ReleasedIsReserved
<1>1. IInv => ReleasedIsReserved BY DEF IInv
<1> QED BY Invariance, <1>1, PTL

\* A payment other than the accepted intent was checked before the acceptance.
THEOREM IntentIsBinding == Spec => []IntentBinding
<1>1. IInv => IntentBinding BY DEF IInv
<1> QED BY Invariance, <1>1, PTL

\* One authorization of a mission builds at a time, and a line holds exactly the
\* calls that wait for its lock or hold it.
THEOREM BuildersAreAlone == Spec => []OneBuilderPerMission
<1>1. IInv => OneBuilderPerMission
  <2> SUFFICES ASSUME IInv PROVE OneBuilderPerMission
    OBVIOUS
  <2>1. \A c, d \in Calls :
          pc[c] = "building" /\ pc[d] = "building"
            /\ challenge[c].mission = challenge[d].mission => c = d
    BY DEF IInv, StateInv, CallInv, CallOK, HoldsLock
  <2>2. \A c \in Calls : pc[c] \in {"queued", "building"} <=>
          \E m \in Missions : \E i \in 1..Len(queue[m]) : queue[m][i] = c
    BY LineShapes DEF IInv, LineInv, InLock
  <2> QED BY <2>1, <2>2 DEF OneBuilderPerMission
<1> QED BY Invariance, <1>1, PTL

------------------------------------------------------------------------------
(* The refinement.                                                         *)

\* The balances that the budget specification sees.
MissionLeft ==
  [m \in Missions |-> IF policy[m] = None THEN None ELSE policy[m].cap - spent[m]]
SessionOf ==
  [m \in Missions |-> IF policy[m] = None THEN None ELSE policy[m].session]
SessionLeft ==
  [s \in Sessions |-> IF session[s] = None THEN None
                                           ELSE session[s].cap - session[s].spent]

\* A registration opens the mission in the abstract specification.
LEMMA RegisterOpens ==
  ASSUME IInv, NEW m \in Missions, NEW p \in Policies, RegisterMissionPolicy(m, p)
  PROVE  Budget!Open(m, p.session, p.cap, p.sessionCap)
<1>1. /\ policy' = [policy EXCEPT ![m] = p] /\ policy[m] = None
      /\ spent' = [spent EXCEPT ![m] = 0]
      /\ session' = [session EXCEPT ![p.session] = SessionFor(p)]
      /\ UNCHANGED <<authorizations, released>>
  BY DEF RegisterMissionPolicy
<1>2. /\ policy \in [Missions -> Policies \cup {None}]
      /\ spent \in [Missions -> Nat]
      /\ session \in [Sessions -> [cap : Nat, spent : Nat] \cup {None}]
  BY DEF IInv, StateInv, TypeOK
<1>3. p # None /\ p.cap \in Nat /\ p.sessionCap \in Nat /\ p.session \in Sessions
  BY Shapes
<1>4. MissionLeft[m] = None /\ MissionLeft' = [MissionLeft EXCEPT ![m] = p.cap]
  <2>1. policy'[m] = p /\ spent'[m] = 0
    BY <1>1, <1>2
  <2>2. \A n \in Missions \ {m} : policy'[n] = policy[n] /\ spent'[n] = spent[n]
    BY <1>1, <1>2
  <2>3. MissionLeft'[m] = p.cap
    BY <1>3, <2>1 DEF MissionLeft
  <2>4. \A n \in Missions \ {m} : MissionLeft'[n] = MissionLeft[n]
    BY <2>2 DEF MissionLeft
  <2>5. MissionLeft[m] = None
    BY <1>1 DEF MissionLeft
  <2>6. /\ MissionLeft = [n \in Missions |-> MissionLeft[n]]
        /\ MissionLeft' = [n \in Missions |-> MissionLeft'[n]]
    BY DEF MissionLeft
  <2> QED BY <2>3, <2>4, <2>5, <2>6
<1>5. SessionOf' = [SessionOf EXCEPT ![m] = p.session]
  BY <1>1, <1>2, <1>3 DEF SessionOf
<1>6. SessionLeft' = IF SessionLeft[p.session] = None
                       THEN [SessionLeft EXCEPT ![p.session] = p.sessionCap]
                       ELSE SessionLeft
  <2>1. CASE session[p.session] = None
    <3>1. [cap |-> p.sessionCap, spent |-> 0] # None
      BY <1>3, NoneAssumption
    <3> QED
      BY <1>1, <1>2, <1>3, <2>1, <3>1 DEF SessionLeft, SessionFor
  <2>2. CASE session[p.session] # None
    <3>1. session[p.session] \in [cap : Nat, spent : Nat]
      BY <1>2, <1>3, <2>2
    <3>2. session[p.session].cap - session[p.session].spent \in Nat
      BY <1>3, <2>2, <3>1 DEF IInv, WithinCaps
    <3>3. session' = session
      BY <1>1, <1>2, <1>3, <2>2 DEF SessionFor
    <3> QED
      BY <1>3, <2>2, <3>2, <3>3, NoneAssumption DEF SessionLeft
  <2> QED BY <2>1, <2>2
<1> QED
  BY <1>1, <1>4, <1>5, <1>6 DEF Budget!Open, MissionLeft, SessionOf, SessionLeft

\* A reservation is a grant out of both abstract budgets.
LEMMA ReserveGrants ==
  ASSUME IInv, NEW c \in Calls, Reserve(c)
  PROVE  \E p \in Payments : Budget!Grant(p)
<1>0. PICK a : a = Payment(c)
  OBVIOUS
<1> DEFINE s == policy[a.mission].session
<1>1. /\ a \in Payments /\ a.mission \in Missions /\ a.amount \in Nat
      /\ policy[a.mission] \in Policies
      /\ policy[a.mission] # None /\ policy[a.mission].cap \in Nat
      /\ s \in Sessions /\ session[s] \in [cap : Nat, spent : Nat]
      /\ spent[a.mission] \in Nat
  BY <1>0, ReserveBalances, Shapes DEF IInv
<1>2. /\ spent' = [spent EXCEPT ![a.mission] = @ + a.amount]
      /\ session' = [session EXCEPT ![s].spent = @ + a.amount]
      /\ authorizations' = authorizations \cup {a}
      /\ UNCHANGED <<policy, released>>
      /\ \A b \in authorizations : <<b.mission, b.nonce>> # <<a.mission, a.nonce>>
      /\ a.amount > 0
      /\ spent[a.mission] + a.amount <= policy[a.mission].cap
      /\ session[s].spent + a.amount <= session[s].cap
  BY <1>0 DEF Reserve, ReserveBudget, MayReserve
<1>3. /\ policy \in [Missions -> Policies \cup {None}]
      /\ spent \in [Missions -> Nat]
      /\ session \in [Sessions -> [cap : Nat, spent : Nat] \cup {None}]
  BY DEF IInv, StateInv, TypeOK
<1>4. session[s] # None
  BY <1>1, NoneAssumption
<1>h. SessionOf[a.mission] = s
  BY <1>1 DEF SessionOf
<1> HIDE DEF s
<1>5. /\ MissionLeft[a.mission] = policy[a.mission].cap - spent[a.mission]
      /\ MissionLeft[a.mission] # None
      /\ a.amount \in 1..MissionLeft[a.mission]
  <2>1. MissionLeft[a.mission] = policy[a.mission].cap - spent[a.mission]
    BY <1>1 DEF MissionLeft
  <2>2. policy[a.mission].cap - spent[a.mission] \in Nat
    BY <1>1, <1>2
  <2> QED BY <1>1, <1>2, <2>1, <2>2, NoneAssumption
<1>6. SessionLeft[s] = session[s].cap - session[s].spent /\ a.amount <= SessionLeft[s]
  BY <1>1, <1>2, <1>4 DEF SessionLeft
<1>7. MissionLeft' = [MissionLeft EXCEPT ![a.mission] = @ - a.amount]
  BY <1>1, <1>2, <1>3 DEF MissionLeft
<1>8. SessionLeft' = [SessionLeft EXCEPT ![s] = @ - a.amount]
  <2>1. session'[s] = [cap |-> session[s].cap, spent |-> session[s].spent + a.amount]
    BY <1>1, <1>2, <1>3
  <2>2. session'[s] # None
    BY <1>1, <2>1, NoneAssumption
  <2>3. SessionLeft'[s] = SessionLeft[s] - a.amount
    BY <1>1, <1>4, <2>1, <2>2 DEF SessionLeft
  <2>4. \A t \in Sessions \ {s} : session'[t] = session[t]
    BY <1>1, <1>2, <1>3
  <2> QED BY <1>1, <2>3, <2>4 DEF SessionLeft
<1>9. SessionOf' = SessionOf
  BY <1>2 DEF SessionOf
<1>10. Budget!Grant(a)
  BY <1>2, <1>5, <1>6, <1>7, <1>8, <1>9, <1>h
  DEF Budget!Grant, MissionLeft, SessionOf, SessionLeft
<1> QED BY <1>1, <1>10

\* The gate implements the budget specification, whatever the interleaving.
THEOREM GateImplementsBudget == Spec => ImplementsBudget
<1>1. Init => Budget!Init
  BY DEF Init, Budget!Init
<1>2. IInv /\ [Next]_vars => [Budget!Next]_Budget!vars
  <2> SUFFICES ASSUME IInv, [Next]_vars PROVE [Budget!Next]_Budget!vars
    OBVIOUS
  <2>1. ASSUME NEW m \in Missions, NEW p \in Policies, RegisterMissionPolicy(m, p)
        PROVE  Budget!Next
    <3>1. p.session \in Sessions
      BY Shapes
    <3> QED BY <2>1, <3>1, RegisterOpens DEF Budget!Next
  <2>2. ASSUME NEW c \in Calls, Reserve(c)
        PROVE  Budget!Next
    BY <2>2, ReserveGrants, Zenon DEF Budget!Next
  <2>3. ASSUME NEW c \in Calls, Respond(c)
        PROVE  Budget!Next
    <3>1. Payment(c) \in Payments /\ Payment(c) \in authorizations
      BY <2>3, PaymentShape DEF Respond, IInv, StateInv, CallInv, CallOK, Waiting
    <3> QED
      BY <2>3, <3>1 DEF Respond, store, Budget!Next, Budget!Release
  <2>4. CASE /\ ~\E m \in Missions, p \in Policies : RegisterMissionPolicy(m, p)
             /\ ~\E c \in Calls : Reserve(c) \/ Respond(c)
    <3>1. UNCHANGED <<policy, session, spent, authorizations>>
      BY <2>4, MoneyUntouched DEF IInv
    <3>2. released' = released
      BY <2>4 DEF Next, Handle, vars, SignCreditAcceptance, Authorize, ProofVerified,
         ProofRefused, Build, ReserveRefused, Crash
    <3> QED BY <3>1, <3>2 DEF Budget!vars
  <2> QED BY <2>1, <2>2, <2>3, <2>4
<1> QED BY <1>1, <1>2, Invariance, PTL DEF Spec, ImplementsBudget, Budget!Spec
==============================================================================
