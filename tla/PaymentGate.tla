----------------------------- MODULE PaymentGate -----------------------------
(***************************************************************************)
(* The payment gate of the restricted signer                               *)
(* (services/restricted-signer/src/gate.ts) over the signer's SQLite store *)
(* (store.ts, packages/persistence/src/nonces.ts).                         *)
(*                                                                         *)
(* The store survives a crash: mission policies, spending sessions, the    *)
(* acceptance of each mission and the reserved authorizations.  A call of  *)
(* POST /authorize is a little process: it reads the policy and the        *)
(* acceptance, in zk mode waits for the proof check, queues on the lock of *)
(* its mission, builds and signs a transfer, reserves it in one database   *)
(* transaction and answers.  Between those steps other handlers run and    *)
(* the process may crash.                                                  *)
(*                                                                         *)
(* A challenge stands for a normalised one: the bindings of network,       *)
(* asset, URL and resource hash that normalizeChallenge enforces hold.     *)
(* The commitment is a hash of the whole challenge, so two challenges have *)
(* the same commitment exactly when they are equal.                        *)
(***************************************************************************)
EXTENDS Integers, Sequences, FiniteSets

CONSTANTS
  Missions, Sessions, Nonces, Providers,
  Policies,    \* mission policies an operator may register
  Challenges,  \* payment challenges the callers may bring
  Calls,       \* POST /authorize requests; each is made at most once
  MaxCrashes,  \* bound on crashes
  None

ChallengeRecords ==
  [mission : Missions, nonce : Nonces, recipient : Providers, amount : Nat]

\* What reserveAuthorization stores and /authorize returns: the challenge that
\* is paid, with the bytes built for it, which differ from call to call.
Payments ==
  [mission : Missions, nonce : Nonces, recipient : Providers,
   amount : {ch.amount : ch \in Challenges}, call : Calls]

PolicyRecords ==
  [session : Sessions, cap : Nat, sessionCap : Nat, provider : Providers]

\* Amounts and caps are tinybar strings, parsed to unbounded bigints.
ASSUME ChallengesAssumption == Challenges \subseteq ChallengeRecords
ASSUME PoliciesAssumption == Policies \subseteq PolicyRecords
ASSUME CrashAssumption == MaxCrashes \in Nat
ASSUME NoneAssumption ==
  /\ None \notin PolicyRecords \cup ChallengeRecords \cup Nat \cup Sessions
  /\ None \notin [cap : Nat, spent : Nat]
  /\ None \notin [intent : ChallengeRecords \cup {None}]

VARIABLES
  \* the store
  policy,          \* signer_mission_policies
  session,         \* spending_sessions: cap and spent amount
  spent,           \* missions.spent_tinybar
  acceptance,      \* signer_acceptances: the payment intent it binds, or None
  authorizations,  \* consumed_nonces and signer_authorizations
  \* the process
  zkMode,          \* deployment configuration: proofMode = "zk"
  pc,              \* where each call is
  challenge,       \* the challenge of each call
  seen,            \* the acceptance each call has read
  queue,           \* KeyedMutex: the calls that hold or await a mission's lock
  \* the outside
  released,        \* authorizations given out to callers
  crashes

store == <<policy, session, spent, acceptance, authorizations>>
process == <<zkMode, pc, challenge, seen, queue>>
vars == <<policy, session, spent, acceptance, authorizations,
          zkMode, pc, challenge, seen, queue, released, crashes>>

Waiting == {"proving", "queued", "building", "reserved"}
Ended == {"answered", "rejected", "lost"}

\* The authorization that call c has built for its challenge.
Payment(c) ==
  [mission |-> challenge[c].mission, nonce |-> challenge[c].nonce,
   recipient |-> challenge[c].recipient, amount |-> challenge[c].amount,
   call |-> c]

ChallengeOf(a) ==
  [mission |-> a.mission, nonce |-> a.nonce,
   recipient |-> a.recipient, amount |-> a.amount]

\* An acceptance that carries a payment intent hash.
Binds(acc) == acc # None /\ acc.intent # None

Init ==
  /\ policy = [m \in Missions |-> None]
  /\ session = [s \in Sessions |-> None]
  /\ spent = [m \in Missions |-> 0]
  /\ acceptance = [m \in Missions |-> None]
  /\ authorizations = {}
  /\ zkMode \in BOOLEAN
  /\ pc = [c \in Calls |-> "idle"]
  /\ challenge = [c \in Calls |-> None]
  /\ seen = [c \in Calls |-> None]
  /\ queue = [m \in Missions |-> <<>>]
  /\ released = {}
  /\ crashes = 0

------------------------------------------------------------------------------
(* The operator and the consumer's credit acceptance.                      *)

\* Broken form of SessionFor: a later, lower session cap replaces the stored one
\* and the amount spent is forgotten.
SessionForNewest(p) == [cap |-> p.sessionCap, spent |-> 0]

\* The session of a policy once that policy is registered.
SessionFor(p) ==
  IF session[p.session] = None THEN [cap |-> p.sessionCap, spent |-> 0]
                               ELSE session[p.session]

\* POST /internal/missions/register: one immutable policy per mission.  The first mission of a
\* session fixes the session's cap; a later one may not name a higher cap.
\* An identical retry and every refusal leave the store as it is.
RegisterMissionPolicy(m, p) ==
  /\ policy[m] = None
  /\ session[p.session] # None => p.sessionCap <= session[p.session].cap
  /\ policy' = [policy EXCEPT ![m] = p]
  /\ session' = [session EXCEPT ![p.session] = SessionFor(p)]
  /\ spent' = [spent EXCEPT ![m] = 0]
  /\ UNCHANGED <<acceptance, authorizations, process, released, crashes>>

\* In zk mode an acceptance names the payment it is for, and that payment must
\* be one the mission policy allows; otherwise the intent is optional and is
\* bound by its hash alone.
IntentAllowed(m, i) ==
  IF zkMode
    THEN /\ i # None
         /\ i.mission = m
         /\ i.recipient = policy[m].provider
         /\ i.amount <= policy[m].cap
    ELSE TRUE

\* POST /sign/credit-acceptance: one acceptance per mission, for good.  The
\* request and the policy it reads before waiting for the proof never change,
\* so the wait hides nothing and the handler is one step.
SignCreditAcceptance(m, i) ==
  /\ policy[m] # None
  /\ acceptance[m] = None
  /\ IntentAllowed(m, i)
  /\ acceptance' = [acceptance EXCEPT ![m] = [intent |-> i]]
  /\ UNCHANGED <<policy, session, spent, authorizations, process, released, crashes>>

------------------------------------------------------------------------------
(* POST /authorize                                                         *)

Reject(c) ==
  /\ pc' = [pc EXCEPT ![c] = "rejected"]
  /\ challenge' = [challenge EXCEPT ![c] = None]
  /\ seen' = [seen EXCEPT ![c] = None]

\* Recipient and cap of a challenge against the trusted policy.
Approved(ch) ==
  /\ ch.recipient = policy[ch.mission].provider
  /\ ch.amount <= policy[ch.mission].cap

\* KeyedMutex.run: a call that passes the checks joins the line of its mission.
Enqueue(c, ch, acc) ==
  IF Approved(ch)
    THEN /\ pc' = [pc EXCEPT ![c] = "queued"]
         /\ challenge' = [challenge EXCEPT ![c] = ch]
         /\ queue' = [queue EXCEPT ![ch.mission] = Append(@, c)]
         /\ seen' = [seen EXCEPT ![c] = acc]
    ELSE Reject(c) /\ UNCHANGED queue

\* Broken form of PaysBoundIntent: the acceptance is not consulted.
AnyIntent(ch) == TRUE

\* A mission whose acceptance binds a payment intent pays that intent only.
PaysBoundIntent(ch) ==
  Binds(acceptance[ch.mission]) => acceptance[ch.mission].intent = ch

\* The synchronous beginning of the handler: policy, normalised challenge and
\* acceptance are read.  In zk mode it ends at the wait for the proof check,
\* otherwise in the line for the lock.
Authorize(c, ch) ==
  /\ pc[c] = "idle"
  /\ policy[ch.mission] # None
  /\ IF ~PaysBoundIntent(ch)
       THEN Reject(c) /\ UNCHANGED queue
       ELSE IF zkMode
         THEN /\ pc' = [pc EXCEPT ![c] = "proving"]
              /\ challenge' = [challenge EXCEPT ![c] = ch]
              /\ seen' = [seen EXCEPT ![c] = acceptance[ch.mission]]
              /\ UNCHANGED queue
         ELSE Enqueue(c, ch, acceptance[ch.mission])
  /\ UNCHANGED <<store, zkMode, released, crashes>>

\* The proof check has answered.
ProofVerified(c) ==
  /\ pc[c] = "proving"
  /\ Enqueue(c, challenge[c], seen[c])
  /\ UNCHANGED <<store, zkMode, released, crashes>>

ProofRefused(c) ==
  /\ pc[c] = "proving"
  /\ Reject(c)
  /\ UNCHANGED <<store, zkMode, queue, released, crashes>>

\* Broken form of HoldsLock: the task runs without awaiting its predecessor.
HoldsNoLock(c) == TRUE

HoldsLock(c) ==
  LET q == queue[challenge[c].mission] IN q # <<>> /\ Head(q) = c

\* Broken form of Unlock: the lock is not released when the task ends.
UnlockForgotten(c) == UNCHANGED queue

Unlock(c) ==
  queue' = [queue EXCEPT ![challenge[c].mission] = Tail(@)]

\* The lock is granted and the transfer is being built.
Build(c) ==
  /\ pc[c] = "queued"
  /\ HoldsLock(c)
  /\ pc' = [pc EXCEPT ![c] = "building"]
  /\ UNCHANGED <<store, zkMode, challenge, seen, queue, released, crashes>>

\* Broken form of MayReserve: only the mission's own budget is checked.
MayReserveMission(a) ==
  LET m == a.mission
  IN /\ \A b \in authorizations : <<b.mission, b.nonce>> # <<m, a.nonce>>
     /\ \A b \in authorizations : ChallengeOf(b) # ChallengeOf(a)
     /\ a.amount > 0
     /\ spent[m] + a.amount <= policy[m].cap

\* Broken form of MayReserve: uniqueness rests on the commitment alone.
MayReserveCommitment(a) ==
  LET m == a.mission
      s == policy[m].session
  IN /\ \A b \in authorizations : ChallengeOf(b) # ChallengeOf(a)
     /\ a.amount > 0
     /\ spent[m] + a.amount <= policy[m].cap
     /\ session[s].spent + a.amount <= session[s].cap

\* reserveSpending: the nonce is new for the mission, the commitment is new,
\* and both budgets hold the amount.
MayReserve(a) ==
  LET m == a.mission
      s == policy[m].session
  IN /\ \A b \in authorizations : <<b.mission, b.nonce>> # <<m, a.nonce>>
     /\ \A b \in authorizations : ChallengeOf(b) # ChallengeOf(a)
     /\ a.amount > 0
     /\ spent[m] + a.amount <= policy[m].cap
     /\ session[s].spent + a.amount <= session[s].cap

\* Broken form of ReserveBudget: the session is not charged.
ReserveMissionBudget(a) ==
  /\ spent' = [spent EXCEPT ![a.mission] = @ + a.amount]
  /\ UNCHANGED session

\* Broken form of ReserveBudget: the session counter runs downwards.
ReserveReversed(a) ==
  /\ spent' = [spent EXCEPT ![a.mission] = @ + a.amount]
  /\ session' = [session EXCEPT ![policy[a.mission].session].spent = @ - a.amount]

\* reserveBudget, for the mission and for its session.
ReserveBudget(a) ==
  /\ spent' = [spent EXCEPT ![a.mission] = @ + a.amount]
  /\ session' = [session EXCEPT ![policy[a.mission].session].spent = @ + a.amount]

\* reserveAuthorization: one transaction for nonce, commitment, both budgets
\* and the signed bytes; the lock is free again.
Reserve(c) ==
  LET a == Payment(c)
  IN /\ pc[c] = "building"
     /\ MayReserve(a)
     /\ authorizations' = authorizations \cup {a}
     /\ ReserveBudget(a)
     /\ pc' = [pc EXCEPT ![c] = "reserved"]
     /\ Unlock(c)
     /\ UNCHANGED <<policy, acceptance, zkMode, challenge, seen, released, crashes>>

\* The transaction rolls back, or the transfer could not be built, was not paid
\* by the advertised account or had already expired: nothing is reserved.
ReserveRefused(c) ==
  /\ pc[c] = "building"
  /\ Reject(c)
  /\ Unlock(c)
  /\ UNCHANGED <<store, zkMode, released, crashes>>

\* Broken form of Respond: the built bytes are returned before the reservation.
RespondBuilt(c) ==
  /\ pc[c] \in {"building", "reserved"}
  /\ released' = released \cup {Payment(c)}
  /\ pc' = [pc EXCEPT ![c] = "answered"]
  /\ challenge' = [challenge EXCEPT ![c] = None]
  /\ UNCHANGED <<store, zkMode, seen, queue, crashes>>

\* The bytes and the authorization leave the process.
Respond(c) ==
  /\ pc[c] = "reserved"
  /\ released' = released \cup {Payment(c)}
  /\ pc' = [pc EXCEPT ![c] = "answered"]
  /\ challenge' = [challenge EXCEPT ![c] = None]
  /\ UNCHANGED <<store, zkMode, seen, queue, crashes>>

\* The process dies and comes back with its store; calls and locks are gone.
Crash ==
  /\ crashes < MaxCrashes
  /\ crashes' = crashes + 1
  /\ pc' = [c \in Calls |-> IF pc[c] \in Waiting THEN "lost" ELSE pc[c]]
  /\ challenge' = [c \in Calls |-> IF pc[c] \in Waiting THEN None ELSE challenge[c]]
  /\ seen' = [c \in Calls |->
               IF pc[c] \in Waiting \ {"reserved"} THEN None ELSE seen[c]]
  /\ queue' = [m \in Missions |-> <<>>]
  /\ UNCHANGED <<store, zkMode, released>>

Handle(c) ==
  ProofVerified(c) \/ ProofRefused(c) \/ Build(c) \/ Reserve(c)
    \/ ReserveRefused(c) \/ Respond(c)

Next ==
  \/ \E m \in Missions, p \in Policies : RegisterMissionPolicy(m, p)
  \/ \E m \in Missions, i \in Challenges \cup {None} : SignCreditAcceptance(m, i)
  \/ \E c \in Calls, ch \in Challenges : Authorize(c, ch)
  \/ \E c \in Calls : Handle(c)
  \/ Crash

\* A handler that has begun is run by the event loop until it ends.
Fairness == \A c \in Calls : WF_vars(Handle(c))

Spec == Init /\ [][Next]_vars /\ Fairness

------------------------------------------------------------------------------
(* Properties                                                              *)

\* Every variable has its shape.
TypeOK ==
  /\ policy \in [Missions -> Policies \cup {None}]
  /\ session \in [Sessions -> [cap : Nat, spent : Nat] \cup {None}]
  /\ spent \in [Missions -> Nat]
  /\ acceptance \in [Missions -> [intent : Challenges \cup {None}] \cup {None}]
  /\ authorizations \subseteq Payments
  /\ zkMode \in BOOLEAN
  /\ pc \in [Calls -> {"idle"} \cup Waiting \cup Ended]
  /\ challenge \in [Calls -> Challenges \cup {None}]
  /\ seen \in [Calls -> [intent : Challenges \cup {None}] \cup {None}]
  /\ queue \in [Missions -> Seq(Calls)]
  /\ released \subseteq Payments
  /\ crashes \in Nat

\* However the calls interleave or die, a mission never spends more than its
\* cap, its session never more than the cap its first mission brought, and each
\* authorization pays the mission's provider (reserveBudget, gate.ts:137-142).
WithinCaps ==
  /\ \A m \in Missions : policy[m] # None => spent[m] <= policy[m].cap
  /\ \A s \in Sessions : session[s] # None => session[s].spent <= session[s].cap
  /\ \A a \in authorizations :
       policy[a.mission] # None /\ a.recipient = policy[a.mission].provider

\* A nonce of a mission pays once, also across concurrent calls and a restart
\* that forgot the call that used it (insertConsumedNonce).
OnePaymentPerNonce ==
  \A a, b \in authorizations :
    a.mission = b.mission /\ a.nonce = b.nonce => a = b

\* Bytes that left the process were reserved before and stay reserved, also
\* when the process crashes between the two (gate.ts:84-91).
ReleasedIsReserved == released \subseteq authorizations

\* Two authorizations of one mission never interleave inside the lock, and the
\* line holds exactly the calls that are waiting for it or hold it (KeyedMutex).
OneBuilderPerMission ==
  /\ \A c, d \in Calls :
       pc[c] = "building" /\ pc[d] = "building"
         /\ challenge[c].mission = challenge[d].mission => c = d
  /\ \A c \in Calls : pc[c] \in {"queued", "building"} <=>
       \E m \in Missions : \E i \in 1..Len(queue[m]) : queue[m][i] = c

\* A payment that differs from the intent bound into the mission's acceptance
\* can only come from a call that read the store before that acceptance was
\* saved: the gate does not look again once it has waited (gate.ts:124-131).
IntentBinding ==
  \A a \in authorizations :
    Binds(acceptance[a.mission]) /\ acceptance[a.mission].intent # ChallengeOf(a)
      => seen[a.call] = None

\* Every tinybar that some authorizations pay, and their sum.
Tinybars(S) == UNION {{a} \X (1..a.amount) : a \in S}
Total(S) == Cardinality(Tinybars(S))

\* The two budget counters are exactly what the stored authorizations add up
\* to, for each mission and for each session: nothing is reserved twice, lost
\* in a roll back or released after an uncertain call (docs/decisions.md).
BudgetIsReserved ==
  /\ \A m \in Missions :
       spent[m] = Total({a \in authorizations : a.mission = m})
  /\ \A s \in Sessions : session[s] # None =>
       session[s].spent =
         Total({a \in authorizations : policy[a.mission].session = s})

\* No call is stuck behind the lock: each one that joins the line of its
\* mission is answered or refused, unless the process dies (KeyedMutex.run
\* releases in a finally block).
CallsEnd ==
  \A c \in Calls : (pc[c] = "queued") ~> (pc[c] \in Ended)

\* The gate keeps the promise of PaymentBudget: budgets only shrink, a payment
\* is taken out of both of them at once, and only granted payments leave.
Budget == INSTANCE PaymentBudget WITH
  missionLeft <- [m \in Missions |->
                    IF policy[m] = None THEN None ELSE policy[m].cap - spent[m]],
  sessionOf   <- [m \in Missions |->
                    IF policy[m] = None THEN None ELSE policy[m].session],
  sessionLeft <- [s \in Sessions |->
                    IF session[s] = None THEN None
                                         ELSE session[s].cap - session[s].spent],
  granted     <- authorizations,
  Budgets     <- {p.cap : p \in Policies} \cup {p.sessionCap : p \in Policies}

ImplementsBudget == Budget!Spec
==============================================================================
