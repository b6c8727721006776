---------------------------- MODULE PaymentBudget ----------------------------
(***************************************************************************)
(* What the restricted signer promises about money, whatever its handlers  *)
(* are doing: every mission and every session has a budget that only       *)
(* shrinks, a payment is granted out of both budgets or not at all, one    *)
(* (mission, nonce) pays once, and signed bytes are only given out for a   *)
(* payment that was granted before (docs/decisions.md, "Reservations").    *)
(* PaymentGate implements this specification.                              *)
(***************************************************************************)
EXTENDS Integers

CONSTANTS
  Missions,
  Sessions,
  Payments,   \* records with a mission, a nonce and an amount
  Budgets,    \* numbers: budgets a mission or a session may be given
  None

VARIABLES
  missionLeft,  \* what a mission may still spend; None before it is opened
  sessionOf,    \* the session a mission was opened in
  sessionLeft,  \* what all missions of a session may still spend
  granted,      \* payments taken out of the budgets
  released      \* payments whose signed bytes left the signer

vars == <<missionLeft, sessionOf, sessionLeft, granted, released>>

Init ==
  /\ missionLeft = [m \in Missions |-> None]
  /\ sessionOf = [m \in Missions |-> None]
  /\ sessionLeft = [s \in Sessions |-> None]
  /\ granted = {}
  /\ released = {}

\* A mission brings its own budget; only the first mission of a session
\* brings the budget of the session.
Open(m, s, budget, sessionBudget) ==
  /\ missionLeft[m] = None
  /\ missionLeft' = [missionLeft EXCEPT ![m] = budget]
  /\ sessionOf' = [sessionOf EXCEPT ![m] = s]
  /\ sessionLeft' = IF sessionLeft[s] = None
                      THEN [sessionLeft EXCEPT ![s] = sessionBudget]
                      ELSE sessionLeft
  /\ UNCHANGED <<granted, released>>

Grant(p) ==
  LET m == p.mission
      s == sessionOf[m]
  IN /\ missionLeft[m] # None
     /\ \A q \in granted : <<q.mission, q.nonce>> # <<m, p.nonce>>
     /\ p.amount \in 1..missionLeft[m]
     /\ p.amount <= sessionLeft[s]
     /\ missionLeft' = [missionLeft EXCEPT ![m] = @ - p.amount]
     /\ sessionLeft' = [sessionLeft EXCEPT ![s] = @ - p.amount]
     /\ granted' = granted \cup {p}
     /\ UNCHANGED <<sessionOf, released>>

Release(p) ==
  /\ p \in granted
  /\ released' = released \cup {p}
  /\ UNCHANGED <<missionLeft, sessionOf, sessionLeft, granted>>

Next ==
  \/ \E m \in Missions, s \in Sessions, b, sb \in Budgets : Open(m, s, b, sb)
  \/ \E p \in Payments : Grant(p) \/ Release(p)

Spec == Init /\ [][Next]_vars
==============================================================================
