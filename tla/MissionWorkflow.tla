---------------------------- MODULE MissionWorkflow ----------------------------
(***************************************************************************)
(* The orchestrator's workflow of one mission (mission-workflow.ts), with  *)
(* the registrar that approves and provisions its policy (registrar.ts),   *)
(* the consumer's sequence (agents/consumer: mission.ts, payment.ts) and   *)
(* the x402 client (packages/x402/client.ts) that it awaits.               *)
(*                                                                         *)
(* The workflow is one chain of awaits.  Its progress is kept in the       *)
(* process; what each step persists is the mission's row.  A failure at    *)
(* any await takes the mission through finishFailure, one transition at a  *)
(* time.                                                                   *)
(***************************************************************************)
EXTENDS MissionStore

CONSTANTS
  Targets,               \* who gets the policy: the signer and every lender
  MaxProvisionAttempts   \* policyRegistrationMaxAttempts, 3

VARIABLES
  approved,     \* the operator has approved the mission at the registrar
  provisioned,  \* the targets that have the policy
  step,         \* where the workflow is
  state,        \* the mission's state as the workflow knows it
  borrowed,     \* the workflow knows of a funded loan
  attempts,     \* failed attempts to register the policy
  error,        \* what it failed with
  blamed        \* failures attributed to the provider

local == <<state, borrowed, attempts, error, blamed>>
workflow == <<approved, provisioned, step, local>>
known == <<borrowed, attempts, error, blamed>>
elsewhere == <<approved, completion, signerCompletion, signerRepaid, callback>>

InitWorkflow ==
  /\ approved = FALSE
  /\ provisioned = {}
  /\ step = "new"
  /\ state = None
  /\ borrowed = FALSE
  /\ attempts = 0
  /\ error = None
  /\ blamed = 0

Goto(next) == step' = next

\* move(): the transition, and then the state that the workflow remembers.
Move(to) ==
  /\ Transition(state, to)
  /\ state' = to

--------------------------------------------------------------------------------
(***************************************************************************)
(* Discovery and policy.                                                   *)
(***************************************************************************)

\* POST /missions/approve: once, and never changed.
Approve ==
  /\ ~approved
  /\ approved' = TRUE
  /\ UNCHANGED <<shared, provisioned, step, local>>

\* The directory ranks for an approved mission; the mission gets its row.
CreateMission ==
  /\ step = "new" /\ approved
  /\ mission' = "created" /\ state' = "created"
  /\ Goto("created")
  /\ UNCHANGED <<money, known, provisioned, elsewhere>>

StartDiscovery ==
  /\ step = "created"
  /\ Move("discovering-services")
  /\ Goto("selected")
  /\ UNCHANGED <<money, known, provisioned, elsewhere>>

\* A directory that ranks without regard to the budget is caught here.
RejectPrice ==
  /\ step = "selected"
  /\ Move("payment-preparation")
  /\ Goto("failing") /\ error' = "policy"
  /\ UNCHANGED <<money, provisioned, borrowed, attempts, blamed, elsewhere>>

\* POST /missions/provision: every target is asked at once, and what some of
\* them stored stays when another one fails.  An identical policy is accepted
\* again.  503 is tried again; any other refusal (a proposal that is not the one
\* approved) fails the mission at once, and so does the last attempt.
Provision ==
  /\ step \in {"selected", "provisioning"}
  /\ \E reached \in SUBSET Targets :
       /\ provisioned' = provisioned \cup reached
       /\ \/ /\ reached = Targets
             /\ Goto("preparing")
             /\ UNCHANGED <<attempts, error>>
          \/ /\ reached # Targets
             /\ attempts + 1 < MaxProvisionAttempts
             /\ attempts' = attempts + 1
             /\ Goto("provisioning")
             /\ UNCHANGED error
          \/ /\ reached # Targets
             /\ Goto("failing") /\ error' = "other"
             /\ UNCHANGED attempts
  /\ UNCHANGED <<mission, state, borrowed, blamed, money, elsewhere>>

--------------------------------------------------------------------------------
(***************************************************************************)
(* The consumer: challenge and proof, credit if the balance is too low,    *)
(* and the payment with the same intent.                                   *)
(***************************************************************************)

\* payment.prepare: the provider's challenge, its normalised intent, the proof.
PreparePayment ==
  /\ step = "preparing"
  /\ Goto("balance")
  /\ UNCHANGED <<rows, provisioned, state, credit, scan, known, elsewhere>>

\* The balance covers the price.
NoCredit ==
  /\ step = "balance"
  /\ Move("payment-preparation")
  /\ Goto("authorizing")
  /\ UNCHANGED <<money, known, provisioned, elsewhere>>

\* The signer signs the credit request; offers are asked for and one is accepted.
RequestCredit ==
  /\ step = "balance"
  /\ Move("credit-requested")
  /\ credit' = "asked"
  /\ Goto("funding")
  /\ UNCHANGED <<spent, loan, scan, provisioned, known, elsewhere>>

\* A lender funds the accepted offer and registers the loan, while it is awaited
\* or later (LoanFunding).
LenderFunds ==
  /\ credit = "asked"
  /\ credit' = "funded"
  /\ UNCHANGED <<rows, signerCompletion, signerRepaid, scan, callback, workflow>>

\* The lender answers; the loan's row is written with the transition.
Funded ==
  /\ step = "funding" /\ credit = "funded"
  /\ Move("funded")
  /\ CreateLoan /\ borrowed' = TRUE
  /\ Goto("ready")
  /\ UNCHANGED <<spent, credit, scan, provisioned, attempts, error, blamed, elsewhere>>

StartPayment ==
  /\ step = "ready"
  /\ Move("payment-preparation")
  /\ Goto("authorizing")
  /\ UNCHANGED <<money, known, provisioned, elsewhere>>

\* The signer's authorization and the transaction it signed (PaymentGate).
Authorized ==
  /\ step = "authorizing"
  /\ Move("payment-authorized")
  /\ Goto("paying")
  /\ UNCHANGED <<money, known, provisioned, elsewhere>>

\* retryWithPayment: one paid request, with a time-out of its own.
RequestScan ==
  /\ step = "paying"
  /\ scan' = "requested"
  /\ Goto("scanning")
  /\ UNCHANGED <<rows, credit, provisioned, state, known, elsewhere>>

\* The provider settles the payment, while it is awaited or later (PaidScan).
ProviderSettles ==
  /\ scan = "requested"
  /\ scan' = "settled"
  /\ UNCHANGED <<rows, signerRows, callback, workflow>>

\* The report and the receipt; the amount is added to what the mission spent.
Paid ==
  /\ step = "scanning" /\ scan = "settled"
  /\ Move("service-paid")
  /\ RecordMissionSpending
  /\ Goto("paid")
  /\ UNCHANGED <<loan, credit, scan, provisioned, known, elsewhere>>

ReportReceived ==
  /\ step = "paid"
  /\ Move("running")
  /\ Goto("over")
  /\ UNCHANGED <<money, known, provisioned, elsewhere>>

--------------------------------------------------------------------------------
(***************************************************************************)
(* Failures.                                                               *)
(***************************************************************************)

\* The awaits that a policy code of the signer, of a lender or of the witness
\* may end: rethrowPolicyRejection.
PolicyChecked == {"preparing", "balance", "funding", "authorizing"}

\* An await fails: a refusal, a time-out, ten answers "later", a lost response.
Fail ==
  /\ step \in {"created", "preparing", "balance", "funding", "ready", "authorizing", "paying",
               "scanning", "paid"}
  /\ \/ error' = "other"
     \/ step \in PolicyChecked /\ error' = "consumer"
  /\ Goto("failing")
  /\ UNCHANGED <<rows, credit, scan, provisioned, state, borrowed, attempts, blamed,
                 elsewhere>>

\* Only a failure after the authorization is attributed to the provider, once.
Attribute(from) == blamed' = IF from = "payment-authorized" THEN blamed + 1 ELSE blamed

\* Broken form of CloseFailed: what was borrowed is forgotten.
CloseAnyway == Move("closed")

\* The end of finishFailure: without a loan the mission is closed.
CloseFailed == Move(IF borrowed THEN "defaulted" ELSE "closed")

\* finishFailure, one transition at a time.
FinishFailure ==
  /\ step = "failing"
  /\ \/ /\ error = "consumer" /\ state = "discovering-services"
        /\ Move("payment-preparation")
        /\ UNCHANGED <<step, blamed>>
     \/ /\ error \in {"policy", "consumer"} /\ state = "payment-preparation"
        /\ Move("policy-rejected")
        /\ UNCHANGED <<step, blamed>>
     \/ /\ "failed" \in Allowed(state)
        /\ ~(error = "consumer" /\ state = "discovering-services")
        /\ ~(error \in {"policy", "consumer"} /\ state = "payment-preparation")
        /\ Move("failed")
        /\ Attribute(state)
        /\ UNCHANGED step
     \/ /\ state \in {"policy-rejected", "failed"}
        /\ Move("recovery")
        /\ UNCHANGED <<step, blamed>>
     \/ /\ state = "recovery"
        /\ CloseFailed
        /\ Goto("over")
        /\ UNCHANGED blamed
  /\ UNCHANGED <<spent, loan, credit, scan, provisioned, borrowed, attempts, error,
                 elsewhere>>

Workflow ==
  \/ Approve \/ CreateMission \/ StartDiscovery \/ RejectPrice \/ Provision
  \/ PreparePayment \/ NoCredit \/ RequestCredit \/ Funded \/ StartPayment
  \/ Authorized \/ RequestScan \/ Paid \/ ReportReceived
  \/ Fail \/ FinishFailure
================================================================================
