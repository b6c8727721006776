----------------------------- MODULE MissionStore -----------------------------
(***************************************************************************)
(* What the parts of one mission share: the orchestrator's rows            *)
(* (packages/persistence: missions, loans, mission_completions), the       *)
(* transition table of packages/domain, and what the provider, the signer  *)
(* and the ledger hold of the mission.                                     *)
(***************************************************************************)
EXTENDS Integers, FiniteSets

CONSTANT None

VARIABLES
  mission,           \* the mission's state in missions, None before its row
  spent,             \* payments added to its spent total
  loan,              \* the state of its row in loans, or None
  completion,        \* its row in mission_completions, with the callback's key
  credit,            \* "none"; "asked" of the lenders; "funded": the signer has the loan
  signerCompletion,  \* the signer has accepted the completion
  signerRepaid,      \* the signer has repaid the loan
  scan,              \* "none"; "requested": the paid request was sent; "settled"
  callback           \* the provider's row in provider_callback_jobs, with what it was refused with

rows == <<mission, spent, loan, completion>>
signerRows == <<credit, signerCompletion, signerRepaid>>
money == <<spent, loan, credit, scan>>
shared == <<rows, signerRows, scan, callback>>

Allowed(state) ==
  CASE state = "created" -> {"discovering-services", "failed"}
    [] state = "discovering-services" -> {"payment-preparation", "credit-requested", "failed"}
    [] state = "credit-requested" -> {"funded", "failed"}
    [] state = "funded" -> {"payment-preparation", "failed"}
    [] state = "payment-preparation" -> {"payment-authorized", "policy-rejected", "failed"}
    [] state = "payment-authorized" -> {"service-paid", "failed"}
    [] state = "service-paid" -> {"running", "failed"}
    [] state = "running" -> {"completed", "failed"}
    [] state = "completed" -> {"repayment-pending", "closed"}
    [] state = "repayment-pending" -> {"repaid", "defaulted"}
    [] state = "repaid" -> {"closed"}
    [] state = "policy-rejected" -> {"recovery"}
    [] state = "recovery" -> {"repayment-pending", "defaulted", "closed"}
    [] state = "failed" -> {"recovery", "repayment-pending", "defaulted", "closed"}
    [] OTHER -> {}   \* defaulted, closed

\* The states in which a callback comes too early (completion.ts).
Early == {"created", "discovering-services", "credit-requested", "funded",
          "payment-preparation", "payment-authorized", "service-paid"}

Terminal == {"defaulted", "closed"}

States == Early \cup Terminal \cup {"running", "completed", "repayment-pending", "repaid",
                                     "policy-rejected", "recovery", "failed"}

ASSUME StatesAssumption == None \notin States

\* MissionStateMachine.transition: the move, its event and what is persisted with
\* it are one transaction, which fails when the row is in another state.
Transition(from, to) ==
  /\ to \in Allowed(from)
  /\ mission = from
  /\ mission' = to

\* What a transition persists with it: the spent total, the loan, the completion
\* with the key and the hash of the callback that brought it.
RecordMissionSpending == spent' = spent + 1
CreateLoan == loan = None /\ loan' = "funded"
SaveMissionCompletion == ~completion /\ completion' = TRUE

\* An identical callback was accepted under its key.
AcceptedBefore == completion

\* updateLoanState: the loan's row changes from a state it is in.
UpdateLoanState(from, to) ==
  /\ loan = from
  /\ loan' = to

\* A job that nobody has refused.
Job(status, attempts) == [status |-> status, attempts |-> attempts, refusal |-> None]

InitStore ==
  /\ mission = None
  /\ spent = 0
  /\ loan = None
  /\ completion = FALSE
  /\ credit = "none"
  /\ signerCompletion = FALSE
  /\ signerRepaid = FALSE
  /\ scan = "none"
  /\ callback = Job("none", 0)
================================================================================
