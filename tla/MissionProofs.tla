---------------------------- MODULE MissionProofs ----------------------------
(***************************************************************************)
(* Proofs about Mission, for any number of targets, handlers, deliveries,  *)
(* replays and crashes.                                                    *)
(*                                                                         *)
(* The mission's row is moved from two hands.  The inductive invariant     *)
(* says whose turn it is: until the workflow is over, it knows the row and *)
(* the row is in a state that no handler touches; a handler that passed a  *)
(* check of the row finds it as it was, or a completion that another one   *)
(* has committed; and who closes the mission holds its lock.               *)
(***************************************************************************)
EXTENDS Mission, TLAPS

\* The states in which a failure may find the mission.
Underway == Early \cup {"policy-rejected", "failed", "recovery"}

\* Where the workflow is, what it remembers and what it has not begun yet.
WorkflowOK ==
  /\ step # "over" => state = mission /\ (borrowed <=> loan # None)
  /\ step = "new" => state = None
  /\ step = "created" => state = "created"
  /\ step \in {"selected", "provisioning", "preparing", "balance"} =>
       state = "discovering-services"
  /\ step = "funding" => state = "credit-requested"
  /\ step = "ready" => state = "funded"
  /\ step = "authorizing" => state = "payment-preparation"
  /\ step \in {"paying", "scanning"} => state = "payment-authorized"
  /\ step = "paid" => state = "service-paid"
  /\ step = "failing" => state \in Underway
  /\ step \in {"new", "created", "selected", "provisioning", "preparing", "balance"} =>
       credit = "none"
  /\ step \notin {"scanning", "paid", "failing", "over"} => scan = "none"
  /\ step \notin {"paid", "failing", "over"} => spent = 0
  /\ blamed = 1 => state \in {"failed", "recovery"} \cup Terminal

\* What the rows say together.
RowsOK ==
  /\ spent = 1 => scan = "settled"
  /\ mission \in {"service-paid", "running"} => spent = 1
  /\ mission \in Completed => completion
  /\ completion =>
       mission \in Completed \cup {"closed"} /\ spent = 1 /\ signerCompletion
  /\ signerRepaid => completion
  /\ loan # None => credit = "funded"
  /\ loan = "repaid" => signerRepaid /\ mission \in {"repaid", "closed"}
  /\ mission = "repayment-pending" => loan = "funded"
  /\ mission = "repaid" => loan = "repaid"
  /\ mission = "closed" => loan \in {None, "repaid"}
  /\ mission = "defaulted" => loan = "funded"

\* What a handler relies on where it is.
HandlerOK(h) ==
  /\ pc[h] \in {"confirming", "signing", "committing"} => mission = "running" \/ completion
  /\ pc[h] = "committing" => signerCompletion
  /\ pc[h] = "closing" => completion
  /\ pc[h] \in {"repaying", "settling", "repaid"} => lock = h
  /\ pc[h] \in {"repaying", "settling"} => mission = "repayment-pending"
  /\ pc[h] = "settling" => signerRepaid
  /\ pc[h] = "repaid" => mission = "repaid"
  /\ reply[h] = 202 => mission = "closed" /\ completion

\* What the provider knows of its callback.
CallbackOK ==
  /\ awaited # None => callback.status = "processing"
  /\ callback.status \in {"pending", "processing"} => callback.attempts < MaxAttempts
  /\ callback.status = "delivered" => mission = "closed" /\ completion

IInv ==
  /\ TypeOK
  /\ WorkflowOK
  /\ RowsOK
  /\ \A h \in Handlers : HandlerOK(h)
  /\ CallbackOK

\* The initial state satisfies every part of the invariant.
LEMMA InitInv == Init => IInv
<1> SUFFICES ASSUME Init PROVE IInv
  OBVIOUS
<1> USE StatesAssumption, CompletionAssumption, MissionAssumption
    DEF Init, InitStore, InitWorkflow, InitCompletion
<1>1. TypeOK
  <2>1. pc \in [Handlers -> HandlerSteps] /\ reply \in [Handlers -> {None, 202, 400, 409, 503}]
    BY DEF HandlerSteps
  <2>2. callback \in [status : {"none", "pending", "processing", "delivered", "failed", "repair"},
                      attempts : 0 .. MaxAttempts, refusal : {None, 400, 409}]
    BY DEF Job
  <2>3. completion \in BOOLEAN /\ signerCompletion \in BOOLEAN /\ signerRepaid \in BOOLEAN
    OBVIOUS
  <2>4. approved \in BOOLEAN /\ borrowed \in BOOLEAN
    OBVIOUS
  <2> QED BY <2>1, <2>2, <2>3, <2>4 DEF TypeOK, Steps
<1>2. WorkflowOK /\ RowsOK
  BY DEF WorkflowOK, RowsOK, States, Early, Terminal, Completed
<1>3. ASSUME NEW h \in Handlers PROVE HandlerOK(h)
  BY <1>3 DEF HandlerOK
<1>4. CallbackOK
  BY DEF CallbackOK, Job
<1> QED BY <1>1, <1>2, <1>3, <1>4 DEF IInv

\* The workflow, a lender that funds and a provider that settles keep it: they
\* move the mission only in states in which no handler is at work.
LEMMA WorkflowInv ==
  ASSUME IInv, Workflow \/ LenderFunds \/ ProviderSettles, UNCHANGED <<completing, crashes>>
  PROVE  IInv'
<1> USE MissionAssumption, StatesAssumption
    DEF IInv, TypeOK, WorkflowOK, RowsOK, HandlerOK, CallbackOK, Steps, States, Early, Terminal,
        Underway, Completed, completing, elsewhere, money, known, local, workflow, rows,
        signerRows, shared, Goto
<1>1. CASE Approve BY <1>1 DEF Approve
<1>2. CASE CreateMission BY <1>2 DEF CreateMission
<1>3. CASE StartDiscovery BY <1>3 DEF StartDiscovery, Move, Transition
<1>4. CASE RejectPrice BY <1>4 DEF RejectPrice, Move, Transition
<1>5. CASE Provision BY <1>5 DEF Provision
<1>6. CASE PreparePayment BY <1>6 DEF PreparePayment
<1>7. CASE NoCredit BY <1>7 DEF NoCredit, Move, Transition
<1>8. CASE RequestCredit BY <1>8 DEF RequestCredit, Move, Transition
<1>9. CASE Funded BY <1>9 DEF Funded, Move, Transition, CreateLoan
<1>10. CASE StartPayment BY <1>10 DEF StartPayment, Move, Transition
<1>11. CASE Authorized BY <1>11 DEF Authorized, Move, Transition
<1>12. CASE RequestScan BY <1>12 DEF RequestScan
<1>13. CASE Paid BY <1>13 DEF Paid, Move, Transition, RecordMissionSpending
<1>14. CASE ReportReceived BY <1>14 DEF ReportReceived, Move, Transition
<1>15. CASE Fail BY <1>15 DEF Fail
<1>16. CASE FinishFailure BY <1>16 DEF FinishFailure, Move, Transition, Attribute, CloseFailed
<1>17. CASE LenderFunds BY <1>17 DEF LenderFunds
<1>18. CASE ProviderSettles BY <1>18 DEF ProviderSettles
<1> QED BY <1>1, <1>2, <1>3, <1>4, <1>5, <1>6, <1>7, <1>8, <1>9, <1>10, <1>11, <1>12, <1>13,
       <1>14, <1>15, <1>16, <1>17, <1>18 DEF Workflow

\* A handler that answers keeps the shape of places and replies.
LEMMA AnswersShape ==
  ASSUME TypeOK, NEW h \in Handlers, NEW status \in {202, 400, 409, 503}, Answers(h, status)
  PROVE  /\ pc' \in [Handlers -> HandlerSteps]
         /\ reply' \in [Handlers -> {None, 202, 400, 409, 503}]
  BY DEF TypeOK, Answers, Goes, HandlerSteps

\* So do the flags of the completion and of the signer.
LEMMA FlagsShape ==
  ASSUME TypeOK, NEW h \in Handlers,
         NotConfirmed(h) \/ Commit(h) \/ RepaymentFails(h)
  PROVE  completion' \in BOOLEAN /\ signerCompletion' \in BOOLEAN /\ signerRepaid' \in BOOLEAN
<1>1. completion' = completion \/ completion' = TRUE
  BY Zenon DEF NotConfirmed, Commit, RepaymentFails, rows, SaveMissionCompletion
<1>2. signerCompletion' = signerCompletion \/ signerCompletion' = TRUE
  BY Zenon DEF NotConfirmed, Commit, RepaymentFails, signerRows
<1>3. signerRepaid' = signerRepaid \/ signerRepaid' = TRUE
  BY Zenon DEF NotConfirmed, Commit, RepaymentFails, signerRows
<1> QED BY <1>1, <1>2, <1>3 DEF TypeOK

\* The worker and the handlers keep it: they move the mission only when the
\* workflow is over, and from repayment-pending on only with the lock.
LEMMA CompletionInv ==
  ASSUME IInv, UNCHANGED <<workflow, crashes>>,
         \/ Enqueue \/ Worker \/ LeaseOver \/ ReplayCallback
         \/ \E h \in Handlers : Handle(h)
  PROVE  IInv'
<1>1. ASSUME NEW h \in Handlers, NotConfirmed(h) \/ Commit(h) \/ RepaymentFails(h)
      PROVE  completion' \in BOOLEAN /\ signerCompletion' \in BOOLEAN /\ signerRepaid' \in BOOLEAN
  BY <1>1, FlagsShape DEF IInv
<1> USE CompletionAssumption, StatesAssumption
    DEF IInv, TypeOK, WorkflowOK, RowsOK, HandlerOK, CallbackOK, HandlerSteps, States, Early, Terminal,
        Underway, Completed, completing, outside, local, workflow, rows, signerRows
<1>2. CASE Enqueue
  BY <1>2 DEF Enqueue, Job
<1>3. CASE DeliveryFails
  BY <1>3 DEF DeliveryFails, Retried, Job
<1>4. ASSUME NEW h \in Handlers, Deliver(h) PROVE IInv'
  BY <1>4 DEF Deliver
<1>5. ASSUME NEW h \in Handlers, Dispatched(h) PROVE IInv'
  BY <1>5 DEF Dispatched, Retried, Job
<1>6. ASSUME NEW h \in Handlers, GiveUp(h) PROVE IInv'
  BY <1>6 DEF GiveUp, Retried, Job
<1>7. CASE LeaseOver
  BY <1>7 DEF LeaseOver
<1>8. CASE ReplayCallback
  BY <1>8 DEF ReplayCallback, Job
<1>9. ASSUME NEW h \in Handlers, Receive(h) PROVE IInv'
  BY <1>9 DEF Receive, Answers, Goes, AcceptedBefore
<1>10. ASSUME NEW h \in Handlers, Confirmed(h) PROVE IInv'
  BY <1>10 DEF Confirmed, Goes
<1>11. ASSUME NEW h \in Handlers, SignerAccepts(h) PROVE IInv'
  BY <1>11 DEF SignerAccepts, Goes
<1>12. ASSUME NEW h \in Handlers, NotConfirmed(h) PROVE IInv'
  <2>0. PICK status \in {400, 503} : Answers(h, status)
    BY <1>12 DEF NotConfirmed
  <2> USE <1>12 DEF NotConfirmed, Answers, Goes
  <2>1. TypeOK'
    <3>1. pc' \in [Handlers -> HandlerSteps] /\ reply' \in [Handlers -> {None, 202, 400, 409, 503}]
      BY <2>0, AnswersShape
    <3>2. completion' \in BOOLEAN /\ signerCompletion' \in BOOLEAN /\ signerRepaid' \in BOOLEAN
      BY <1>1
    <3> QED BY <3>1, <3>2
  <2>2. WorkflowOK' OBVIOUS
  <2>3. RowsOK' OBVIOUS
  <2>4. ASSUME NEW g \in Handlers PROVE HandlerOK(g)' BY <2>4
  <2>5. CallbackOK' OBVIOUS
  <2> QED BY <2>1, <2>2, <2>3, <2>4, <2>5
<1>13. ASSUME NEW h \in Handlers, Commit(h) PROVE IInv'
  <2> USE <1>13 DEF Commit, Transition, SaveMissionCompletion, AcceptedBefore, Goes
  <2>1. TypeOK'
    <3>1. pc' \in [Handlers -> HandlerSteps] /\ reply' \in [Handlers -> {None, 202, 400, 409, 503}]
      BY AnswersShape
    <3>2. completion' \in BOOLEAN /\ signerCompletion' \in BOOLEAN /\ signerRepaid' \in BOOLEAN
      BY <1>1
    <3> QED BY <3>1, <3>2
  <2>2. WorkflowOK' OBVIOUS
  <2>3. RowsOK' OBVIOUS
  <2>4. ASSUME NEW g \in Handlers PROVE HandlerOK(g)' BY <2>4
  <2>5. CallbackOK' OBVIOUS
  <2> QED BY <2>1, <2>2, <2>3, <2>4, <2>5
<1>14. ASSUME NEW h \in Handlers, StartClosing(h) PROVE IInv'
  BY <1>14 DEF StartClosing, Transition, ResumeClosing, Answers, Goes
<1>15. ASSUME NEW h \in Handlers, SignerRepays(h) PROVE IInv'
  BY <1>15 DEF SignerRepays, Goes
<1>16. ASSUME NEW h \in Handlers, RepaymentFails(h) PROVE IInv'
  <2>0. PICK status \in {400, 503} : Answers(h, status)
    BY <1>16 DEF RepaymentFails
  <2> USE <1>16 DEF RepaymentFails, Answers, Goes
  <2>1. TypeOK'
    <3>1. pc' \in [Handlers -> HandlerSteps] /\ reply' \in [Handlers -> {None, 202, 400, 409, 503}]
      BY <2>0, AnswersShape
    <3>2. completion' \in BOOLEAN /\ signerCompletion' \in BOOLEAN /\ signerRepaid' \in BOOLEAN
      BY <1>1
    <3> QED BY <3>1, <3>2
  <2>2. WorkflowOK' OBVIOUS
  <2>3. RowsOK' OBVIOUS
  <2>4. ASSUME NEW g \in Handlers PROVE HandlerOK(g)' BY <2>4
  <2>5. CallbackOK' OBVIOUS
  <2> QED BY <2>1, <2>2, <2>3, <2>4, <2>5
<1>17. ASSUME NEW h \in Handlers, RecordRepaid(h) PROVE IInv'
  BY <1>17 DEF RecordRepaid, Transition, UpdateLoanState, Goes
<1>18. ASSUME NEW h \in Handlers, Close(h) PROVE IInv'
  BY <1>18 DEF Close, Transition, Answers, Goes
<1> QED BY <1>2, <1>3, <1>4, <1>5, <1>6, <1>7, <1>8, <1>9, <1>10, <1>11, <1>12, <1>13, <1>14,
       <1>15, <1>16, <1>17, <1>18 DEF Worker, Handle

\* A crash forgets the workflow, the handlers and the wait; the rows stay.
LEMMA CrashInv ==
  ASSUME IInv, OrchestratorCrash \/ ProviderCrash
  PROVE  IInv'
<1> USE CompletionAssumption, MissionAssumption
    DEF IInv, TypeOK, WorkflowOK, RowsOK, HandlerOK, CallbackOK, HandlerSteps, Steps, shared, rows,
        signerRows, local
<1>1. CASE OrchestratorCrash BY <1>1 DEF OrchestratorCrash
<1>2. CASE ProviderCrash BY <1>2 DEF ProviderCrash, workflow
<1> QED BY <1>1, <1>2

\* Every step keeps the invariant.
LEMMA NextInv == IInv /\ [Next]_vars => IInv'
<1> SUFFICES ASSUME IInv, [Next]_vars PROVE IInv'
  OBVIOUS
<1>1. CASE (Workflow \/ LenderFunds \/ ProviderSettles) /\ UNCHANGED <<completing, crashes>>
  BY <1>1, WorkflowInv
<1>2. CASE /\ \/ Enqueue \/ Worker \/ LeaseOver \/ ReplayCallback
              \/ \E h \in Handlers : Handle(h)
           /\ UNCHANGED <<workflow, crashes>>
  BY <1>2, CompletionInv
<1>3. CASE OrchestratorCrash \/ ProviderCrash
  BY <1>3, CrashInv
<1>4. CASE UNCHANGED vars
  BY <1>4
  DEF vars, shared, rows, signerRows, workflow, local, completing, IInv, TypeOK, WorkflowOK, RowsOK,
      HandlerOK, CallbackOK
<1> QED BY <1>1, <1>2, <1>3, <1>4 DEF Next

\* The invariant holds in every reachable state.
THEOREM Invariance == Spec => []IInv
<1>1. Init => IInv BY InitInv
<1>2. IInv /\ [Next]_vars => IInv' BY NextInv
<1> QED BY <1>1, <1>2, PTL DEF Spec

------------------------------------------------------------------------------

\* Every variable keeps its type.
THEOREM TypeCorrect == Spec => []TypeOK
<1>1. IInv => TypeOK BY DEF IInv
<1> QED BY <1>1, Invariance, PTL

\* A mission counts as completed only with a settled payment, counted once, and
\* the signer's word.
THEOREM CompletionIsBacked == Spec => []CompletedIsBacked
<1>1. IInv => CompletedIsBacked
  BY DEF IInv, RowsOK, CompletedIsBacked, Completed
<1> QED BY <1>1, Invariance, PTL

\* The rows of a mission that has ended agree with each other and with the signer.
THEOREM RowsAgree == Spec => []EndsAgree
<1>1. IInv => EndsAgree
  BY DEF IInv, RowsOK, EndsAgree, Completed
<1> QED BY <1>1, Invariance, PTL

\* The provider stops calling back only when the mission is closed.
THEOREM DeliveryCloses == Spec => []DeliveredIsClosed
<1>1. IInv => DeliveredIsClosed
  BY DEF IInv, CallbackOK, DeliveredIsClosed
<1> QED BY <1>1, Invariance, PTL
==============================================================================
