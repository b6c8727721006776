--------------------------- MODULE MissionCompletion ---------------------------
(***************************************************************************)
(* From a confirmed settlement to a closed mission: the provider's callback*)
(* worker (resource-server: callback.ts, outbox.ts), the orchestrator's    *)
(* completion handler and repayment workflow (callbacks/completion.ts,     *)
(* workflows/repay.ts, api/app.ts) and the completion at the signer        *)
(* (restricted-signer/completion.ts).                                      *)
(*                                                                         *)
(* The worker gives up waiting long before a handler does, so several      *)
(* handlers may be at work for the one callback.                           *)
(***************************************************************************)
EXTENDS MissionStore

CONSTANTS
  Handlers,      \* requests of POST /callbacks/mission-complete at work at once
  MaxAttempts,   \* failed deliveries before a callback is given up, 20
  MaxReplays,    \* bound on replayCallback
  Refusals       \* {400}: the mirror or the signer may refuse the evidence with a
                 \* 4xx that is passed on; {} when keys, clocks and amounts agree

ASSUME CompletionAssumption ==
  /\ None \notin Handlers /\ None \notin {202, 400, 409, 503}
  /\ MaxAttempts \in Nat \ {0} /\ MaxReplays \in Nat
  /\ Refusals \subseteq {400}

VARIABLES
  awaited,   \* the handler that the worker waits for, or None
  pc,        \* where each handler is
  reply,     \* the status that a handler has answered
  lock,      \* the handler that holds the mutex of the mission
  replays

completing == <<awaited, pc, reply, lock, replays>>
outside == <<scan, callback, awaited, replays>>

InitCompletion ==
  /\ awaited = None
  /\ pc = [h \in Handlers |-> "idle"]
  /\ reply = [h \in Handlers |-> None]
  /\ lock = None
  /\ replays = 0

--------------------------------------------------------------------------------
(***************************************************************************)
(* The provider.                                                           *)
(***************************************************************************)

\* completeAndEnqueue: with the confirmed settlement (PaidScan).
Enqueue ==
  /\ scan = "settled" /\ callback.status = "none"
  /\ callback' = Job("pending", 0)
  /\ UNCHANGED <<rows, signerRows, scan, completing>>

\* Broken form of Retried: no attempt is the last.
RetriedForever == Job("pending", callback.attempts + 1)

\* retryCallback: the last attempt ends the job.
Retried ==
  Job(IF callback.attempts + 1 >= MaxAttempts THEN "failed" ELSE "pending",
      callback.attempts + 1)

\* The orchestrator is not reached: its address, or the whole process.
DeliveryFails ==
  /\ callback.status = "pending" /\ awaited = None
  /\ callback' = Retried
  /\ UNCHANGED <<rows, signerRows, scan, completing>>

\* claimDueCallback and the request.
Deliver(h) ==
  /\ callback.status = "pending" /\ awaited = None
  /\ pc[h] = "idle" /\ reply[h] = None
  /\ callback' = [callback EXCEPT !.status = "processing"]
  /\ awaited' = h
  /\ pc' = [pc EXCEPT ![h] = "received"]
  /\ UNCHANGED <<rows, signerRows, scan, reply, lock, replays>>

\* dispatch, once it has an answer: 202 ends the job, 5xx is tried again, any
\* other refusal is left to an operator, and the job says which one it was.
Dispatched(h) ==
  /\ awaited = h /\ reply[h] # None
  /\ callback' = CASE reply[h] = 202 -> Job("delivered", callback.attempts + 1)
                   [] reply[h] = 503 -> Retried
                   [] OTHER -> [Job("repair", callback.attempts + 1) EXCEPT !.refusal = reply[h]]
  /\ awaited' = None
  /\ reply' = [reply EXCEPT ![h] = None]
  /\ UNCHANGED <<rows, signerRows, scan, pc, lock, replays>>

\* The worker's time-out; the handler goes on and its answer is lost.
GiveUp(h) ==
  /\ awaited = h
  /\ callback' = Retried
  /\ awaited' = None
  /\ reply' = [reply EXCEPT ![h] = None]
  /\ UNCHANGED <<rows, signerRows, scan, pc, lock, replays>>

\* After a crash of the provider, the lease of the job it had claimed ends and
\* the job is claimed again.
LeaseOver ==
  /\ callback.status = "processing" /\ awaited = None
  /\ callback' = [callback EXCEPT !.status = "pending"]
  /\ UNCHANGED <<rows, signerRows, scan, completing>>

\* An operator replays a job that was given up.
ReplayCallback ==
  /\ replays < MaxReplays
  /\ callback.status \in {"failed", "repair"}
  /\ callback' = Job("pending", 0)
  /\ replays' = replays + 1
  /\ UNCHANGED <<rows, signerRows, scan, awaited, pc, reply, lock>>

--------------------------------------------------------------------------------
(***************************************************************************)
(* CompletionHandler.receive.                                              *)
(***************************************************************************)

Goes(h, next) == pc' = [pc EXCEPT ![h] = next]

\* A handler ends; nobody may be waiting for its answer.
Answers(h, status) ==
  /\ Goes(h, "idle")
  /\ reply' = [reply EXCEPT ![h] = IF awaited = h THEN status ELSE None]

\* The callback is authentic and bound to the mission's policy.  An identical
\* one was accepted before, or the mission is not ready for it, or it is.
Receive(h) ==
  /\ pc[h] = "received"
  /\ \/ /\ AcceptedBefore
        /\ Goes(h, "closing")
        /\ UNCHANGED reply
     \/ /\ ~AcceptedBefore /\ mission \in Early
        /\ Answers(h, 503)
     \/ /\ ~AcceptedBefore /\ mission = "running"
        /\ Goes(h, "confirming")
        /\ UNCHANGED reply
     \/ /\ ~AcceptedBefore /\ mission \notin Early \cup {"running"}
        /\ Answers(h, 409)
  /\ UNCHANGED <<rows, signerRows, lock, outside>>

\* The orchestrator's mirror shows the settlement.
Confirmed(h) ==
  /\ pc[h] = "confirming"
  /\ scan = "settled"
  /\ Goes(h, "signing")
  /\ UNCHANGED <<rows, signerRows, reply, lock, outside>>

\* Broken form of SignerAccepts: the signer is told and not awaited.
SignerNotAwaited(h) ==
  /\ pc[h] = "signing"
  /\ Goes(h, "committing")
  /\ UNCHANGED <<rows, signerRows, reply, lock, outside>>

\* CompletionService.complete, with the raw callback: the first time the mirror
\* is asked and the completion is recorded, an identical one is answered at once.
SignerAccepts(h) ==
  /\ pc[h] = "signing"
  /\ signerCompletion' = TRUE
  /\ Goes(h, "committing")
  /\ UNCHANGED <<rows, credit, signerRepaid, reply, lock, outside>>

\* The mirror or the signer does not answer, its acknowledgement is lost, or it
\* refuses: the transfer it sees or the signature it checks is not the one told.
NotConfirmed(h) ==
  /\ pc[h] \in {"confirming", "signing"}
  /\ \/ UNCHANGED signerCompletion
     \/ pc[h] = "signing" /\ signerCompletion' = TRUE
  /\ \E status \in {503} \cup Refusals : Answers(h, status)
  /\ UNCHANGED <<rows, credit, signerRepaid, lock, outside>>

\* Broken form of Commit: the callback is acknowledged before the loan is repaid.
CommitAndAnswer(h) ==
  /\ pc[h] = "committing"
  /\ Transition("running", "completed")
  /\ SaveMissionCompletion
  /\ Answers(h, 202)
  /\ UNCHANGED <<spent, loan, signerRows, lock, outside>>

\* The transition with the completion's row and the callback's key; another
\* handler may have been first.
Commit(h) ==
  /\ pc[h] = "committing"
  /\ \/ /\ Transition("running", "completed")
        /\ SaveMissionCompletion
        /\ Goes(h, "closing")
        /\ UNCHANGED reply
     \/ /\ mission # "running" /\ AcceptedBefore
        /\ Goes(h, "closing")
        /\ UNCHANGED <<mission, completion, reply>>
  /\ UNCHANGED <<spent, loan, signerRows, lock, outside>>

--------------------------------------------------------------------------------
(***************************************************************************)
(* RepaymentWorkflow.run, which the same request awaits before it answers. *)
(***************************************************************************)

\* Broken form of ResumeClosing: what an earlier handler began is not resumed.
ResumeRefused(h) ==
  /\ loan # None
  /\ mission \in {"repayment-pending", "repaid"}
  /\ Answers(h, 409)
  /\ UNCHANGED <<mission, lock>>

\* The repayment that an earlier handler, or an earlier process, began.
ResumeClosing(h) ==
  /\ loan # None
  /\ mission \in {"repayment-pending", "repaid"}
  /\ lock' = h
  /\ Goes(h, IF mission = "repaid" THEN "repaid" ELSE "repaying")
  /\ UNCHANGED <<mission, reply>>

\* The mutex, the rows, and the transition to repayment-pending.
StartClosing(h) ==
  /\ pc[h] = "closing"
  /\ lock = None
  /\ \/ /\ loan = None
        /\ mission = "completed"
        /\ Transition("completed", "closed")
        /\ Answers(h, 202)
        /\ UNCHANGED lock
     \/ /\ mission = "closed"
        /\ Answers(h, 202)
        /\ UNCHANGED <<mission, lock>>
     \/ /\ loan # None
        /\ mission = "completed"
        /\ Transition("completed", "repayment-pending")
        /\ lock' = h /\ Goes(h, "repaying")
        /\ UNCHANGED reply
     \/ ResumeClosing(h)
  /\ UNCHANGED <<spent, loan, completion, signerRows, outside>>

\* POST /repay at the signer, idempotent (Repayment).
SignerRepays(h) ==
  /\ pc[h] = "repaying" /\ lock = h
  /\ credit = "funded" /\ signerCompletion
  /\ signerRepaid' = TRUE
  /\ Goes(h, "settling")
  /\ UNCHANGED <<rows, credit, signerCompletion, reply, lock, outside>>

\* The signer does not confirm the repayment, its answer is lost, or it refuses
\* and HttpRepaymentClient passes its status on.
RepaymentFails(h) ==
  /\ pc[h] = "repaying" /\ lock = h
  /\ \/ UNCHANGED signerRepaid
     \/ credit = "funded" /\ signerCompletion /\ signerRepaid' = TRUE
  /\ \E status \in {503} \cup Refusals : Answers(h, status)
  /\ lock' = None
  /\ UNCHANGED <<rows, credit, signerCompletion, outside>>

\* The loan's row follows in the same transaction as the mission's.
RecordRepaid(h) ==
  /\ pc[h] = "settling"
  /\ Transition("repayment-pending", "repaid")
  /\ UpdateLoanState("funded", "repaid")
  /\ Goes(h, "repaid")
  /\ UNCHANGED <<spent, completion, signerRows, reply, lock, outside>>

Close(h) ==
  /\ pc[h] = "repaid"
  /\ Transition("repaid", "closed")
  /\ Answers(h, 202)
  /\ lock' = None
  /\ UNCHANGED <<spent, loan, completion, signerRows, outside>>

Handle(h) ==
  \/ Receive(h) \/ Confirmed(h) \/ SignerAccepts(h) \/ NotConfirmed(h) \/ Commit(h)
  \/ StartClosing(h) \/ SignerRepays(h) \/ RepaymentFails(h) \/ RecordRepaid(h) \/ Close(h)

Worker ==
  \/ DeliveryFails
  \/ \E h \in Handlers : Deliver(h) \/ Dispatched(h) \/ GiveUp(h)
================================================================================
