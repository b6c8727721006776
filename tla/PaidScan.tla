------------------------------- MODULE PaidScan -------------------------------
(***************************************************************************)
(* POST /scan of a provider for one payment, that is for one transaction   *)
(* identifier (services/resource-server/src: server.ts, outbox.ts,         *)
(* settlement.ts).                                                         *)
(*                                                                         *)
(* A call claims the payment under a lease, has it verified by the         *)
(* facilitator, scans, records that it attempts the settlement, asks the   *)
(* facilitator to settle, and answers with the report.  Identical retries  *)
(* resume, reconcile or replay.  A worker asks the mirror about every      *)
(* attempted settlement until it is shown, which completes the payment and *)
(* enqueues the callback, or until it can no longer have happened.         *)
(*                                                                         *)
(* Time is a coarse clock.  The transaction, and the authorization that    *)
(* the signer bound to it, are valid before ValidUntil.                    *)
(***************************************************************************)
EXTENDS Integers

CONSTANTS
  Calls,          \* concurrent calls with the same request and payment
  Worker,         \* SettlementReconciliationWorker
  None,
  Gone,           \* the token of a call that has ended
  PaymentLease,   \* PAYMENT_LEASE_MS, 30 s
  ValidUntil,     \* at most 180 s after the transaction's valid start
  VerifiedLease,  \* VERIFIED_PAYMENT_LEASE_MS, 300 s
  Grace,          \* SETTLEMENT_FAILURE_GRACE_MS, 600 s
  MaxCrashes,     \* bound on crashes
  MirrorOutage    \* the mirror may not be asked, or not show an execution, for
                  \* longer than the grace

\* The clock stops when the grace is over.
EndOfGrace == ValidUntil + Grace + 1

ASSUME LeaseAssumption ==
  /\ {PaymentLease, ValidUntil, VerifiedLease, Grace} \subseteq Nat \ {0}
  /\ PaymentLease < ValidUntil /\ ValidUntil <= VerifiedLease
ASSUME NamesAssumption ==
  /\ Worker \notin Calls /\ {None, Gone} \cap (Calls \cup {Worker}) = {}
  /\ None \notin {"bare", "full", "report"}
  /\ MaxCrashes \in Nat /\ MirrorOutage \in BOOLEAN

Processes == Calls \cup {Worker}

\* What is stored as the evidence of a settlement.  "bare" is what the provider
\* makes up from the mirror (syntheticSettlement); the facilitator's own answer
\* has the same fields or, "full", the amount as well.
Evidence == {"bare", "full"}

VARIABLES
  row,        \* the payment's row in provider_paid_scans
  callback,   \* its completion callback is enqueued
  pc,         \* where each process is
  seen,       \* the settlement in the row that a process reconciles from
  answer,     \* what the last request of a call was answered
  entitled,   \* the report had been delivered when that request began
  scans,      \* scans begun
  settles,    \* settlements asked of the facilitator
  now,
  chain,      \* "new", "submitted", "executed", "dead"
  shown,      \* the mirror has the execution
  crashes

outside == <<now, chain, shown>>
vars == <<row, callback, pc, seen, answer, entitled, scans, settles, now, chain, shown,
          crashes>>

Init ==
  /\ row = [status |-> "none", attempted |-> FALSE, report |-> FALSE,
            settlement |-> None, owner |-> None, leaseUntil |-> 0]
  /\ callback = FALSE
  /\ pc = [p \in Processes |-> "idle"]
  /\ seen = [p \in Processes |-> None]
  /\ answer = [c \in Calls |-> None]
  /\ entitled = [c \in Calls |-> FALSE]
  /\ scans = 0
  /\ settles = 0
  /\ now = 0
  /\ chain = "new"
  /\ shown = FALSE
  /\ crashes = 0

Delivered == \E c \in Calls : answer[c] = "report" \/ entitled[c]

------------------------------------------------------------------------------
(* How a request ends                                                      *)

Goto(p, place) == pc' = [pc EXCEPT ![p] = place]

\* The process is idle again; a request gets its answer.
End(p, what) ==
  /\ Goto(p, "idle")
  /\ seen' = [seen EXCEPT ![p] = None]
  /\ answer' = IF p \in Calls THEN [answer EXCEPT ![p] = what] ELSE answer

\* A request that ends while it holds the lease leaves it to run out.
Orphaned(r, c) == IF r.owner = c THEN [r EXCEPT !.owner = Gone] ELSE r

------------------------------------------------------------------------------
(* The claim                                                               *)

Expired == now >= ValidUntil

\* A lease that has run out is taken over as long as nothing was attempted.
LeaseIsOver == ~row.attempted /\ row.leaseUntil <= now

\* A request begins; it is entitled to the report if that was delivered before.
Begins(c) == entitled' = [entitled EXCEPT ![c] = Delivered]

\* A new row, or the row of a lease that is over, with a fresh token.
Claim(c) ==
  /\ pc[c] = "idle"
  /\ ~Expired
  /\ row.status = "none" \/ LeaseIsOver
  /\ row' = [row EXCEPT !.status = IF @ = "none" THEN "claimed" ELSE @,
                        !.owner = c, !.leaseUntil = now + PaymentLease]
  /\ Begins(c)
  /\ Goto(c, "verifying")
  /\ answer' = [answer EXCEPT ![c] = None]
  /\ UNCHANGED <<callback, seen, scans, settles, outside, crashes>>

\* An expired authorization is refused unless a settlement was attempted.
RefuseExpired(c) ==
  /\ pc[c] = "idle"
  /\ Expired
  /\ ~row.attempted \/ row.status = "settlement_failed"
  /\ Begins(c)
  /\ answer' = [answer EXCEPT ![c] = "refused"]
  /\ UNCHANGED <<row, callback, pc, seen, scans, settles, outside, crashes>>

\* Another request holds the claim and has not attempted the settlement.
AlreadyProcessed(c) ==
  /\ pc[c] = "idle"
  /\ ~Expired
  /\ row.status # "none" /\ ~row.attempted /\ ~LeaseIsOver
  /\ Begins(c)
  /\ answer' = [answer EXCEPT ![c] = "later"]
  /\ UNCHANGED <<row, callback, pc, seen, scans, settles, outside, crashes>>

\* A completed payment is answered from the store.
Replay(c) ==
  /\ pc[c] = "idle"
  /\ row.status = "completed"
  /\ Begins(c)
  /\ answer' = [answer EXCEPT ![c] = "report"]
  /\ UNCHANGED <<row, callback, pc, seen, scans, settles, outside, crashes>>

Pending == row.attempted /\ row.status \notin {"completed", "settlement_failed"}

\* A retry of an attempted settlement reconciles it.
Retry(c) ==
  /\ pc[c] = "idle"
  /\ Pending
  /\ Begins(c)
  /\ Goto(c, "reconciling")
  /\ seen' = [seen EXCEPT ![c] = row.settlement]
  /\ answer' = [answer EXCEPT ![c] = None]
  /\ UNCHANGED <<row, callback, scans, settles, outside, crashes>>

------------------------------------------------------------------------------
(* Verification, scan and settlement by the call that holds the claim      *)

\* Broken form of RenewLease: the lease is checked but not extended.
RenewNothing(c) == row.owner = c /\ ~row.attempted /\ UNCHANGED row

\* renewVerifiedPaymentLease: whoever still has the token keeps it for longer
\* than the transaction is valid.
RenewLease(c) ==
  /\ row.owner = c /\ ~row.attempted
  /\ row' = [row EXCEPT !.leaseUntil = now + VerifiedLease]

Verified(c) ==
  /\ pc[c] = "verifying"
  /\ RenewLease(c)
  /\ Goto(c, IF row.report THEN "marking" ELSE "scanning")
  /\ scans' = IF row.report THEN scans ELSE scans + 1
  /\ UNCHANGED <<callback, seen, answer, entitled, settles, outside, crashes>>

\* Another request took over during the verification.
TakenOver(c) ==
  /\ pc[c] = "verifying"
  /\ row.owner # c
  /\ End(c, "later")
  /\ UNCHANGED <<row, callback, entitled, scans, settles, outside, crashes>>

\* The facilitator refuses or does not answer, or the scan fails: the claim
\* stays until its lease is over.
Fails(c) ==
  /\ pc[c] \in {"verifying", "scanning"}
  /\ End(c, "failed")
  /\ row' = Orphaned(row, c)
  /\ UNCHANGED <<callback, entitled, scans, settles, outside, crashes>>

\* saveReport
Scanned(c) ==
  /\ pc[c] = "scanning"
  /\ IF row.owner = c /\ ~row.attempted
       THEN /\ row' = [row EXCEPT !.report = TRUE, !.status = "report_ready"]
            /\ Goto(c, "marking")
            /\ UNCHANGED <<seen, answer>>
       ELSE End(c, "failed") /\ UNCHANGED row
  /\ UNCHANGED <<callback, entitled, scans, settles, outside, crashes>>

\* markSettlementAttempted
MarkAttempted(c) ==
  /\ pc[c] = "marking"
  /\ IF row.owner = c /\ row.report /\ ~row.attempted
       THEN /\ row' = [row EXCEPT !.attempted = TRUE, !.owner = None, !.leaseUntil = 0]
            /\ Goto(c, "settling")
            /\ UNCHANGED <<seen, answer>>
       ELSE End(c, "failed") /\ UNCHANGED row
  /\ UNCHANGED <<callback, entitled, scans, settles, outside, crashes>>

\* The facilitator is asked to settle.
AskSettlement(c) ==
  /\ pc[c] = "settling"
  /\ Goto(c, "awaiting")
  /\ settles' = settles + 1
  /\ UNCHANGED <<row, callback, seen, answer, entitled, scans, outside, crashes>>

\* Broken form of SaveSettlement: two columns are swapped.
SaveSwapped(evidence) ==
  row' = [row EXCEPT !.settlement = "settled", !.status = evidence]

\* saveSettlement: the status becomes settled whatever it was.
SaveSettlement(evidence) ==
  row' = [row EXCEPT !.settlement = evidence, !.status = "settled"]

Conflicts(evidence) == row.settlement \notin {None, evidence}

\* The report can be delivered; only the callback waits for the mirror.
AfterSettlement == "delivering"

\* The facilitator says that the transaction is settled.
FacilitatorConfirms(c) ==
  /\ pc[c] = "awaiting"
  /\ chain = "executed"
  /\ \E evidence \in Evidence :
       IF Conflicts(evidence)
         THEN End(c, "conflict") /\ UNCHANGED row
         ELSE /\ SaveSettlement(evidence)
              /\ Goto(c, AfterSettlement)
              /\ seen' = [seen EXCEPT ![c] = evidence]
              /\ UNCHANGED answer
  /\ UNCHANGED <<callback, entitled, scans, settles, outside, crashes>>

\* Broken form of MayFail: an uncertain settlement stays uncertain for ever.
NeverFails(r) == FALSE

\* Broken form of MayFail: the mirror gets no time to show the execution.
MayFailAtOnce(r) == r.settlement = None /\ now > ValidUntil

\* The row's settlement is not confirmed by anyone and the grace is over.
MayFail(r) == r.settlement = None /\ now > ValidUntil + Grace

\* recordUnconfirmedSettlement
RecordUnconfirmed ==
  row' = IF Pending /\ MayFail(row) THEN [row EXCEPT !.status = "settlement_failed"] ELSE row

\* The facilitator refuses, fails or times out: the outcome is uncertain.
FacilitatorFails(c) ==
  /\ pc[c] = "awaiting"
  /\ RecordUnconfirmed
  /\ End(c, "later")
  /\ UNCHANGED <<callback, entitled, scans, settles, outside, crashes>>

------------------------------------------------------------------------------
(* Reconciliation, by a retry, by the paying request or by the worker      *)

\* Broken form of Unresolved: only what the facilitator confirmed is listed.
SettledOnly == row.status = "settled"

\* pendingSettlements
Unresolved == Pending /\ row.report

WorkerTakes ==
  /\ pc[Worker] = "idle"
  /\ Unresolved
  /\ Goto(Worker, "reconciling")
  /\ seen' = [seen EXCEPT ![Worker] = row.settlement]
  /\ UNCHANGED <<row, callback, answer, entitled, scans, settles, outside, crashes>>

\* The mirror shows the execution; without a settlement in the row that it
\* started from, the process makes one up.
MirrorShows(p) ==
  /\ pc[p] \in {"reconciling", "delivering"}
  /\ shown
  /\ IF seen[p] = None /\ Conflicts("bare")
       THEN End(p, "conflict") /\ UNCHANGED row
       ELSE /\ IF seen[p] = None THEN SaveSettlement("bare") ELSE UNCHANGED row
            /\ Goto(p, "completing")
            /\ UNCHANGED <<seen, answer>>
  /\ UNCHANGED <<callback, entitled, scans, settles, outside, crashes>>

\* completeAndEnqueue
Complete(p) ==
  /\ pc[p] = "completing"
  /\ IF row.settlement # None /\ row.status \in {"settled", "completed"}
       THEN /\ row' = [row EXCEPT !.status = "completed"]
            /\ callback' = TRUE
            /\ End(p, "report")
       ELSE End(p, "failed") /\ UNCHANGED <<row, callback>>
  /\ UNCHANGED <<entitled, scans, settles, outside, crashes>>

\* The mirror does not show the transaction, or cannot be asked, which the code
\* does not tell apart.  After the grace an execution is missed only if the mirror
\* is out for longer.
MayMiss == MirrorOutage \/ chain # "executed" \/ now <= ValidUntil + Grace

\* Broken form of AnswerUnconfirmed: the report waits for the mirror.
AnswerWhenShown(r) == IF r.status = "settlement_failed" THEN "refused" ELSE "later"

\* Broken form of AnswerUnconfirmed: the report does not wait for a settlement.
AnswerReport(r) == IF r.status = "settlement_failed" THEN "refused" ELSE "report"

\* What a retry is answered when the mirror does not show the transaction.
AnswerUnconfirmed(r) ==
  CASE r.status = "settlement_failed" -> "refused"
    [] r.status # "settlement_failed" /\ r.settlement # None -> "report"
    [] OTHER -> "later"

MirrorMisses(p) ==
  /\ pc[p] \in {"reconciling", "delivering"}
  /\ MayMiss
  /\ RecordUnconfirmed
  /\ End(p, IF pc[p] = "delivering" THEN "report" ELSE AnswerUnconfirmed(row'))
  /\ UNCHANGED <<callback, entitled, scans, settles, outside, crashes>>

\* The process dies and comes back.
Crash ==
  /\ crashes < MaxCrashes
  /\ crashes' = crashes + 1
  /\ row' = IF row.owner \in Calls THEN [row EXCEPT !.owner = Gone] ELSE row
  /\ pc' = [p \in Processes |-> "idle"]
  /\ seen' = [p \in Processes |-> None]
  /\ UNCHANGED <<callback, answer, entitled, scans, settles, outside>>

------------------------------------------------------------------------------
(* The facilitator, the ledger, the mirror and the clock                   *)

\* Asked once, the facilitator submits, be its answer lost or not.
Submit ==
  /\ settles > 0 /\ chain = "new" /\ now < ValidUntil
  /\ chain' = "submitted"
  /\ UNCHANGED <<row, callback, pc, seen, answer, entitled, scans, settles, now, shown, crashes>>

Execute ==
  /\ chain = "submitted"
  /\ chain' = "executed"
  /\ UNCHANGED <<row, callback, pc, seen, answer, entitled, scans, settles, now, shown, crashes>>

Show ==
  /\ chain = "executed" /\ ~shown
  /\ shown' = TRUE
  /\ UNCHANGED <<row, callback, pc, seen, answer, entitled, scans, settles, now, chain, crashes>>

\* What is not executed when its window ends never is.  The call to the
\* facilitator times out before the grace is over.
Tick ==
  /\ now < EndOfGrace
  /\ now = ValidUntil + Grace => \A c \in Calls : pc[c] # "awaiting"
  /\ now' = now + 1
  /\ chain' = IF now' = ValidUntil /\ chain # "executed" THEN "dead" ELSE chain
  /\ UNCHANGED <<row, callback, pc, seen, answer, entitled, scans, settles, shown, crashes>>

------------------------------------------------------------------------------

Request(c) ==
  Claim(c) \/ RefuseExpired(c) \/ AlreadyProcessed(c) \/ Replay(c) \/ Retry(c)

Pay(c) ==
  \/ Verified(c) \/ TakenOver(c) \/ Fails(c) \/ Scanned(c) \/ MarkAttempted(c)
  \/ AskSettlement(c) \/ FacilitatorConfirms(c) \/ FacilitatorFails(c)

Reconcile(p) == MirrorShows(p) \/ Complete(p) \/ MirrorMisses(p)

Environment == Submit \/ Execute \/ Show \/ Tick

Next ==
  \/ \E c \in Calls : Request(c) \/ Pay(c)
  \/ WorkerTakes
  \/ \E p \in Processes : Reconcile(p)
  \/ Crash
  \/ Environment

\* The worker keeps running, the facilitator answers or times out, time passes
\* and the mirror catches up; nothing is asked of callers.
Fairness ==
  /\ \A c \in Calls : WF_vars(FacilitatorConfirms(c) \/ FacilitatorFails(c))
  /\ WF_vars(WorkerTakes) /\ WF_vars(Reconcile(Worker))
  /\ WF_vars(Tick) /\ WF_vars(Show)

Spec == Init /\ [][Next]_vars /\ Fairness

------------------------------------------------------------------------------
(* Properties                                                              *)

Rows == [status : {"none", "claimed", "report_ready", "settled", "completed",
                   "settlement_failed"},
         attempted : BOOLEAN, report : BOOLEAN, settlement : Evidence \cup {None},
         owner : Calls \cup {None, Gone}, leaseUntil : Nat]
Places == {"idle", "verifying", "scanning", "marking", "settling", "awaiting", "delivering",
           "reconciling", "completing"}
Answers == {None, "report", "later", "refused", "failed", "conflict"}

\* Every variable has its shape.
TypeOK ==
  /\ row \in Rows
  /\ callback \in BOOLEAN
  /\ pc \in [Processes -> Places]
  /\ seen \in [Processes -> Evidence \cup {None}]
  /\ answer \in [Calls -> Answers]
  /\ entitled \in [Calls -> BOOLEAN]
  /\ scans \in Nat /\ settles \in Nat
  /\ now \in 0..EndOfGrace
  /\ chain \in {"new", "submitted", "executed", "dead"}
  /\ shown \in BOOLEAN
  /\ crashes \in 0..MaxCrashes

\* One payment is scanned and settled at most once, over concurrent requests,
\* leases that run out and restarts ("without a second settlement or scan",
\* docs/protocol.md:374-377).
ScannedAndSettledOnce == scans <= 1 /\ settles <= 1

\* The report leaves the provider only for a payment that moved the money: in an
\* answer on the word of the facilitator or the mirror; in the callback, with the
\* settlement, on that of the mirror.
ReportIsPaid ==
  /\ \A c \in Calls : answer[c] = "report" => chain = "executed"
  /\ callback => chain = "executed" /\ shown /\ row.report /\ row.settlement # None

\* A payment that is given up has not been made: what the ledger shows nothing of
\* fails only when it can no longer reach consensus (outbox.ts:371-377).
FailedIsUnpaid == row.status = "settlement_failed" => chain = "dead"

\* Once the report was delivered, a later identical request gets it, before and
\* after the expiry, whatever the mirror says.
DeliveredStays ==
  \A c \in Calls : entitled[c] => answer[c] \in {None, "report"}

\* An attempted settlement is resolved in the end, with or without callers.
AttemptIsResolved ==
  row.attempted ~> row.status \in {"completed", "settlement_failed"}

\* An executed payment gets its callback in the end ("reconcile paid jobs that
\* crashed before enqueue", docs/protocol.md:432-433).
PaidIsCalledBack == (chain = "executed") ~> callback

\* What docs/protocol.md:376-377 says: "identical retries resume/reconcile the
\* same operation or return its stored report".  No request with the same
\* content is refused as a conflict.
IdenticalNeverConflicts == \A c \in Calls : answer[c] # "conflict"

\* The claim of a request that was interrupted before it attempted the settlement
\* can be taken over, and its report reused, while the payment is still valid.
InterruptedIsRecoverable ==
  row.report /\ ~row.attempted /\ row.owner = Gone => row.leaseUntil < ValidUntil
==============================================================================
