# Koven in TLA+

Koven lets an agent that has no money of its own buy an x402-protected service
on credit: a lender funds the mission, a restricted signer pays the provider
under a policy the agent cannot change, the provider delivers, and the loan is
repaid from the operator's treasury. This directory holds the specifications of
that program, the TLC configurations that check them and the TLAPS proofs about
them. Paths below are relative to the repository; "signer" is
`services/restricted-signer`, "provider" is `services/resource-server`.

## At a glance

| module | code | TLC runs | proofs |
| --- | --- | --- | --- |
| `PaymentBudget` | what the signer promises about budgets | (abstract) | |
| `PaymentGate` | signer `POST /authorize` | `gate` | `PaymentGateProofs` |
| `RepayOnce` | what `/repay` promises | (abstract) | |
| `Repayment` | signer `POST /repay`, ledger, mirror | `repay`, `repay_outage` | `RepaymentProofs` |
| `PaidScan` | provider `POST /scan`, reconciliation worker | `paid_scan`, `paid_scan_conflict`, `paid_scan_interrupted` | `PaidScanProofs` |
| `LoanFunding` | lender `POST /credit/accept`, signer `registerLoan` | `loan_funding`, `loan_expired` | `LoanFundingProofs` |
| `MissionStore` | the rows of one mission that its parts share | (shared) | |
| `MissionWorkflow` | orchestrator workflow, consumer, x402 client | (composed) | |
| `MissionCompletion` | callback worker, completion handler, repayment workflow, signer `complete` | (composed) | |
| `Mission` | the two above with crashes | `mission`, `mission_lost` | `MissionProofs` |
| `AuditOutbox` | audit writer, its outbox and the topic | `audit` | `AuditOutboxProofs` |
| `Selection` | ranking, offer selection, pricing, reputation | (operators) | `SelectionProofs` |
| `Directory` | registrar: approve, rank, provision | (extended) | (with `CreditMarket`) |
| `CreditMarket` | quotes and the consumer's choice, over `Directory` | `credit_market` | `CreditMarketProofs` |

Each `MC` module instantiates one of them for TLC; its `.cfg` gives the constants
their values.
To check or prove: `tlc -workers 2 -config MCPaymentGate.cfg MCPaymentGate.tla`,
`tlapm RepaymentProofs.tla`.

## 1. Inventory

Every service is a single Node process with a SQLite file. A database
transaction runs synchronously and is atomic; between two `await`s no other
handler runs; at an `await` any other handler may. Services call each other over
HTTP with retries, and all of them read the Hedera mirror node, which lags the
ledger.

### Restricted signer
* **State.** `signer_mission_policies`, `spending_sessions`,
  `missions.spent_tinybar`, `consumed_nonces`, `signer_authorizations`,
  `signer_acceptances`, `loans`, `signer_completions`, `signer_repayments`, the
  audit outbox; in memory one chain of promises per mission and per loan
  (`KeyedMutex`).
* **Operations.** Register a mission policy; sign a credit request; sign a credit
  acceptance; register a funded loan (checked against the mirror); authorize an
  x402 payment; record a completion; repay.
* **Hard.** Two budgets and a nonce charged in one transaction while calls
  interleave; a proof check and a lock to wait for between reading the store and
  reserving; a repayment whose answer was lost and which is confirmed,
  resubmitted, left alone or given up by the clock; crashes between commits.
* **Correct when.** Spending stays within mission and session caps; a nonce pays
  once; bytes leave only after they were reserved; a loan is repaid once, after
  the completion, and every answer names the transaction that paid it.

### Provider
* **State.** `provider_paid_scans` (status, lease, report, settlement, expiry),
  `provider_callback_jobs`; two workers.
* **Operations.** 402 challenge; claim, verify, scan, attempt, settle, deliver;
  reconcile an attempted settlement; dispatch the completion callback.
* **Hard.** Leases that run out under a slow scan; an uncertain settlement; a
  mirror that does not yet show what the facilitator confirmed; the worker, the
  paying request and a retry reconciling one payment at a time; restarts.
* **Correct when.** One payment is scanned and settled once, its report leaves
  only for money that moved and stays available afterwards, and a paid job always
  gets its callback.

### Orchestrator
* **State.** `missions` and their events, `mission_completions`, idempotency keys,
  `loans`, the audit outbox.
* **Operations.** Run a mission (select provider and offer, fund, pay); receive a
  completion; run the repayment workflow; serve the API and the event stream.
* **Hard.** The workflow's progress lives in one chain of `await`s; the completion
  handler moves the same mission row; a local failure races a settling payment; a
  repayment that fails has to be retried.
* **Correct when.** A mission only follows `ALLOWED_TRANSITIONS`; a completion is
  accepted once and only against an independent look at the settlement; a
  delivered mission's loan is repaid.

### Lender agents
* **State.** Mission policies, offers, one funding row per offer (status,
  transaction, the claim on its submission), the queue of loan registrations.
  There is no account of what has been lent: a posture limits one request only.
* **Operations.** Quote; accept and fund; reconcile uncertain funding; register.
* **Hard.** One funding transaction per accepted offer over concurrent retries,
  crashes, a claim that is taken over and an SDK that submits again under a new
  identifier; an expiry that is checked again when an acceptance is retried.
* **Correct when.** A mission is funded by at most one executed transfer; what is
  answered as funded is registered; what was recorded and executed gets registered.

### Consumer agent
Fetches the challenge, has the proof made, reads the balance, requests credit if
it is too low, asks every lender at once and selects an offer, has it accepted by
the signer, awaits the funding (ten tries), has the payment authorized and sends
the paid request once. It keeps nothing: a failure anywhere fails the mission.

### Audit outbox
Events wait in SQLite until a worker publishes them to the Hedera consensus
topic, under a lease and with a prepared transaction that a retry reconciles first.
An event waits for the earlier ones of its mission. Correct when every committed
event is published, and never behind a later one of its mission.

### Directory
* **State.** The provider catalogue and `registrar_approvals`: the operator's
  request, the policy derived from it and the ranking it was derived from.
* **Operations.** Approve a mission (immutable), rank providers for an approved
  mission, provision the approved policy to the signer and every lender.
* **Hard.** Provisioning writes to several services and may succeed at some only;
  the orchestrator retries it.
* **Correct when.** Only the approved policy is ever provisioned, and a retry after
  a partial failure completes it.

### Libraries
`packages/policy` (offer selection, provider ranking), `credit-protocol`
(canonical forms, signatures), `x402` (challenge and settlement codecs, retry
client), `zk-policy` (circuits), `hedera` (clients), `persistence`, `domain`,
`config`, `schemas`, `testing`; `apps/web` shows what the orchestrator's API
returns.

### How the parts interact
Operator -> directory: approval. Orchestrator -> directory: ranking, and
provisioning of the policy, which the directory registers with the signer and the
lenders. Consumer -> lenders: quote, accept. Lender -> ledger: funding; lender ->
signer: registration of the funded loan. Consumer -> signer: credit request,
acceptance, payment authorization. Consumer -> provider: paid request.
Orchestrator -> signer: completion, repayment. Provider
-> facilitator -> ledger: settlement. Provider -> orchestrator: completion
callback, at least once. Everyone -> mirror: confirmation. Every arrow may be
lost, repeated or late; the only thing all parties agree on is the ledger.

## 2. Plan

In the order of what matters most (money that leaves):

1. `PaymentBudget`, `PaymentGate`, `PaymentGateProofs`: authorization.
2. `RepayOnce`, `Repayment`, `RepaymentProofs`: repayment.
3. `PaidScan`: the provider's settlement.
4. `LoanFunding`: the lender's transfer and its registration at the signer.
5. `MissionStore`, `MissionWorkflow`, `MissionCompletion`, composed in `Mission`:
   what happens to a mission between the services.
6. `AuditOutbox`: publication to the topic.
7. `Selection`, `Directory`, `CreditMarket`: what is approved and what is chosen.

All of these are written and checked, and every safety invariant that a run checks
is proved (section 6), with `MissionProofs`, `LoanFundingProofs`, `PaidScanProofs`,
`AuditOutboxProofs`, `SelectionProofs` and `CreditMarketProofs` next to the first two.
What is left are abstract specifications of what the lender, the provider and the
outbox promise, with the proofs that the detailed modules implement them, as
`PaymentBudget` and `RepayOnce` are for the signer.

Modules to be proved about have no `RECURSIVE` operator, name the assumptions on
their constants, have one action per operation, and state invariants as
conjunctions of named parts.

## 3. The modules and the code

### PaymentGate
An action is what runs between two `await`s of `authorize` (`gate.ts`).

| TLA+ | code |
| --- | --- |
| `policy`, `session`, `spent` | `signer_mission_policies`, `spending_sessions`, `missions.spent_tinybar` |
| `acceptance` | `signer_acceptances`, reduced to the payment intent it binds |
| `authorizations` | `consumed_nonces` with `signer_authorizations` |
| `queue` | the chain of promises of `KeyedMutex` for a mission |
| `seen` | the acceptance as the handler read it; a history of the call, kept for `IntentBinding` |
| `RegisterMissionPolicy` | `registerMissionPolicy`, with the session's cap |
| `SignCreditAcceptance` | `signAcceptance`, including the zk intent check |
| `Authorize`, `ProofVerified`, `ProofRefused` | the checks, before and after the wait for the proof |
| `Enqueue`, `HoldsLock`, `Unlock` | `KeyedMutex.run` |
| `Build`, `Reserve`, `ReserveRefused` | building the transfer and `reserveAuthorization`, one transaction |
| `Respond`, `Crash` | the bytes leave; the process restarts with its store |

Abstracted: a challenge stands for one that passed `normalizeChallenge`; the
commitment hashes the whole challenge, so equal commitments are equal
challenges; signing and the bytes of a transfer are the record `Payment(c)`,
which differs from call to call as transaction identifiers do. The arithmetic of
a proof is left out: a proof is verified or refused. Everything refused leaves
the store alone, and a building call may always be refused, because building may
fail or may take longer than the transaction is valid.

### Repayment
One action per step of `runLocked` in `repay.ts`. A call holds the lock of its
loan (`lock`), works on the transaction in `handling`, and is at `pc`. A row of
`signer_repayments` is the number of the transaction last built and its status.
`Confirmed` and `Unconfirmed` are the two outcomes of `confirm`; `Accepted`,
`Rejected`, `ReceiptSuccess`, `ReceiptFailure` and `Uncertain` the outcomes of
`submit` as `ledger.ts` reports them; `SettleRow`, `MarkLoanRepaid` and
`EmitSettled` the three commits of `settle`, between which the process may crash.
`Execute`, `FailAtConsensus`, `Expire`, `GraceOver` and `Show` are the ledger, the
clock and the mirror. `RegisterFundedLoan` and `RecordCompletion` are what other
handlers bring into the same store; the checks in front of them are in
`LoanFunding` and `MissionCompletion`.

Assumptions named as constants: `MirrorOutage` (the mirror may miss an execution
even after the ten minutes of grace) and `LateRejection` (a node answers a
resubmission or a receipt query with a precheck status other than
`DUPLICATE_TRANSACTION` for what it accepted before). Both are `FALSE` where the
promise is checked and proved; `repay_outage` sets the first to `TRUE`, and what
follows from the second is at the end of section 5. `confirm` also compares the transfer that the mirror
shows with the one expected; that mismatch cannot happen to the signer's own bytes
and is left out. Expiry and grace are the clock's (`Expire`, `GraceOver`); the code's
comparison with it is `AfterGrace`.

`MaxTx` bounds the transactions of a loan; the last one is not refused, not failed
and not left to expire unexecuted. Without that, "the lender is paid in the end"
would be false for the trivial reason that every transaction may be lost.

### PaidScan
One payment, that is one transaction identifier. `row` is its row in
`provider_paid_scans`, with the lease token as the call that holds it (`Gone`
for a call that has ended); `seen` is the row's settlement as a reconciling
process read it; `entitled` records, for the properties, whether the report had
been delivered when a request began.

| TLA+ | code |
| --- | --- |
| `Claim`, `RefuseExpired`, `AlreadyProcessed`, `Replay`, `Retry` | the outcomes of the claim in `outbox.ts` and their branches in `server.ts` |
| `Verified`, `TakenOver`, `Fails` | facilitator verification and `renewVerifiedPaymentLease` |
| `Scanned`, `MarkAttempted`, `AskSettlement` | `saveReport`, `markSettlementAttempted`, the settle call |
| `FacilitatorConfirms`, `FacilitatorFails` | its answer; `saveSettlement`, `recordUnconfirmedSettlement` |
| `WorkerTakes`, `MirrorShows`, `MirrorMisses`, `Complete` | reconciliation, `syntheticSettlement`, `completeAndEnqueue` |
| `Submit`, `Execute`, `Show`, `Tick` | facilitator, ledger, mirror, clock |

Assumptions on what is outside: the facilitator reports success only for an
executed transaction; the facilitator's call ends before the grace does; and, with
`MirrorOutage = FALSE` as in every run, the mirror can be asked, and shows an
execution, by the end of the grace. Only `FailedIsUnpaid` and `PaidIsCalledBack`
depend on that; the other invariants are proved without it. The branch that answers
a ledger mismatch cannot be reached for bytes that passed validation and is left
out, as is the order in which the worker visits several payments.
The evidence of a settlement is "bare" (made up from the mirror, or the
facilitator's with the same fields) or "full" (with the amount).

### LoanFunding
One mission; each lender has one offer for its request. An action is what runs
between two `await`s of `accept` in the lender's `fund.ts`, or of `registerLoan` at
the signer.

| TLA+ | code |
| --- | --- |
| `policyAt`, `request`, `offers`, `accepted`, `expired` | the documents of the mission at the lenders and the signer |
| `funding`, `outbox` | `lender_fundings`, `lender_registration_outbox` |
| `owner`, `stale` | `submission_token`, and its lease measured against `updated_at` |
| `prepared`, `current` | the identifier the hook stored, and the one the SDK is executing |
| `Accept` | the route up to the funding service, the expiry included |
| `AlreadyRegistered`, `ReconcileFirst`, `ResumeRegistration`, `ClaimSubmission`, `AnotherPrepares` | the branches on the row |
| `Prepare`, `Submit`, `Regenerate`, `TransferFails`, `TransferSucceeds` | the hook, the transfer, `TRANSACTION_EXPIRED`, its outcomes |
| `ReconcileConfirmed`, `ReconcileFailed`, `ReconcilePending` | the mirror about a recorded transaction |
| `StartRegistration`, `Acknowledge`, `RegistrationFails` | enqueue, the signer's answer, `markRegistered` |
| `RegisterLoan`, `RefuseLoan` | the signer, after its wait for the mirror |
| `Decide`, `Show`, `LeaseOver`, `Crash` | ledger, mirror, clock, restart of a lender |

The evidence of an acceptance is taken for valid: the borrower's signer made it.
A transaction that the ledger drops is one that its validity outlived.

### MissionStore, MissionWorkflow, MissionCompletion, Mission
`MissionStore` holds what the parts share: the orchestrator's rows, the transition
table (`Allowed`), and what signer, lender and provider know of the mission, each
reduced to what another part can see of it (the modules above refine them).

`MissionWorkflow` has one action per await of `run` (`step`), with the state and the
loan as the process remembers them (`state`, `borrowed`), next to the row they may
have lost touch with. `Provision` is tried again after a 503 only; another refusal,
or the last 503, fails the mission at once. `Fail` ends any await; `FinishFailure` is `finishFailure`, one
transition at a time. `LenderFunds` and `ProviderSettles` happen whether or not
somebody still waits for them.

`MissionCompletion` has the callback worker (`awaited`: the request whose answer it
waits for) and any number of handlers of the same callback (`pc`), because the
worker gives up after ten seconds and a handler may wait for thirty. `Receive`,
`Confirmed`, `SignerAccepts`, `NotConfirmed`, `Commit` are `receive`; `StartClosing`,
`SignerRepays`, `RepaymentFails`, `RecordRepaid`, `Close` the repayment workflow, which
the same request awaits before it answers 202; `lock` is its mutex. The worker
tries again after 503 and leaves any other refusal to an operator; the job keeps which
one it was (`refusal`). Besides the orchestrator's own 409, the mirror's comparison, the
check of the callback's key and clock, and the signer's status may make it a 4xx:
`Refusals`, `{400}` in `mission`, where 400 stands for each of them, and empty in
`mission_lost`, whose counterexample needs none.

`Mission` composes them: `OrchestratorCrash` loses the workflow, which nothing
resumes, and all handlers; `ProviderCrash` loses the worker's wait.

Abstracted: event payloads, the authentication of the callback, report hashes (there
is one report), backoff times.

### AuditOutbox
A writer claims a row (`Claim`), and then either prepares and stores a
transaction (`SavePrepared`), or reconciles one that was attempted
(`ReconcileConfirmed`, `ReconcileFailed`, `ReconcileUncertain`), or sends the stored
bytes (`MarkSubmissionAttempted`, `Send`, `SubmitConfirmed`, `SubmitFailed`,
`SubmitUncertain`). Every UPDATE asks for the token (`Holds`). `Age` is the validity
of a transaction and the grace after it; `LeaseOver` the lease of a row. Assumption:
a failure that the network reports is one; `topic.ts` takes every precheck status
but `DUPLICATE_TRANSACTION` for it, of the receipt query too.

### Selection, Directory, CreditMarket
`Selection` has the scores as integers of `1/Scale`, where the code adds floats made
of such shares (`RATIO_SCALE` is 10^12; the share of the validity is a plain
quotient): two candidates may tie here that differ in the code by less than that, and
the order by identifier decides. The sort of `selectBest` is any arrangement of the
candidates in the order of `Before`, of which there is one. `Directory` has the registrar's three routes and the
targets that each keep the first policy they get; reputations are counted from
events that keep coming. `CreditMarket` continues a provisioned mission: the
balance, one quote of each lender (`none`, `sent`, `offer`, `declined`, `error`), the
clock, and the selection when all have answered. Lenders are numbers, where the code
compares the hashes of offers. Principals are positive and fit uint64, so the branches
for a required principal of 0 (`HeadroomScore`) and for an amount that no offer can
carry (`Quote`) are left out.

## 4. Runs

| run | states | question and result |
| --- | --- | --- |
| `gate` | 300 699 | Do concurrent calls, late policies, late acceptances, refused proofs and a crash respect budgets, nonces, intents and the lock? Yes; and the gate implements `PaymentBudget`. |
| `repay` | 28 599 | Is a loan repaid exactly once whatever happens to each transaction and wherever the process dies? Yes in the reliable environment; and `/repay` implements `RepayOnce`. |
| `repay_outage` | until the counterexample | Is a fresh transaction only built when the previous one is dead, also when the mirror is out for longer than the grace? No (finding 1). |
| `paid_scan` | 51 932 | Is one payment scanned and settled once, delivered only when paid, kept available, and resolved? Yes. |
| `paid_scan_conflict` | until the counterexample | Is an identical retry always served or resumed? No (finding 2). |
| `paid_scan_interrupted` | until the counterexample | Can an interrupted claim be taken over while the payment is valid? No (finding 3). |
| `loan_funding` | 110 741 | Is a mission funded once, over two lenders and concurrent retries, and does what was funded become a loan of the signer? Yes, while the acceptance can be sent. |
| `loan_expired` | until the counterexample | Is every confirmed funding registered? No (finding 4). |
| `mission` | 60 209 | Do the mission's row, its loan, the signer and the provider agree however workflow, handlers, worker and crashes interleave, and does an accepted completion close the mission? Yes. |
| `mission_lost` | until the counterexample | Does a paid scan complete its mission when the HTTP response was lost? No (finding 5). |
| `audit` | 200 805 | Is every event published, in the order of its mission? Yes. |
| `credit_market` | 287 416 | Is only the approved policy provisioned, and is the chosen offer the best one that can be accepted? Yes. |

### Properties
* `gate`: `WithinCaps`, `OnePaymentPerNonce`, `ReleasedIsReserved`,
  `OneBuilderPerMission`, `IntentBinding`, `BudgetIsReserved` (the counters are
  the sum of the reservations, counted tinybar by tinybar), `CallsEnd` (liveness of
  the lock), `ImplementsBudget`. `IntentBinding` is as strong as the code: a payment that
  differs from the bound intent can exist, but only from a call that read the
  store before the acceptance was saved.
* `repay`: `PaidOnce`, `PaidForCompletion`, `AnswersAreThePayment`, `SettledOnce`,
  `InFlightIsRecorded`, `FreshOnlyWhenDead` (what a step may never do),
  `EventuallyRepaid`, `ImplementsRepayOnce`.
* `paid_scan`: `ScannedAndSettledOnce`, `ReportIsPaid` (in an answer or a
  callback), `FailedIsUnpaid`, `DeliveredStays`, `AttemptIsResolved`, `PaidIsCalledBack`.
* `loan_funding`: `FundedOnce`, `AnswersAreRegistered`, `RecordedIsRegistered`.
* `mission`: `CompletedIsBacked`, `EndsAgree`, `DeliveredIsClosed` (202 waits for the
  repayment), `CompletedCloses` (liveness; the alternatives are a callback whose last
  attempt has failed, and one that was parked because the mirror or the signer refused
  the evidence; a 409 of the orchestrator is none).
* `audit`: `TopicInOrder`, `EventsArePublished`. The topic may carry a copy of an
  event (a receipt that stayed unknown beyond the grace), but never after a later
  event of its mission.
* `credit_market`: `ApprovalStands`; `CreditIsAcceptable` (the selected offer is live
  and within the approval, and no live offer is overlooked when credit is refused);
  `ChosenIsBest`. The last is stated without scores: no live offer is at least as good
  in repayment and validity and better in one, or equal with a lower identifier, so that
  the order of arrival decides nothing. All offers have the same principal,
  the price, so headroom does not distinguish them.

`SettledOnce` bounds the attestations from above only. A crash after
`markLoanRepaid` and before the event leaves a repaid loan with no settled event;
later calls write only the idempotency-hit event.

### Bounds
* `gate`: two missions in one session, so that they compete for its budget; two
  calls, enough for every race of two handlers; six challenges: one nonce with two
  amounts, a second nonce, a second mission, a foreign recipient, a zero amount; two
  policies whose order of registration decides whether the second is refused; one
  crash, after which the other call goes on with the store that was left.
  `CHECK_DEADLOCK FALSE`: each call is made once, so the system stops.
* `repay`: one loan (the code shares nothing between loans but the store; the
  proofs are for any number), two callers, three transactions so that a
  replacement can itself be replaced, two crashes so that the recovery from a
  crash may crash.
* `paid_scan`: two callers and the worker, two crashes, and the clock
  `PaymentLease` 1 < `ValidUntil` 2 < `VerifiedLease` 3 with `Grace` 1, which
  keeps the order of 30 s, at most 180 s and 300 s. The ten minutes of grace
  begin at the end of the validity and are longer than any lease; one tick of
  grace is enough because no lease matters once a settlement was attempted.
* `loan_funding`: two offers, so that a second lender can be tempted; two calls, one
  that takes over the other's claim; two transactions of each lender, so that a
  regenerated or a second one exists; one crash.
* `mission`: two targets, so that provisioning may be partial; two handlers, enough
  for a duplicate to overtake; three failed deliveries in place of twenty and two
  tries of provisioning in place of three, so that the last one is reached; one
  replay; two crashes, of the orchestrator, the provider or one of each.
  `mission_lost` needs no crash and no replay.
* `audit`: two writers (the service and `scripts/audit-flush.ts`), two events of one
  mission, the condition on earlier events being one within a mission; five
  transactions, two faults and one crash, which the spare transactions outlast.
* `credit_market`: three providers, one of another capability and one that the
  smaller budget cannot pay; two budgets; three lenders with the postures of the
  code and a third one; shares of 1/10000, fine enough for them (`FineShares`, which
  TLC evaluates); two events that move reputations; three ticks, of which an
  offer lasts two.

### Fairness
* `PaymentGate`: `WF(Handle(c))`. The event loop runs every started handler to its
  end, and proof check and transfer building end one way or the other. Callers
  and the operator are not fair.
* `Repayment`: `WF(Handle(c))` for the same reason. Callers keep retrying (the
  lender and the orchestrator's workflow do), so `WF(\E c : Begin(c, l))`. A mirror
  query, a build or a submission that is repeated without end succeeds in the
  end: `SF` on `Confirmed`, `Prepare` and `Accepted`. Consensus, the clock and the
  mirror are weakly fair. `EventuallyRepaid` holds under these only; crashes are
  bounded.
* `PaidScan`: the facilitator answers or times out, the worker's timer fires, time
  passes and the mirror catches up. Nothing is asked of callers:
  `AttemptIsResolved` and `PaidIsCalledBack` are the worker's doing.
* `LoanFunding`: calls end, and the borrower sends the acceptance again until it has
  expired. The consumer of the repository stops after ten tries, so
  `RecordedIsRegistered` says what the lender does for a borrower that goes on.
  A mirror that is asked again and again answers in the end (`SF`). Nothing makes
  the SDK submit, the ledger execute or an offer expire.
* `Mission`: the workflow, the worker and every handler that runs take their steps,
  a lease ends, a confirmed settlement is enqueued. Lender, provider and operator
  are not fair.
* `AuditOutbox`: writers go on (a timer wakes them), the ledger decides, clocks move,
  leases end. Faults and crashes are bounded, so a retry is not lost for ever.

## 5. Findings

1. `repay_outage`, `FreshOnlyWhenDead`. `repay.ts:120-127` promises that "a fresh
   transaction is only built once the previous one can no longer execute". It can
   already have executed: being unable to ask the mirror and being told "no" are
   the same `SETTLEMENT_UNCONFIRMED`, and after the grace the clock decides
   (`repay.ts:173`).
2. `paid_scan_conflict`, `IdenticalNeverConflicts`. A retry that read the row
   before the facilitator's answer was stored makes up evidence that differs from
   it and is refused with 409 (`outbox.ts:361`), against `docs/protocol.md:376-377`.
3. `paid_scan_interrupted`, `InterruptedIsRecoverable`. The lease of a verified
   claim (300 s) always outlives the authorization the signer issues (at most
   180 s), so the recovery that `paid-scan.test.ts:804-830` exercises, with an
   authorization that expires in 2099, cannot happen with the signer's own.
4. `loan_expired`, `FundedIsRegistered`. Only another `POST /credit/accept` retries a
   registration, and it validates the expiry first (the lender's `server.ts:254`). A
   funding that is confirmed while the signer or its mirror cannot be reached until
   then is never registered, against `docs/decisions.md:194-196`.
5. `mission_lost`, `PaidCompletes`. When the response of the paid request is lost, the
   workflow fails the mission at once; the callback that could reconstruct the
   receipt (`docs/protocol.md:398-399`) is then refused with 409
   (`completion.ts:330`) and parked. A loan that paid for it ends as defaulted.

Two more are no runs of their own; a constant of a passing run shows each.

* `LateRejection = TRUE` in `MCRepayment.cfg`: `InFlightIsRecorded` is violated, and
  in a few more steps, checked alone, `PaidOnce`. `repay.ts:88-91`
  takes every precheck rejection but `DUPLICATE_TRANSACTION` for a transaction that
  never reached consensus. The catch (`repay.ts:102-106`) covers the receipt query and
  the resubmission of bytes whose first outcome was uncertain too; a node that
  refuses one of these otherwise, as with `TRANSACTION_EXPIRED` by its own clock, makes
  the row failed, and the next call pays again, against `docs/protocol.md:452-453`. How
  often a node does so, the model does not say.
* `MirrorOutage = TRUE` in `MCPaidScan.cfg`: `FailedIsUnpaid` is violated. The same
  confusion of "not asked" and "shown nothing" as in finding 1 at the provider
  (`settlement.ts:161-172`, `server.ts:292-298`): an executed payment whose answer was
  lost is recorded as failed for good (`outbox.ts:391`, against the comment at
  374-377), and its callback is never sent.

## 6. Proofs

TLAPS proves the following for every set of missions, calls, policies, challenges,
loans, callers, lenders, handlers, writers and events, and for any bound. In each
module `IInv` is the inductive invariant; the proof has one lemma for each action,
and under it one step for each part of `IInv` the action can disturb.

**PaymentGate** (assumptions: the shapes of challenges and policies,
`MaxCrashes \in Nat`, `None` is nothing else). The checked invariants are not
inductive: `MayReserve` speaks of the policy of a challenge the call read long
before, and `Unlock` takes the head of a line that has to be this call. `IInv`
adds `CallInv` (a waiting call has a policied challenge, an approved one from the
line on; a building call is at the head; a reserved call's payment is stored),
`SessionInv` (a policy's session exists), `SeenInv` (an acceptance that was
read is still there; a call whose challenge the acceptance now forbids had read
none), `LineInv` (a line holds exactly the calls of its mission that queue or build,
each at one place) and `ReservedInv` (the balances are sums over a finite set).
Without the second half of `LineInv`, leaving the line could leave the same call in
it. A sum of amounts is the number of pairs of an authorization and one of its
tinybars, so the library's facts on the cardinality of a union and of a product take
the place of an induction. From `Invariance`: `TypeCorrect`, `CapsHold`,
`BudgetsAddUp`, `NoncesPayOnce`, `BytesAreReserved`, `IntentIsBinding`,
`BuildersAreAlone`; and `GateImplementsBudget`, where a registration maps to `Open`,
a reservation to `Grant`, an answer to `Release` and every other step to a stutter.

**Repayment** (assumptions: the bounds are naturals, `None` is neither a loan nor a
call, and `Reliable == ~MirrorOutage /\ ~LateRejection`, which each theorem names
as its hypothesis). `PaidOnce` says nothing of what is in flight, so `IInv` adds
`RowOK` (only the transaction the row names can be in flight or executed, never
while the row says failed; later ones are untouched), `LoanOK` (a repaid loan
agrees with its row; attestations and answers follow the loan) and `CallOK` (a
call holds its loan's lock, works on the row's transaction, and its place agrees
with the row's status). `Reliable` is used where a transaction is given up after
the grace and where one is refused, and nowhere else; `repay_outage` and the first
note at the end of section 5 show that neither half can be dropped. From `Invariance`: `TypeCorrect`, `LoanPaidOnce`,
`NothingForgotten`, `CompletionFirst`, `AttestedOnce`, `AnswersAreTrue`,
`FreshIsSafe`, `RepaymentImplementsOnce`.

**PaidScan** (assumptions: the worker is no call; the payment's lease is shorter than
its validity, which is no longer than the lease of a verified claim, as 30 s, 180 s
and 300 s are). One scan is a matter of time and one settlement a matter of the row:
`OnceOK` says that who scanned holds a lease that outlives the authorization until
the attempt is recorded, and that one call settles. `RowOK` and `LedgerOK` tie the
row to the ledger, the clock and what the mirror shows (a settlement is of an
execution, a failed row of a transaction that is dead), `CallOK` and `ReconcileOK`
say what a call or the worker relies on where it awaits. From `Invariance`:
`TypeCorrect`, `OnceOnly`, `ReportsArePaid`, `DeliveryStays` and, with the hypothesis
`~MirrorOutage`, `FailuresAreUnpaid`. The order of the durations is used: with a lease
of a verified claim that ends before the authorization, a second scan is possible.

**LoanFunding** (assumptions: there is a transaction to build, `None` is no offer, call
or loan). `FundedOnce` says nothing of a transfer on its way. `IInv` adds
`AcceptanceOK` (at most one offer is accepted, and calls are about it), `LedgerOK` (of
an offer's transactions at most one is in flight or executed), `RowOK` (no
transaction before the row names one; a confirmed row, a filled outbox and a
registered loan name an executed one) and `CallOK` (who submits owns the row, and
nothing but its current transaction can execute). From `Invariance`: `TypeCorrect`,
`OneFunding`, `AnswersRegistered`.

**Mission** (assumptions: the targets are finite, `None` is no state, handler or
status, there is an attempt, `Refusals` is `{400}` or empty). The mission's row is moved by the workflow and by the
handlers. `WorkflowOK` says that until the workflow is over it knows the row, and the
row is in a state that no handler touches; `RowsOK` relates mission, loan,
completion, spending and the signer's rows; `HandlerOK` says that a handler past a
check finds the row as it was or a completion that another has committed, and that
who closes holds the mutex; `CallbackOK` is what the provider knows. From
`Invariance`: `TypeCorrect`, `CompletionIsBacked`, `RowsAgree`, `DeliveryCloses`.

**AuditOutbox** (assumptions: the bounds are naturals, `None` is no writer, event or
transaction). That the topic is in order is not inductive: the next transaction to
execute may be any that is in flight. `TxOK` says that whatever was prepared has
all earlier events of its mission published, and that what may still execute is what
the row of its unpublished event names; `JobOK` that a writer which holds its row
finds in it what its job says; `TopicOK` that the topic has each executed
transaction once. From `Invariance`: `TypeCorrect`, `OrderIsKept`.

**Selection** (assumption: `Scale` is a positive natural). `WinnerIsBest`: for any
finite number of candidates the sort exists, names all of them, and its winner is
before every other. This needs an induction over finite sets; the library's theorem
cannot be instantiated, and its well-foundedness of strict inclusion is used instead:
a least set without a first element, or without a ranking, leads to a contradiction
(`LeastSubset`, `FirstExists`, `RankingExists`). `OfferIsSelected` and
`RankedIsRegistered` apply it to offers and providers. `OffersScored` and
`BetterScoresHigher` compare the shares of two offers, with `div` characterised by
`Quotient`.

**CreditMarket** with Directory (assumptions: the registry and the lenders are finite,
with numbers for identifiers, prices, latencies and postures; lenders are targets).
`ApprovalInv`: the approval is within its budget; before it exists nobody goes on
and no target holds a policy, and afterwards the workflow proposes it and a target
holds it or nothing; an acknowledgement says which. `MarketInv`: an offer is for the
approved price, under the cap and the posture of its lender, for the lender's fee, and
lasts its validity at most. From `Invariance`: `TypeCorrect`, `ApprovalIsFrozen`,
`SelectedIsAcceptable`, `SelectedLosesToNone` and, with the hypothesis `FineShares`,
`BestIsSelected`. That hypothesis is needed because shares are rounded down: two
offers of more than `Scale` tinybar may tie though one is cheaper. It asks for fees of
at most 100 percent, four times the greatest principal within `Scale`, and the
validity too; the code has 5 percent, 10^10 and 300 000 ms against 10^12. Without it
`SelectedLosesToNone` says how far it can go wrong: only a tie is lost.

**Only model-checked.** The liveness properties `CallsEnd`, `EventuallyRepaid`,
`AttemptIsResolved`, `PaidIsCalledBack`, `RecordedIsRegistered`, `CompletedCloses` and
`EventsArePublished`: fairness and `ENABLED` are out of the prover's reach. The
theorems on `/repay` rest on `Reliable`.

## 7. Not modelled

* Several missions at once outside the signer: two missions of one borrower that
  read the same balance; the order in which workers visit the rows of different
  payments. The tables share nothing between missions but the SQLite file.
* What the code does not promise: a mission that a crash strands before its payment
  stays where it is; a loan that is funded after the consumer has given up is a
  loan of the signer only.
* The public directory (`services/directory/src/server.ts`), which reads the catalogue.
* Left out: signatures, canonical JSON, Poseidon hashing, circuits and SQLite
  schema (data, not control); HTTP routing, configuration and logging; the Hedera
  client code, which is pure input and output and appears as the environment; the
  scanner and the report's layout; the web application, which only reads.

`PROJECT.json` lists each component with its sources and status, the lines each
definition translates, and every hazard with the property that covers it or the
reason why none does.
