------------------------------ MODULE LoanFunding ------------------------------
(***************************************************************************)
(* From the policy of a mission to its registered loan: the borrower's     *)
(* signer (credit.ts, store.ts), the lenders (server.ts, fund.ts, store.ts)*)
(* and the ledger.                                                         *)
(*                                                                         *)
(* Each lender makes one offer for the one mission of the model.  The      *)
(* borrower sends an acceptance that its signer signed, and sends it again *)
(* when the answer is lost or says "later", so several calls with the same *)
(* acceptance run at once.  A call funds the offer, or finds what an       *)
(* earlier one did and goes on from there, and registers the loan at the   *)
(* signer, which asks the mirror.                                          *)
(*                                                                         *)
(* A transaction of a lender is known by its number.                       *)
(***************************************************************************)
EXTENDS Integers, FiniteSets

CONSTANTS
  Offers,      \* one of each lender, all for the same request
  Calls,       \* concurrent calls of POST /credit/accept
  None,
  MaxTx,       \* bound on the transactions that a lender builds
  MaxCrashes   \* bound on the crashes of lenders

Txs == 1 .. MaxTx

\* What the signer registers: the accepted offer and its funding transaction.
Loans == [offer : Offers, tx : Txs]

ASSUME LoanAssumption ==
  /\ MaxTx \in Nat \ {0} /\ MaxCrashes \in Nat
  /\ None \notin Offers \cup Calls /\ None \notin Loans /\ None # "funded"
Signer == "signer"

VARIABLES
  policyAt,     \* who has the mission's policy
  request,      \* the signer has signed the credit request
  offers,       \* the offers that lenders have saved
  accepted,     \* the offers whose acceptance the signer has saved
  expired,      \* the offers past their expiresAt
  funding,      \* the row of each offer in lender_fundings
  outbox,       \* the transaction in the row of lender_registration_outbox, 0 if none
  built,        \* transactions that each lender has built
  chain,        \* what became of each transaction
  shown,        \* the transactions that the mirror shows
  registering,  \* registrations that the signer is confirming
  loan,         \* the loan that the signer has registered
  pc,           \* where each call is
  offerOf,      \* the offer that a call is about
  prepared,     \* the transaction that a call's hook stored
  current,      \* the transaction that the SDK is executing for a call
  answer,       \* what the last request of a call was answered
  crashes

setup == <<policyAt, request, offers, accepted>>
ledger == <<built, chain, shown>>
signer == <<registering, loan>>
local == <<offerOf, prepared, current>>
elsewhere == <<setup, expired, built, chain, shown, crashes>>   \* not the call's own
vars == <<policyAt, request, offers, accepted, expired, funding, outbox, built, chain, shown,
          registering, loan, pc, offerOf, prepared, current, answer, crashes>>

NoFunding == [status |-> "none", tx |-> 0, owner |-> None, stale |-> FALSE]

Init ==
  /\ policyAt = {} /\ request = FALSE /\ offers = {} /\ accepted = {} /\ expired = {}
  /\ funding = [o \in Offers |-> NoFunding]
  /\ outbox = [o \in Offers |-> 0]
  /\ built = [o \in Offers |-> 0]
  /\ chain = [o \in Offers |-> [n \in Txs |-> "none"]]
  /\ shown = {}
  /\ registering = {}
  /\ loan = None
  /\ pc = [c \in Calls |-> "idle"]
  /\ offerOf = [c \in Calls |-> None]
  /\ prepared = [c \in Calls |-> 0]
  /\ current = [c \in Calls |-> 0]
  /\ answer = [c \in Calls |-> None]
  /\ crashes = 0

--------------------------------------------------------------------------------
(***************************************************************************)
(* Before the funding.                                                     *)
(***************************************************************************)

\* The registrar gives the policy to the signer and to every lender, which keep
\* the first they get.
RegisterMissionPolicy(who) ==
  /\ who \notin policyAt
  /\ policyAt' = policyAt \cup {who}
  /\ UNCHANGED <<request, offers, accepted, expired, funding, outbox, ledger, signer, pc, local,
                 answer, crashes>>

\* The mission goes on only when all of them have it (registerPolicy).
SignCreditRequest ==
  /\ policyAt = {Signer} \cup Offers
  /\ ~request
  /\ request' = TRUE
  /\ UNCHANGED <<policyAt, offers, accepted, expired, funding, outbox, ledger, signer, pc, local,
                 answer, crashes>>

\* A lender quotes a signed request of a mission it knows.  The borrower waits
\* for all the quotes, or their time-outs, before it accepts one.
Quote(o) ==
  /\ request /\ accepted = {}
  /\ o \in policyAt
  /\ o \notin offers
  /\ offers' = offers \cup {o}
  /\ UNCHANGED <<policyAt, request, accepted, expired, funding, outbox, ledger, signer, pc, local,
                 answer, crashes>>

\* The signer keeps one acceptance of a mission; for another it is a conflict.
SaveAcceptance(o) ==
  /\ accepted = {}
  /\ accepted' = {o}

SignCreditAcceptance(o) ==
  /\ o \in offers \ (expired \cup accepted)
  /\ SaveAcceptance(o)
  /\ UNCHANGED <<policyAt, request, offers, expired, funding, outbox, ledger, signer, pc, local,
                 answer, crashes>>

Expire(o) ==
  /\ o \in offers \ expired
  /\ expired' = expired \cup {o}
  /\ UNCHANGED <<setup, funding, outbox, ledger, signer, pc, local, answer, crashes>>

--------------------------------------------------------------------------------
(***************************************************************************)
(* POST /credit/accept.                                                    *)
(***************************************************************************)

\* A call ends, and what it knew of the transfer with it.
Answer(c, a) ==
  /\ pc' = [pc EXCEPT ![c] = "idle"]
  /\ answer' = [answer EXCEPT ![c] = a]
  /\ prepared' = [prepared EXCEPT ![c] = 0]
  /\ current' = [current EXCEPT ![c] = 0]

\* An acceptance is valid when the signer has signed it for this offer, until the
\* expiry that it repeats from the offer.
ValidAcceptance(o) == o \in accepted \ expired

\* A call with the signed acceptance.  The offer and the acceptance are
\* validated anew whenever they are sent, their expiry included.
Accept(c, o) ==
  /\ pc[c] = "idle"
  /\ o \in accepted
  /\ offerOf' = [offerOf EXCEPT ![c] = o]
  /\ \/ /\ ~ValidAcceptance(o)
        /\ answer' = [answer EXCEPT ![c] = "expired"]
        /\ UNCHANGED pc
     \/ /\ ValidAcceptance(o)
        /\ answer' = [answer EXCEPT ![c] = None]
        /\ pc' = [pc EXCEPT ![c] = "verifying"]
  /\ UNCHANGED <<funding, outbox, signer, prepared, current, elsewhere>>

Row(c) == funding[offerOf[c]]

SetRow(c, status, tx, owner) ==
  funding' = [funding EXCEPT ![offerOf[c]] =
                [status |-> status, tx |-> tx, owner |-> owner, stale |-> FALSE]]

\* From enqueueRegistration to the request that registers the loan; what was
\* enqueued first stays.
StartRegistration(c, tx) ==
  LET o == offerOf[c]
      queued == IF outbox[o] = 0 THEN tx ELSE outbox[o]
  IN /\ outbox' = [outbox EXCEPT ![o] = queued]
     /\ registering' = registering \cup {<<o, queued>>}
     /\ pc' = [pc EXCEPT ![c] = "registering"]
     /\ prepared' = [prepared EXCEPT ![c] = 0]
     /\ current' = [current EXCEPT ![c] = 0]

ClaimFundingSubmission(c) ==
  /\ Row(c).tx = 0
  /\ \/ Row(c).status \in {"none", "reserved"}
     \/ Row(c).status = "preparing" /\ Row(c).stale
  /\ SetRow(c, "preparing", 0, c)

\* FundingService.accept up to its first wait, once the evidence is verified:
\* the row of the offer is read or inserted, and says where to go on.
AlreadyRegistered(c) ==
  /\ pc[c] = "verifying"
  /\ Row(c).status = "registered"
  /\ Answer(c, "funded")
  /\ UNCHANGED <<funding, outbox, signer, offerOf, elsewhere>>

\* Broken form of ReconcileFirst: what an earlier attempt recorded is left to it.
LeaveToEarlier(c) ==
  /\ pc[c] = "verifying"
  /\ Row(c).tx # 0 /\ Row(c).status \in {"preparing", "pending"}
  /\ Answer(c, "later")
  /\ UNCHANGED <<funding, outbox, signer, offerOf, elsewhere>>

ReconcileFirst(c) ==
  /\ pc[c] = "verifying"
  /\ Row(c).tx # 0 /\ Row(c).status \in {"preparing", "pending"}
  /\ pc' = [pc EXCEPT ![c] = "reconciling"]
  /\ prepared' = [prepared EXCEPT ![c] = Row(c).tx]
  /\ UNCHANGED <<funding, outbox, signer, offerOf, current, answer, elsewhere>>

ResumeRegistration(c) ==
  /\ pc[c] = "verifying"
  /\ Row(c).status = "confirmed"
  /\ StartRegistration(c, Row(c).tx)
  /\ UNCHANGED <<funding, loan, offerOf, answer, elsewhere>>

ClaimSubmission(c) ==
  /\ pc[c] = "verifying"
  /\ ClaimFundingSubmission(c)
  /\ pc' = [pc EXCEPT ![c] = "building"]
  /\ prepared' = [prepared EXCEPT ![c] = 0]
  /\ current' = [current EXCEPT ![c] = 0]
  /\ UNCHANGED <<outbox, signer, offerOf, answer, elsewhere>>

AnotherPrepares(c) ==
  /\ pc[c] = "verifying"
  /\ Row(c).status = "preparing" /\ Row(c).tx = 0 /\ ~Row(c).stale
  /\ Answer(c, "later")
  /\ UNCHANGED <<funding, outbox, signer, offerOf, elsewhere>>

\* The mirror shows a transaction that failed at consensus as failed, and knows
\* nothing of one that was never executed.
ReconcileConfirmed(c) ==
  LET n == prepared[c]
  IN /\ pc[c] = "reconciling"
     /\ <<offerOf[c], n>> \in shown /\ chain[offerOf[c]][n] = "executed"
     /\ \/ /\ Row(c).tx = n /\ Row(c).status \in {"pending", "confirmed"}
           /\ SetRow(c, "confirmed", n, Row(c).owner)
           /\ StartRegistration(c, n)
           /\ UNCHANGED answer
        \/ /\ ~(Row(c).tx = n /\ Row(c).status \in {"pending", "confirmed"})
           /\ Answer(c, "mismatch")
           /\ UNCHANGED <<funding, outbox, registering>>
     /\ UNCHANGED <<loan, offerOf, elsewhere>>

ReconcileFailed(c) ==
  /\ pc[c] = "reconciling"
  /\ <<offerOf[c], prepared[c]>> \in shown /\ chain[offerOf[c]][prepared[c]] = "failed"
  /\ Answer(c, "mismatch")
  /\ UNCHANGED <<funding, outbox, signer, offerOf, elsewhere>>

\* The mirror has nothing yet, or does not answer.
ReconcilePending(c) ==
  /\ pc[c] = "reconciling"
  /\ \/ Answer(c, "error")
     \/ /\ <<offerOf[c], prepared[c]>> \notin shown
        /\ Answer(c, "later")
  /\ UNCHANGED <<funding, outbox, signer, offerOf, elsewhere>>

--------------------------------------------------------------------------------
(***************************************************************************)
(* The transfer.                                                           *)
(***************************************************************************)

\* Broken form of ReleaseFundingSubmission: the row goes to a status of its own.
ReleaseAsFailed(c) == SetRow(c, "failed", 0, None)

ReleaseFundingSubmission(c) == SetRow(c, "reserved", 0, None)

\* The transfer failed: whatever was stored may still execute; with nothing
\* stored, the claim is given back.
Uncertain(c) ==
  /\ \/ /\ Row(c).tx # 0
        /\ Answer(c, "later")
        /\ UNCHANGED funding
     \/ /\ Row(c).tx = 0
        /\ Answer(c, "error")
        /\ IF Row(c).status = "preparing" /\ Row(c).owner = c
             THEN ReleaseFundingSubmission(c)
             ELSE UNCHANGED funding
  /\ UNCHANGED <<outbox, registering>>

\* Broken form of SetFundingTransaction: the identifier is only remembered in
\* the call until the transfer has succeeded.
SetNothing(c, n) == UNCHANGED funding

SetFundingTransaction(c, n) == SetRow(c, "pending", n, c)

\* The row is still the call's own, with no other transaction.
MaySet(c, n) ==
  /\ Row(c).status \in {"preparing", "pending"}
  /\ Row(c).owner = c
  /\ Row(c).tx \in {0, n}

Built(o, n, became) ==
  /\ n = built[o] + 1 /\ n \in Txs
  /\ built' = [built EXCEPT ![o] = n]
  /\ chain' = [chain EXCEPT ![o][n] = became]

\* The hook runs when the transaction is built and before it is submitted.
Prepare(c) ==
  \E n \in Txs :
    /\ pc[c] = "building"
    /\ Built(offerOf[c], n, "built")
    /\ \/ /\ MaySet(c, n)
          /\ SetFundingTransaction(c, n)
          /\ prepared' = [prepared EXCEPT ![c] = n]
          /\ current' = [current EXCEPT ![c] = n]
          /\ pc' = [pc EXCEPT ![c] = "submitting"]
          /\ UNCHANGED <<outbox, registering, answer>>
       \/ /\ ~MaySet(c, n)
          /\ Uncertain(c)
    /\ UNCHANGED <<setup, expired, shown, loan, offerOf, crashes>>

Submit(c) ==
  /\ pc[c] = "submitting"
  /\ chain[offerOf[c]][current[c]] = "built"
  /\ chain' = [chain EXCEPT ![offerOf[c]][current[c]] = "inflight"]
  /\ UNCHANGED <<setup, expired, funding, outbox, built, shown, signer, pc, local, answer,
                 crashes>>

\* The SDK submits again under a new identifier what the ledger rejected.
Regenerate(c) ==
  \E n \in Txs :
    /\ pc[c] = "submitting"
    /\ chain[offerOf[c]][current[c]] = "dropped"
    /\ Built(offerOf[c], n, "inflight")
    /\ current' = [current EXCEPT ![c] = n]
    /\ UNCHANGED <<setup, expired, funding, outbox, shown, signer, pc, offerOf, prepared, answer,
                   crashes>>

\* The transfer ends with an error, or is never known to have succeeded.
TransferFails(c) ==
  /\ pc[c] \in {"building", "submitting"}
  /\ Uncertain(c)
  /\ UNCHANGED <<loan, offerOf, elsewhere>>

\* With the receipt of an execution: setFundingTransaction, or
\* replaceFundingTransaction after a regeneration, and markFundingConfirmed.
TransferSucceeds(c) ==
  LET n == current[c]
      mine == /\ Row(c).status \in {"preparing", "pending"}
              /\ Row(c).owner = c
              /\ Row(c).tx = prepared[c]
  IN /\ pc[c] = "submitting"
     /\ chain[offerOf[c]][n] = "executed"
     /\ \/ /\ mine
           /\ SetRow(c, "confirmed", n, c)
           /\ StartRegistration(c, n)
           /\ UNCHANGED answer
        \/ /\ ~mine
           /\ Uncertain(c)
     /\ UNCHANGED <<loan, offerOf, elsewhere>>

--------------------------------------------------------------------------------
(***************************************************************************)
(* The registration.                                                       *)
(***************************************************************************)

\* Broken form of RegistrationFails: a registration that failed is taken for one
\* that was made.
RegistrationIgnored(c) ==
  /\ pc[c] = "registering"
  /\ SetRow(c, "registered", Row(c).tx, Row(c).owner)
  /\ Answer(c, "funded")
  /\ UNCHANGED <<outbox, signer, offerOf, elsewhere>>

\* The signer refused, or did not answer in time.
RegistrationFails(c) ==
  /\ pc[c] = "registering"
  /\ Answer(c, "later")
  /\ UNCHANGED <<funding, outbox, signer, offerOf, elsewhere>>

\* The signer's acknowledgement: markRegistered.
Acknowledge(c) ==
  /\ pc[c] = "registering"
  /\ loan = [offer |-> offerOf[c], tx |-> outbox[offerOf[c]]]
  /\ SetRow(c, "registered", Row(c).tx, Row(c).owner)
  /\ Answer(c, "funded")
  /\ UNCHANGED <<outbox, signer, offerOf, elsewhere>>

\* registerFundedLoan: one loan of a mission, with one funding transaction.
RegisterFundedLoan(o, n) ==
  /\ loan \in {None, [offer |-> o, tx |-> n]}
  /\ loan' = [offer |-> o, tx |-> n]

\* POST /internal/loans/register at the signer.  The documents must be the
\* saved ones; the mirror is asked before the loan is written.
RegisterLoan(o, n) ==
  /\ <<o, n>> \in registering
  /\ o \in accepted
  /\ <<o, n>> \in shown /\ chain[o][n] = "executed"
  /\ RegisterFundedLoan(o, n)
  /\ registering' = registering \ {<<o, n>>}
  /\ UNCHANGED <<setup, expired, funding, outbox, ledger, pc, local, answer, crashes>>

\* Refused: the mirror does not show the execution, or does not answer.
RefuseLoan(o, n) ==
  /\ <<o, n>> \in registering
  /\ registering' = registering \ {<<o, n>>}
  /\ UNCHANGED <<setup, expired, funding, outbox, ledger, loan, pc, local, answer, crashes>>

--------------------------------------------------------------------------------
(***************************************************************************)
(* The ledger, the passing of time, crashes.                               *)
(***************************************************************************)

Decide(o, n) ==
  \E became \in {"executed", "failed", "dropped"} :
    /\ chain[o][n] = "inflight"
    /\ chain' = [chain EXCEPT ![o][n] = became]
    /\ UNCHANGED <<setup, expired, funding, outbox, built, shown, signer, pc, local, answer,
                   crashes>>

Show(o, n) ==
  /\ chain[o][n] \in {"executed", "failed"}
  /\ <<o, n>> \notin shown
  /\ shown' = shown \cup {<<o, n>>}
  /\ UNCHANGED <<setup, expired, funding, outbox, built, chain, signer, pc, local, answer,
                 crashes>>

\* The preparation lease of a claim without a transaction ends.
LeaseOver(o) ==
  /\ funding[o].status = "preparing" /\ funding[o].tx = 0 /\ ~funding[o].stale
  /\ funding' = [funding EXCEPT ![o].stale = TRUE]
  /\ UNCHANGED <<setup, expired, outbox, ledger, signer, pc, local, answer, crashes>>

\* A lender stops and starts again: its calls are lost, its rows stay.
Crash(o) ==
  /\ crashes < MaxCrashes
  /\ \E c \in Calls : pc[c] # "idle" /\ offerOf[c] = o
  /\ pc' = [c \in Calls |-> IF offerOf[c] = o THEN "idle" ELSE pc[c]]
  /\ prepared' = [c \in Calls |-> IF offerOf[c] = o THEN 0 ELSE prepared[c]]
  /\ current' = [c \in Calls |-> IF offerOf[c] = o THEN 0 ELSE current[c]]
  /\ crashes' = crashes + 1
  /\ UNCHANGED <<setup, expired, funding, outbox, ledger, signer, offerOf, answer>>

Handle(c) ==
  \/ AlreadyRegistered(c) \/ ReconcileFirst(c) \/ ResumeRegistration(c) \/ ClaimSubmission(c)
  \/ AnotherPrepares(c)
  \/ ReconcileConfirmed(c) \/ ReconcileFailed(c) \/ ReconcilePending(c)
  \/ Prepare(c) \/ Submit(c) \/ Regenerate(c) \/ TransferFails(c) \/ TransferSucceeds(c)
  \/ RegistrationFails(c) \/ Acknowledge(c)

Next ==
  \/ \E who \in {Signer} \cup Offers : RegisterMissionPolicy(who)
  \/ SignCreditRequest
  \/ \E o \in Offers : Quote(o) \/ SignCreditAcceptance(o) \/ Expire(o) \/ LeaseOver(o) \/ Crash(o)
  \/ \E c \in Calls : Handle(c) \/ \E o \in Offers : Accept(c, o)
  \/ \E o \in Offers, n \in Txs :
       RegisterLoan(o, n) \/ RefuseLoan(o, n) \/ Decide(o, n) \/ Show(o, n)

(***************************************************************************)
(* Calls end; the borrower sends an acceptance again until it has expired; *)
(* the mirror shows what was executed, and does not always fail to answer. *)
(* Nothing makes the ledger execute, the SDK submit or time pass.          *)
(***************************************************************************)
Fairness ==
  /\ \A c \in Calls : WF_vars(Handle(c))
  /\ WF_vars(\E c \in Calls, o \in Offers : o \notin expired /\ Accept(c, o))
  /\ \A c \in Calls : SF_vars(ReconcileConfirmed(c))
  /\ \A o \in Offers, n \in Txs : WF_vars(Show(o, n)) /\ SF_vars(RegisterLoan(o, n))

Spec == Init /\ [][Next]_vars /\ Fairness

--------------------------------------------------------------------------------
(***************************************************************************)
(* Properties.                                                             *)
(***************************************************************************)

Statuses == {"none", "reserved", "preparing", "pending", "confirmed", "registered"}
Rows == [status : Statuses, tx : 0 .. MaxTx, owner : Calls \cup {None}, stale : BOOLEAN]
Places == {"idle", "verifying", "reconciling", "building", "submitting", "registering"}
ChainStates == {"none", "built", "inflight", "executed", "failed", "dropped"}
Answers == {None, "funded", "later", "mismatch", "error", "expired"}

\* Every variable keeps its type; the rows of store.ts have no other states.
TypeOK ==
  /\ policyAt \subseteq {Signer} \cup Offers
  /\ request \in BOOLEAN
  /\ offers \subseteq Offers /\ accepted \subseteq Offers /\ expired \subseteq Offers
  /\ funding \in [Offers -> Rows]
  /\ outbox \in [Offers -> 0 .. MaxTx]
  /\ built \in [Offers -> 0 .. MaxTx]
  /\ chain \in [Offers -> [Txs -> ChainStates]]
  /\ shown \subseteq Offers \X Txs
  /\ registering \subseteq Offers \X (0 .. MaxTx)
  /\ loan \in {None} \cup Loans
  /\ pc \in [Calls -> Places]
  /\ offerOf \in [Calls -> Offers \cup {None}]
  /\ prepared \in [Calls -> 0 .. MaxTx]
  /\ current \in [Calls -> 0 .. MaxTx]
  /\ answer \in [Calls -> Answers]
  /\ crashes \in 0 .. MaxCrashes

Executed == {f \in Offers \X Txs : chain[f[1]][f[2]] = "executed"}

\* The borrower is funded once for a mission: over all lenders, retries,
\* takeovers of a stale claim, regenerated identifiers and crashes, at most one
\* funding transaction is executed (docs/protocol.md: one per accepted offer).
FundedOnce == Cardinality(Executed) <= 1

\* An acceptance that was answered with a funding transaction is a loan that the
\* signer has registered, with that transaction, which was executed.
AnswersAreRegistered ==
  \A c \in Calls :
    answer[c] = "funded" =>
      /\ loan = [offer |-> offerOf[c], tx |-> funding[offerOf[c]].tx]
      /\ <<loan.offer, loan.tx>> \in Executed

\* A funding that the lender has recorded and the ledger has executed becomes a
\* registered loan, as long as the borrower may send the acceptance again: no
\* crash, lost answer or lost registration strands it.
RecordedIsRegistered ==
  \A o \in Offers, n \in Txs :
    (funding[o].tx = n /\ chain[o][n] = "executed")
      ~> (loan = [offer |-> o, tx |-> n] \/ o \in expired)

\* Claimed by the repository: once confirmed, the funding is registered, by
\* retries that reuse the transaction (docs/decisions.md).
FundedIsRegistered ==
  \A o \in Offers, n \in Txs :
    (funding[o].status = "confirmed" /\ funding[o].tx = n) ~> loan = [offer |-> o, tx |-> n]
================================================================================
