------------------------------ MODULE Repayment ------------------------------
(***************************************************************************)
(* POST /repay of the restricted signer                                    *)
(* (services/restricted-signer/src/repay.ts) with the ledger it pays on    *)
(* and the mirror node it asks about it.                                   *)
(*                                                                         *)
(* A loan has one row in signer_repayments: the transaction that was last  *)
(* built for it and what is believed of it.  A call of /repay takes the    *)
(* lock of its loan, asks the mirror about a pending transaction, builds a *)
(* new one if there is none that can still execute, submits the stored     *)
(* bytes and records the outcome.  The process may crash between any two   *)
(* of these steps, and callers retry.                                      *)
(*                                                                         *)
(* Transactions of a loan are numbered in the order they are saved.  On    *)
(* the ledger one is "new" until a node accepts it, then "inflight" until  *)
(* consensus makes it "executed" or "failed" or its valid window ends and  *)
(* it is "dropped".  The mirror shows an executed transaction some time    *)
(* later.                                                                  *)
(***************************************************************************)
EXTENDS Integers

CONSTANTS
  Loans,
  Calls,          \* concurrent callers of /repay, each of which may retry
  MaxTx,          \* bound on the transactions of a loan; the last is not lost
  MaxCrashes,     \* bound on crashes
  MirrorOutage,   \* the mirror may still miss an execution after the grace
  LateRejection,  \* a node may refuse with a precheck status other than
                  \* DUPLICATE_TRANSACTION what was accepted before
  None

Txs == 1..MaxTx

ASSUME BoundsAssumption == MaxTx \in Nat \ {0} /\ MaxCrashes \in Nat
ASSUME EnvironmentAssumption == {MirrorOutage, LateRejection} \subseteq BOOLEAN
ASSUME NoneAssumption == None \notin Loans \cup Calls

VARIABLES
  \* the signer's store
  loan,       \* loans.state: "none" before registration, "funded", "repaid"
  repaidBy,   \* loans.repayment_tx_id, 0 before
  completed,  \* signer_completions has a row for the loan's mission
  row,        \* signer_repayments: transaction (0: no row) and status
  settled,    \* number of repayment-settled events written
  replayed,   \* loans with a repayment-idempotency-hit event
  \* the process
  lock,       \* KeyedMutex: the call that holds a loan's lock, or None
  pc,         \* where each call is
  loanOf,     \* the loan a call works on
  handling,   \* the transaction a call works on
  \* the outside
  chain,      \* state of each transaction on the ledger
  window,     \* "live" until validUntil, "expired" until the grace ends, "over"
  shown,      \* the mirror has the execution
  answers,    \* transactions that callers were told with a 200
  crashes

store == <<loan, repaidBy, completed, row, settled, replayed>>
process == <<lock, pc, loanOf, handling>>
outside == <<chain, window, shown>>
vars == <<loan, repaidBy, completed, row, settled, replayed, lock, pc, loanOf,
          handling, chain, window, shown, answers, crashes>>

Init ==
  /\ loan = [l \in Loans |-> "none"]
  /\ repaidBy = [l \in Loans |-> 0]
  /\ completed = [l \in Loans |-> FALSE]
  /\ row = [l \in Loans |-> [tx |-> 0, status |-> "none"]]
  /\ settled = [l \in Loans |-> 0]
  /\ replayed = {}
  /\ lock = [l \in Loans |-> None]
  /\ pc = [c \in Calls |-> "idle"]
  /\ loanOf = [c \in Calls |-> None]
  /\ handling = [c \in Calls |-> 0]
  /\ chain = [l \in Loans |-> [n \in Txs |-> "new"]]
  /\ window = [l \in Loans |-> [n \in Txs |-> "live"]]
  /\ shown = [l \in Loans |-> [n \in Txs |-> FALSE]]
  /\ answers = [l \in Loans |-> {}]
  /\ crashes = 0

------------------------------------------------------------------------------
(* What other handlers bring into the store.                               *)

\* registerFundedLoan: a loan is registered once; a repeated registration of
\* one that has moved on changes nothing.
RegisterFundedLoan(l) ==
  /\ loan[l] = "none"
  /\ loan' = [loan EXCEPT ![l] = "funded"]
  /\ UNCHANGED <<repaidBy, completed, row, settled, replayed, process, outside,
                 answers, crashes>>

\* recordCompletion: the mission's completion is accepted, for good.
RecordCompletion(l) ==
  /\ ~completed[l]
  /\ completed' = [completed EXCEPT ![l] = TRUE]
  /\ UNCHANGED <<loan, repaidBy, row, settled, replayed, process, outside,
                 answers, crashes>>

------------------------------------------------------------------------------
(* POST /repay                                                             *)

\* The handler has ended and its lock is free.
Release(c) ==
  /\ pc' = [pc EXCEPT ![c] = "idle"]
  /\ loanOf' = [loanOf EXCEPT ![c] = None]
  /\ handling' = [handling EXCEPT ![c] = 0]
  /\ lock' = [lock EXCEPT ![loanOf[c]] = None]

SetStatus(l, status) ==
  row' = [row EXCEPT ![l].status = status]

\* A repaid loan is answered from the store.
Replay(c, l) ==
  /\ pc[c] = "idle"
  /\ lock[l] = None
  /\ loan[l] = "repaid"
  /\ replayed' = replayed \cup {l}
  /\ answers' = [answers EXCEPT ![l] = @ \cup {repaidBy[l]}]
  /\ UNCHANGED <<loan, repaidBy, completed, row, settled, process, outside, crashes>>

\* Where a call goes on with what the row says.
NextStep ==
  [none |-> "preparing", failed |-> "preparing",
   pending |-> "confirming", confirmed |-> "settling"]

\* Broken form of Repayable: the completion is not required.
RepayableFunded(l) == loan[l] = "funded"

Repayable(l) == loan[l] = "funded" /\ completed[l]

\* Broken form of LockFree: the calls of a loan do not wait for each other.
LockIgnored(l) == TRUE

LockFree(l) == lock[l] = None

\* The lock is granted, the loan is funded and its mission completed; every
\* other loan is refused.
Begin(c, l) ==
  /\ pc[c] = "idle"
  /\ LockFree(l)
  /\ Repayable(l)
  /\ lock' = [lock EXCEPT ![l] = c]
  /\ loanOf' = [loanOf EXCEPT ![c] = l]
  /\ handling' = [handling EXCEPT ![c] = row[l].tx]
  /\ pc' = [pc EXCEPT ![c] = NextStep[row[l].status]]
  /\ UNCHANGED <<store, outside, answers, crashes>>

\* The mirror shows the pending transaction.
Confirmed(c) ==
  LET l == loanOf[c] IN
  /\ pc[c] = "confirming"
  /\ shown[l][handling[c]]
  /\ pc' = [pc EXCEPT ![c] = "settling"]
  /\ UNCHANGED <<store, lock, loanOf, handling, outside, answers, crashes>>

\* The mirror does not answer, or does not show the transaction as successful.
\* After the grace an execution is missed only if the mirror is out for longer.
MayMiss(l, n) ==
  MirrorOutage \/ window[l][n] # "over" \/ chain[l][n] # "executed"

\* Broken form of AfterGrace: a transaction is never given up.
NeverGivenUp(l, n) == FALSE

\* Broken form of AfterGrace: a transaction is given up when its window ends.
AfterWindow(l, n) == window[l][n] # "live"

\* now >= validUntil + REPAYMENT_FAILURE_GRACE_MS
AfterGrace(l, n) == window[l][n] = "over"

\* SETTLEMENT_UNCONFIRMED: after the grace the transaction is given up and a new
\* one is built; between the end of its window and the grace the call is
\* refused; before, the stored bytes are submitted again.
Unconfirmed(c) ==
  LET l == loanOf[c]
      n == handling[c]
  IN /\ pc[c] = "confirming"
     /\ MayMiss(l, n)
     /\ CASE AfterGrace(l, n) ->
               /\ SetStatus(l, "failed")
               /\ pc' = [pc EXCEPT ![c] = "preparing"]
               /\ UNCHANGED <<lock, loanOf, handling>>
          [] ~AfterGrace(l, n) /\ window[l][n] = "live" ->
               /\ pc' = [pc EXCEPT ![c] = "submitting"]
               /\ UNCHANGED <<row, lock, loanOf, handling>>
          [] OTHER ->
               Release(c) /\ UNCHANGED row
     /\ UNCHANGED <<loan, repaidBy, completed, settled, replayed, outside,
                    answers, crashes>>

\* saveRepayment: a row is only replaced when its transaction has failed.
SaveRepayment(l) ==
  row' = IF row[l].status \in {"none", "failed"}
           THEN [row EXCEPT ![l] = [tx |-> @.tx + 1, status |-> "pending"]]
           ELSE row

\* A transaction is built, signed and saved before it is submitted.
Prepare(c) ==
  LET l == loanOf[c] IN
  /\ pc[c] = "preparing"
  /\ row[l].tx < MaxTx
  /\ SaveRepayment(l)
  /\ handling' = [handling EXCEPT ![c] = row'[l].tx]
  /\ pc' = [pc EXCEPT ![c] = "submitting"]
  /\ UNCHANGED <<loan, repaidBy, completed, settled, replayed, lock, loanOf,
                 outside, answers, crashes>>

PrepareFails(c) ==
  /\ pc[c] = "preparing"
  /\ Release(c)
  /\ UNCHANGED <<store, outside, answers, crashes>>

\* The bytes reach a node that accepts them; the call waits for the receipt.
Accepted(c) ==
  LET l == loanOf[c]
      n == handling[c]
  IN /\ pc[c] = "submitting"
     /\ chain[l][n] = "new"
     /\ window[l][n] = "live"
     /\ chain' = [chain EXCEPT ![l][n] = "inflight"]
     /\ pc' = [pc EXCEPT ![c] = "awaiting"]
     /\ UNCHANGED <<store, lock, loanOf, handling, window, shown, answers, crashes>>

\* A precheck status other than DUPLICATE_TRANSACTION, of the submission or of
\* the receipt query: the code takes it for a transaction that never was.
Rejected(c) ==
  LET l == loanOf[c]
      n == handling[c]
  IN /\ \/ pc[c] = "submitting" /\ chain[l][n] \in {"new", "dropped"}
        \/ pc[c] \in {"submitting", "awaiting"} /\ LateRejection
     /\ n < MaxTx
     /\ SetStatus(l, "failed")
     /\ Release(c)
     /\ UNCHANGED <<loan, repaidBy, completed, settled, replayed, outside,
                    answers, crashes>>

\* The receipt is a success.
ReceiptSuccess(c) ==
  /\ pc[c] = "awaiting"
  /\ chain[loanOf[c]][handling[c]] = "executed"
  /\ pc' = [pc EXCEPT ![c] = "settling"]
  /\ UNCHANGED <<store, lock, loanOf, handling, outside, answers, crashes>>

\* The receipt is a failure at consensus.
ReceiptFailure(c) ==
  /\ pc[c] = "awaiting"
  /\ chain[loanOf[c]][handling[c]] = "failed"
  /\ SetStatus(loanOf[c], "failed")
  /\ Release(c)
  /\ UNCHANGED <<loan, repaidBy, completed, settled, replayed, outside, answers, crashes>>

\* Broken form of StatusOfUncertain: a timeout is taken for a failure.
StatusOfTimeout == "failed"

\* Broken form of StatusOfUncertain: the outcome itself is stored.
StatusOfOutcome == "uncertain"

StatusOfUncertain == "pending"

\* DUPLICATE_TRANSACTION, a network error or a timeout, before or after a node
\* has accepted the bytes.
Uncertain(c) ==
  /\ pc[c] \in {"submitting", "awaiting"}
  /\ SetStatus(loanOf[c], StatusOfUncertain)
  /\ Release(c)
  /\ UNCHANGED <<loan, repaidBy, completed, settled, replayed, outside, answers, crashes>>

\* settle: three writes, each committed on its own.
SettleRow(c) ==
  /\ pc[c] = "settling"
  /\ SetStatus(loanOf[c], "confirmed")
  /\ pc' = [pc EXCEPT ![c] = "marking"]
  /\ UNCHANGED <<loan, repaidBy, completed, settled, replayed, lock, loanOf, handling,
                 outside, answers, crashes>>

\* markLoanRepaid refuses a loan that is repaid by another transaction.
MarkLoanRepaid(c) ==
  LET l == loanOf[c] IN
  /\ pc[c] = "marking"
  /\ IF loan[l] = "funded" \/ repaidBy[l] = handling[c]
       THEN /\ loan' = [loan EXCEPT ![l] = "repaid"]
            /\ repaidBy' = [repaidBy EXCEPT ![l] = handling[c]]
            /\ pc' = [pc EXCEPT ![c] = "emitting"]
            /\ UNCHANGED <<lock, loanOf, handling>>
       ELSE Release(c) /\ UNCHANGED <<loan, repaidBy>>
  /\ UNCHANGED <<completed, row, settled, replayed, outside, answers, crashes>>

EmitSettled(c) ==
  LET l == loanOf[c] IN
  /\ pc[c] = "emitting"
  /\ settled' = [settled EXCEPT ![l] = @ + 1]
  /\ answers' = [answers EXCEPT ![l] = @ \cup {handling[c]}]
  /\ Release(c)
  /\ UNCHANGED <<loan, repaidBy, completed, row, replayed, outside, crashes>>

\* The process dies and comes back; calls and locks are gone.
Crash ==
  /\ crashes < MaxCrashes
  /\ crashes' = crashes + 1
  /\ lock' = [l \in Loans |-> None]
  /\ pc' = [c \in Calls |-> "idle"]
  /\ loanOf' = [c \in Calls |-> None]
  /\ handling' = [c \in Calls |-> 0]
  /\ UNCHANGED <<store, outside, answers>>

------------------------------------------------------------------------------
(* The ledger, the clock and the mirror                                    *)

Execute(l, n) ==
  /\ chain[l][n] = "inflight"
  /\ chain' = [chain EXCEPT ![l][n] = "executed"]
  /\ UNCHANGED <<store, process, window, shown, answers, crashes>>

FailAtConsensus(l, n) ==
  /\ chain[l][n] = "inflight"
  /\ n < MaxTx
  /\ chain' = [chain EXCEPT ![l][n] = "failed"]
  /\ UNCHANGED <<store, process, window, shown, answers, crashes>>

\* The valid window of a saved transaction ends; it can no longer execute.
Expire(l, n) ==
  /\ n <= row[l].tx
  /\ window[l][n] = "live"
  /\ n < MaxTx \/ chain[l][n] = "executed"
  /\ window' = [window EXCEPT ![l][n] = "expired"]
  /\ chain' = [chain EXCEPT ![l][n] = IF @ = "inflight" THEN "dropped" ELSE @]
  /\ UNCHANGED <<store, process, shown, answers, crashes>>

GraceOver(l, n) ==
  /\ window[l][n] = "expired"
  /\ window' = [window EXCEPT ![l][n] = "over"]
  /\ UNCHANGED <<store, process, chain, shown, answers, crashes>>

Show(l, n) ==
  /\ chain[l][n] = "executed"
  /\ ~shown[l][n]
  /\ shown' = [shown EXCEPT ![l][n] = TRUE]
  /\ UNCHANGED <<store, process, chain, window, answers, crashes>>

------------------------------------------------------------------------------

Handle(c) ==
  \/ Confirmed(c) \/ Unconfirmed(c)
  \/ Prepare(c) \/ PrepareFails(c)
  \/ Accepted(c) \/ Rejected(c)
  \/ ReceiptSuccess(c) \/ ReceiptFailure(c) \/ Uncertain(c)
  \/ SettleRow(c) \/ MarkLoanRepaid(c) \/ EmitSettled(c)

Ledger(l, n) ==
  Execute(l, n) \/ FailAtConsensus(l, n) \/ Expire(l, n) \/ GraceOver(l, n) \/ Show(l, n)

Next ==
  \/ \E l \in Loans : RegisterFundedLoan(l) \/ RecordCompletion(l)
  \/ \E c \in Calls, l \in Loans : Replay(c, l) \/ Begin(c, l)
  \/ \E c \in Calls : Handle(c)
  \/ Crash
  \/ \E l \in Loans, n \in Txs : Ledger(l, n)

\* A handler that has begun runs to its end; callers keep retrying; time passes
\* and the mirror catches up.  A submission that is tried again and again is
\* accepted in the end, a query that is repeated is answered and a transaction
\* is built.
Fairness ==
  /\ \A c \in Calls :
       /\ WF_vars(Handle(c))
       /\ SF_vars(Confirmed(c)) /\ SF_vars(Prepare(c))
       /\ SF_vars(Accepted(c))
  /\ \A l \in Loans :
       /\ WF_vars(\E c \in Calls : Begin(c, l))
       /\ \A n \in Txs :
            WF_vars(Execute(l, n) \/ FailAtConsensus(l, n)) /\ WF_vars(Show(l, n))
              /\ WF_vars(Expire(l, n)) /\ WF_vars(GraceOver(l, n))

Spec == Init /\ [][Next]_vars /\ Fairness

------------------------------------------------------------------------------
(* Properties                                                              *)

Moved(l) == {n \in Txs : chain[l][n] = "executed"}

\* Every variable has its shape.
TypeOK ==
  /\ loan \in [Loans -> {"none", "funded", "repaid"}]
  /\ repaidBy \in [Loans -> 0..MaxTx]
  /\ completed \in [Loans -> BOOLEAN]
  /\ row \in [Loans -> [tx : 0..MaxTx,
                        status : {"none", "pending", "failed", "confirmed"}]]
  /\ settled \in [Loans -> Nat]
  /\ replayed \subseteq Loans
  /\ lock \in [Loans -> Calls \cup {None}]
  /\ pc \in [Calls -> {"idle", "confirming", "preparing", "submitting", "awaiting",
                       "settling", "marking", "emitting"}]
  /\ loanOf \in [Calls -> Loans \cup {None}]
  /\ handling \in [Calls -> 0..MaxTx]
  /\ chain \in [Loans -> [Txs -> {"new", "inflight", "executed", "failed", "dropped"}]]
  /\ window \in [Loans -> [Txs -> {"live", "expired", "over"}]]
  /\ shown \in [Loans -> [Txs -> BOOLEAN]]
  /\ answers \in [Loans -> SUBSET (0..MaxTx)]
  /\ crashes \in Nat

\* A loan is repaid at most once on the ledger, over all crashes, retries,
\* timeouts and lost answers: no fresh transaction is built while an earlier
\* one may have executed or may still execute (repay.ts:120-127).
PaidOnce ==
  \A l \in Loans : \A m, n \in Moved(l) : m = n

\* Money only moves for a registered loan whose mission was independently
\* accepted as complete (repay.ts:146-149).
PaidForCompletion ==
  \A l \in Loans : Moved(l) # {} => completed[l] /\ loan[l] # "none"

\* A loan is closed with a transaction that did move the money, the row says so
\* too, and every caller that got a 200 got that transaction (repay.ts:202-208).
AnswersAreThePayment ==
  \A l \in Loans :
    /\ loan[l] = "repaid" =>
         repaidBy[l] \in Moved(l) /\ row[l] = [tx |-> repaidBy[l], status |-> "confirmed"]
    /\ \A n \in answers[l] : loan[l] = "repaid" /\ n = repaidBy[l]

\* The settlement of a loan is attested at most once, although the row, the
\* loan and the event are three separate commits (repay.ts:202-208).
SettledOnce == \A l \in Loans : settled[l] <= 1

\* A transaction that may still execute is never forgotten: whatever is in
\* flight, or executed for a loan that is not yet repaid, is the one that the
\* row names as pending or confirmed.
InFlightIsRecorded ==
  \A l \in Loans, n \in Txs :
    chain[l][n] \in {"inflight", "executed"} =>
      row[l].tx = n /\ row[l].status \in {"pending", "confirmed"}

\* A fresh transaction replaces an earlier one only when that one has not
\* executed and can no longer execute ("a fresh transaction is only built once
\* the previous one can no longer execute", repay.ts:120-127).
FreshOnlyWhenDead ==
  [][\A l \in Loans :
       0 < row[l].tx /\ row[l].tx < row'[l].tx =>
         chain[l][row[l].tx] \notin {"inflight", "executed"}]_vars

\* A funded loan of a completed mission is repaid in the end if callers keep
\* trying and not every transaction is lost: no outcome leaves the row in a
\* state that no later call gets out of.
EventuallyRepaid ==
  \A l \in Loans : (Repayable(l)) ~> (loan[l] = "repaid")

\* /repay keeps the promise of RepayOnce.
Once == INSTANCE RepayOnce WITH moved <- [l \in Loans |-> Moved(l)]
ImplementsRepayOnce == Once!Spec
==============================================================================
