--------------------------- MODULE RepaymentProofs ---------------------------
(***************************************************************************)
(* Proofs about Repayment, for any number of loans, callers, transactions  *)
(* and crashes, in an environment where the mirror shows an execution      *)
(* before the grace ends and a node refuses only what it never accepted.   *)
(*                                                                         *)
(* The inductive invariant says of a loan that only the transaction its    *)
(* row names can be on its way or executed, and never when the row says    *)
(* failed; and of a call that it holds the lock of its loan, works on the  *)
(* row's transaction and is where the row's status lets it be.             *)
(***************************************************************************)
EXTENDS Repayment, TLAPS

\* The environment in which a repayment happens once.
Reliable == ~MirrorOutage /\ ~LateRejection

OnItsWay == {"inflight", "executed"}

\* The row of a loan against the ledger.
RowOK(l) ==
  /\ row[l].tx = 0 <=> row[l].status = "none"
  /\ row[l].tx # 0 => completed[l] /\ loan[l] # "none"
  /\ \A n \in Txs :
       /\ n > row[l].tx => chain[l][n] = "new" /\ window[l][n] = "live"
       /\ n < row[l].tx => chain[l][n] \notin OnItsWay
       /\ n = row[l].tx /\ row[l].status = "failed" => chain[l][n] \notin OnItsWay
       /\ n = row[l].tx /\ row[l].status = "confirmed" => chain[l][n] = "executed"
       /\ window[l][n] # "live" => chain[l][n] # "inflight"
       /\ shown[l][n] => chain[l][n] = "executed"

\* What is recorded of a loan against its row.
LoanOK(l) ==
  /\ loan[l] = "repaid" =>
       row[l].status = "confirmed" /\ repaidBy[l] = row[l].tx
  /\ loan[l] # "repaid" => settled[l] = 0 /\ answers[l] = {}
  /\ settled[l] <= 1
  /\ \A n \in answers[l] : n = repaidBy[l]

\* Where a call may be with its loan.
StatusAt ==
  [confirming |-> {"pending"}, preparing |-> {"none", "failed"},
   submitting |-> {"pending"}, awaiting |-> {"pending"},
   settling |-> {"pending", "confirmed"}, marking |-> {"confirmed"},
   emitting |-> {"confirmed"}]

CallOK(c) ==
  pc[c] # "idle" =>
    /\ loanOf[c] \in Loans
    /\ lock[loanOf[c]] = c
    /\ handling[c] = row[loanOf[c]].tx
    /\ completed[loanOf[c]]
    /\ row[loanOf[c]].status \in StatusAt[pc[c]]
    /\ pc[c] # "emitting" => loan[loanOf[c]] = "funded"
    /\ pc[c] = "emitting" => loan[loanOf[c]] = "repaid" /\ settled[loanOf[c]] = 0
    /\ pc[c] = "settling" => chain[loanOf[c]][handling[c]] = "executed"

IInv ==
  /\ TypeOK
  /\ \A l \in Loans : RowOK(l)
  /\ \A l \in Loans : LoanOK(l)
  /\ \A c \in Calls : CallOK(c)

\* The initial state satisfies the invariant.
LEMMA InitInv == Init => IInv
  BY BoundsAssumption DEF Init, IInv, TypeOK, RowOK, LoanOK, CallOK, Txs

\* Two calls under way work on different loans.
LEMMA OneCallPerLoan ==
  ASSUME IInv, NEW c \in Calls, NEW d \in Calls, c # d,
         pc[c] # "idle", pc[d] # "idle"
  PROVE  loanOf[c] # loanOf[d]
  BY DEF IInv, CallOK

\* Registering a loan keeps the invariant.
LEMMA RegisterInv ==
  ASSUME IInv, NEW l \in Loans, RegisterFundedLoan(l)
  PROVE  IInv'
<1> USE DEF RegisterFundedLoan, process, outside
<1>1. TypeOK' BY DEF IInv, TypeOK
<1>2. ASSUME NEW k \in Loans PROVE RowOK(k)' /\ LoanOK(k)'
  BY DEF IInv, TypeOK, RowOK, LoanOK
<1>3. ASSUME NEW c \in Calls PROVE CallOK(c)'
  BY DEF IInv, TypeOK, CallOK
<1> QED BY <1>1, <1>2, <1>3 DEF IInv

\* So does accepting a completion.
LEMMA CompletionInv ==
  ASSUME IInv, NEW l \in Loans, RecordCompletion(l)
  PROVE  IInv'
<1> USE DEF RecordCompletion, process, outside
<1>1. TypeOK' BY DEF IInv, TypeOK
<1>2. ASSUME NEW k \in Loans PROVE RowOK(k)' /\ LoanOK(k)'
  BY DEF IInv, TypeOK, RowOK, LoanOK
<1>3. ASSUME NEW c \in Calls PROVE CallOK(c)'
  BY DEF IInv, TypeOK, CallOK
<1> QED BY <1>1, <1>2, <1>3 DEF IInv

\* A repaid loan is answered with the transaction it was closed with.
LEMMA ReplayInv ==
  ASSUME IInv, NEW c \in Calls, NEW l \in Loans, Replay(c, l)
  PROVE  IInv'
<1> USE DEF Replay, process, outside
<1>1. TypeOK' BY DEF IInv, TypeOK
<1>2. ASSUME NEW k \in Loans PROVE RowOK(k)' /\ LoanOK(k)'
  BY DEF IInv, TypeOK, RowOK, LoanOK
<1>3. ASSUME NEW d \in Calls PROVE CallOK(d)'
  BY DEF IInv, TypeOK, CallOK
<1> QED BY <1>1, <1>2, <1>3 DEF IInv

\* A call that takes the lock of its loan finds itself where the row says.
LEMMA BeginInv ==
  ASSUME IInv, NEW c \in Calls, NEW l \in Loans, Begin(c, l)
  PROVE  IInv'
<1> USE DEF Begin, store, outside
<1>0. /\ row[l].tx \in 0..MaxTx
      /\ row[l].status \in {"none", "pending", "failed", "confirmed"}
  BY DEF IInv, TypeOK
<1>1. TypeOK' BY <1>0 DEF IInv, TypeOK, NextStep
<1>2. ASSUME NEW k \in Loans PROVE RowOK(k)' /\ LoanOK(k)'
  BY DEF IInv, TypeOK, RowOK, LoanOK
<1>3. ASSUME NEW d \in Calls PROVE CallOK(d)'
  <2>1. CASE d = c
    <3>1. row[l].status = "confirmed" => chain[l][row[l].tx] = "executed"
      BY <1>0 DEF IInv, RowOK, Txs
    <3> QED
      BY <1>0, <2>1, <3>1
      DEF IInv, TypeOK, CallOK, NextStep, StatusAt, Repayable
  <2>2. CASE d # c
    BY <2>2, NoneAssumption DEF IInv, TypeOK, CallOK, LockFree
  <2> QED BY <2>1, <2>2
<1> QED BY <1>1, <1>2, <1>3 DEF IInv

------------------------------------------------------------------------------
(* A call under way disturbs its own loan only.                            *)

\* What a call under way works with.
LEMMA Holder ==
  ASSUME IInv, NEW c \in Calls, pc[c] # "idle"
  PROVE  /\ loanOf[c] \in Loans
         /\ lock[loanOf[c]] = c
         /\ handling[c] = row[loanOf[c]].tx
         /\ handling[c] \in 0..MaxTx
         /\ row[loanOf[c]] \in [tx : 0..MaxTx,
              status : {"none", "pending", "failed", "confirmed"}]
         /\ pc[c] # "preparing" => handling[c] \in Txs
<1>1. loanOf[c] \in Loans /\ lock[loanOf[c]] = c /\ handling[c] = row[loanOf[c]].tx
  BY DEF IInv, CallOK
<1>2. row[loanOf[c]] \in [tx : 0..MaxTx,
        status : {"none", "pending", "failed", "confirmed"}]
  BY <1>1 DEF IInv, TypeOK
<1>3. pc[c] # "preparing" => row[loanOf[c]].status # "none"
  <2>1. pc[c] \in {"confirming", "preparing", "submitting", "awaiting",
                   "settling", "marking", "emitting"}
    BY DEF IInv, TypeOK
  <2>2. row[loanOf[c]].status \in StatusAt[pc[c]]
    BY DEF IInv, CallOK
  <2> QED BY <2>1, <2>2 DEF StatusAt
<1>4. row[loanOf[c]].status # "none" => row[loanOf[c]].tx # 0
  BY <1>1 DEF IInv, RowOK
<1> QED BY <1>1, <1>2, <1>3, <1>4, BoundsAssumption DEF Txs

\* A loan is fine when nothing that belongs to it has changed.
LEMMA LoanUntouched ==
  ASSUME IInv, NEW k \in Loans,
         row'[k] = row[k], chain'[k] = chain[k], window'[k] = window[k],
         shown'[k] = shown[k], loan'[k] = loan[k], repaidBy'[k] = repaidBy[k],
         settled'[k] = settled[k], answers'[k] = answers[k],
         completed'[k] = completed[k]
  PROVE  RowOK(k)' /\ LoanOK(k)'
  BY DEF IInv, RowOK, LoanOK

\* So is another call when only the loan of the call under way has changed.
LEMMA OthersUntouched ==
  ASSUME IInv, NEW c \in Calls, pc[c] # "idle", NEW d \in Calls, c # d,
         pc'[d] = pc[d], loanOf'[d] = loanOf[d], handling'[d] = handling[d],
         completed' = completed,
         \A k \in Loans \ {loanOf[c]} :
           /\ lock'[k] = lock[k] /\ row'[k] = row[k] /\ loan'[k] = loan[k]
           /\ settled'[k] = settled[k] /\ chain'[k] = chain[k]
  PROVE  CallOK(d)'
<1> SUFFICES ASSUME pc[d] # "idle" PROVE CallOK(d)'
  BY DEF CallOK
<1>1. loanOf[d] \in Loans /\ loanOf[d] # loanOf[c]
  BY OneCallPerLoan, Holder
<1>2. CallOK(d) BY DEF IInv
<1> QED BY <1>1, <1>2 DEF CallOK

\* The mirror has shown the pending transaction.
LEMMA ConfirmedInv ==
  ASSUME IInv, NEW c \in Calls, Confirmed(c)
  PROVE  IInv'
<1> USE DEF Confirmed, store, outside
<1>1. TypeOK' BY DEF IInv, TypeOK
<1>2. ASSUME NEW k \in Loans PROVE RowOK(k)' /\ LoanOK(k)'
  BY LoanUntouched
<1>3. ASSUME NEW d \in Calls PROVE CallOK(d)'
  <2>1. CASE d = c
    <3>1. chain[loanOf[c]][handling[c]] = "executed"
      BY Holder DEF IInv, RowOK
    <3> QED BY <2>1, <3>1 DEF IInv, TypeOK, CallOK, StatusAt
  <2>2. CASE d # c
    BY <2>2, OthersUntouched DEF IInv, TypeOK
  <2> QED BY <2>1, <2>2
<1> QED BY <1>1, <1>2, <1>3 DEF IInv

\* What the end of a handler leaves behind.
LEMMA ReleaseCalls ==
  ASSUME IInv, NEW c \in Calls, pc[c] # "idle", Release(c)
  PROVE  /\ pc' \in [Calls -> {"idle", "confirming", "preparing", "submitting",
                               "awaiting", "settling", "marking", "emitting"}]
         /\ loanOf' \in [Calls -> Loans \cup {None}]
         /\ handling' \in [Calls -> 0..MaxTx]
         /\ lock' \in [Loans -> Calls \cup {None}]
         /\ CallOK(c)'
         /\ \A d \in Calls \ {c} :
              pc'[d] = pc[d] /\ loanOf'[d] = loanOf[d] /\ handling'[d] = handling[d]
         /\ \A k \in Loans \ {loanOf[c]} : lock'[k] = lock[k]
  BY BoundsAssumption DEF Release, IInv, TypeOK, CallOK

\* A transaction that did not move the money and cannot any more may be given up.
LEMMA FailedRow ==
  ASSUME IInv, NEW c \in Calls, pc[c] # "idle", row[loanOf[c]].status = "pending",
         chain[loanOf[c]][handling[c]] \notin OnItsWay,
         SetStatus(loanOf[c], "failed"),
         UNCHANGED <<loan, repaidBy, completed, settled, outside, answers>>
  PROVE  /\ row' \in [Loans -> [tx : 0..MaxTx,
                                status : {"none", "pending", "failed", "confirmed"}]]
         /\ row'[loanOf[c]].status = "failed"
         /\ row'[loanOf[c]].tx = row[loanOf[c]].tx
         /\ \A k \in Loans \ {loanOf[c]} : row'[k] = row[k]
         /\ \A k \in Loans : RowOK(k)' /\ LoanOK(k)'
<1> USE DEF SetStatus, outside
<1>a. PICK l \in Loans : l = loanOf[c]
  BY Holder
<1>0. handling[c] = row[l].tx /\ row[l].tx \in 0..MaxTx /\ row[l].status = "pending"
  BY <1>a, Holder
<1>1. row' = [row EXCEPT ![l].status = "failed"] /\ chain[l][row[l].tx] \notin OnItsWay
  BY <1>a, <1>0 DEF SetStatus
<1>2. row \in [Loans -> [tx : 0..MaxTx,
                         status : {"none", "pending", "failed", "confirmed"}]]
  BY DEF IInv, TypeOK
<1>3. /\ row' \in [Loans -> [tx : 0..MaxTx,
                             status : {"none", "pending", "failed", "confirmed"}]]
      /\ row'[l].status = "failed" /\ row'[l].tx = row[l].tx
      /\ \A k \in Loans \ {l} : row'[k] = row[k]
  BY <1>0, <1>1, <1>2
<1>4. RowOK(l)' /\ LoanOK(l)'
  <2>1. RowOK(l) /\ LoanOK(l) BY <1>0 DEF IInv
  <2>2. row[l].tx # 0 /\ loan[l] # "repaid" BY <1>0, <2>1 DEF RowOK, LoanOK
  <2>3. RowOK(l)' BY <1>0, <1>1, <1>3, <2>1, <2>2 DEF RowOK
  <2>4. LoanOK(l)' BY <1>3, <2>1, <2>2 DEF LoanOK
  <2> QED BY <2>3, <2>4
<1>5. ASSUME NEW k \in Loans \ {l} PROVE RowOK(k)' /\ LoanOK(k)'
  BY <1>3, LoanUntouched
<1> QED BY <1>a, <1>3, <1>4, <1>5

\* An unconfirmed transaction is given up only when it is dead.
LEMMA UnconfirmedInv ==
  ASSUME Reliable, IInv, NEW c \in Calls, Unconfirmed(c)
  PROVE  IInv'
<1> DEFINE l == loanOf[c]
           n == handling[c]
<1>0. /\ pc[c] = "confirming" /\ l \in Loans /\ n \in Txs /\ n = row[l].tx
      /\ row[l].status = "pending" /\ completed[l] /\ loan[l] = "funded"
      /\ lock[l] = c
  BY Holder DEF Unconfirmed, IInv, CallOK, StatusAt
<1>1. UNCHANGED <<loan, repaidBy, completed, settled, replayed, chain, window, shown,
                  answers, crashes>>
  BY DEF Unconfirmed, outside
<1>2. CASE AfterGrace(l, n)
  <2>1. /\ SetStatus(l, "failed")
        /\ pc' = [pc EXCEPT ![c] = "preparing"]
        /\ UNCHANGED <<lock, loanOf, handling>>
    BY <1>2 DEF Unconfirmed
  <2>2. chain[l][n] \notin OnItsWay
    BY <1>0, <1>2 DEF Unconfirmed, MayMiss, AfterGrace, Reliable, IInv, RowOK, OnItsWay
  <2>3. /\ row' \in [Loans -> [tx : 0..MaxTx,
                               status : {"none", "pending", "failed", "confirmed"}]]
        /\ row'[l].status = "failed" /\ row'[l].tx = row[l].tx
        /\ \A k \in Loans \ {l} : row'[k] = row[k]
        /\ \A k \in Loans : RowOK(k)' /\ LoanOK(k)'
    BY <1>0, <1>1, <2>1, <2>2, FailedRow DEF outside
  <2>4. TypeOK' BY <1>1, <2>1, <2>3 DEF IInv, TypeOK
  <2>5. ASSUME NEW d \in Calls PROVE CallOK(d)'
    <3>1. CASE d = c
      BY <1>0, <1>1, <2>1, <2>3, <3>1 DEF IInv, TypeOK, CallOK, StatusAt
    <3>2. CASE d # c
      BY <1>0, <1>1, <2>1, <2>3, <3>2, OthersUntouched DEF IInv, TypeOK
    <3> QED BY <3>1, <3>2
  <2> QED BY <2>3, <2>4, <2>5 DEF IInv
<1>3. CASE ~AfterGrace(l, n)
  <2>1. /\ row' = row
        /\ \/ pc' = [pc EXCEPT ![c] = "submitting"] /\ UNCHANGED <<lock, loanOf, handling>>
           \/ Release(c)
    BY <1>3 DEF Unconfirmed
  <2>2. ASSUME NEW k \in Loans PROVE RowOK(k)' /\ LoanOK(k)'
    BY <1>1, <2>1, LoanUntouched
  <2>3. CASE pc' = [pc EXCEPT ![c] = "submitting"] /\ UNCHANGED <<lock, loanOf, handling>>
    <3>1. TypeOK' BY <1>1, <2>1, <2>3 DEF IInv, TypeOK
    <3>2. ASSUME NEW d \in Calls PROVE CallOK(d)'
      <4>1. CASE d = c
        BY <1>0, <1>1, <2>1, <2>3, <4>1 DEF IInv, TypeOK, CallOK, StatusAt
      <4>2. CASE d # c
        BY <1>0, <1>1, <2>1, <2>3, <4>2, OthersUntouched DEF IInv, TypeOK
      <4> QED BY <4>1, <4>2
    <3> QED BY <2>2, <3>1, <3>2 DEF IInv
  <2>4. CASE Release(c)
    <3>1. TypeOK' BY <1>0, <1>1, <2>1, <2>4, ReleaseCalls DEF IInv, TypeOK
    <3>2. ASSUME NEW d \in Calls PROVE CallOK(d)'
      BY <1>0, <1>1, <2>1, <2>4, ReleaseCalls, OthersUntouched
    <3> QED BY <2>2, <3>1, <3>2 DEF IInv
  <2> QED BY <2>1, <2>3, <2>4
<1> QED BY <1>2, <1>3

\* A saved transaction is a new one; the one before it is dead.
LEMMA PrepareInv ==
  ASSUME IInv, NEW c \in Calls, Prepare(c)
  PROVE  IInv'
<1>a. PICK l \in Loans : l = loanOf[c]
  BY Holder DEF Prepare
<1>0. /\ pc[c] = "preparing" /\ handling[c] = row[l].tx
      /\ row[l].tx \in Nat /\ row[l].tx < MaxTx /\ row[l].status \in {"none", "failed"}
      /\ completed[l] /\ loan[l] = "funded" /\ lock[l] = c
      /\ row[l] \in [tx : 0..MaxTx, status : {"none", "pending", "failed", "confirmed"}]
  BY <1>a, Holder, BoundsAssumption DEF Prepare, IInv, CallOK, StatusAt
<1>1. /\ row' = [row EXCEPT ![l] = [tx |-> row[l].tx + 1, status |-> "pending"]]
      /\ handling' = [handling EXCEPT ![c] = row'[l].tx]
      /\ pc' = [pc EXCEPT ![c] = "submitting"]
      /\ UNCHANGED <<loan, repaidBy, completed, settled, replayed, lock, loanOf,
                     chain, window, shown, answers, crashes>>
  BY <1>a, <1>0 DEF Prepare, SaveRepayment, outside
<1>2. /\ row \in [Loans -> [tx : 0..MaxTx,
                            status : {"none", "pending", "failed", "confirmed"}]]
      /\ handling \in [Calls -> 0..MaxTx]
      /\ pc \in [Calls -> {"idle", "confirming", "preparing", "submitting", "awaiting",
                           "settling", "marking", "emitting"}]
  BY DEF IInv, TypeOK
<1>3. /\ row' \in [Loans -> [tx : 0..MaxTx,
                             status : {"none", "pending", "failed", "confirmed"}]]
      /\ row'[l] = [tx |-> row[l].tx + 1, status |-> "pending"]
      /\ row'[l].tx = row[l].tx + 1 /\ row'[l].status = "pending"
      /\ row[l].tx + 1 \in Txs
      /\ \A k \in Loans \ {l} : row'[k] = row[k]
  BY <1>0, <1>1, <1>2, BoundsAssumption DEF Txs
<1>4. TypeOK'
  <2>1. handling' \in [Calls -> 0..MaxTx]
    BY <1>1, <1>2, <1>3, BoundsAssumption DEF Txs
  <2>2. pc' \in [Calls -> {"idle", "confirming", "preparing", "submitting", "awaiting",
                           "settling", "marking", "emitting"}]
    BY <1>1, <1>2
  <2> QED BY <1>1, <1>3, <2>1, <2>2 DEF IInv, TypeOK
<1>5. ASSUME NEW k \in Loans PROVE RowOK(k)' /\ LoanOK(k)'
  <2>1. CASE k = l
    <3>1. RowOK(l) /\ LoanOK(l) BY DEF IInv
    <3>2. \A n \in Txs : n < row[l].tx + 1 => n < row[l].tx \/ n = row[l].tx
      BY <1>0 DEF Txs
    <3>3. \A n \in Txs : n > row[l].tx + 1 => n > row[l].tx
      BY <1>0 DEF Txs
    <3>4. row[l].status = "none" => \A n \in Txs : n # row[l].tx
      BY <1>0, <3>1 DEF RowOK, Txs
    <3>5. RowOK(l)'
      BY <1>0, <1>1, <1>3, <3>1, <3>2, <3>3, <3>4 DEF RowOK
    <3>6. LoanOK(l)'
      BY <1>0, <1>1, <1>3, <3>1 DEF LoanOK
    <3> QED BY <2>1, <3>5, <3>6
  <2>2. CASE k # l
    BY <1>1, <1>3, <2>2, LoanUntouched
  <2> QED BY <2>1, <2>2
<1>6. ASSUME NEW d \in Calls PROVE CallOK(d)'
  <2>1. CASE d = c
    BY <1>a, <1>0, <1>1, <1>2, <1>3, <2>1 DEF CallOK, StatusAt
  <2>2. CASE d # c
    BY <1>a, <1>0, <1>1, <1>2, <1>3, <2>2, OthersUntouched
  <2> QED BY <2>1, <2>2
<1> QED BY <1>4, <1>5, <1>6 DEF IInv

\* A handler that ends without touching its row.
LEMMA PrepareFailsInv ==
  ASSUME IInv, NEW c \in Calls, PrepareFails(c)
  PROVE  IInv'
<1>0. pc[c] # "idle" /\ Release(c) BY DEF PrepareFails
<1>1. UNCHANGED <<loan, repaidBy, completed, row, settled, replayed, chain, window,
                  shown, answers, crashes>>
  BY DEF PrepareFails, store, outside
<1>2. TypeOK' BY <1>0, <1>1, ReleaseCalls DEF IInv, TypeOK
<1>3. ASSUME NEW k \in Loans PROVE RowOK(k)' /\ LoanOK(k)'
  BY <1>1, LoanUntouched
<1>4. ASSUME NEW d \in Calls PROVE CallOK(d)'
  BY <1>0, <1>1, ReleaseCalls, OthersUntouched
<1> QED BY <1>2, <1>3, <1>4 DEF IInv

\* What a call in the middle of its submission works with.
LEMMA Submitting ==
  ASSUME IInv, NEW c \in Calls, pc[c] \in {"submitting", "awaiting"}
  PROVE  /\ loanOf[c] \in Loans /\ handling[c] \in Txs
         /\ handling[c] = row[loanOf[c]].tx
         /\ row[loanOf[c]].status = "pending"
         /\ loan[loanOf[c]] = "funded" /\ completed[loanOf[c]] /\ lock[loanOf[c]] = c
<1>1. row[loanOf[c]].status \in StatusAt[pc[c]]
  BY DEF IInv, CallOK
<1> QED BY <1>1, Holder DEF IInv, CallOK, StatusAt

\* Submitted bytes are those of the row's transaction.
LEMMA AcceptedInv ==
  ASSUME IInv, NEW c \in Calls, Accepted(c)
  PROVE  IInv'
<1>a. PICK l \in Loans, n \in Txs : l = loanOf[c] /\ n = handling[c]
  BY Submitting DEF Accepted
<1>0. /\ pc[c] = "submitting" /\ n = row[l].tx /\ row[l].status = "pending"
      /\ loan[l] = "funded" /\ completed[l] /\ lock[l] = c
      /\ chain[l][n] = "new" /\ window[l][n] = "live"
  BY <1>a, Submitting DEF Accepted
<1>1. /\ chain' = [chain EXCEPT ![l][n] = "inflight"]
      /\ pc' = [pc EXCEPT ![c] = "awaiting"]
      /\ UNCHANGED <<loan, repaidBy, completed, row, settled, replayed, lock, loanOf,
                     handling, window, shown, answers, crashes>>
  BY <1>a DEF Accepted, store
<1>2. /\ chain \in [Loans -> [Txs -> {"new", "inflight", "executed", "failed", "dropped"}]]
      /\ pc \in [Calls -> {"idle", "confirming", "preparing", "submitting", "awaiting",
                           "settling", "marking", "emitting"}]
  BY DEF IInv, TypeOK
<1>3. /\ chain' \in [Loans -> [Txs -> {"new", "inflight", "executed", "failed", "dropped"}]]
      /\ chain'[l][n] = "inflight"
      /\ \A m \in Txs \ {n} : chain'[l][m] = chain[l][m]
      /\ \A k \in Loans \ {l} : chain'[k] = chain[k]
  BY <1>1, <1>2
<1>4. TypeOK'
  <2>1. pc' \in [Calls -> {"idle", "confirming", "preparing", "submitting", "awaiting",
                           "settling", "marking", "emitting"}]
    BY <1>1, <1>2
  <2> QED BY <1>1, <1>3, <2>1 DEF IInv, TypeOK
<1>5. ASSUME NEW k \in Loans PROVE RowOK(k)' /\ LoanOK(k)'
  <2>1. CASE k = l
    <3>1. RowOK(l) /\ LoanOK(l) BY DEF IInv
    <3>2. RowOK(l)'
      <4> SUFFICES ASSUME NEW m \in Txs
                   PROVE  /\ m > row[l].tx => chain'[l][m] = "new" /\ window[l][m] = "live"
                          /\ m < row[l].tx => chain'[l][m] \notin OnItsWay
                          /\ m = row[l].tx /\ row[l].status = "failed"
                               => chain'[l][m] \notin OnItsWay
                          /\ m = row[l].tx /\ row[l].status = "confirmed"
                               => chain'[l][m] = "executed"
                          /\ window[l][m] # "live" => chain'[l][m] # "inflight"
                          /\ shown[l][m] => chain'[l][m] = "executed"
        BY <1>0, <1>1, <3>1 DEF RowOK
      <4>1. CASE m = n
        BY <1>0, <1>3, <3>1, <4>1 DEF RowOK, Txs
      <4>2. CASE m # n
        BY <1>0, <1>3, <3>1, <4>2 DEF RowOK
      <4> QED BY <4>1, <4>2
    <3>3. LoanOK(l)' BY <1>1, <3>1 DEF LoanOK
    <3> QED BY <2>1, <3>2, <3>3
  <2>2. CASE k # l
    BY <1>1, <1>3, <2>2, LoanUntouched
  <2> QED BY <2>1, <2>2
<1>6. ASSUME NEW d \in Calls PROVE CallOK(d)'
  <2>1. CASE d = c
    BY <1>a, <1>0, <1>1, <1>2, <2>1 DEF CallOK, StatusAt
  <2>2. CASE d # c
    BY <1>a, <1>0, <1>1, <1>2, <1>3, <2>2, OthersUntouched
  <2> QED BY <2>1, <2>2
<1> QED BY <1>4, <1>5, <1>6 DEF IInv

\* A handler that gives its transaction up and ends.
LEMMA GiveUpInv ==
  ASSUME IInv, NEW c \in Calls, pc[c] \in {"submitting", "awaiting"},
         chain[loanOf[c]][handling[c]] \notin OnItsWay,
         SetStatus(loanOf[c], "failed"), Release(c),
         UNCHANGED <<loan, repaidBy, completed, settled, replayed, outside, answers, crashes>>
  PROVE  IInv'
<1>a. PICK l \in Loans : l = loanOf[c]
  BY Submitting
<1>1. UNCHANGED <<loan, repaidBy, completed, settled, replayed, chain, window, shown,
                  answers, crashes>>
  BY DEF outside
<1>2. /\ row' \in [Loans -> [tx : 0..MaxTx,
                             status : {"none", "pending", "failed", "confirmed"}]]
      /\ \A k \in Loans \ {l} : row'[k] = row[k]
      /\ \A k \in Loans : RowOK(k)' /\ LoanOK(k)'
  BY <1>a, Submitting, FailedRow
<1>3. TypeOK' BY <1>1, <1>2, ReleaseCalls DEF IInv, TypeOK
<1>4. ASSUME NEW d \in Calls PROVE CallOK(d)'
  BY <1>a, <1>1, <1>2, ReleaseCalls, OthersUntouched
<1> QED BY <1>2, <1>3, <1>4 DEF IInv

\* A refused transaction never reached the ledger.
LEMMA RejectedInv ==
  ASSUME Reliable, IInv, NEW c \in Calls, Rejected(c)
  PROVE  IInv'
<1>1. /\ pc[c] \in {"submitting", "awaiting"}
      /\ chain[loanOf[c]][handling[c]] \in {"new", "dropped"}
  BY DEF Rejected, Reliable
<1>2. /\ SetStatus(loanOf[c], "failed") /\ Release(c)
      /\ UNCHANGED <<loan, repaidBy, completed, settled, replayed, outside, answers, crashes>>
  BY DEF Rejected
<1> QED BY <1>1, <1>2, GiveUpInv DEF OnItsWay

\* A receipt of failure is final.
LEMMA ReceiptFailureInv ==
  ASSUME IInv, NEW c \in Calls, ReceiptFailure(c)
  PROVE  IInv'
  BY GiveUpInv DEF ReceiptFailure, OnItsWay

\* The receipt of success.
LEMMA ReceiptSuccessInv ==
  ASSUME IInv, NEW c \in Calls, ReceiptSuccess(c)
  PROVE  IInv'
<1> USE DEF ReceiptSuccess, store, outside
<1>1. TypeOK' BY DEF IInv, TypeOK
<1>2. ASSUME NEW k \in Loans PROVE RowOK(k)' /\ LoanOK(k)'
  BY LoanUntouched
<1>3. ASSUME NEW d \in Calls PROVE CallOK(d)'
  <2>1. CASE d = c
    BY <2>1, Submitting DEF IInv, TypeOK, CallOK, StatusAt
  <2>2. CASE d # c
    BY <2>2, OthersUntouched DEF IInv, TypeOK
  <2> QED BY <2>1, <2>2
<1> QED BY <1>1, <1>2, <1>3 DEF IInv

\* An uncertain outcome leaves the row pending.
LEMMA UncertainInv ==
  ASSUME IInv, NEW c \in Calls, Uncertain(c)
  PROVE  IInv'
<1>0. /\ pc[c] \in {"submitting", "awaiting"} /\ pc[c] # "idle" /\ Release(c)
      /\ UNCHANGED <<loan, repaidBy, completed, settled, replayed, chain, window, shown,
                     answers, crashes>>
  BY DEF Uncertain, outside
<1>1. row' = row
  <2>1. /\ row' = [row EXCEPT ![loanOf[c]].status = "pending"]
        /\ row[loanOf[c]].status = "pending" /\ loanOf[c] \in Loans
    BY <1>0, Submitting DEF Uncertain, SetStatus, StatusOfUncertain
  <2>2. row \in [Loans -> [tx : 0..MaxTx,
                           status : {"none", "pending", "failed", "confirmed"}]]
    BY DEF IInv, TypeOK
  <2> QED BY <2>1, <2>2
<1>2. TypeOK' BY <1>0, <1>1, ReleaseCalls DEF IInv, TypeOK
<1>3. ASSUME NEW k \in Loans PROVE RowOK(k)' /\ LoanOK(k)'
  BY <1>0, <1>1, LoanUntouched
<1>4. ASSUME NEW d \in Calls PROVE CallOK(d)'
  BY <1>0, <1>1, ReleaseCalls, OthersUntouched
<1> QED BY <1>2, <1>3, <1>4 DEF IInv

\* Only an executed transaction is confirmed.
LEMMA SettleRowInv ==
  ASSUME IInv, NEW c \in Calls, SettleRow(c)
  PROVE  IInv'
<1>a. PICK l \in Loans : l = loanOf[c]
  BY Holder DEF SettleRow
<1>0. /\ pc[c] = "settling" /\ handling[c] = row[l].tx /\ row[l].tx \in Txs
      /\ row[l].status \in {"pending", "confirmed"} /\ chain[l][row[l].tx] = "executed"
      /\ completed[l] /\ loan[l] = "funded" /\ lock[l] = c
  BY <1>a, Holder DEF SettleRow, IInv, CallOK, StatusAt
<1>1. /\ row' = [row EXCEPT ![l].status = "confirmed"]
      /\ pc' = [pc EXCEPT ![c] = "marking"]
      /\ UNCHANGED <<loan, repaidBy, completed, settled, replayed, lock, loanOf,
                     handling, chain, window, shown, answers, crashes>>
  BY <1>a DEF SettleRow, SetStatus, outside
<1>2. /\ row \in [Loans -> [tx : 0..MaxTx,
                            status : {"none", "pending", "failed", "confirmed"}]]
      /\ pc \in [Calls -> {"idle", "confirming", "preparing", "submitting", "awaiting",
                           "settling", "marking", "emitting"}]
  BY DEF IInv, TypeOK
<1>3. /\ row' \in [Loans -> [tx : 0..MaxTx,
                             status : {"none", "pending", "failed", "confirmed"}]]
      /\ row'[l].status = "confirmed" /\ row'[l].tx = row[l].tx
      /\ \A k \in Loans \ {l} : row'[k] = row[k]
  BY <1>1, <1>2
<1>4. TypeOK'
  <2>1. pc' \in [Calls -> {"idle", "confirming", "preparing", "submitting", "awaiting",
                           "settling", "marking", "emitting"}]
    BY <1>1, <1>2
  <2> QED BY <1>1, <1>3, <2>1 DEF IInv, TypeOK
<1>5. ASSUME NEW k \in Loans PROVE RowOK(k)' /\ LoanOK(k)'
  <2>1. CASE k = l
    <3>1. RowOK(l) /\ LoanOK(l) BY DEF IInv
    <3>2. RowOK(l)' BY <1>0, <1>1, <1>3, <3>1 DEF RowOK
    <3>3. LoanOK(l)' BY <1>0, <1>1, <1>3, <3>1 DEF LoanOK
    <3> QED BY <2>1, <3>2, <3>3
  <2>2. CASE k # l
    BY <1>1, <1>3, <2>2, LoanUntouched
  <2> QED BY <2>1, <2>2
<1>6. ASSUME NEW d \in Calls PROVE CallOK(d)'
  <2>1. CASE d = c
    BY <1>a, <1>0, <1>1, <1>2, <1>3, <2>1 DEF CallOK, StatusAt
  <2>2. CASE d # c
    BY <1>a, <1>0, <1>1, <1>2, <1>3, <2>2, OthersUntouched
  <2> QED BY <2>1, <2>2
<1> QED BY <1>4, <1>5, <1>6 DEF IInv

\* A loan is closed with the transaction of its row, and the call that closes it
\* has not attested it yet.
LEMMA MarkInv ==
  ASSUME IInv, NEW c \in Calls, MarkLoanRepaid(c)
  PROVE  IInv'
<1>a. PICK l \in Loans : l = loanOf[c]
  BY Holder DEF MarkLoanRepaid
<1>0. /\ pc[c] = "marking" /\ handling[c] = row[l].tx /\ row[l].tx \in Txs
      /\ row[l].status = "confirmed" /\ handling[c] \in 0..MaxTx
      /\ completed[l] /\ loan[l] = "funded" /\ lock[l] = c
  BY <1>a, Holder DEF MarkLoanRepaid, IInv, CallOK, StatusAt
<1>1. /\ loan' = [loan EXCEPT ![l] = "repaid"]
      /\ repaidBy' = [repaidBy EXCEPT ![l] = handling[c]]
      /\ pc' = [pc EXCEPT ![c] = "emitting"]
      /\ UNCHANGED <<completed, row, settled, replayed, lock, loanOf,
                     handling, chain, window, shown, answers, crashes>>
  BY <1>a, <1>0 DEF MarkLoanRepaid, outside
<1>2. TypeOK' BY <1>0, <1>1 DEF IInv, TypeOK
<1>3. /\ loan'[l] = "repaid" /\ repaidBy'[l] = row[l].tx
      /\ \A k \in Loans \ {l} : loan'[k] = loan[k] /\ repaidBy'[k] = repaidBy[k]
  BY <1>0, <1>1 DEF IInv, TypeOK
<1>4. ASSUME NEW k \in Loans PROVE RowOK(k)' /\ LoanOK(k)'
  <2>1. CASE k = l
    <3>1. RowOK(l) /\ LoanOK(l) BY DEF IInv
    <3>2. RowOK(l)' BY <1>0, <1>1, <1>3, <3>1 DEF RowOK
    <3>3. LoanOK(l)' BY <1>0, <1>1, <1>3, <3>1 DEF LoanOK
    <3> QED BY <2>1, <3>2, <3>3
  <2>2. CASE k # l
    BY <1>1, <1>3, <2>2, LoanUntouched
  <2> QED BY <2>1, <2>2
<1>5. ASSUME NEW d \in Calls PROVE CallOK(d)'
  <2>1. CASE d = c
    <3>1. settled[l] = 0 BY <1>0 DEF IInv, LoanOK
    <3>2. pc'[c] = "emitting" BY <1>1 DEF IInv, TypeOK
    <3> QED BY <1>a, <1>0, <1>1, <1>3, <2>1, <3>1, <3>2 DEF CallOK, StatusAt
  <2>2. CASE d # c
    BY <1>a, <1>0, <1>1, <1>3, <2>2, OthersUntouched DEF IInv, TypeOK
  <2> QED BY <2>1, <2>2
<1> QED BY <1>2, <1>4, <1>5 DEF IInv

\* The settlement is attested by the call that closed the loan.
LEMMA EmitInv ==
  ASSUME IInv, NEW c \in Calls, EmitSettled(c)
  PROVE  IInv'
<1>a. PICK l \in Loans : l = loanOf[c]
  BY Holder DEF EmitSettled
<1>0. /\ pc[c] = "emitting" /\ pc[c] # "idle" /\ handling[c] = row[l].tx
      /\ handling[c] \in 0..MaxTx
      /\ row[l].status = "confirmed" /\ loan[l] = "repaid" /\ settled[l] = 0
  BY <1>a, Holder DEF EmitSettled, IInv, CallOK, StatusAt
<1>1. /\ settled' = [settled EXCEPT ![l] = @ + 1]
      /\ answers' = [answers EXCEPT ![l] = @ \cup {handling[c]}]
      /\ Release(c)
      /\ UNCHANGED <<loan, repaidBy, completed, row, replayed, chain, window, shown,
                     crashes>>
  BY <1>a DEF EmitSettled, outside
<1>2. /\ settled' \in [Loans -> Nat] /\ answers' \in [Loans -> SUBSET (0..MaxTx)]
      /\ settled'[l] = 1 /\ answers'[l] = answers[l] \cup {handling[c]}
      /\ \A k \in Loans \ {l} : settled'[k] = settled[k] /\ answers'[k] = answers[k]
  BY <1>0, <1>1 DEF IInv, TypeOK
<1>3. TypeOK' BY <1>0, <1>1, <1>2, ReleaseCalls DEF IInv, TypeOK
<1>4. ASSUME NEW k \in Loans PROVE RowOK(k)' /\ LoanOK(k)'
  <2>1. CASE k = l
    <3>1. RowOK(l) /\ LoanOK(l) BY DEF IInv
    <3>2. RowOK(l)' BY <1>1, <3>1 DEF RowOK
    <3>3. LoanOK(l)' BY <1>0, <1>1, <1>2, <3>1 DEF LoanOK
    <3> QED BY <2>1, <3>2, <3>3
  <2>2. CASE k # l
    BY <1>1, <1>2, <2>2, LoanUntouched
  <2> QED BY <2>1, <2>2
<1>5. ASSUME NEW d \in Calls PROVE CallOK(d)'
  BY <1>a, <1>0, <1>1, <1>2, ReleaseCalls, OthersUntouched
<1> QED BY <1>3, <1>4, <1>5 DEF IInv

\* After a crash no call is under way and the store is as it was.
LEMMA CrashInv ==
  ASSUME IInv, Crash
  PROVE  IInv'
<1> USE DEF Crash, store, outside
<1>1. TypeOK' BY BoundsAssumption DEF IInv, TypeOK
<1>2. ASSUME NEW k \in Loans PROVE RowOK(k)' /\ LoanOK(k)'
  BY LoanUntouched
<1>3. ASSUME NEW d \in Calls PROVE CallOK(d)'
  BY DEF CallOK
<1> QED BY <1>1, <1>2, <1>3 DEF IInv

------------------------------------------------------------------------------
(* The ledger, the clock and the mirror.                                   *)

ChainStates == {"new", "inflight", "executed", "failed", "dropped"}

\* What happens to one transaction outside keeps the invariant if it keeps what
\* is said of that transaction and takes no execution back.
LEMMA OutsideInv ==
  ASSUME IInv, NEW l \in Loans, NEW n \in Txs, UNCHANGED <<store, process, answers, crashes>>,
         chain' \in [Loans -> [Txs -> ChainStates]],
         window' \in [Loans -> [Txs -> {"live", "expired", "over"}]],
         shown' \in [Loans -> [Txs -> BOOLEAN]],
         \A k \in Loans, m \in Txs : <<k, m>> # <<l, n>> =>
           /\ chain'[k][m] = chain[k][m] /\ window'[k][m] = window[k][m]
           /\ shown'[k][m] = shown[k][m],
         n <= row[l].tx,
         chain'[l][n] \in OnItsWay => chain[l][n] \in OnItsWay,
         chain[l][n] = "executed" => chain'[l][n] = "executed",
         window'[l][n] # "live" => chain'[l][n] # "inflight",
         shown'[l][n] => chain'[l][n] = "executed"
  PROVE  IInv'
<1> USE DEF store, process
<1>1. TypeOK' BY DEF IInv, TypeOK, ChainStates
<1>2. ASSUME NEW k \in Loans PROVE RowOK(k)'
  <2>1. RowOK(k) BY DEF IInv
  <2>2. row[l].tx \in Int /\ n \in Int BY DEF IInv, TypeOK, Txs
  <2> SUFFICES ASSUME NEW m \in Txs
               PROVE  /\ m > row[k].tx => chain'[k][m] = "new" /\ window'[k][m] = "live"
                      /\ m < row[k].tx => chain'[k][m] \notin OnItsWay
                      /\ m = row[k].tx /\ row[k].status = "failed"
                           => chain'[k][m] \notin OnItsWay
                      /\ m = row[k].tx /\ row[k].status = "confirmed"
                           => chain'[k][m] = "executed"
                      /\ window'[k][m] # "live" => chain'[k][m] # "inflight"
                      /\ shown'[k][m] => chain'[k][m] = "executed"
    BY <2>1 DEF RowOK
  <2>3. CASE <<k, m>> = <<l, n>>
    BY <2>1, <2>2, <2>3 DEF RowOK
  <2>4. CASE <<k, m>> # <<l, n>>
    BY <2>1, <2>4 DEF RowOK
  <2> QED BY <2>3, <2>4
<1>3. ASSUME NEW k \in Loans PROVE LoanOK(k)'
  BY DEF IInv, LoanOK
<1>4. ASSUME NEW d \in Calls PROVE CallOK(d)'
  <2> SUFFICES ASSUME pc[d] # "idle" PROVE CallOK(d)'
    BY DEF CallOK
  <2>1. CallOK(d) /\ handling[d] \in 0..MaxTx /\ loanOf[d] \in Loans
        /\ (pc[d] = "settling" => handling[d] \in Txs)
    BY Holder DEF IInv
  <2>2. pc[d] = "settling" => chain'[loanOf[d]][handling[d]] = "executed"
    BY <2>1 DEF CallOK
  <2> QED BY <2>1, <2>2 DEF CallOK
<1> QED BY <1>1, <1>2, <1>3, <1>4 DEF IInv

\* Consensus decides on what is in flight, which the row names.
LEMMA ConsensusInv ==
  ASSUME IInv, NEW l \in Loans, NEW n \in Txs,
         Execute(l, n) \/ FailAtConsensus(l, n)
  PROVE  IInv'
<1>1. PICK v \in {"executed", "failed"} : chain' = [chain EXCEPT ![l][n] = v]
  BY DEF Execute, FailAtConsensus
<1>2. /\ chain[l][n] = "inflight"
      /\ UNCHANGED <<store, process, window, shown, answers, crashes>>
  BY DEF Execute, FailAtConsensus
<1>3. /\ chain \in [Loans -> [Txs -> ChainStates]]
      /\ window \in [Loans -> [Txs -> {"live", "expired", "over"}]]
      /\ shown \in [Loans -> [Txs -> BOOLEAN]]
      /\ row[l].tx \in 0..MaxTx
  BY DEF IInv, TypeOK, ChainStates
<1>4. /\ chain' \in [Loans -> [Txs -> ChainStates]] /\ chain'[l][n] = v
      /\ \A k \in Loans, m \in Txs : <<k, m>> # <<l, n>> => chain'[k][m] = chain[k][m]
  BY <1>1, <1>3 DEF ChainStates
<1>5. n <= row[l].tx /\ ~shown[l][n]
  <2>1. /\ n > row[l].tx => chain[l][n] = "new"
        /\ shown[l][n] => chain[l][n] = "executed"
    BY DEF IInv, RowOK
  <2> QED BY <1>2, <1>3, <2>1, BoundsAssumption DEF Txs
<1> QED BY <1>1, <1>2, <1>3, <1>4, <1>5, OutsideInv DEF OnItsWay

\* The end of the valid window drops what is in flight.
LEMMA ExpireInv ==
  ASSUME IInv, NEW l \in Loans, NEW n \in Txs, Expire(l, n)
  PROVE  IInv'
<1>1. PICK v : /\ chain' = [chain EXCEPT ![l][n] = v]
               /\ v = IF chain[l][n] = "inflight" THEN "dropped" ELSE chain[l][n]
  BY DEF Expire, IInv, TypeOK
<1>2. /\ n <= row[l].tx /\ window' = [window EXCEPT ![l][n] = "expired"]
      /\ UNCHANGED <<store, process, shown, answers, crashes>>
  BY DEF Expire
<1>3. /\ chain \in [Loans -> [Txs -> ChainStates]]
      /\ window \in [Loans -> [Txs -> {"live", "expired", "over"}]]
      /\ shown \in [Loans -> [Txs -> BOOLEAN]]
  BY DEF IInv, TypeOK, ChainStates
<1>4. /\ chain' \in [Loans -> [Txs -> ChainStates]] /\ chain'[l][n] = v
      /\ window' \in [Loans -> [Txs -> {"live", "expired", "over"}]]
      /\ \A k \in Loans, m \in Txs : <<k, m>> # <<l, n>> =>
           chain'[k][m] = chain[k][m] /\ window'[k][m] = window[k][m]
  BY <1>1, <1>2, <1>3 DEF ChainStates
<1>5. shown[l][n] => chain[l][n] = "executed"
  BY DEF IInv, RowOK
<1> QED BY <1>1, <1>2, <1>3, <1>4, <1>5, OutsideInv DEF OnItsWay

\* The end of the grace and the mirror catching up.
LEMMA GraceShowInv ==
  ASSUME IInv, NEW l \in Loans, NEW n \in Txs, GraceOver(l, n) \/ Show(l, n)
  PROVE  IInv'
<1>1. /\ chain \in [Loans -> [Txs -> ChainStates]]
      /\ window \in [Loans -> [Txs -> {"live", "expired", "over"}]]
      /\ shown \in [Loans -> [Txs -> BOOLEAN]]
      /\ row[l].tx \in 0..MaxTx /\ RowOK(l)
  BY DEF IInv, TypeOK, ChainStates
<1>2. CASE GraceOver(l, n)
  <2>1. /\ window[l][n] = "expired" /\ window' = [window EXCEPT ![l][n] = "over"]
        /\ UNCHANGED <<store, process, chain, shown, answers, crashes>>
    BY <1>2 DEF GraceOver
  <2>2. /\ window' \in [Loans -> [Txs -> {"live", "expired", "over"}]]
        /\ \A k \in Loans, m \in Txs : <<k, m>> # <<l, n>> => window'[k][m] = window[k][m]
    BY <1>1, <2>1
  <2>3. n <= row[l].tx /\ chain[l][n] # "inflight" /\ (shown[l][n] => chain[l][n] = "executed")
    BY <1>1, <2>1, BoundsAssumption DEF RowOK, Txs
  <2> QED BY <1>1, <2>1, <2>2, <2>3, OutsideInv
<1>3. CASE Show(l, n)
  <2>1. /\ chain[l][n] = "executed" /\ shown' = [shown EXCEPT ![l][n] = TRUE]
        /\ UNCHANGED <<store, process, chain, window, answers, crashes>>
    BY <1>3 DEF Show
  <2>2. /\ shown' \in [Loans -> [Txs -> BOOLEAN]]
        /\ \A k \in Loans, m \in Txs : <<k, m>> # <<l, n>> => shown'[k][m] = shown[k][m]
    BY <1>1, <2>1
  <2>3. n <= row[l].tx
    <3>1. n > row[l].tx => chain[l][n] = "new"
      BY <1>1 DEF RowOK
    <3> QED BY <1>1, <2>1, <3>1, BoundsAssumption DEF Txs
  <2>4. /\ chain[l][n] = "executed" /\ chain' = chain /\ window' = window
        /\ UNCHANGED <<store, process, answers, crashes>>
    BY <2>1
  <2>5. /\ chain' \in [Loans -> [Txs -> ChainStates]] /\ chain'[l][n] = "executed"
        /\ window' \in [Loans -> [Txs -> {"live", "expired", "over"}]]
        /\ \A k \in Loans, m \in Txs : <<k, m>> # <<l, n>> =>
             chain'[k][m] = chain[k][m] /\ window'[k][m] = window[k][m]
    BY <1>1, <2>4
  <2> QED BY <2>2, <2>3, <2>4, <2>5, OutsideInv DEF OnItsWay
<1> QED BY <1>2, <1>3

\* Every step keeps the invariant.
LEMMA StepInv ==
  ASSUME Reliable, IInv, [Next]_vars
  PROVE  IInv'
<1>1. ASSUME NEW l \in Loans, RegisterFundedLoan(l) \/ RecordCompletion(l)
      PROVE  IInv'
  BY <1>1, RegisterInv, CompletionInv
<1>2. ASSUME NEW c \in Calls, NEW l \in Loans, Replay(c, l) \/ Begin(c, l)
      PROVE  IInv'
  BY <1>2, ReplayInv, BeginInv
<1>3. ASSUME NEW c \in Calls, Handle(c)
      PROVE  IInv'
  BY <1>3, ConfirmedInv, UnconfirmedInv, PrepareInv, PrepareFailsInv, AcceptedInv,
     RejectedInv, ReceiptSuccessInv, ReceiptFailureInv, UncertainInv, SettleRowInv,
     MarkInv, EmitInv
  DEF Handle
<1>4. ASSUME NEW l \in Loans, NEW n \in Txs, Ledger(l, n)
      PROVE  IInv'
  BY <1>4, ConsensusInv, ExpireInv, GraceShowInv DEF Ledger
<1>5. CASE UNCHANGED vars
  <2>1. TypeOK' BY <1>5 DEF IInv, TypeOK, vars
  <2>2. ASSUME NEW k \in Loans PROVE RowOK(k)' /\ LoanOK(k)'
    BY <1>5, LoanUntouched DEF vars
  <2>3. ASSUME NEW c \in Calls PROVE CallOK(c)'
    BY <1>5 DEF IInv, CallOK, vars
  <2> QED BY <2>1, <2>2, <2>3 DEF IInv
<1> QED BY <1>1, <1>2, <1>3, <1>4, <1>5, CrashInv DEF Next

------------------------------------------------------------------------------
(* What follows for the loan and the money.                                *)

\* In a reliable environment every behaviour keeps the inductive invariant.
THEOREM Invariance == Reliable => (Spec => []IInv)
<1> SUFFICES ASSUME Reliable PROVE Spec => []IInv
  OBVIOUS
<1>1. IInv /\ [Next]_vars => IInv'
  BY StepInv
<1> QED BY <1>1, InitInv, PTL DEF Spec

\* Only the transaction that the row names, as pending or confirmed, is on its
\* way or executed.
LEMMA RowNamesIt ==
  ASSUME IInv, NEW l \in Loans, NEW n \in Txs, chain[l][n] \in OnItsWay
  PROVE  /\ n = row[l].tx /\ row[l].status \in {"pending", "confirmed"}
         /\ completed[l] /\ loan[l] # "none"
<1>1. /\ row[l] \in [tx : 0..MaxTx, status : {"none", "pending", "failed", "confirmed"}]
      /\ RowOK(l)
  BY DEF IInv, TypeOK
<1>2. n = row[l].tx
  BY <1>1, BoundsAssumption DEF RowOK, OnItsWay, Txs
<1> QED BY <1>1, <1>2 DEF RowOK, Txs

\* Every variable keeps its shape.
THEOREM TypeCorrect == Reliable => (Spec => []TypeOK)
<1>1. IInv => TypeOK BY DEF IInv
<1> QED BY <1>1, Invariance, PTL

\* A loan is repaid at most once on the ledger.
THEOREM LoanPaidOnce == Reliable => (Spec => []PaidOnce)
<1>1. IInv => PaidOnce
  BY RowNamesIt DEF PaidOnce, Moved, OnItsWay
<1> QED BY <1>1, Invariance, PTL

\* What may still execute is the transaction the row names.
THEOREM NothingForgotten == Reliable => (Spec => []InFlightIsRecorded)
<1>1. IInv => InFlightIsRecorded
  BY RowNamesIt DEF InFlightIsRecorded, OnItsWay
<1> QED BY <1>1, Invariance, PTL

\* Money moves only for a registered loan of a completed mission.
THEOREM CompletionFirst == Reliable => (Spec => []PaidForCompletion)
<1>1. IInv => PaidForCompletion
  BY RowNamesIt DEF PaidForCompletion, Moved, OnItsWay
<1> QED BY <1>1, Invariance, PTL

\* A settlement is attested at most once.
THEOREM AttestedOnce == Reliable => (Spec => []SettledOnce)
<1>1. IInv => SettledOnce
  BY DEF IInv, LoanOK, SettledOnce
<1> QED BY <1>1, Invariance, PTL

\* A loan is closed with, and callers are told, the transaction that moved the
\* money.
THEOREM AnswersAreTrue == Reliable => (Spec => []AnswersAreThePayment)
<1>1. ASSUME IInv PROVE AnswersAreThePayment
  <2> SUFFICES ASSUME NEW l \in Loans
               PROVE  /\ loan[l] = "repaid" =>
                           /\ repaidBy[l] \in Moved(l)
                           /\ row[l] = [tx |-> repaidBy[l], status |-> "confirmed"]
                      /\ \A n \in answers[l] : loan[l] = "repaid" /\ n = repaidBy[l]
    BY DEF AnswersAreThePayment
  <2>1. /\ row[l] \in [tx : 0..MaxTx, status : {"none", "pending", "failed", "confirmed"}]
        /\ RowOK(l) /\ LoanOK(l)
    BY <1>1 DEF IInv, TypeOK
  <2>2. CASE loan[l] = "repaid"
    <3>1. row[l].status = "confirmed" /\ repaidBy[l] = row[l].tx
      BY <2>1, <2>2 DEF LoanOK
    <3>2. row[l].tx \in Txs
      BY <2>1, <3>1, BoundsAssumption DEF RowOK, Txs
    <3> QED BY <2>1, <2>2, <3>1, <3>2 DEF RowOK, LoanOK, Moved
  <2>3. CASE loan[l] # "repaid"
    BY <2>1, <2>3 DEF LoanOK
  <2> QED BY <2>2, <2>3
<1> QED BY <1>1, Invariance, PTL

\* Only a call that prepares one gives a loan a new transaction.
LEMMA RowGrows ==
  ASSUME IInv, [Next]_vars, NEW l \in Loans, row[l].tx < row'[l].tx
  PROVE  \E c \in Calls : pc[c] = "preparing" /\ loanOf[c] = l
<1>1. /\ row \in [Loans -> [tx : 0..MaxTx,
                            status : {"none", "pending", "failed", "confirmed"}]]
  BY DEF IInv, TypeOK
<1>2. ASSUME UNCHANGED row PROVE FALSE
  BY <1>1, <1>2
<1>3. ASSUME NEW k, NEW status, SetStatus(k, status) PROVE FALSE
  BY <1>1, <1>3 DEF SetStatus
<1>4. ASSUME NEW c \in Calls, Handle(c)
      PROVE  pc[c] = "preparing" /\ loanOf[c] = l
  <2>1. CASE Prepare(c)
    <3>1. PICK k : k = loanOf[c] OBVIOUS
    <3>2. pc[c] = "preparing" /\ k \in Loans
      BY <2>1, <3>1 DEF Prepare, IInv, CallOK
    <3>3. SaveRepayment(k)
      BY <2>1, <3>1 DEF Prepare
    <3>4. k # l => row'[l] = row[l]
      BY <1>1, <3>2, <3>3 DEF SaveRepayment
    <3> QED BY <1>1, <3>1, <3>2, <3>4
  <2>2. CASE ~Prepare(c)
    <3>1. UNCHANGED row \/ \E k, status : SetStatus(k, status)
      BY <1>4, <2>2
      DEF Handle, Confirmed, Unconfirmed, PrepareFails, Accepted, Rejected,
          ReceiptSuccess, ReceiptFailure, Uncertain, SettleRow, MarkLoanRepaid,
          EmitSettled, store
    <3> QED BY <1>2, <1>3, <3>1
  <2> QED BY <2>1, <2>2
<1>5. ASSUME NEW k \in Loans, NEW n \in Txs, Ledger(k, n) PROVE UNCHANGED row
  BY <1>5 DEF Ledger, Execute, FailAtConsensus, Expire, GraceOver, Show, store
<1>6. ASSUME Crash \/ UNCHANGED vars PROVE UNCHANGED row
  BY <1>6 DEF Crash, store, vars
<1>7. ASSUME NEW c \in Calls, NEW k \in Loans, Replay(c, k) \/ Begin(c, k)
      PROVE  UNCHANGED row
  BY <1>7 DEF Replay, Begin, store
<1>8. ASSUME NEW k \in Loans, RegisterFundedLoan(k) \/ RecordCompletion(k)
      PROVE  UNCHANGED row
  BY <1>8 DEF RegisterFundedLoan, RecordCompletion
<1> QED BY <1>2, <1>4, <1>5, <1>6, <1>7, <1>8 DEF Next

\* A fresh transaction replaces an earlier one only when that one is dead.
THEOREM FreshIsSafe == Reliable => (Spec => FreshOnlyWhenDead)
<1> SUFFICES ASSUME Reliable PROVE Spec => FreshOnlyWhenDead
  OBVIOUS
<1>1. ASSUME IInv, [Next]_vars, NEW l \in Loans,
             0 < row[l].tx, row[l].tx < row'[l].tx
      PROVE  chain[l][row[l].tx] \notin {"inflight", "executed"}
  <2>1. \E c \in Calls : pc[c] = "preparing" /\ loanOf[c] = l
    BY <1>1, RowGrows
  <2>2. row[l].status \in {"none", "failed"}
    BY <1>1, <2>1 DEF IInv, CallOK, StatusAt
  <2>3. row[l].tx \in Txs /\ RowOK(l)
    BY <1>1, BoundsAssumption DEF IInv, TypeOK, Txs
  <2> QED BY <1>1, <2>2, <2>3 DEF RowOK, OnItsWay
<1>2. IInv /\ [Next]_vars =>
        [\A l \in Loans :
           0 < row[l].tx /\ row[l].tx < row'[l].tx =>
             chain[l][row[l].tx] \notin {"inflight", "executed"}]_vars
  BY <1>1
<1> QED BY <1>2, Invariance, PTL DEF Spec, FreshOnlyWhenDead

------------------------------------------------------------------------------
(* /repay implements RepayOnce: every step is a step of it or a stutter.   *)

\* What changes nothing that RepayOnce speaks of is a stutter.
LEMMA OnceStutters ==
  ASSUME UNCHANGED <<loan, completed, repaidBy, answers>>,
         \A l \in Loans : Moved(l)' = Moved(l)
  PROVE  Once!vars' = Once!vars
  BY DEF Once!vars

\* A step that keeps the ledger keeps what has moved.
LEMMA MovedKept ==
  ASSUME UNCHANGED chain
  PROVE  \A l \in Loans : Moved(l)' = Moved(l)
  BY DEF Moved

\* The execution of a transaction is the one transfer of its loan.
LEMMA ExecuteMoves ==
  ASSUME IInv, NEW l \in Loans, NEW n \in Txs, Execute(l, n)
  PROVE  Once!Move(l, n)
<1>1. /\ chain[l][n] = "inflight" /\ chain' = [chain EXCEPT ![l][n] = "executed"]
      /\ UNCHANGED <<loan, completed, repaidBy, answers, row>>
  BY DEF Execute, store
<1>2. /\ n = row[l].tx /\ row[l].status \in {"pending", "confirmed"}
      /\ completed[l] /\ loan[l] # "none"
  BY <1>1, RowNamesIt DEF OnItsWay
<1>3. row[l].status # "confirmed"
  BY <1>1, <1>2 DEF IInv, RowOK
<1>4. loan[l] = "funded"
  BY <1>2, <1>3 DEF IInv, TypeOK, LoanOK
<1>5. \A m \in Txs : chain[l][m] # "executed"
  BY <1>1, <1>2, RowNamesIt DEF OnItsWay
<1>6. chain \in [Loans -> [Txs -> ChainStates]]
  BY DEF IInv, TypeOK, ChainStates
<1>7. Moved(l) = {} /\ Moved(l)' = {n}
  BY <1>1, <1>5, <1>6 DEF Moved
<1>8. \A k \in Loans : k # l => Moved(k)' = Moved(k)
  BY <1>1, <1>6 DEF Moved
<1> QED BY <1>1, <1>2, <1>4, <1>7, <1>8 DEF Once!Move

\* Every other step outside moves nothing.
LEMMA OthersMoveNothing ==
  ASSUME IInv, NEW l \in Loans, NEW n \in Txs,
         FailAtConsensus(l, n) \/ Expire(l, n) \/ GraceOver(l, n) \/ Show(l, n)
  PROVE  Once!vars' = Once!vars
<1>1. chain \in [Loans -> [Txs -> ChainStates]]
  BY DEF IInv, TypeOK, ChainStates
<1>2. UNCHANGED <<loan, completed, repaidBy, answers>>
  BY DEF FailAtConsensus, Expire, GraceOver, Show, store
<1>3. \/ UNCHANGED chain
      \/ \E v : /\ chain' = [chain EXCEPT ![l][n] = v]
               /\ v # "executed" /\ chain[l][n] # "executed"
  BY <1>1 DEF FailAtConsensus, Expire, GraceOver, Show
<1>4. \A k \in Loans : Moved(k)' = Moved(k)
  BY <1>1, <1>3 DEF Moved
<1> QED BY <1>2, <1>4, OnceStutters

\* The transaction a loan is closed with is the one that moved.
LEMMA MarkRecords ==
  ASSUME IInv, NEW c \in Calls, MarkLoanRepaid(c)
  PROVE  \E l \in Loans, n \in Txs : Once!Record(l, n)
<1>1. PICK l \in Loans : l = loanOf[c]
  BY DEF MarkLoanRepaid, IInv, CallOK
<1>2. /\ handling[c] = row[l].tx /\ row[l].status = "confirmed" /\ loan[l] = "funded"
  BY <1>1 DEF MarkLoanRepaid, IInv, CallOK, StatusAt
<1>3. PICK n \in Txs : n = handling[c]
  BY <1>1, Holder DEF MarkLoanRepaid
<1>4. /\ loan' = [loan EXCEPT ![l] = "repaid"]
      /\ repaidBy' = [repaidBy EXCEPT ![l] = n]
      /\ UNCHANGED <<completed, answers, chain>>
  BY <1>1, <1>2, <1>3 DEF MarkLoanRepaid, outside
<1>5. chain[l][n] = "executed"
  BY <1>2, <1>3 DEF IInv, RowOK
<1>6. \A m \in Txs : chain[l][m] = "executed" => m = n
  BY <1>2, <1>3, RowNamesIt DEF OnItsWay
<1>7. Moved(l) = {n}
  BY <1>5, <1>6 DEF Moved
<1>8. \A k \in Loans : Moved(k)' = Moved(k)
  BY <1>4, MovedKept
<1> QED BY <1>2, <1>4, <1>7, <1>8 DEF Once!Record

\* Callers are told the transaction that the loan is closed with.
LEMMA EmitAnswers ==
  ASSUME IInv, NEW c \in Calls, EmitSettled(c)
  PROVE  \E l \in Loans : Once!Answer(l)
<1>1. PICK l \in Loans : l = loanOf[c]
  BY DEF EmitSettled, IInv, CallOK
<1>2. handling[c] = row[l].tx /\ loan[l] = "repaid"
  BY <1>1 DEF EmitSettled, IInv, CallOK
<1>3. handling[c] = repaidBy[l]
  BY <1>2 DEF IInv, LoanOK
<1>4. /\ answers' = [answers EXCEPT ![l] = @ \cup {repaidBy[l]}]
      /\ UNCHANGED <<loan, completed, repaidBy, chain>>
  BY <1>1, <1>3 DEF EmitSettled, outside
<1>5. \A k \in Loans : Moved(k)' = Moved(k)
  BY <1>4, MovedKept
<1> QED BY <1>2, <1>4, <1>5 DEF Once!Answer

\* The initial states of Repayment are initial states of RepayOnce.
LEMMA OnceInit == Init => Once!Init
  BY DEF Init, Once!Init, Moved

\* Every step of Repayment is a step of RepayOnce or a stutter.
LEMMA OnceStep ==
  ASSUME IInv, [Next]_vars
  PROVE  Once!Next \/ Once!vars' = Once!vars
<1>1. ASSUME NEW l \in Loans, RegisterFundedLoan(l)
      PROVE  Once!Fund(l)
  BY <1>1, MovedKept DEF RegisterFundedLoan, outside, Once!Fund
<1>2. ASSUME NEW l \in Loans, RecordCompletion(l)
      PROVE  Once!Complete(l)
  BY <1>2, MovedKept DEF RecordCompletion, outside, Once!Complete
<1>3. ASSUME NEW c \in Calls, NEW l \in Loans, Replay(c, l)
      PROVE  Once!Answer(l)
  BY <1>3, MovedKept DEF Replay, outside, Once!Answer
<1>4. ASSUME NEW c \in Calls, NEW l \in Loans, Begin(c, l)
      PROVE  Once!vars' = Once!vars
  BY <1>4, MovedKept, OnceStutters DEF Begin, store, outside
<1>5. ASSUME NEW c \in Calls, Handle(c)
      PROVE  \/ \E l \in Loans, n \in Txs : Once!Record(l, n)
             \/ \E l \in Loans : Once!Answer(l)
             \/ Once!vars' = Once!vars
  <2>1. CASE MarkLoanRepaid(c) \/ EmitSettled(c)
    BY <2>1, MarkRecords, EmitAnswers
  <2>2. CASE Accepted(c)
    <3>1. PICK l, n : /\ chain[l][n] = "new"
                      /\ chain' = [chain EXCEPT ![l][n] = "inflight"]
      BY <2>2 DEF Accepted
    <3>2. UNCHANGED <<loan, completed, repaidBy, answers>>
      BY <2>2 DEF Accepted, store
    <3>3. chain \in [Loans -> [Txs -> ChainStates]]
      BY DEF IInv, TypeOK, ChainStates
    <3>4. \A k \in Loans : Moved(k)' = Moved(k)
      BY <3>1, <3>3 DEF Moved
    <3> QED BY <3>2, <3>4, OnceStutters
  <2>3. CASE ~(MarkLoanRepaid(c) \/ EmitSettled(c) \/ Accepted(c))
    <3>1. UNCHANGED <<loan, completed, repaidBy, answers, chain>>
      BY <1>5, <2>3
      DEF Handle, Confirmed, Unconfirmed, Prepare, PrepareFails, Rejected,
          ReceiptSuccess, ReceiptFailure, Uncertain, SettleRow, store, outside
    <3> QED BY <3>1, MovedKept, OnceStutters
  <2> QED BY <2>1, <2>2, <2>3
<1>6. ASSUME NEW l \in Loans, NEW n \in Txs, Ledger(l, n)
      PROVE  Once!Move(l, n) \/ Once!vars' = Once!vars
  BY <1>6, ExecuteMoves, OthersMoveNothing DEF Ledger
<1>7. ASSUME Crash \/ UNCHANGED vars
      PROVE  Once!vars' = Once!vars
  BY <1>7, MovedKept, OnceStutters DEF Crash, vars, store, outside
<1>8. ASSUME \/ \E l \in Loans : Once!Fund(l) \/ Once!Complete(l) \/ Once!Answer(l)
             \/ \E l \in Loans, n \in Txs : Once!Move(l, n) \/ Once!Record(l, n)
      PROVE  Once!Next
  BY <1>8, Zenon DEF Once!Next
<1> QED BY <1>1, <1>2, <1>3, <1>4, <1>5, <1>6, <1>7, <1>8 DEF Next

\* /repay keeps the promise of RepayOnce.
THEOREM RepaymentImplementsOnce == Reliable => (Spec => ImplementsRepayOnce)
<1> SUFFICES ASSUME Reliable PROVE Spec => ImplementsRepayOnce
  OBVIOUS
<1>1. IInv /\ [Next]_vars => [Once!Next]_(Once!vars)
  BY OnceStep
<1> QED BY <1>1, OnceInit, Invariance, PTL DEF Spec, ImplementsRepayOnce, Once!Spec
==============================================================================
