---------------------------- MODULE PaidScanProofs ----------------------------
(***************************************************************************)
(* Proofs about PaidScan, for any number of calls and crashes and any      *)
(* durations in the order that LeaseAssumption gives.  Only that a failed  *)
(* payment was not made needs a mirror that answers by the end of the      *)
(* grace.                                                                  *)
(*                                                                         *)
(* That a payment is scanned once is a matter of time: whoever scanned     *)
(* holds a lease that outlives the authorization.  That it is settled once *)
(* is a matter of the row: one call records the attempt, and nobody can    *)
(* claim the row any more.  Everything that follows a settlement rests on  *)
(* the row, which has a settlement only of an execution and keeps it.      *)
(***************************************************************************)
EXTENDS PaidScan, TLAPS

Paid == row.settlement # None

\* The row against itself and what follows from it.
RowOK ==
  /\ row.status = "none" => ~row.attempted /\ row.owner = None
  /\ row.attempted => row.report
  /\ Paid => row.attempted /\ chain = "executed"
  /\ Paid <=> row.status \in {"settled", "completed"}
  /\ row.status = "settlement_failed" => row.attempted
  /\ row.status = "settlement_failed" /\ ~MirrorOutage => chain = "dead"
  /\ callback => shown /\ Paid

\* The ledger against the clock and the requests to settle.
LedgerOK ==
  /\ shown => chain = "executed"
  /\ settles = 0 => chain \in {"new", "dead"}
  /\ now >= ValidUntil => chain \in {"executed", "dead"}

\* A second scan or settlement is out of reach.
OnceOK ==
  /\ scans <= 1 /\ settles <= 1
  /\ scans = 1 /\ ~row.attempted => row.status # "none" /\ row.leaseUntil >= ValidUntil
  /\ ~row.attempted => settles = 0
  /\ \A c, d \in Calls : pc[c] = "settling" /\ pc[d] = "settling" => c = d

\* What a call relies on where it is.
CallOK(c) ==
  /\ pc[c] = "verifying" /\ row.owner = c => scans = 0
  /\ pc[c] = "settling" => settles = 0
  /\ pc[c] \in {"settling", "awaiting"} => row.attempted
  /\ pc[c] = "awaiting" /\ now = EndOfGrace => chain = "dead"
  /\ answer[c] = "report" \/ entitled[c] => Paid
  /\ entitled[c] =>
       /\ answer[c] \in {None, "report"}
       /\ pc[c] # "idle" => pc[c] \in {"reconciling", "completing"} /\ seen[c] # None

\* What a process that reconciles relies on.
ReconcileOK(p) ==
  /\ pc[p] \in {"reconciling", "delivering", "completing"} => row.attempted
  /\ pc[p] = "delivering" => seen[p] # None
  /\ pc[p] \in {"reconciling", "delivering"} /\ seen[p] # None => Paid
  /\ pc[p] = "completing" => shown /\ Paid

IInv ==
  /\ TypeOK
  /\ RowOK
  /\ LedgerOK
  /\ OnceOK
  /\ \A c \in Calls : CallOK(c)
  /\ \A p \in Processes : ReconcileOK(p)

\* The initial state satisfies every part of the invariant.
LEMMA InitInv == Init => IInv
<1> SUFFICES ASSUME Init PROVE IInv
  OBVIOUS
<1> USE LeaseAssumption, NamesAssumption DEF Init
<1>1. TypeOK
  <2>1. row \in Rows
    BY DEF Rows
  <2>2. pc \in [Processes -> Places] /\ seen \in [Processes -> Evidence \cup {None}]
    BY DEF Places
  <2>3. answer \in [Calls -> Answers] /\ entitled \in [Calls -> BOOLEAN]
    BY DEF Answers
  <2>4. callback \in BOOLEAN /\ shown \in BOOLEAN
    OBVIOUS
  <2>5. /\ scans \in Nat /\ settles \in Nat
        /\ now \in 0 .. EndOfGrace /\ crashes \in 0 .. MaxCrashes
    BY DEF EndOfGrace
  <2>6. chain \in {"new", "submitted", "executed", "dead"}
    OBVIOUS
  <2> QED BY <2>1, <2>2, <2>3, <2>4, <2>5, <2>6 DEF TypeOK
<1>2. RowOK /\ LedgerOK /\ OnceOK
  BY DEF RowOK, LedgerOK, OnceOK, Paid, Processes
<1>3. ASSUME NEW c \in Calls PROVE CallOK(c)
  BY <1>3 DEF CallOK, Processes
<1>4. ASSUME NEW p \in Processes PROVE ReconcileOK(p)
  BY <1>4 DEF ReconcileOK
<1> QED BY <1>1, <1>2, <1>3, <1>4 DEF IInv

\* A process that ends without touching the row keeps the invariant, if the
\* answer it gives is one that it may give.
LEMMA EndInv ==
  ASSUME IInv, NEW p \in Processes, NEW what \in Answers, End(p, what),
         what = "report" => Paid,
         p \in Calls /\ entitled[p] => what = "report",
         UNCHANGED <<row, callback, entitled, scans, settles, outside, crashes>>
  PROVE  IInv'
<1> USE LeaseAssumption, NamesAssumption
    DEF IInv, End, Goto, outside, EndOfGrace, Paid, Processes
<1>1. TypeOK'
  BY DEF TypeOK, Places
<1>2. RowOK' /\ LedgerOK'
  BY DEF RowOK, LedgerOK
<1>3. OnceOK'
  BY DEF TypeOK, OnceOK
<1>4. ASSUME NEW d \in Calls PROVE CallOK(d)'
  BY <1>4 DEF TypeOK, CallOK
<1>5. ASSUME NEW q \in Processes PROVE ReconcileOK(q)'
  BY <1>5 DEF TypeOK, ReconcileOK
<1> QED BY <1>1, <1>2, <1>3, <1>4, <1>5

\* A claim needs a row that nobody has scanned for, or attempted to settle.
LEMMA ClaimInv ==
  ASSUME IInv, NEW c \in Calls, Claim(c)
  PROVE  IInv'
<1> USE LeaseAssumption, NamesAssumption
   
    DEF IInv, Claim, outside, LeaseIsOver, Expired, Begins, Delivered, Goto, EndOfGrace, Paid,
        Processes
<1>1. TypeOK'
  <2>1. \A r \in Rows, n \in Nat :
          [r EXCEPT !.status = IF @ = "none" THEN "claimed" ELSE @,
                    !.owner = c, !.leaseUntil = n] \in Rows
    BY DEF Rows
  <2>2. row \in Rows /\ now + PaymentLease \in Nat
    BY DEF TypeOK
  <2>3. row' \in Rows
    BY <2>1, <2>2
  <2>4. entitled' \in [Calls -> BOOLEAN]
    BY DEF TypeOK
  <2>5. /\ pc' \in [Processes -> Places] /\ answer' \in [Calls -> Answers]
        /\ UNCHANGED <<callback, seen, scans, settles, now, chain, shown, crashes>>
    BY DEF TypeOK, Places, Answers
  <2> HIDE DEF IInv, Claim
  <2>6. TypeOK
    BY DEF IInv
  <2> QED BY <2>3, <2>4, <2>5, <2>6 DEF TypeOK
<1>2. RowOK'
  BY DEF RowOK
<1>3. LedgerOK'
  BY DEF TypeOK, LedgerOK
<1>4. OnceOK'
  BY DEF TypeOK, Rows, OnceOK
<1>5. ASSUME NEW d \in Calls PROVE CallOK(d)'
  BY <1>5 DEF TypeOK, Rows, RowOK, OnceOK, CallOK
<1>6. ASSUME NEW q \in Processes PROVE ReconcileOK(q)'
  BY <1>6 DEF ReconcileOK
<1> QED BY <1>1, <1>2, <1>3, <1>4, <1>5, <1>6

\* A request that ends where it begins, and the retry.
LEMMA RequestInv ==
  ASSUME IInv, NEW c \in Calls,
         RefuseExpired(c) \/ AlreadyProcessed(c) \/ Replay(c) \/ Retry(c)
  PROVE  IInv'
<1> USE LeaseAssumption, NamesAssumption
   
    DEF IInv, RefuseExpired, AlreadyProcessed, Replay, Retry, Pending, Goto, Expired,
        LeaseIsOver,
        Begins, Delivered, outside, EndOfGrace, Paid, Processes
<1>1. TypeOK'
  BY DEF TypeOK, Rows, Places, Answers
<1>2. RowOK' /\ LedgerOK'
  BY DEF RowOK, LedgerOK
<1>3. OnceOK'
  BY DEF TypeOK, OnceOK
<1>4. ASSUME NEW d \in Calls PROVE CallOK(d)'
  BY <1>4 DEF TypeOK, RowOK, CallOK
<1>5. ASSUME NEW q \in Processes PROVE ReconcileOK(q)'
  BY <1>5 DEF TypeOK, Rows, ReconcileOK
<1> QED BY <1>1, <1>2, <1>3, <1>4, <1>5

\* The verified lease outlives the authorization.
LEMMA VerifiedInv ==
  ASSUME IInv, NEW c \in Calls, Verified(c)
  PROVE  IInv'
<1> USE LeaseAssumption, NamesAssumption
    DEF IInv, Verified, outside, RenewLease, Goto, EndOfGrace, Paid, Processes
<1>1. TypeOK'
  BY DEF TypeOK, Rows, Places
<1>2. RowOK'
  BY DEF RowOK
<1>3. LedgerOK'
  BY DEF TypeOK, LedgerOK
<1>4. OnceOK'
  <2>1. scans' = scans \/ (scans = 0 /\ scans' = 1)
    BY DEF TypeOK, CallOK
  <2>2. /\ row'.status = row.status /\ row'.attempted = row.attempted
        /\ row'.leaseUntil = now + VerifiedLease
    BY DEF TypeOK, Rows
  <2>3. row.status # "none"
    BY DEF RowOK
  <2>4. \A a, d \in Calls : pc'[a] = "settling" /\ pc'[d] = "settling" => a = d
    BY DEF TypeOK, OnceOK
  <2> QED BY <2>1, <2>2, <2>3, <2>4 DEF TypeOK, OnceOK
<1>5. ASSUME NEW d \in Calls PROVE CallOK(d)'
  BY <1>5 DEF TypeOK, CallOK
<1>6. ASSUME NEW q \in Processes PROVE ReconcileOK(q)'
  BY <1>6 DEF ReconcileOK
<1> QED BY <1>1, <1>2, <1>3, <1>4, <1>5, <1>6

\* A call that fails gives the lease to nobody.
LEMMA FailsInv ==
  ASSUME IInv, NEW c \in Calls, Fails(c)
  PROVE  IInv'
<1> USE LeaseAssumption, NamesAssumption
    DEF IInv, Fails, outside, End, Goto, Orphaned, EndOfGrace, Paid, Processes
<1>1. TypeOK'
  BY DEF TypeOK, Rows, Places, Answers
<1>2. RowOK'
  BY DEF RowOK
<1>3. LedgerOK'
  BY DEF TypeOK, LedgerOK
<1>4. OnceOK'
  BY DEF OnceOK
<1>5. ASSUME NEW d \in Calls PROVE CallOK(d)'
  BY <1>5 DEF CallOK
<1>6. ASSUME NEW q \in Processes PROVE ReconcileOK(q)'
  BY <1>6 DEF ReconcileOK
<1> QED BY <1>1, <1>2, <1>3, <1>4, <1>5, <1>6

\* The report is saved by the call that holds the claim.
LEMMA ScannedInv ==
  ASSUME IInv, NEW c \in Calls, Scanned(c)
  PROVE  IInv'
<1>1. CASE ~(row.owner = c /\ ~row.attempted)
  <2>1. End(c, "failed") /\ ~entitled[c]
    BY <1>1, NamesAssumption DEF Scanned, IInv, CallOK
  <2> QED BY <1>1, <2>1, EndInv DEF Scanned, Answers, Processes
<1>2. CASE row.owner = c /\ ~row.attempted
  <2> DEFINE r == [row EXCEPT !.report = TRUE, !.status = "report_ready"]
  <2>1. /\ pc[c] = "scanning" /\ row' = r /\ pc' = [pc EXCEPT ![c] = "marking"]
        /\ UNCHANGED <<callback, seen, answer, entitled, scans, settles,
                       now, chain, shown, crashes>>
    BY <1>2 DEF Scanned, Goto, outside
  <2>2. /\ r \in Rows /\ r.status = "report_ready" /\ r.report /\ ~r.attempted
        /\ r.settlement = row.settlement /\ r.owner = row.owner /\ r.leaseUntil = row.leaseUntil
    BY <1>2 DEF IInv, TypeOK, Rows
  <2> HIDE DEF r
  <2> USE LeaseAssumption, NamesAssumption DEF IInv, EndOfGrace, Paid, Processes
  <2>3. TypeOK' BY <2>1, <2>2 DEF TypeOK, Places
  <2>4. RowOK' BY <1>2, <2>1, <2>2 DEF RowOK
  <2>5. LedgerOK' BY <2>1 DEF LedgerOK
  <2>6. OnceOK' BY <1>2, <2>1, <2>2 DEF TypeOK, OnceOK
  <2>7. ASSUME NEW d \in Calls PROVE CallOK(d)' BY <1>2, <2>1, <2>2, <2>7 DEF TypeOK, CallOK
  <2>8. ASSUME NEW q \in Processes PROVE ReconcileOK(q)' BY <1>2, <2>1, <2>2, <2>8
  DEF TypeOK, ReconcileOK
  <2> QED BY <2>3, <2>4, <2>5, <2>6, <2>7, <2>8
<1> QED BY <1>1, <1>2

\* One call records the attempt.
LEMMA MarkAttemptedInv ==
  ASSUME IInv, NEW c \in Calls, MarkAttempted(c)
  PROVE  IInv'
<1>1. CASE ~(row.owner = c /\ row.report /\ ~row.attempted)
  <2>1. End(c, "failed") /\ ~entitled[c]
    BY <1>1, NamesAssumption DEF MarkAttempted, IInv, CallOK
  <2> QED BY <1>1, <2>1, EndInv DEF MarkAttempted, Answers, Processes
<1>2. CASE row.owner = c /\ row.report /\ ~row.attempted
  <2> DEFINE r == [row EXCEPT !.attempted = TRUE, !.owner = None, !.leaseUntil = 0]
  <2>1. /\ pc[c] = "marking" /\ row' = r /\ pc' = [pc EXCEPT ![c] = "settling"]
        /\ UNCHANGED <<callback, seen, answer, entitled, scans, settles,
                       now, chain, shown, crashes>>
    BY <1>2 DEF MarkAttempted, Goto, outside
  <2>2. /\ r \in Rows /\ r.status = row.status /\ r.report /\ r.attempted
        /\ r.settlement = row.settlement /\ r.owner = None
    BY <1>2 DEF IInv, TypeOK, Rows
  <2> HIDE DEF r
  <2> USE LeaseAssumption, NamesAssumption DEF IInv, EndOfGrace, Paid, Processes
  <2>3. TypeOK' BY <2>1, <2>2 DEF TypeOK, Places
  <2>4. RowOK' BY <1>2, <2>1, <2>2 DEF RowOK
  <2>5. LedgerOK' BY <2>1 DEF LedgerOK
  <2>6. OnceOK' BY <1>2, <2>1, <2>2 DEF TypeOK, OnceOK, CallOK
  <2>7. ASSUME NEW d \in Calls PROVE CallOK(d)' BY <1>2, <2>1, <2>2, <2>7
  DEF TypeOK, OnceOK, CallOK
  <2>8. ASSUME NEW q \in Processes PROVE ReconcileOK(q)' BY <1>2, <2>1, <2>2, <2>8
  DEF TypeOK, ReconcileOK
  <2> QED BY <2>3, <2>4, <2>5, <2>6, <2>7, <2>8
<1> QED BY <1>1, <1>2

\* The settlement is asked for the first time.
LEMMA AskSettlementInv ==
  ASSUME IInv, NEW c \in Calls, AskSettlement(c)
  PROVE  IInv'
<1> USE LeaseAssumption, NamesAssumption
    DEF IInv, AskSettlement, outside, Goto, EndOfGrace, Paid, Processes
<1>1. TypeOK'
  BY DEF TypeOK, Places
<1>2. RowOK'
  BY DEF RowOK
<1>3. LedgerOK'
  BY DEF TypeOK, LedgerOK
<1>4. OnceOK'
  BY DEF OnceOK, CallOK
<1>5. ASSUME NEW d \in Calls PROVE CallOK(d)'
  BY <1>5 DEF TypeOK, LedgerOK, OnceOK, CallOK
<1>6. ASSUME NEW q \in Processes PROVE ReconcileOK(q)'
  BY <1>6 DEF ReconcileOK
<1> QED BY <1>1, <1>2, <1>3, <1>4, <1>5, <1>6

\* A settlement is saved for an execution of an attempted payment, by a process
\* that goes on to deliver or to complete.
LEMMA SavedInv ==
  ASSUME IInv, NEW p \in Processes, NEW evidence \in Evidence, SaveSettlement(evidence),
         row.attempted, chain = "executed",
         \/ /\ p \in Calls /\ pc[p] = "awaiting" /\ pc' = [pc EXCEPT ![p] = "delivering"]
            /\ seen' = [seen EXCEPT ![p] = evidence]
         \/ /\ pc[p] \in {"reconciling", "delivering"} /\ pc' = [pc EXCEPT ![p] = "completing"]
            /\ shown /\ UNCHANGED seen /\ (p \in Calls => ~entitled[p]),
         UNCHANGED <<callback, answer, entitled, scans, settles, outside, crashes>>
  PROVE  IInv'
<1> DEFINE r == [row EXCEPT !.settlement = evidence, !.status = "settled"]
<1>1. /\ row' = r
      /\ UNCHANGED <<callback, answer, entitled, scans, settles, now, chain, shown, crashes>>
  BY DEF SaveSettlement, outside
<1>2. /\ r \in Rows /\ r.status = "settled" /\ r.settlement = evidence /\ evidence # None
      /\ r.report = row.report /\ r.attempted /\ r.owner = row.owner
  BY NamesAssumption DEF IInv, TypeOK, Rows, Evidence
<1> HIDE DEF r
<1> USE LeaseAssumption, NamesAssumption DEF IInv, EndOfGrace, Paid, Processes
<1>3. TypeOK'
  BY <1>1, <1>2 DEF TypeOK, Places
<1>4. RowOK'
  BY <1>1, <1>2 DEF RowOK
<1>5. LedgerOK'
  BY <1>1 DEF LedgerOK
<1>6. OnceOK'
  BY <1>1, <1>2 DEF TypeOK, OnceOK
<1>7. ASSUME NEW d \in Calls PROVE CallOK(d)'
  BY <1>1, <1>2, <1>7 DEF TypeOK, CallOK
<1>8. ASSUME NEW q \in Processes PROVE ReconcileOK(q)'
  BY <1>1, <1>2, <1>8 DEF TypeOK, ReconcileOK
<1> QED BY <1>3, <1>4, <1>5, <1>6, <1>7, <1>8

\* The facilitator confirms what was executed.
LEMMA FacilitatorConfirmsInv ==
  ASSUME IInv, NEW c \in Calls, FacilitatorConfirms(c)
  PROVE  IInv'
<1>1. row.attempted /\ ~entitled[c] /\ c \in Processes
  BY DEF FacilitatorConfirms, IInv, CallOK, Processes
<1>2. PICK evidence \in Evidence :
        IF Conflicts(evidence)
          THEN End(c, "conflict") /\ UNCHANGED row
          ELSE /\ SaveSettlement(evidence) /\ pc' = [pc EXCEPT ![c] = "delivering"]
               /\ seen' = [seen EXCEPT ![c] = evidence] /\ UNCHANGED answer
  BY DEF FacilitatorConfirms, Goto, AfterSettlement
<1>3. /\ pc[c] = "awaiting" /\ chain = "executed"
      /\ UNCHANGED <<callback, entitled, scans, settles, outside, crashes>>
  BY DEF FacilitatorConfirms
<1>4. CASE Conflicts(evidence)
  BY <1>1, <1>2, <1>3, <1>4, EndInv DEF Answers
<1>5. CASE ~Conflicts(evidence)
  BY <1>1, <1>2, <1>3, <1>5, SavedInv
<1> QED BY <1>4, <1>5

\* A settlement that is uncertain is given up only when it cannot have happened.
LEMMA FacilitatorFailsInv ==
  ASSUME IInv, NEW c \in Calls, FacilitatorFails(c)
  PROVE  IInv'
<1> USE LeaseAssumption, NamesAssumption
   
    DEF IInv, FacilitatorFails, outside, RecordUnconfirmed, Pending, MayFail, End, Goto,
        EndOfGrace, Paid, Processes
<1>1. TypeOK'
  BY DEF TypeOK, Rows, Places, Answers
<1>2. RowOK'
  BY DEF TypeOK, RowOK, CallOK
<1>3. LedgerOK'
  BY DEF TypeOK, LedgerOK
<1>4. OnceOK'
  BY DEF OnceOK
<1>5. ASSUME NEW d \in Calls PROVE CallOK(d)'
  BY <1>5 DEF CallOK
<1>6. ASSUME NEW q \in Processes PROVE ReconcileOK(q)'
  BY <1>6 DEF ReconcileOK
<1> QED BY <1>1, <1>2, <1>3, <1>4, <1>5, <1>6

\* The worker takes up an attempted settlement.
LEMMA WorkerTakesInv ==
  ASSUME IInv, WorkerTakes
  PROVE  IInv'
<1> USE LeaseAssumption, NamesAssumption
    DEF IInv, WorkerTakes, outside, Unresolved, Pending, Goto, EndOfGrace, Paid, Processes
<1>1. TypeOK'
  BY DEF TypeOK, Rows, Places
<1>2. RowOK'
  BY DEF RowOK
<1>3. LedgerOK'
  BY DEF TypeOK, LedgerOK
<1>4. OnceOK'
  BY DEF OnceOK
<1>5. ASSUME NEW d \in Calls PROVE CallOK(d)'
  BY <1>5 DEF CallOK
<1>6. ASSUME NEW q \in Processes PROVE ReconcileOK(q)'
  BY <1>6 DEF TypeOK, ReconcileOK
<1> QED BY <1>1, <1>2, <1>3, <1>4, <1>5, <1>6

\* The mirror shows the execution; a settlement that the process does not know
\* is made up.
LEMMA MirrorShowsInv ==
  ASSUME IInv, NEW p \in Processes, MirrorShows(p)
  PROVE  IInv'
<1>1. row.attempted /\ chain = "executed"
  BY DEF MirrorShows, IInv, ReconcileOK, LedgerOK
<1>2. /\ pc[p] \in {"reconciling", "delivering"} /\ shown
      /\ UNCHANGED <<callback, entitled, scans, settles, outside, crashes>>
  BY DEF MirrorShows
<1>3. CASE seen[p] = None
  <2>1. p \in Calls => ~entitled[p]
    BY <1>2, <1>3 DEF IInv, CallOK
  <2>2. CASE Conflicts("bare")
    BY <1>2, <1>3, <2>1, <2>2, EndInv DEF MirrorShows, Answers
  <2>3. CASE ~Conflicts("bare")
    BY <1>1, <1>2, <1>3, <2>1, <2>3, SavedInv DEF MirrorShows, Goto, Evidence
  <2> QED BY <2>2, <2>3
<1>4. CASE seen[p] # None
  <2>1. /\ pc' = [pc EXCEPT ![p] = "completing"]
        /\ UNCHANGED <<row, seen, callback, answer, entitled, scans, settles,
                       now, chain, shown, crashes>>
    BY <1>4 DEF MirrorShows, Goto, outside
  <2> USE LeaseAssumption, NamesAssumption DEF IInv, EndOfGrace, Paid, Processes
  <2>2. TypeOK' BY <2>1 DEF TypeOK, Places
  <2>3. RowOK' /\ LedgerOK' BY <2>1 DEF RowOK, LedgerOK
  <2>4. OnceOK' BY <2>1 DEF TypeOK, OnceOK
  <2>5. ASSUME NEW d \in Calls PROVE CallOK(d)' BY <1>2, <1>4, <2>1, <2>5 DEF TypeOK, CallOK
  <2>6. ASSUME NEW q \in Processes PROVE ReconcileOK(q)'
    BY <1>1, <1>2, <1>4, <2>1, <2>6 DEF TypeOK, ReconcileOK
  <2> QED BY <2>2, <2>3, <2>4, <2>5, <2>6
<1> QED BY <1>3, <1>4

\* The payment is completed and its callback enqueued.
LEMMA CompleteInv ==
  ASSUME IInv, NEW p \in Processes, Complete(p)
  PROVE  IInv'
<1> USE LeaseAssumption, NamesAssumption
    DEF IInv, Complete, outside, End, Goto, EndOfGrace, Paid, Processes
<1>1. TypeOK'
  <2>1. \A r \in Rows : [r EXCEPT !.status = "completed"] \in Rows
    BY DEF Rows
  <2>2. row' \in Rows
    BY <2>1 DEF TypeOK
  <2>3. callback' = callback \/ callback' = TRUE
    BY Zenon
  <2>4. callback' \in BOOLEAN
    BY <2>3 DEF TypeOK
  <2> QED BY <2>2, <2>4 DEF TypeOK, Places, Answers
<1>2. RowOK'
  BY DEF TypeOK, Rows, RowOK, ReconcileOK
<1>3. LedgerOK'
  BY DEF TypeOK, LedgerOK
<1>4. OnceOK'
  BY DEF TypeOK, Rows, OnceOK
<1>5. ASSUME NEW d \in Calls PROVE CallOK(d)'
  BY <1>5 DEF TypeOK, Rows, RowOK, CallOK
<1>6. ASSUME NEW q \in Processes PROVE ReconcileOK(q)'
  BY <1>6 DEF TypeOK, Rows, ReconcileOK
<1> QED BY <1>1, <1>2, <1>3, <1>4, <1>5, <1>6

\* The mirror does not show the transaction, which is given up when it cannot have happened.
LEMMA MirrorMissesInv ==
  ASSUME IInv, NEW p \in Processes, MirrorMisses(p)
  PROVE  IInv'
<1> USE LeaseAssumption, NamesAssumption
   
    DEF IInv, MirrorMisses, outside, MayMiss, RecordUnconfirmed, Pending, MayFail,
        AnswerUnconfirmed, End, Goto, EndOfGrace, Paid, Processes
<1>1. TypeOK'
  BY DEF TypeOK, Rows, Places, Answers
<1>2. RowOK'
  BY DEF TypeOK, RowOK, LedgerOK
<1>3. LedgerOK'
  BY DEF TypeOK, LedgerOK
<1>4. OnceOK'
  BY DEF OnceOK
<1>5. ASSUME NEW d \in Calls PROVE CallOK(d)'
  BY <1>5 DEF TypeOK, RowOK, CallOK, ReconcileOK
<1>6. ASSUME NEW q \in Processes PROVE ReconcileOK(q)'
  BY <1>6 DEF TypeOK, ReconcileOK
<1> QED BY <1>1, <1>2, <1>3, <1>4, <1>5, <1>6

\* The process dies: a lease is left to run out.
LEMMA CrashInv ==
  ASSUME IInv, Crash
  PROVE  IInv'
<1> USE LeaseAssumption, NamesAssumption
    DEF IInv, Crash, outside, EndOfGrace, Paid, Processes
<1>1. TypeOK'
  BY DEF TypeOK, Rows, Places
<1>2. RowOK'
  BY DEF RowOK
<1>3. LedgerOK'
  BY DEF TypeOK, LedgerOK
<1>4. OnceOK'
  BY DEF OnceOK
<1>5. ASSUME NEW d \in Calls PROVE CallOK(d)'
  BY <1>5 DEF CallOK
<1>6. ASSUME NEW q \in Processes PROVE ReconcileOK(q)'
  BY <1>6 DEF ReconcileOK
<1> QED BY <1>1, <1>2, <1>3, <1>4, <1>5, <1>6

\* The facilitator, the ledger, the mirror and the clock.
LEMMA EnvironmentInv ==
  ASSUME IInv, Environment
  PROVE  IInv'
<1> USE LeaseAssumption, NamesAssumption
    DEF IInv, Environment, Submit, Execute, Show, Tick, EndOfGrace, Paid, Processes
<1>1. TypeOK'
  <2>1. now' \in 0 .. EndOfGrace
    BY DEF TypeOK
  <2>2. chain' \in {"new", "submitted", "executed", "dead"} /\ shown' \in BOOLEAN
    BY DEF TypeOK
  <2> QED BY <2>1, <2>2 DEF TypeOK
<1>2. RowOK'
  BY DEF TypeOK, RowOK
<1>3. LedgerOK'
  BY DEF TypeOK, LedgerOK
<1>4. OnceOK'
  BY DEF OnceOK
<1>5. ASSUME NEW d \in Calls PROVE CallOK(d)'
  BY <1>5 DEF TypeOK, LedgerOK, CallOK
<1>6. ASSUME NEW q \in Processes PROVE ReconcileOK(q)'
  BY <1>6 DEF ReconcileOK
<1> QED BY <1>1, <1>2, <1>3, <1>4, <1>5, <1>6

------------------------------------------------------------------------------
(* The theorems.                                                           *)

\* Every step keeps the invariant.
LEMMA NextInv == IInv /\ [Next]_vars => IInv'
<1> SUFFICES ASSUME IInv, [Next]_vars PROVE IInv'
  OBVIOUS
<1>1. ASSUME NEW c \in Calls, Request(c) PROVE IInv'
  BY <1>1, ClaimInv, RequestInv DEF Request
<1>2. ASSUME NEW c \in Calls, Pay(c) PROVE IInv'
  <2>1. CASE TakenOver(c)
    <3>1. ~entitled[c]
      BY <2>1 DEF TakenOver, IInv, CallOK
    <3> QED BY <2>1, <3>1, EndInv DEF TakenOver, Answers, Processes
  <2> QED BY <1>2, <2>1, VerifiedInv, FailsInv, ScannedInv, MarkAttemptedInv, AskSettlementInv,
             FacilitatorConfirmsInv, FacilitatorFailsInv DEF Pay
<1>3. ASSUME NEW p \in Processes, Reconcile(p) PROVE IInv'
  BY <1>3, MirrorShowsInv, CompleteInv, MirrorMissesInv DEF Reconcile
<1>4. CASE UNCHANGED vars
  BY <1>4 DEF vars, IInv, TypeOK, RowOK, LedgerOK, OnceOK, CallOK, ReconcileOK, Paid
<1> QED BY <1>1, <1>2, <1>3, <1>4, WorkerTakesInv, CrashInv, EnvironmentInv DEF Next

\* The inductive invariant holds in every state of every behaviour.
THEOREM Invariance == Spec => []IInv
<1>1. Init => IInv
  BY InitInv
<1>2. IInv /\ [Next]_vars => IInv'
  BY NextInv
<1> QED BY <1>1, <1>2, PTL DEF Spec

\* Every variable keeps its shape.
THEOREM TypeCorrect == Spec => []TypeOK
<1>1. IInv => TypeOK
  BY DEF IInv
<1> QED BY <1>1, Invariance, PTL

\* One payment is scanned and settled at most once, over concurrent requests,
\* leases that run out and restarts.
THEOREM OnceOnly == Spec => []ScannedAndSettledOnce
<1>1. IInv => ScannedAndSettledOnce
  BY DEF IInv, OnceOK, ScannedAndSettledOnce
<1> QED BY <1>1, Invariance, PTL

\* The report leaves the provider, in an answer or a callback, only for a payment
\* that moved the money; a callback's was shown by the mirror.
THEOREM ReportsArePaid == Spec => []ReportIsPaid
<1>1. IInv => ReportIsPaid
  BY DEF IInv, RowOK, CallOK, Paid, ReportIsPaid
<1> QED BY <1>1, Invariance, PTL

\* A payment that is given up has not been made, if the mirror is not out for
\* longer than the grace.
THEOREM FailuresAreUnpaid == ~MirrorOutage => (Spec => []FailedIsUnpaid)
<1> SUFFICES ASSUME ~MirrorOutage PROVE Spec => []FailedIsUnpaid
  OBVIOUS
<1>1. IInv => FailedIsUnpaid
  BY DEF IInv, RowOK, FailedIsUnpaid
<1> QED BY <1>1, Invariance, PTL

\* Once the report was delivered, a later identical request gets it.
THEOREM DeliveryStays == Spec => []DeliveredStays
<1>1. IInv => DeliveredStays
  BY DEF IInv, CallOK, DeliveredStays
<1> QED BY <1>1, Invariance, PTL
==============================================================================
