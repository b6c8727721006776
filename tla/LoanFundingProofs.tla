-------------------------- MODULE LoanFundingProofs --------------------------
(***************************************************************************)
(* Proofs about LoanFunding, for any number of lenders, calls,             *)
(* transactions and crashes.                                               *)
(*                                                                         *)
(* FundedOnce says nothing of what is still on its way.  The inductive     *)
(* invariant says that only the accepted offer is ever funded; that of its *)
(* transactions at most one can be in flight or executed, none before the  *)
(* row names one; that only the call that owns the row submits, and what   *)
(* can still execute is what that call submits; and that a row that is     *)
(* confirmed, an outbox that is filled and a registered loan name the      *)
(* transaction that was executed.                                          *)
(***************************************************************************)
EXTENDS LoanFunding, FiniteSetTheorems, TLAPS

OnItsWay == {"inflight", "executed"}

\* The transactions of an offer that have moved the money or still may.
Live(o) == {n \in Txs : chain[o][n] \in OnItsWay}

\* One offer is accepted, and calls are about that one.
AcceptanceOK ==
  /\ \A o, p \in accepted : o = p
  /\ \A c \in Calls : pc[c] # "idle" => offerOf[c] \in accepted

\* The transactions of an offer.
LedgerOK(o) ==
  /\ \A n \in Txs : n > built[o] => chain[o][n] = "none"
  /\ \A n \in Txs : chain[o][n] # "none" => o \in accepted
  /\ \A n, m \in Live(o) : n = m

\* The rows of an offer against the ledger and the signer.
RowOK(o) ==
  /\ funding[o].tx = 0 <=> funding[o].status \in {"none", "reserved", "preparing"}
  /\ funding[o].tx = 0 => Live(o) = {}
  /\ funding[o].tx <= built[o]
  /\ funding[o].status \in {"confirmed", "registered"} => chain[o][funding[o].tx] = "executed"
  /\ outbox[o] # 0 => chain[o][outbox[o]] = "executed"
  /\ funding[o].status = "registered" => loan = [offer |-> o, tx |-> funding[o].tx]

\* A call that submits owns the row, and nothing else can execute; a call that
\* registers has a confirmed funding in the outbox.
CallOK(c) ==
  LET o == offerOf[c]
  IN /\ pc[c] = "submitting" =>
          /\ funding[o].tx # 0 /\ funding[o].owner = c
          /\ current[c] \in Txs /\ current[c] <= built[o]
          /\ Live(o) \subseteq {current[c]}
     /\ pc[c] = "registering" =>
          funding[o].status \in {"confirmed", "registered"} /\ outbox[o] # 0
     /\ answer[c] = "funded" => o \in Offers /\ funding[o].status = "registered"

IInv ==
  /\ TypeOK
  /\ AcceptanceOK
  /\ \A o \in Offers : LedgerOK(o)
  /\ \A o \in Offers : RowOK(o)
  /\ \A c \in Calls : CallOK(c)
\* The initial state satisfies every part of the invariant.
LEMMA InitInv == Init => IInv
<1> SUFFICES ASSUME Init PROVE IInv
  OBVIOUS
<1> USE LoanAssumption DEF Init
<1>1. TypeOK
  <2>1. funding \in [Offers -> Rows]
    BY DEF NoFunding, Rows, Statuses
  <2>2. chain \in [Offers -> [Txs -> ChainStates]]
    BY DEF ChainStates
  <2>3. pc \in [Calls -> Places] /\ answer \in [Calls -> Answers]
    BY DEF Places, Answers
  <2>4. /\ outbox \in [Offers -> 0 .. MaxTx] /\ built \in [Offers -> 0 .. MaxTx]
        /\ prepared \in [Calls -> 0 .. MaxTx] /\ current \in [Calls -> 0 .. MaxTx]
    OBVIOUS
  <2>5. request \in BOOLEAN
    OBVIOUS
  <2>6. offerOf \in [Calls -> Offers \cup {None}]
    OBVIOUS
  <2> HIDE DEF Init
  <2>7. /\ policyAt = {} /\ offers = {} /\ accepted = {} /\ expired = {} /\ shown = {}
        /\ registering = {} /\ loan = None /\ crashes = 0
    BY DEF Init
  <2> QED BY <2>1, <2>2, <2>3, <2>4, <2>5, <2>6, <2>7 DEF TypeOK
<1>2. AcceptanceOK
  BY DEF AcceptanceOK
<1>3. ASSUME NEW o \in Offers PROVE LedgerOK(o) /\ RowOK(o)
  BY <1>3 DEF LedgerOK, RowOK, NoFunding, Live, OnItsWay
<1>4. ASSUME NEW c \in Calls PROVE CallOK(c)
  BY <1>4 DEF CallOK
<1> QED BY <1>1, <1>2, <1>3, <1>4 DEF IInv

------------------------------------------------------------------------------
(* What a call works with and leaves alone.                                *)

\* A call under way is about an accepted offer.
LEMMA CallOffer ==
  ASSUME IInv, NEW c \in Calls, pc[c] # "idle"
  PROVE  /\ offerOf[c] \in Offers /\ offerOf[c] \in accepted
         /\ funding[offerOf[c]] \in Rows /\ outbox[offerOf[c]] \in 0 .. MaxTx
         /\ RowOK(offerOf[c]) /\ LedgerOK(offerOf[c])
  BY DEF IInv, TypeOK, AcceptanceOK

\* A call that is answered keeps the shape of the calls.
LEMMA AnswerShape ==
  ASSUME TypeOK, NEW c \in Calls, NEW a \in Answers, Answer(c, a)
  PROVE  /\ pc' \in [Calls -> Places] /\ answer' \in [Calls -> Answers]
         /\ prepared' \in [Calls -> 0 .. MaxTx] /\ current' \in [Calls -> 0 .. MaxTx]
  BY LoanAssumption DEF Answer, TypeOK, Places

\* A row that is set keeps the shape of the rows.
LEMMA SetRowShape ==
  ASSUME TypeOK, NEW c \in Calls, offerOf[c] \in Offers,
         NEW status \in Statuses, NEW n \in 0 .. MaxTx, NEW owner \in Calls \cup {None},
         SetRow(c, status, n, owner)
  PROVE  funding' \in [Offers -> Rows]
  BY DEF SetRow, TypeOK, Rows

\* So does starting a registration.
LEMMA StartShape ==
  ASSUME TypeOK, NEW c \in Calls, offerOf[c] \in Offers, NEW n \in 0 .. MaxTx,
         StartRegistration(c, n)
  PROVE  /\ outbox' \in [Offers -> 0 .. MaxTx]
         /\ registering' \subseteq Offers \X (0 .. MaxTx)
         /\ pc' \in [Calls -> Places]
         /\ prepared' \in [Calls -> 0 .. MaxTx] /\ current' \in [Calls -> 0 .. MaxTx]
<1>1. (IF outbox[offerOf[c]] = 0 THEN n ELSE outbox[offerOf[c]]) \in 0 .. MaxTx
  BY DEF TypeOK
<1> QED BY <1>1, LoanAssumption DEF StartRegistration, TypeOK, Places

\* A transfer that failed leaves the row, or gives a claim without a transaction
\* back, and the call ends.
LEMMA UncertainRow ==
  ASSUME IInv, NEW c \in Calls, pc[c] # "idle", Uncertain(c)
  PROVE  /\ funding' \in [Offers -> Rows]
         /\ pc' \in [Calls -> Places] /\ answer' \in [Calls -> Answers]
         /\ prepared' \in [Calls -> 0 .. MaxTx] /\ current' \in [Calls -> 0 .. MaxTx]
         /\ \A p \in Offers :
              \/ funding'[p] = funding[p]
              \/ /\ funding[p].tx = 0
                 /\ funding'[p] = [status |-> "reserved", tx |-> 0, owner |-> None, stale |-> FALSE]
         /\ pc' = [pc EXCEPT ![c] = "idle"]
         /\ answer'[c] # "funded" /\ \A d \in Calls : d # c => answer'[d] = answer[d]
         /\ \A d \in Calls : d # c => current'[d] = current[d]
         /\ UNCHANGED <<outbox, registering>>
<1>1. offerOf[c] \in Offers /\ funding \in [Offers -> Rows] /\ TypeOK
  BY CallOffer DEF IInv, TypeOK
<1>2. Answer(c, "later") \/ Answer(c, "error")
  BY DEF Uncertain
<1>3. "later" \in Answers /\ "error" \in Answers
  BY DEF Answers
<1>4. /\ pc' \in [Calls -> Places] /\ answer' \in [Calls -> Answers]
      /\ prepared' \in [Calls -> 0 .. MaxTx] /\ current' \in [Calls -> 0 .. MaxTx]
  BY <1>1, <1>2, <1>3, AnswerShape
<1>5. funding' = funding \/ (Row(c).tx = 0 /\ SetRow(c, "reserved", 0, None))
  BY DEF Uncertain, ReleaseFundingSubmission
<1>6. funding' \in [Offers -> Rows]
  BY <1>1, <1>5, SetRowShape, LoanAssumption DEF Statuses
<1>7. \A p \in Offers :
        \/ funding'[p] = funding[p]
        \/ /\ funding[p].tx = 0
           /\ funding'[p] = [status |-> "reserved", tx |-> 0, owner |-> None, stale |-> FALSE]
  BY <1>1, <1>5 DEF SetRow, Row
<1>8. /\ pc' = [pc EXCEPT ![c] = "idle"]
      /\ answer'[c] # "funded" /\ \A d \in Calls : d # c => answer'[d] = answer[d]
      /\ \A d \in Calls : d # c => current'[d] = current[d]
  BY <1>1, <1>2 DEF Answer, TypeOK
<1>9. UNCHANGED <<outbox, registering>>
  BY DEF Uncertain
<1> QED BY <1>4, <1>6, <1>7, <1>8, <1>9

\* The ledger and the rows of an offer are fine when nothing of it has changed.
LEMMA OfferUntouched ==
  ASSUME IInv, NEW p \in Offers, accepted \subseteq accepted',
         built'[p] = built[p], chain'[p] = chain[p], funding'[p] = funding[p],
         outbox'[p] = outbox[p], loan' = loan
  PROVE  LedgerOK(p)' /\ RowOK(p)'
  BY DEF IInv, LedgerOK, RowOK, Live

------------------------------------------------------------------------------
(* One lemma for each step, or group of steps.                             *)

\* What happens before the funding, and what a call only reads or answers: no
\* row, no transaction and no loan is touched.
LEMMA QuietInv ==
  ASSUME IInv, NEW who, NEW o, NEW c, NEW n,
         \/ who \in {Signer} \cup Offers /\ RegisterMissionPolicy(who)
         \/ SignCreditRequest \/ UNCHANGED vars
         \/ o \in Offers /\ (Quote(o) \/ Expire(o) \/ Crash(o))
         \/ c \in Calls /\ o \in Offers /\ Accept(c, o)
         \/ c \in Calls /\ (AlreadyRegistered(c) \/ ReconcileFirst(c) \/ AnotherPrepares(c)
                           \/ ReconcileFailed(c) \/ ReconcilePending(c) \/ RegistrationFails(c))
         \/ o \in Offers /\ n \in Txs /\ (RefuseLoan(o, n) \/ Show(o, n))
  PROVE  IInv'
<1> USE DEF Expire, Accept, ValidAcceptance, AlreadyRegistered, ReconcileFirst, AnotherPrepares,
            RegisterMissionPolicy, SignCreditRequest, Quote, Crash, ReconcileFailed,
            ReconcilePending, RegistrationFails, RefuseLoan, Show,
            setup, ledger, signer, local, elsewhere, vars
<1>1. UNCHANGED <<accepted, funding, outbox, built, chain, loan>>
  OBVIOUS
<1>2. TypeOK'
  <2> USE LoanAssumption DEF IInv, TypeOK
  <2>1. CASE \/ who \in {Signer} \cup Offers /\ RegisterMissionPolicy(who)
             \/ SignCreditRequest \/ UNCHANGED vars
             \/ o \in Offers /\ (Quote(o) \/ Expire(o))
    BY <2>1
  <2>2. CASE o \in Offers /\ Crash(o)
    BY <2>2 DEF Places
  <2>3. CASE c \in Calls /\ o \in Offers /\ Accept(c, o)
    BY <2>3 DEF Places, Answers
  <2>4. CASE c \in Calls /\ ReconcileFirst(c)
    BY <2>4, CallOffer DEF Places, Row, Rows
  <2>5. CASE c \in Calls /\ (AlreadyRegistered(c) \/ AnotherPrepares(c) \/ ReconcileFailed(c)
                            \/ ReconcilePending(c) \/ RegistrationFails(c))
    <3>1. \E a \in Answers : Answer(c, a)
      BY <2>5 DEF Answers
    <3> QED BY <2>5, <3>1, AnswerShape
  <2>6. CASE o \in Offers /\ n \in Txs /\ (RefuseLoan(o, n) \/ Show(o, n))
    BY <2>6
  <2> QED BY <2>1, <2>2, <2>3, <2>4, <2>5, <2>6
<1>3. AcceptanceOK' /\ \A d \in Calls : CallOK(d)'
  <2>1. ASSUME NEW d \in Calls
        PROVE  /\ pc'[d] # "idle" => offerOf'[d] \in accepted
               /\ CallOK(d)'
    BY LoanAssumption DEF IInv, TypeOK, AcceptanceOK, CallOK, Live, Row, Answer
  <2> QED BY <2>1, <1>1 DEF IInv, AcceptanceOK
<1>4. \A p \in Offers : LedgerOK(p)' /\ RowOK(p)'
  BY <1>1, OfferUntouched
<1> QED BY <1>2, <1>3, <1>4 DEF IInv

\* The only acceptance of the mission.
LEMMA SignCreditAcceptanceInv ==
  ASSUME IInv, NEW o \in Offers, SignCreditAcceptance(o)
  PROVE  IInv'
<1> USE LoanAssumption
    DEF IInv, SignCreditAcceptance, setup, ledger, signer, local, elsewhere, SaveAcceptance
<1>1. TypeOK'
  BY DEF TypeOK
<1>2. AcceptanceOK'
  BY DEF TypeOK, AcceptanceOK
<1>3. ASSUME NEW p \in Offers PROVE LedgerOK(p)'
  BY <1>3 DEF LedgerOK, Live
<1>4. ASSUME NEW p \in Offers PROVE RowOK(p)'
  BY <1>4
  DEF RowOK, Live
<1>5. ASSUME NEW d \in Calls PROVE CallOK(d)'
  BY <1>5
  DEF CallOK, Live
<1> QED BY <1>1, <1>2, <1>3, <1>4, <1>5

\* A claim whose lease is over is still a claim.
LEMMA LeaseOverInv ==
  ASSUME IInv, NEW o \in Offers, LeaseOver(o)
  PROVE  IInv'
<1> USE LoanAssumption DEF IInv, LeaseOver, setup, ledger, signer, local, elsewhere
<1>1. TypeOK'
  <2>1. \A r \in Rows : [r EXCEPT !.stale = TRUE] \in Rows
    BY DEF Rows
  <2>2. funding' \in [Offers -> Rows]
    BY <2>1 DEF TypeOK
  <2> QED BY <2>2 DEF TypeOK
<1>2. AcceptanceOK'
  BY DEF TypeOK, AcceptanceOK
<1>3. ASSUME NEW p \in Offers PROVE LedgerOK(p)'
  BY <1>3 DEF LedgerOK, Live
<1>4. ASSUME NEW p \in Offers PROVE RowOK(p)'
  BY <1>4
  DEF RowOK, Live
<1>5. ASSUME NEW d \in Calls PROVE CallOK(d)'
  BY <1>5
  DEF CallOK, Live
<1> QED BY <1>1, <1>2, <1>3, <1>4, <1>5

\* A confirmed funding is enqueued.
LEMMA ResumeRegistrationInv ==
  ASSUME IInv, NEW c \in Calls, ResumeRegistration(c)
  PROVE  IInv'
<1> USE LoanAssumption
    DEF IInv, ResumeRegistration, setup, ledger, signer, local, elsewhere, Row,
        StartRegistration
<1>1. TypeOK'
  <2>1. offerOf[c] \in Offers /\ Row(c).tx \in 0 .. MaxTx /\ StartRegistration(c, Row(c).tx)
    BY CallOffer DEF Rows
  <2> HIDE DEF StartRegistration
  <2> QED BY <2>1, StartShape DEF TypeOK
<1>2. AcceptanceOK'
  BY DEF TypeOK, AcceptanceOK
<1>3. ASSUME NEW p \in Offers PROVE LedgerOK(p)'
  BY <1>3 DEF LedgerOK, Live
<1>4. ASSUME NEW p \in Offers PROVE RowOK(p)'
  BY <1>4
  DEF RowOK, Live
<1>5. ASSUME NEW d \in Calls PROVE CallOK(d)'
  BY <1>5 DEF TypeOK, AcceptanceOK, RowOK, CallOK, Live
<1> QED BY <1>1, <1>2, <1>3, <1>4, <1>5

\* A row without a transaction is claimed: nothing of its offer can execute.
LEMMA ClaimSubmissionInv ==
  ASSUME IInv, NEW c \in Calls, ClaimSubmission(c)
  PROVE  IInv'
<1> USE LoanAssumption
    DEF IInv, ClaimSubmission, setup, ledger, signer, local, elsewhere, ClaimFundingSubmission,
        Row, SetRow
<1>1. TypeOK'
  <2>1. offerOf[c] \in Offers /\ SetRow(c, "preparing", 0, c)
    BY CallOffer
  <2> HIDE DEF SetRow
  <2>2. funding' \in [Offers -> Rows]
    BY <2>1, SetRowShape DEF Statuses
  <2> QED BY <2>2 DEF TypeOK, Places
<1>2. AcceptanceOK'
  BY DEF TypeOK, AcceptanceOK
<1>3. ASSUME NEW p \in Offers PROVE LedgerOK(p)'
  BY <1>3 DEF LedgerOK, Live
<1>4. ASSUME NEW p \in Offers PROVE RowOK(p)'
  BY <1>4
  DEF RowOK, Live
<1>5. ASSUME NEW d \in Calls PROVE CallOK(d)'
  BY <1>5
  DEF CallOK, Live
<1> QED BY <1>1, <1>2, <1>3, <1>4, <1>5

\* The mirror shows that the transaction of the row was executed.
LEMMA ReconcileConfirmedInv ==
  ASSUME IInv, NEW c \in Calls, ReconcileConfirmed(c)
  PROVE  IInv'
<1> USE LoanAssumption
    DEF IInv, ReconcileConfirmed, setup, ledger, signer, local, elsewhere, Row
<1>1. TypeOK'
  <2>1. /\ offerOf[c] \in Offers /\ prepared[c] \in 0 .. MaxTx
        /\ Row(c).owner \in Calls \cup {None}
    BY CallOffer DEF TypeOK, Rows
  <2>2. CASE /\ SetRow(c, "confirmed", prepared[c], Row(c).owner)
             /\ StartRegistration(c, prepared[c]) /\ UNCHANGED answer
    <3>1. funding' \in [Offers -> Rows]
      BY <2>1, <2>2, SetRowShape DEF Statuses
    <3> QED BY <2>1, <2>2, <3>1, StartShape DEF TypeOK
  <2>3. CASE Answer(c, "mismatch") /\ UNCHANGED <<funding, outbox, registering>>
    BY <2>3, AnswerShape DEF TypeOK, Answers
  <2> QED BY <2>2, <2>3
<1>2. AcceptanceOK'
  BY DEF TypeOK, AcceptanceOK, StartRegistration, Answer
<1>3. ASSUME NEW p \in Offers PROVE LedgerOK(p)'
  BY <1>3 DEF TypeOK, LedgerOK, Live
<1>4. ASSUME NEW p \in Offers PROVE RowOK(p)'
  <2>1. CASE UNCHANGED <<funding, outbox>>
    BY <1>4, <2>1 DEF RowOK, Live
  <2>2. CASE /\ Row(c).tx = prepared[c] /\ Row(c).status \in {"pending", "confirmed"}
             /\ SetRow(c, "confirmed", prepared[c], Row(c).owner)
             /\ StartRegistration(c, prepared[c])
    <3>1. CASE p = offerOf[c]
      BY <1>4, <2>2, <3>1 DEF RowOK, SetRow, StartRegistration
    <3>2. CASE p # offerOf[c]
      BY <1>4, <2>2, <3>2 DEF RowOK, Live, SetRow, StartRegistration
    <3> QED BY <3>1, <3>2
  <2> QED BY <2>1, <2>2
<1>5. ASSUME NEW d \in Calls PROVE CallOK(d)'
  BY <1>5
  DEF TypeOK, AcceptanceOK, CallOK, Live, Txs, SetRow, StartRegistration, Answer
<1> QED BY <1>1, <1>2, <1>3, <1>4, <1>5

\* The next transaction of a lender.
LEMMA BuiltShape ==
  ASSUME IInv, NEW o \in Offers, NEW n \in Txs, NEW became \in ChainStates, Built(o, n, became)
  PROVE  /\ built' \in [Offers -> 0 .. MaxTx] /\ chain' \in [Offers -> [Txs -> ChainStates]]
         /\ n = built[o] + 1 /\ chain[o][n] = "none"
         /\ built'[o] = n /\ chain'[o][n] = became
         /\ \A m \in Txs \ {n} : chain'[o][m] = chain[o][m]
         /\ \A p \in Offers \ {o} : built'[p] = built[p] /\ chain'[p] = chain[p]
<1>1. built \in [Offers -> 0 .. MaxTx] /\ chain \in [Offers -> [Txs -> ChainStates]]
  BY DEF IInv, TypeOK
<1>2. /\ n = built[o] + 1 /\ n \in 0 .. MaxTx
      /\ built' = [built EXCEPT ![o] = n] /\ chain' = [chain EXCEPT ![o][n] = became]
  BY LoanAssumption DEF Built, Txs
<1>3. built' \in [Offers -> 0 .. MaxTx]
  BY <1>1, <1>2
<1>4. chain' \in [Offers -> [Txs -> ChainStates]]
  BY <1>1, <1>2
<1>5. chain[o][n] = "none"
  BY <1>1, <1>2 DEF IInv, LedgerOK
<1> QED BY <1>1, <1>2, <1>3, <1>4, <1>5

\* A transfer that failed gives back at most a row without a transaction; a
\* transaction that was only built is never submitted.
LEMMA UncertainInv ==
  ASSUME IInv, NEW c \in Calls, pc[c] # "idle", Uncertain(c),
         UNCHANGED <<setup, expired, shown, loan, offerOf, crashes>>,
         UNCHANGED <<built, chain>> \/ \E n \in Txs : Built(offerOf[c], n, "built")
  PROVE  IInv'
<1> USE DEF IInv, setup
<1>1. /\ built' \in [Offers -> 0 .. MaxTx] /\ chain' \in [Offers -> [Txs -> ChainStates]]
      /\ \A p \in Offers :
           /\ built[p] <= built'[p]
           /\ \A n \in Txs :
                \/ chain'[p][n] = chain[p][n]
                \/ /\ chain[p][n] = "none" /\ chain'[p][n] = "built"
                   /\ p \in accepted /\ n <= built'[p]
  <2>1. CASE UNCHANGED <<built, chain>>
    BY <2>1 DEF TypeOK
  <2>2. CASE \E n \in Txs : Built(offerOf[c], n, "built")
    <3>1. PICK n \in Txs, o \in Offers : o = offerOf[c] /\ Built(o, n, "built")
      BY <2>2, CallOffer
    <3>2. o \in accepted /\ "built" \in ChainStates /\ built \in [Offers -> 0 .. MaxTx]
      BY <3>1, CallOffer DEF ChainStates, TypeOK
    <3> HIDE DEF IInv
    <3>3. /\ built' \in [Offers -> 0 .. MaxTx] /\ chain' \in [Offers -> [Txs -> ChainStates]]
          /\ n = built[o] + 1 /\ chain[o][n] = "none"
          /\ built'[o] = n /\ chain'[o][n] = "built"
          /\ \A m \in Txs \ {n} : chain'[o][m] = chain[o][m]
          /\ \A p \in Offers \ {o} : built'[p] = built[p] /\ chain'[p] = chain[p]
      BY <3>1, <3>2, BuiltShape
    <3>4. n \in Nat /\ \A p \in Offers : built[p] \in Nat /\ built'[p] \in Nat
      BY <3>2, <3>3, LoanAssumption DEF Txs
    <3>5. ASSUME NEW p \in Offers, p # o
          PROVE  built'[p] = built[p] /\ chain'[p] = chain[p]
      BY <3>3, <3>5
    <3>6. built[o] <= built'[o]
      BY <3>3, <3>4
    <3>7. ASSUME NEW m \in Txs
          PROVE  \/ chain'[o][m] = chain[o][m]
                 \/ /\ chain[o][m] = "none" /\ chain'[o][m] = "built"
                    /\ o \in accepted /\ m <= built'[o]
      BY <3>2, <3>3, <3>4, <3>7
    <3> QED BY <3>3, <3>4, <3>5, <3>6, <3>7
  <2> QED BY <2>1, <2>2
<1>2. TypeOK'
  BY <1>1, UncertainRow DEF TypeOK
<1>3. \A p \in Offers : Live(p)' = Live(p)
  BY <1>1 DEF Live, OnItsWay
<1>4. AcceptanceOK'
  BY UncertainRow DEF TypeOK, AcceptanceOK
<1>5. ASSUME NEW p \in Offers PROVE LedgerOK(p)'
  BY <1>1, <1>3, <1>5 DEF LedgerOK, TypeOK, Txs
<1>6. ASSUME NEW p \in Offers PROVE RowOK(p)'
  <2>1. funding[p] \in Rows /\ outbox[p] \in 0 .. MaxTx /\ RowOK(p) /\ built[p] \in Nat
    BY <1>6 DEF TypeOK
  <2>2. \A n \in Txs : chain[p][n] = "executed" => chain'[p][n] = "executed"
    BY <1>1, <1>6
  <2>3. outbox' = outbox /\ loan' = loan
    BY UncertainRow
  <2>4. CASE funding'[p] = funding[p]
    BY <1>1, <1>3, <1>6, <2>1, <2>2, <2>3, <2>4 DEF RowOK, Rows, Txs
  <2>5. CASE /\ funding[p].tx = 0
             /\ funding'[p] = [status |-> "reserved", tx |-> 0, owner |-> None, stale |-> FALSE]
    BY <1>1, <1>3, <1>6, <2>1, <2>2, <2>3, <2>5 DEF RowOK, Rows, Txs
  <2> QED BY <1>6, <2>4, <2>5, UncertainRow
<1>7. ASSUME NEW d \in Calls PROVE CallOK(d)'
  <2>1. CASE pc'[d] = "idle" /\ answer'[d] # "funded"
    BY <2>1 DEF CallOK
  <2>2. CASE d # c
    <3>1. /\ pc'[d] = pc[d] /\ answer'[d] = answer[d] /\ current'[d] = current[d]
          /\ offerOf' = offerOf /\ outbox' = outbox
      BY <2>2, UncertainRow DEF TypeOK
    <3>2. offerOf[d] \in Offers => RowOK(offerOf[d]) /\ built[offerOf[d]] \in Nat
      BY DEF TypeOK
    <3>3. offerOf[d] \in Offers =>
            \/ funding'[offerOf[d]] = funding[offerOf[d]]
            \/ funding[offerOf[d]].tx = 0
      BY UncertainRow
    <3>4. pc[d] # "idle" => offerOf[d] \in Offers
      BY <1>7, CallOffer
    <3>5. CallOK(d)
      BY <1>7
    <3> QED BY <1>1, <1>3, <3>1, <3>2, <3>3, <3>4, <3>5, LoanAssumption
    DEF CallOK, RowOK, TypeOK, Txs
  <2>3. CASE d = c
    BY <2>1, <2>3, UncertainRow DEF TypeOK
  <2> QED BY <2>2, <2>3
<1> QED BY <1>2, <1>4, <1>5, <1>6, <1>7

\* A transaction is built.  The row names it before it is submitted, and only
\* a row that named none before: nothing else of the offer can execute.
LEMMA PrepareInv ==
  ASSUME IInv, NEW c \in Calls, Prepare(c)
  PROVE  IInv'
<1>1. PICK n \in Txs :
        /\ pc[c] = "building" /\ Built(offerOf[c], n, "built")
        /\ \/ /\ MaySet(c, n)
              /\ SetRow(c, "pending", n, c)
              /\ prepared' = [prepared EXCEPT ![c] = n]
              /\ current' = [current EXCEPT ![c] = n]
              /\ pc' = [pc EXCEPT ![c] = "submitting"]
              /\ UNCHANGED <<outbox, registering, answer>>
           \/ Uncertain(c)
        /\ UNCHANGED <<setup, expired, shown, loan, offerOf, crashes>>
  BY DEF Prepare, SetFundingTransaction
<1>2. CASE Uncertain(c)
  BY <1>1, <1>2, UncertainInv
<1>3. CASE ~Uncertain(c)
  <2>0. PICK o \in Offers : o = offerOf[c]
    BY <1>1, CallOffer
  <2>1. /\ o \in Offers /\ o \in accepted /\ funding[o] \in Rows /\ RowOK(o) /\ LedgerOK(o)
        /\ "built" \in ChainStates /\ TypeOK /\ n \in 0 .. MaxTx
    BY <1>1, <2>0, CallOffer, LoanAssumption DEF IInv, ChainStates, Txs
  <2>2. /\ built' \in [Offers -> 0 .. MaxTx] /\ chain' \in [Offers -> [Txs -> ChainStates]]
        /\ n = built[o] + 1 /\ chain[o][n] = "none"
        /\ built'[o] = n /\ chain'[o][n] = "built"
        /\ \A m \in Txs \ {n} : chain'[o][m] = chain[o][m]
        /\ \A p \in Offers \ {o} : built'[p] = built[p] /\ chain'[p] = chain[p]
    BY <1>1, <2>0, <2>1, BuiltShape
  <2>3. /\ funding[o].tx = 0 /\ funding[o].owner = c /\ Live(o) = {}
    BY <1>1, <1>3, <2>0, <2>1, <2>2, LoanAssumption DEF MaySet, Row, RowOK, TypeOK
  <2>4. /\ funding' \in [Offers -> Rows]
        /\ funding'[o] = [status |-> "pending", tx |-> n, owner |-> c, stale |-> FALSE]
        /\ \A p \in Offers \ {o} : funding'[p] = funding[p]
    <3>1. SetRow(c, "pending", n, c)
      BY <1>1, <1>3
    <3> QED BY <2>0, <2>1, <3>1, SetRowShape DEF SetRow, TypeOK, Statuses
  <2>5. TypeOK'
    BY <1>1, <1>3, <2>1, <2>2, <2>4 DEF TypeOK, Places, setup
  <2>6. AcceptanceOK'
    BY <2>0, <1>1, <1>3, <2>1 DEF IInv, TypeOK, AcceptanceOK, setup
  <2>7. Live(o)' = {}
    BY <2>0, <2>2, <2>3 DEF Live, OnItsWay
  <2>8. LedgerOK(o)' /\ RowOK(o)'
    <3>1. outbox'[o] = 0
      BY <1>1, <1>3, <2>1, <2>3 DEF RowOK, TypeOK, Live, OnItsWay, Txs
    <3>2. LedgerOK(o)'
      BY <1>1, <1>3, <2>1, <2>2, <2>7, LoanAssumption DEF LedgerOK, TypeOK, Txs, setup
    <3>3. RowOK(o)'
      BY <1>1, <1>3, <2>2, <2>4, <2>7, <3>1, LoanAssumption DEF RowOK, Txs
    <3> QED BY <3>2, <3>3
  <2>9. ASSUME NEW p \in Offers \ {o} PROVE LedgerOK(p)' /\ RowOK(p)'
    BY <1>1, <1>3, <2>2, <2>4, <2>9, OfferUntouched DEF setup
  <2>10. ASSUME NEW d \in Calls PROVE CallOK(d)'
    <3>1. CASE d = c
      <4>1. pc'[c] = "submitting" /\ current'[c] = n /\ offerOf'[c] = o /\ answer' = answer
        BY <2>0, <1>1, <1>3, <2>1 DEF TypeOK
      <4>2. answer[c] # "funded"
        BY <2>0, <2>1, <2>3 DEF IInv, CallOK, RowOK
      <4> QED BY <2>2, <2>4, <2>7, <3>1, <4>1, <4>2, LoanAssumption DEF CallOK, Live, Txs
    <3>2. CASE d # c /\ offerOf[d] # o
      BY <2>0, <1>1, <1>3, <2>2, <2>4, <3>2, <2>10 DEF CallOK, IInv, TypeOK, AcceptanceOK
    <3>3. CASE d # c /\ offerOf[d] = o
      BY <2>0, <1>1, <1>3, <2>1, <2>3, <3>3, <2>10 DEF CallOK, IInv, TypeOK, RowOK
    <3> QED BY <3>1, <3>2, <3>3
  <2> QED BY <2>5, <2>6, <2>8, <2>9, <2>10 DEF IInv
<1> QED BY <1>2, <1>3

\* The transaction that the row names is submitted.
LEMMA SubmitInv ==
  ASSUME IInv, NEW c \in Calls, Submit(c)
  PROVE  IInv'
<1> USE LoanAssumption DEF IInv, Submit, setup, ledger, signer, local, elsewhere
<1>1. TypeOK'
  BY DEF TypeOK, ChainStates
<1>2. AcceptanceOK'
  BY DEF TypeOK, AcceptanceOK
<1>3. ASSUME NEW p \in Offers PROVE LedgerOK(p)'
  BY <1>3 DEF LedgerOK, CallOK, Live
<1>4. ASSUME NEW p \in Offers PROVE RowOK(p)'
  BY <1>4
  DEF RowOK, CallOK, Live
<1>5. ASSUME NEW d \in Calls PROVE CallOK(d)'
  BY <1>5
  DEF CallOK, Live
<1> QED BY <1>1, <1>2, <1>3, <1>4, <1>5

\* The ledger dropped a transaction: the call builds another, and submits it
\* where nothing else can execute.
LEMMA RegenerateInv ==
  ASSUME IInv, NEW c \in Calls, Regenerate(c)
  PROVE  IInv'
<1>0. PICK o \in Offers : o = offerOf[c]
  BY CallOffer DEF Regenerate
<1>1. PICK n \in Txs :
        /\ pc[c] = "submitting" /\ chain[o][current[c]] = "dropped"
        /\ Built(o, n, "inflight") /\ current' = [current EXCEPT ![c] = n]
        /\ UNCHANGED <<setup, expired, funding, outbox, shown, signer, pc, offerOf, prepared,
                       answer, crashes>>
  BY <1>0 DEF Regenerate
<1>2. /\ o \in Offers /\ o \in accepted /\ RowOK(o) /\ LedgerOK(o) /\ CallOK(c)
      /\ "inflight" \in ChainStates /\ TypeOK /\ n \in 0 .. MaxTx
  BY <1>0, <1>1, CallOffer, LoanAssumption DEF IInv, ChainStates, Txs
<1>3. /\ built' \in [Offers -> 0 .. MaxTx] /\ chain' \in [Offers -> [Txs -> ChainStates]]
      /\ n = built[o] + 1 /\ chain[o][n] = "none"
      /\ built'[o] = n /\ chain'[o][n] = "inflight"
      /\ \A m \in Txs \ {n} : chain'[o][m] = chain[o][m]
      /\ \A p \in Offers \ {o} : built'[p] = built[p] /\ chain'[p] = chain[p]
  BY <1>0, <1>1, <1>2, BuiltShape
<1>4. Live(o) = {} /\ Live(o)' = {n}
  <2>1. Live(o) = {}
    BY <1>0, <1>1, <1>2 DEF CallOK, Live, OnItsWay
  <2> QED BY <1>3, <2>1 DEF Live, OnItsWay
<1>5. TypeOK'
  BY <1>0, <1>1, <1>2, <1>3 DEF TypeOK, setup, signer
<1>6. AcceptanceOK'
  BY <1>1 DEF IInv, AcceptanceOK, setup
<1>7. LedgerOK(o)'
  <2>1. accepted' = accepted /\ built[o] \in Nat
    BY <1>1, <1>2 DEF setup, TypeOK
  <2> QED BY <1>2, <1>3, <1>4, <2>1, LoanAssumption DEF LedgerOK, Txs
<1>8. RowOK(o)'
  <2>1. /\ funding' = funding /\ outbox' = outbox /\ loan' = loan
        /\ built[o] \in Nat /\ outbox[o] \in 0 .. MaxTx /\ funding[o].tx \in 0 .. MaxTx
    BY <1>1, <1>2 DEF signer, TypeOK, Rows
  <2>2. funding[o].tx # 0
    BY <1>0, <1>1, <1>2 DEF CallOK
  <2>3. \A m \in Txs : chain[o][m] # "executed"
    BY <1>4 DEF Live, OnItsWay
  <2>4. /\ funding[o].status \notin {"confirmed", "registered"} /\ outbox[o] = 0
    BY <1>2, <2>1, <2>2, <2>3, LoanAssumption DEF RowOK, Txs
  <2> QED BY <1>2, <1>3, <2>1, <2>2, <2>4, LoanAssumption DEF RowOK, Txs
<1>9. ASSUME NEW p \in Offers \ {o} PROVE LedgerOK(p)' /\ RowOK(p)'
  BY <1>1, <1>3, <1>9, OfferUntouched DEF setup, signer
<1>10. ASSUME NEW d \in Calls PROVE CallOK(d)'
  BY <1>0, <1>1, <1>2, <1>3, <1>4, <1>10, LoanAssumption
  DEF CallOK, IInv, TypeOK, AcceptanceOK
<1> QED BY <1>5, <1>6, <1>7, <1>8, <1>9, <1>10 DEF IInv

\* The receipt of an execution confirms the row.
LEMMA TransferSucceedsInv ==
  ASSUME IInv, NEW c \in Calls, TransferSucceeds(c)
  PROVE  IInv'
<1>0. PICK o \in Offers : o = offerOf[c]
  BY CallOffer DEF TransferSucceeds
<1>1. CASE Uncertain(c)
  BY <1>1, UncertainInv DEF TransferSucceeds, elsewhere
<1>2. CASE ~Uncertain(c)
  <2>1. /\ pc[c] = "submitting" /\ chain[o][current[c]] = "executed"
        /\ funding[o].owner = c /\ funding[o].status \in {"preparing", "pending"}
        /\ SetRow(c, "confirmed", current[c], c) /\ StartRegistration(c, current[c])
        /\ UNCHANGED <<loan, offerOf, answer>>
        /\ UNCHANGED <<policyAt, request, offers, accepted, expired, built, chain, shown,
                       crashes>>
    BY <1>0, <1>2 DEF TransferSucceeds, Row, elsewhere, setup
  <2>2. /\ o \in Offers /\ o \in accepted /\ RowOK(o) /\ LedgerOK(o) /\ CallOK(c) /\ TypeOK
        /\ current[c] \in Txs /\ current[c] \in 0 .. MaxTx
    BY <1>0, <2>1, CallOffer DEF IInv, CallOK, TypeOK
  <2>3. /\ funding' \in [Offers -> Rows]
        /\ outbox' \in [Offers -> 0 .. MaxTx]
        /\ registering' \subseteq Offers \X (0 .. MaxTx)
        /\ pc' \in [Calls -> Places]
        /\ prepared' \in [Calls -> 0 .. MaxTx] /\ current' \in [Calls -> 0 .. MaxTx]
    BY <1>0, <2>1, <2>2, SetRowShape, StartShape DEF Statuses
  <2>4. TypeOK'
    BY <1>0, <2>1, <2>2, <2>3 DEF TypeOK
  <2>5. /\ funding'[o] = [status |-> "confirmed", tx |-> current[c], owner |-> c, stale |-> FALSE]
        /\ outbox'[o] = (IF outbox[o] = 0 THEN current[c] ELSE outbox[o])
        /\ \A p \in Offers \ {o} : funding'[p] = funding[p] /\ outbox'[p] = outbox[p]
        /\ pc' = [pc EXCEPT ![c] = "registering"] /\ current' = [current EXCEPT ![c] = 0]
    BY <1>0, <2>1, <2>2 DEF SetRow, StartRegistration, TypeOK
  <2>6. AcceptanceOK'
    BY <1>0, <2>1, <2>2, <2>5 DEF IInv, TypeOK, AcceptanceOK
  <2>7. LedgerOK(o)' /\ RowOK(o)'
    BY <1>0, <2>1, <2>2, <2>5, LoanAssumption DEF LedgerOK, RowOK, CallOK, Live, Txs
  <2>8. ASSUME NEW p \in Offers \ {o} PROVE LedgerOK(p)' /\ RowOK(p)'
    BY <1>0, <2>1, <2>5, <2>8, OfferUntouched
  <2>9. ASSUME NEW d \in Calls PROVE CallOK(d)'
    <3>1. CASE d = c
      <4>1. answer'[c] # "funded" /\ pc'[c] = "registering" /\ outbox'[o] # 0
        BY <1>0, <2>1, <2>2, <2>5, <2>9, LoanAssumption DEF CallOK, TypeOK, Txs
      <4> QED BY <1>0, <2>1, <2>5, <3>1, <4>1 DEF CallOK
    <3>2. CASE d # c
      BY <1>0, <2>1, <2>2, <2>5, <2>9, <3>2, LoanAssumption
      DEF CallOK, IInv, AcceptanceOK
    <3> QED BY <3>1, <3>2
  <2> QED BY <2>4, <2>6, <2>7, <2>8, <2>9 DEF IInv
<1> QED BY <1>1, <1>2

\* The signer has registered the loan.
LEMMA AcknowledgeInv ==
  ASSUME IInv, NEW c \in Calls, Acknowledge(c)
  PROVE  IInv'
<1> USE LoanAssumption
    DEF IInv, Acknowledge, setup, ledger, signer, local, elsewhere, Row, SetRow, Answer
<1>1. TypeOK'
  BY DEF TypeOK, Statuses, Answers, AcceptanceOK, Rows, Places
<1>2. AcceptanceOK'
  BY DEF TypeOK, AcceptanceOK
<1>3. ASSUME NEW p \in Offers PROVE LedgerOK(p)'
  BY <1>3 DEF LedgerOK, Live
<1>4. ASSUME NEW p \in Offers PROVE RowOK(p)'
  BY <1>4
  DEF TypeOK, LedgerOK, RowOK, CallOK, Live, OnItsWay, Txs, Loans, Rows
<1>5. ASSUME NEW d \in Calls PROVE CallOK(d)'
  BY <1>5
  DEF TypeOK, AcceptanceOK, CallOK, Live
<1> QED BY <1>1, <1>2, <1>3, <1>4, <1>5

\* The signer registers what was executed: the transaction of the row.
LEMMA RegisterLoanInv ==
  ASSUME IInv, NEW o \in Offers, NEW n \in Txs, RegisterLoan(o, n)
  PROVE  IInv'
<1> USE LoanAssumption
    DEF IInv, RegisterLoan, setup, ledger, signer, local, elsewhere, RegisterFundedLoan
<1>1. TypeOK'
  BY DEF TypeOK, Loans
<1>2. AcceptanceOK'
  BY DEF TypeOK, AcceptanceOK
<1>3. ASSUME NEW p \in Offers PROVE LedgerOK(p)'
  BY <1>3 DEF LedgerOK, Live
<1>4. ASSUME NEW p \in Offers PROVE RowOK(p)'
  BY <1>4
  DEF TypeOK, RowOK, Live, Txs, Loans, Rows
<1>5. ASSUME NEW d \in Calls PROVE CallOK(d)'
  BY <1>5
  DEF CallOK, Live
<1> QED BY <1>1, <1>2, <1>3, <1>4, <1>5

\* The ledger decides on the one transaction in flight.
LEMMA DecideInv ==
  ASSUME IInv, NEW o \in Offers, NEW n \in Txs, Decide(o, n)
  PROVE  IInv'
<1> USE LoanAssumption DEF IInv, Decide, setup, ledger, signer, local, elsewhere
<1>1. TypeOK'
  BY DEF TypeOK, ChainStates
<1>2. AcceptanceOK'
  BY DEF TypeOK, AcceptanceOK
<1>3. ASSUME NEW p \in Offers PROVE LedgerOK(p)'
  BY <1>3 DEF LedgerOK, Live, OnItsWay
<1>4. ASSUME NEW p \in Offers PROVE RowOK(p)'
  BY <1>4
  DEF RowOK, Live, OnItsWay
<1>5. ASSUME NEW d \in Calls PROVE CallOK(d)'
  BY <1>5
  DEF CallOK, Live, OnItsWay
<1> QED BY <1>1, <1>2, <1>3, <1>4, <1>5

------------------------------------------------------------------------------
(* The theorems.                                                           *)

\* Every step keeps the invariant.
LEMMA NextInv == IInv /\ [Next]_vars => IInv'
<1> SUFFICES ASSUME IInv, [Next]_vars PROVE IInv'
  OBVIOUS
<1>1. CASE (\E who \in {Signer} \cup Offers : RegisterMissionPolicy(who)) \/ SignCreditRequest
           \/ UNCHANGED vars
  BY <1>1, QuietInv
<1>2. ASSUME NEW o \in Offers,
             Quote(o) \/ SignCreditAcceptance(o) \/ Expire(o) \/ LeaseOver(o) \/ Crash(o)
      PROVE  IInv'
  BY <1>2, QuietInv, SignCreditAcceptanceInv, LeaseOverInv
<1>3. ASSUME NEW c \in Calls, Handle(c) PROVE IInv'
  <2>1. CASE AlreadyRegistered(c) \/ ReconcileFirst(c) \/ AnotherPrepares(c)
             \/ ReconcileFailed(c) \/ ReconcilePending(c) \/ RegistrationFails(c)
    BY <2>1, QuietInv
  <2>2. CASE ResumeRegistration(c) BY <2>2, ResumeRegistrationInv
  <2>3. CASE ClaimSubmission(c) BY <2>3, ClaimSubmissionInv
  <2>4. CASE ReconcileConfirmed(c) BY <2>4, ReconcileConfirmedInv
  <2>5. CASE Prepare(c) BY <2>5, PrepareInv
  <2>6. CASE Submit(c) BY <2>6, SubmitInv
  <2>7. CASE Regenerate(c) BY <2>7, RegenerateInv
  <2>8. CASE TransferFails(c) BY <2>8, UncertainInv DEF TransferFails, elsewhere
  <2>9. CASE TransferSucceeds(c) BY <2>9, TransferSucceedsInv
  <2>10. CASE Acknowledge(c) BY <2>10, AcknowledgeInv
  <2> QED BY <1>3, <2>1, <2>2, <2>3, <2>4, <2>5, <2>6, <2>7, <2>8, <2>9, <2>10 DEF Handle
<1>4. ASSUME NEW c \in Calls, NEW o \in Offers, Accept(c, o) PROVE IInv'
  BY <1>4, QuietInv
<1>5. ASSUME NEW o \in Offers, NEW n \in Txs,
             RegisterLoan(o, n) \/ RefuseLoan(o, n) \/ Decide(o, n) \/ Show(o, n)
      PROVE  IInv'
  BY <1>5, QuietInv, RegisterLoanInv, DecideInv
<1> QED BY <1>1, <1>2, <1>3, <1>4, <1>5 DEF Next

\* The inductive invariant holds in every state of every behaviour.
THEOREM Invariance == Spec => []IInv
<1>1. Init => IInv
  BY InitInv
<1>2. IInv /\ [Next]_vars => IInv'
  BY NextInv
<1> QED BY <1>1, <1>2, PTL DEF Spec

\* Every variable keeps its type.
THEOREM TypeCorrect == Spec => []TypeOK
<1>1. IInv => TypeOK
  BY DEF IInv
<1> QED BY <1>1, Invariance, PTL

\* At most one funding transaction is ever executed for the mission, whatever
\* the lenders, retries, takeovers, regenerated identifiers and crashes: an
\* executed transaction is one of the accepted offer, and of an offer only one
\* can be in flight or executed.
THEOREM OneFunding == Spec => []FundedOnce
<1>1. IInv => FundedOnce
  <2> SUFFICES ASSUME IInv PROVE Cardinality(Executed) <= 1
    BY DEF FundedOnce
  <2>1. ASSUME NEW f \in Executed, NEW g \in Executed PROVE f = g
    <3>1. PICK o \in Offers, n \in Txs : f = <<o, n>> /\ chain[o][n] = "executed"
      BY DEF Executed
    <3>2. PICK p \in Offers, m \in Txs : g = <<p, m>> /\ chain[p][m] = "executed"
      BY DEF Executed
    <3>3. o = p
      BY <3>1, <3>2 DEF IInv, LedgerOK, AcceptanceOK
    <3>4. n = m
      BY <3>1, <3>2, <3>3 DEF IInv, LedgerOK, Live, OnItsWay
    <3> QED BY <3>1, <3>2, <3>3, <3>4
  <2>2. CASE Executed = {}
    BY <2>2, FS_EmptySet
  <2>3. CASE Executed # {}
    <3>1. PICK f \in Executed : TRUE
      BY <2>3
    <3>2. Executed = {f}
      BY <2>1, <3>1
    <3>3. Cardinality({f}) = 1
      BY FS_Singleton
    <3> QED BY <3>2, <3>3
  <2> QED BY <2>2, <2>3
<1> QED BY <1>1, Invariance, PTL

\* An acceptance that was answered with a funding transaction is a loan that the
\* signer has registered, with that transaction, which was executed.
THEOREM AnswersRegistered == Spec => []AnswersAreRegistered
<1>1. IInv => AnswersAreRegistered
  <2> SUFFICES ASSUME IInv, NEW c \in Calls, answer[c] = "funded"
               PROVE  /\ loan = [offer |-> offerOf[c], tx |-> funding[offerOf[c]].tx]
                      /\ <<loan.offer, loan.tx>> \in Executed
    BY DEF AnswersAreRegistered
  <2>1. PICK o \in Offers : o = offerOf[c] /\ funding[o].status = "registered"
    BY DEF IInv, CallOK
  <2>2. /\ loan = [offer |-> o, tx |-> funding[o].tx]
        /\ chain[o][funding[o].tx] = "executed" /\ funding[o].tx # 0
    BY <2>1 DEF IInv, RowOK
  <2>3. funding[o].tx \in Txs
    BY <2>2, LoanAssumption DEF IInv, TypeOK, Rows, Txs
  <2> QED BY <2>1, <2>2, <2>3 DEF Executed
<1> QED BY <1>1, Invariance, PTL
==============================================================================
