------------------------------ MODULE RepayOnce ------------------------------
(***************************************************************************)
(* What /repay promises (docs/protocol.md, "Repayment and audit"): for one *)
(* loan the money moves once, only after the mission's completion was      *)
(* accepted, and the loan is closed with, and every caller is told, the    *)
(* transaction that moved it.  Repayment implements this specification.    *)
(***************************************************************************)
EXTENDS Integers

CONSTANTS Loans, Txs

VARIABLES
  loan,       \* "none", "funded", "repaid"
  completed,  \* the mission of the loan has an accepted completion
  moved,      \* transactions that moved the repayment on the ledger
  repaidBy,   \* the transaction recorded with a repaid loan, or 0
  answers     \* transactions that callers were told

vars == <<loan, completed, moved, repaidBy, answers>>

Init ==
  /\ loan = [l \in Loans |-> "none"]
  /\ completed = [l \in Loans |-> FALSE]
  /\ moved = [l \in Loans |-> {}]
  /\ repaidBy = [l \in Loans |-> 0]
  /\ answers = [l \in Loans |-> {}]

Fund(l) ==
  /\ loan[l] = "none"
  /\ loan' = [loan EXCEPT ![l] = "funded"]
  /\ UNCHANGED <<completed, moved, repaidBy, answers>>

Complete(l) ==
  /\ completed' = [completed EXCEPT ![l] = TRUE]
  /\ UNCHANGED <<loan, moved, repaidBy, answers>>

\* The one transfer of a loan.
Move(l, n) ==
  /\ loan[l] = "funded"
  /\ completed[l]
  /\ moved[l] = {}
  /\ moved' = [moved EXCEPT ![l] = {n}]
  /\ UNCHANGED <<loan, completed, repaidBy, answers>>

Record(l, n) ==
  /\ loan[l] = "funded"
  /\ moved[l] = {n}
  /\ loan' = [loan EXCEPT ![l] = "repaid"]
  /\ repaidBy' = [repaidBy EXCEPT ![l] = n]
  /\ UNCHANGED <<completed, moved, answers>>

Answer(l) ==
  /\ loan[l] = "repaid"
  /\ answers' = [answers EXCEPT ![l] = @ \cup {repaidBy[l]}]
  /\ UNCHANGED <<loan, completed, moved, repaidBy>>

Next ==
  \E l \in Loans :
    \/ Fund(l) \/ Complete(l) \/ Answer(l)
    \/ \E n \in Txs : Move(l, n) \/ Record(l, n)

Spec == Init /\ [][Next]_vars
==============================================================================
