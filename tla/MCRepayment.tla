---- MODULE MCRepayment ----
(***************************************************************************)
(* Repayment of one loan by two concurrent callers, with three             *)
(* transactions and two crashes: a transaction may be lost, given up after *)
(* its window, or found again, and the next one may meet the same fate.    *)
(***************************************************************************)
EXTENDS Repayment
====
