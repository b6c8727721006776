---- MODULE MCLoanFunding ----
(***************************************************************************)
(* LoanFunding for two lenders, two concurrent calls of the borrower, two  *)
(* transactions of each lender and one crash.                              *)
(***************************************************************************)
EXTENDS LoanFunding
====
