---- MODULE MCPaidScan ----
(***************************************************************************)
(* PaidScan for two concurrent callers and two crashes.  The leases keep   *)
(* the order of the code's constants: 30 s, at most 180 s of validity and  *)
(* 300 s.                                                                  *)
(***************************************************************************)
EXTENDS PaidScan
====
