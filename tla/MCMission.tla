---- MODULE MCMission ----
(***************************************************************************)
(* Mission for two targets, two requests of the same callback at work at   *)
(* once, three failed deliveries, one replay and two crashes.             *)
(***************************************************************************)
EXTENDS Mission
====
