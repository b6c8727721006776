--------------------------- MODULE MCAuditOutbox ---------------------------
(* Two writers and two events of one mission. *)
EXTENDS AuditOutbox

CONSTANTS mission1

TheMissions == <<mission1, mission1>>
=============================================================================
