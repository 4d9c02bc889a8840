--------------------------- MODULE MCScanPlugIns ---------------------------
(* Values for the constants of ScanPlugIns.                                *)
EXTENDS ScanPlugIns, TLC

CONSTANTS both, second   (* A file for both plug-ins and one for the second.*)

MCCategory == (both :> {1, 2} @@ second :> {2})
=============================================================================
