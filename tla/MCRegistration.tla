--------------------------- MODULE MCRegistration ---------------------------
(* Values for the constants of Registration.                               *)
EXTENDS Registration, TLC

CONSTANTS p1, p2   (* p1 is accepted by every plug-in, p2 by none.         *)

MCPaths == {p1, p2}
MCCategory == (p1 :> Libs @@ p2 :> {})
=============================================================================
