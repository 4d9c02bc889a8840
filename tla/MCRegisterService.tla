------------------------- MODULE MCRegisterService -------------------------
(* Values for the constants of RegisterService.                            *)
EXTENDS RegisterService, TLC

CONSTANTS p1, p2, c1, c2   (* Two files, of which p1 is a media file and   *)
                           (* p2 may be deleted, and two clients.          *)

MCCategory == (p1 :> Libs @@ p2 :> {})
MCLists    == {<<p1, NULL>>}
MCTwoFiles == {<<p2, p1, NULL>>}
=============================================================================
