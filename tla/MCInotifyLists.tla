--------------------------- MODULE MCInotifyLists ---------------------------
(* Values for the constants of InotifyLists.                               *)
EXTENDS InotifyLists, TLC

CONSTANTS noti, phone1, phone2, card1, p1, p2, c1

FileSymmetry == Permutations({p1, p2})
=============================================================================
