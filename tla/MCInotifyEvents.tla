-------------------------- MODULE MCInotifyEvents --------------------------
(* Values for the constants of InotifyEvents.                              *)
EXTENDS InotifyEvents

CONSTANTS f, g, D, E
=============================================================================
