---------------------------- MODULE MCScanThread ----------------------------
(* Values for the constants of ScanThread.                                 *)
EXTENDS ScanThread, TLC

CONSTANTS a, b, c1, c2

CardSymmetry == Permutations({c1, c2})
=============================================================================
