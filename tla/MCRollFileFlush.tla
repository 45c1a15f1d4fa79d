--------------------------- MODULE MCRollFileFlush ----------------------------
(* RollFileFlush for TLC.                                                   *)
EXTENDS RollFileFlush, TLC

StampSymmetry == Permutations(Stamps)
=============================================================================
