---------------------------- MODULE MCAsyncWorker ----------------------------
(* Small instances of AsyncWorker for TLC.  Producers differ only by name,   *)
(* so the run without temporal properties takes their permutations as       *)
(* symmetry.                                                                *)
EXTENDS AsyncWorker, TLC

Symmetry == Permutations(Producers)
=============================================================================
