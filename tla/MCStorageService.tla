--------------------------- MODULE MCStorageService ---------------------------
(* StorageService for TLC.                                                  *)
EXTENDS StorageService

BothSizes == {TRUE, FALSE}
SmallOnly == {FALSE}
=============================================================================
