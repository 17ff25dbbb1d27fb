---------------------- MODULE MCFileAllocationManager ----------------------
(* A file of a few units, ranges of up to three, and a threshold small      *)
(* enough for the search to consolidate and look again.                     *)
EXTENDS FileAllocationManager
=============================================================================
