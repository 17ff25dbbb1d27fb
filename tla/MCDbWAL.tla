------------------------------ MODULE MCDbWAL ------------------------------
(* Small instances of DbWAL.  The sizes are sizes of entries of the program *)
(* (a block takes 4061 bytes of entry when it is empty), so that one, two or *)
(* three of them fill a block.                                              *)
EXTENDS DbWALRefinement, DbWALLogInvariant, TLC

CONSTANTS t1, t2, t3

TwoThreads == {t1, t2}
ThreeThreads == {t1, t2, t3}

TwoPerBlock == {1900}
SmallOrLarge == {100, 3000}
Oversized == {1900, 4080}
(* The threads that are not the owner are alike.                            *)
Symmetry == Permutations({t2, t3})
=============================================================================
