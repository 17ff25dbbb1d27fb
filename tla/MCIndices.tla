----------------------------- MODULE MCIndices -----------------------------
(* Two indices of up to two keys.                                           *)
EXTENDS Indices

TwoFields == <<"F1", "Fs">>
=============================================================================
