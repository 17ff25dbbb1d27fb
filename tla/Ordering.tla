------------------------------ MODULE Ordering ------------------------------
(***************************************************************************)
(* The order in which the containers of the program iterate: std::map and   *)
(* the multi-index set give their elements by ascending keys.  "key" is a   *)
(* function from the elements to their keys.                                *)
(***************************************************************************)
EXTENDS Integers, FiniteSets

Before(key, e) == {d \in DOMAIN key : key[d] < key[e]}

Ascending(key) ==
    [i \in 1 .. Cardinality(DOMAIN key) |->
        CHOOSE e \in DOMAIN key : Cardinality(Before(key, e)) = i - 1]
=============================================================================
