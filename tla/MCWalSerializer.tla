-------------------------- MODULE MCWalSerializer --------------------------
(* A record of two fields of fixed size and the same type, a string and an  *)
(* array, and blocks of up to two entries.                                  *)
EXTENDS WalSerializer

FourFields ==
    <<[id |-> 7, type |-> "int", static |-> TRUE, array |-> FALSE],
      [id |-> 8, type |-> "int", static |-> TRUE, array |-> FALSE],
      [id |-> 9, type |-> "string", static |-> FALSE, array |-> FALSE],
      [id |-> 10, type |-> "array", static |-> FALSE, array |-> TRUE]>>

SmallValues == 1 .. 4

(* A field of fixed size has one of two values, the others one each.        *)
ValuesOf(i) == IF Schema[i].static THEN {1, 2} ELSE {i}
Rows == {<<a, b, 3, 4>> : a, b \in {1, 2}}
Found == UNION {{[id |-> Schema[i].id, type |-> Schema[i].type, v |-> v] : v \in ValuesOf(i)} :
                  i \in {j \in DOMAIN Schema : ~Schema[j].array}}
Keys == UNION {{[id |-> Schema[i].id, v |-> v] : v \in ValuesOf(i)} : i \in DOMAIN Schema}

SomeOperations ==
    {[kind |-> "Insert", record |-> r] : r \in Rows}
    \cup {[kind |-> "Find", fields |-> s] : s \in BoundedSeq(Found, 2) \ {<<>>}}
    \cup {[kind |-> "UpdateFull", key |-> k.id, insert |-> i, record |-> r, keyValue |-> k.v] :
            k \in Keys, i \in BOOLEAN, r \in Rows}
    \cup {[kind |-> "AppendToArray", key |-> k.id, array |-> 10, insert |-> TRUE,
           keyValue |-> k.v, data |-> r] : k \in Keys, r \in Rows}
    \cup {[kind |-> "AppendToArray", key |-> k.id, array |-> 10, insert |-> FALSE,
           keyValue |-> k.v, data |-> 4] : k \in Keys}
    \cup {[kind |-> "Delete", key |-> k.id, keyValue |-> k.v] : k \in Keys}

EntriesOf(ops) == {[op |-> op, skip |-> s] : op \in ops, s \in BOOLEAN}
                    \cup {[op |-> op, skip |-> TRUE] : op \in Markers}

(* The second entry is one of each kind: it shows where the first one ended. *)
Second == {CHOOSE op \in SomeOperations : op.kind = kind :
            kind \in {"Insert", "Find", "UpdateFull", "AppendToArray", "Delete"}}

UpToTwo ==
    LET first == EntriesOf(SomeOperations)
    IN  {<<e>> : e \in first} \cup {<<e, f>> : e \in first, f \in EntriesOf(Second)}
=============================================================================
