---------------------------- MODULE MCVerifyLog ----------------------------
(* Files of up to two whole blocks of up to two entries, and perhaps a part *)
(* of a block behind them.  ID 0 is what a wrapped counter gives out.       *)
EXTENDS VerifyLog

CONSTANTS Ids, LastMayBeBad

EntrySet == [marker : BOOLEAN, id : Ids]

Intact == {[state |-> "intact", entries |-> s] : s \in BoundedSeq(EntrySet, 2) \ {<<>>}}
Malformed == {[state |-> s, entries |-> <<>>] : s \in {"torn", "bad"}}

AllFiles == [blocks : BoundedSeq(Intact \cup Malformed, 2), tail : BOOLEAN]

EndsBad(f) == ~f.tail /\ f.blocks # <<>> /\ Last(f.blocks).state = "bad"

SmallFiles == {f \in AllFiles : EndsBad(f) => LastMayBeBad}
=============================================================================
