------------------------------- MODULE WalLog -------------------------------
(***************************************************************************)
(* The data of the write-ahead log of src/src/dbwal.hpp: the 4 KiB block    *)
(* that collects entries in memory, the log file as a sequence of blocks,   *)
(* and what verifyLog() reads back from it.                                 *)
(*                                                                          *)
(* An entry stands for the bytes of one operation or of one completion      *)
(* marker.  What it says of an operation is its identity: the ID that is in *)
(* the bytes, and the epoch (which DbWAL object gave out the ID), that only *)
(* the model knows.  "at" and "len" are the bytes the entry takes in the    *)
(* block, with the numbers of the source.                                   *)
(***************************************************************************)
EXTENDS Integers, Sequences

CONSTANT SizeModulus    \* 2^64 in the program: where size_t wraps

BlockSize       == 4096
CountSize       == 2        \* sizeof(BlockItemCountType)
ChecksumSize    == 4        \* sizeof(BlockChecksumType)
EntryHeaderSize == 6        \* the entry's size and the operation's ID
MinItemSize     == EntryHeaderSize + 1
MarkerSize      == 8        \* header, 0xDD, status

ASSUME SizeModulusAssumption == SizeModulus \in Nat /\ SizeModulus > 2 * BlockSize

Unsigned(x) == IF x < 0 THEN x + SizeModulus ELSE x

(* Definitions marked "Planted bug" are variants that the runs must reject; *)
(* the model does not use them.                                             *)

(* Planted bug: no room is reserved for the item count.                     *)
NewBlockWithoutCount == [pos |-> 0, entries |-> {}]

(* The block being filled: the write position of the buffer, and the        *)
(* entries put in it.  The item count starts the block.                     *)
NewBlock == [pos |-> CountSize, entries |-> {}]

(* Planted bug: what was written already is not subtracted.                 *)
WholeCapacity(block) == BlockSize

RemainingCapacity(block) == BlockSize - block.pos

NewBlockRequired(block, len) ==
    len + MinItemSize + 20
        > Unsigned(RemainingCapacity(block) - ChecksumSize - CountSize)

Fits(block, len) == len <= RemainingCapacity(block)

PutEntry(block, kind, op, len) ==
    [pos     |-> block.pos + len,
     entries |-> block.entries \cup {[kind |-> kind, op |-> op, at |-> block.pos, len |-> len]}]

(* A block of the file.  A torn one is there in part: its checksum fails.   *)
Whole(block) == [torn |-> FALSE, entries |-> block.entries]
Torn(block)  == [torn |-> TRUE, entries |-> block.entries]

(* What the file may hold after a write of the block that was cut short.    *)
AfterPartialWrite(log, block) == {log, Append(log, Torn(block)), Append(log, Whole(block))}

(***************************************************************************)
(* verifyLog(): the blocks must have the format of the comment at           *)
(* dbwal.hpp:180-198, only the last may be torn, and the operations without *)
(* a completion marker anywhere in the log are reported.                    *)
(***************************************************************************)
Overlap(e, f) == e.at < f.at + f.len /\ f.at < e.at + e.len

WellFormed(b) ==
    /\ b.entries # {}
    /\ \A e \in b.entries : e.at >= CountSize /\ e.at + e.len <= BlockSize - ChecksumSize
    /\ \A e, f \in b.entries : e # f => ~Overlap(e, f)

Verifies(log) == \A k \in DOMAIN log :
    IF log[k].torn THEN k = Len(log) ELSE WellFormed(log[k])

Readable(log) == {k \in DOMAIN log : ~log[k].torn}

Entries(log, kind) == UNION {{e \in log[k].entries : e.kind = kind} : k \in Readable(log)}

(* Planted bug: the first pass leaves out the last block.                   *)
CompletedIdsButLast(log) ==
    {e.op.id : e \in UNION {{f \in log[k].entries : f.kind = "done"} : k \in Readable(log) \ {Len(log)}}}

CompletedIds(log) == {e.op.id : e \in Entries(log, "done")}

Reported(log) == {e.op : e \in {f \in Entries(log, "op") : f.op.id \notin CompletedIds(log)}}

InLog(op, log) == \E k \in Readable(log) : \E e \in log[k].entries : e.kind = "op" /\ e.op = op
=============================================================================
