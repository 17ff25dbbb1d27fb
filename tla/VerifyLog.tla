------------------------------ MODULE VerifyLog ------------------------------
(***************************************************************************)
(* verifyLog() of src/src/dbwal.hpp, step by step: two passes over the      *)
(* blocks of the log file, the first to collect the IDs of the completion   *)
(* markers, the second to hand the other operations to the receiver.        *)
(*                                                                          *)
(* The file is any sequence of blocks that DbWAL may leave, and then        *)
(* perhaps a part of a block: "tail".  A block cannot be read ("bad",       *)
(* an I/O error that stays), or fails its checksum ("torn"), or is intact.  *)
(***************************************************************************)
EXTENDS Integers, Sequences, SequencesExt, Ordering

CONSTANT Files      \* records [blocks, tail]

EntryRecords == [marker : BOOLEAN, id : Nat]
Blocks == [state : {"intact", "torn", "bad"}, entries : Seq(EntryRecords)]

(* The format of the log, as DbWAL has it.                                  *)
Wal == INSTANCE WalLog WITH SizeModulus <- 1048576

(* DbWAL writes no block without entries, nor more entries than have room.  *)
ASSUME FilesAssumption == \A f \in Files :
    /\ f.blocks \in Seq(Blocks) /\ f.tail \in BOOLEAN
    /\ \A k \in DOMAIN f.blocks : f.blocks[k].state = "intact" =>
          LET n == Len(f.blocks[k].entries)
          IN  n > 0 /\ Wal!CountSize + n * Wal!MarkerSize <= Wal!BlockSize - Wal!ChecksumSize

VARIABLES
    file,       \* the log file
    pass,       \* 1 or 2
    blockPos,   \* blocks before _logFile.pos()
    item,       \* entries of the block read so far; -1 when no block is loaded
    completed,  \* completedOperations
    reported,   \* IDs handed to the receiver, in order
    result,     \* "none" until verifyLog() returns or aborts
    turn        \* flips with every turn of the loop that changes nothing else

vars == <<file, pass, blockPos, item, completed, reported, result, turn>>

Init == /\ file \in Files
        /\ pass = 1 /\ blockPos = 0 /\ item = -1
        /\ completed = <<>> /\ reported = <<>>
        /\ result = "none" /\ turn = 0

(* A whole block lies ahead; it is the last when nothing follows it.        *)
BlockAhead == blockPos < Len(file.blocks)
Remaining == Len(file.blocks) - blockPos

(* Planted bug: the last block is not told from the others.                 *)
NeverLast == FALSE

IsLastBlock == Remaining = 1 /\ ~file.tail

Reading == result = "none" /\ item = -1

(* A block that cannot be read: the read leaves the position where it was,  *)
(* as QFile::read() does, and the loop goes round.                          *)
ReadFails ==
    /\ Reading /\ BlockAhead
    /\ file.blocks[blockPos + 1].state = "bad"
    /\ result' = IF IsLastBlock THEN result ELSE "fatal"
    /\ turn' = 1 - turn
    /\ UNCHANGED <<file, pass, blockPos, item, completed, reported>>

(* Planted bug: the position is not moved past the block.                   *)
ChecksumFailsInPlace ==
    /\ Reading /\ BlockAhead
    /\ file.blocks[blockPos + 1].state = "torn"
    /\ result' = IF IsLastBlock THEN result ELSE "fatal"
    /\ turn' = 1 - turn
    /\ UNCHANGED <<file, pass, blockPos, item, completed, reported>>

ChecksumFails ==
    /\ Reading /\ BlockAhead
    /\ file.blocks[blockPos + 1].state = "torn"
    /\ blockPos' = blockPos + 1
    /\ result' = IF IsLastBlock THEN result ELSE "fatal"
    /\ UNCHANGED <<file, pass, item, completed, reported, turn>>

ReadBlock ==
    /\ Reading /\ BlockAhead
    /\ file.blocks[blockPos + 1].state = "intact"
    /\ blockPos' = blockPos + 1
    /\ IF file.blocks[blockPos + 1].entries = <<>>
         THEN result' = "false" /\ UNCHANGED item
         ELSE item' = 0 /\ UNCHANGED result
    /\ UNCHANGED <<file, pass, completed, reported, turn>>

Entries == file.blocks[blockPos].entries

(* Planted bug: an operation is skipped when its ID is not newer than the   *)
(* last completed one.                                                      *)
IsCompletedUpTo(id) == completed # <<>> /\ id <= Last(completed)

IsCompleted(id) == id \in ToSet(completed)

SkipEntry(entry) == pass = 1 \/ IsCompleted(entry.id)

(* Planted bug: the loop over the entries goes one too far.                 *)
NextItemTooFar == IF item = Len(Entries) THEN -1 ELSE item + 1

NextItem == IF item + 1 = Len(Entries) THEN -1 ELSE item + 1

(* One entry; a marker that is not skipped in the second pass could not be  *)
(* deserialized as an operation.                                            *)
ReadEntry ==
    /\ result = "none" /\ item >= 0
    /\ LET entry == Entries[item + 1]
       IN  IF entry.id = 0
             THEN result' = "false" /\ UNCHANGED <<item, completed, reported>>
             ELSE /\ completed' = IF pass = 1 /\ entry.marker
                                    THEN Append(completed, entry.id) ELSE completed
                  /\ IF SkipEntry(entry)
                       THEN UNCHANGED <<reported, result>>
                       ELSE IF entry.marker
                              THEN result' = "false" /\ UNCHANGED reported
                              ELSE reported' = Append(reported, entry.id) /\ UNCHANGED result
                  /\ item' = NextItem
    /\ UNCHANGED <<file, pass, blockPos, turn>>

EndPass ==
    /\ Reading /\ ~BlockAhead
    /\ IF pass = 1
         THEN pass' = 2 /\ blockPos' = 0 /\ UNCHANGED result
         ELSE result' = "true" /\ UNCHANGED <<pass, blockPos>>
    /\ UNCHANGED <<file, item, completed, reported, turn>>

Next == ReadFails \/ ChecksumFails \/ ReadBlock \/ ReadEntry \/ EndPass

Spec == Init /\ [][Next]_vars /\ WF_vars(Next)

-----------------------------------------------------------------------------
(* Properties.                                                              *)

BlocksOf(state) == {k \in DOMAIN file.blocks : file.blocks[k].state = state}

(* The entries that can be read, at their positions in the file.            *)
Positions == UNION {{k} \X DOMAIN file.blocks[k].entries : k \in BlocksOf("intact")}
EntryAt(p) == file.blocks[p[1]].entries[p[2]]
AllEntries == {EntryAt(p) : p \in Positions}
MarkedIds == {e.id : e \in {f \in AllEntries : f.marker}}

UnfinishedAt == {p \in Positions : ~EntryAt(p).marker /\ EntryAt(p).id \notin MarkedIds}

(* Positions in the order of the file, and the IDs found there.             *)
Place(p) == p[1] * Wal!BlockSize + p[2]
InFileOrder(S) == Ascending([p \in S |-> Place(p)])
IdsAt(seq) == [i \in DOMAIN seq |-> EntryAt(seq[i]).id]

(* The position stays in the file and in the block.                         *)
TypeOK ==
    /\ file \in Files
    /\ pass \in 1 .. 2
    /\ blockPos \in 0 .. Len(file.blocks)
    /\ item = -1 \/ (blockPos > 0 /\ item \in 0 .. Len(Entries) - 1)
    /\ ToSet(completed) \subseteq {e.id : e \in AllEntries}
    /\ ToSet(reported) \subseteq {e.id : e \in AllEntries}
    /\ result \in {"none", "true", "false", "fatal"}
    /\ turn \in 0 .. 1

(* A verification that succeeds has reported every operation without a      *)
(* completion marker, in the order of the log, whether the marker lies in   *)
(* an earlier block, in a later one or in the same, and no other.           *)
ReportsUnfinished ==
    result = "true" => reported = IdsAt(InFileOrder(UnfinishedAt))

(* fatalAbort() is called only for a malformed block that is not the last,  *)
(* FALSE returned only for an ID of 0, and TRUE means that every block but  *)
(* a malformed last one was read.                                           *)
Verdict ==
    /\ result = "fatal" => \E k \in BlocksOf("torn") \cup BlocksOf("bad") :
                               k < Len(file.blocks) \/ file.tail
    /\ result = "false" => \E e \in AllEntries : e.id = 0
    /\ result = "true"  => /\ \A k \in BlocksOf("torn") : k = Len(file.blocks) /\ ~file.tail
                            /\ BlocksOf("bad") = {}

(* The same file as DbWAL sees it: malformed blocks, and the part of a      *)
(* block at the end, are torn ones, and the entries of a block lie one      *)
(* behind the other.                                                        *)
EntryInBlock(entry, i) ==
    [kind |-> IF entry.marker THEN "done" ELSE "op", op |-> [epoch |-> 0, id |-> entry.id],
     at   |-> Wal!CountSize + (i - 1) * Wal!MarkerSize, len |-> Wal!MarkerSize]

BlockInLog(block) ==
    [torn    |-> block.state # "intact",
     entries |-> {EntryInBlock(block.entries[i], i) : i \in DOMAIN block.entries}]

LogOfFile ==
    [k \in DOMAIN file.blocks |-> BlockInLog(file.blocks[k])]
        \o IF file.tail THEN <<Wal!Torn(Wal!NewBlock)>> ELSE <<>>

(* The loops of verifyLog() do what DbWAL takes for one step: they succeed  *)
(* on the logs that Verifies, and report the operations that are Reported   *)
(* there.  (The ID 0, which DbWAL never gives out, is refused by the loops  *)
(* only.)                                                                   *)
AgreesWithDbWAL == result # "none" =>
    /\ (result = "true") =
          (Wal!Verifies(LogOfFile) /\ \A e \in AllEntries : e.id # 0)
    /\ result = "true" => ToSet(reported) = {op.id : op \in Wal!Reported(LogOfFile)}

(* verifyLog() comes to an end.                                             *)
Terminates == <>(result # "none")
=============================================================================
