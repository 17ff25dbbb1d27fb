-------------------------- MODULE DbWALLogInvariant --------------------------
(***************************************************************************)
(* Two invariants on top of IInv.  WaitInv, like IInv, holds whatever the   *)
(* I/O errors and entry sizes: who waits for what, and who will flush it.   *)
(* LogInv says what is in the file and in the block when there are no       *)
(* errors and every entry fits an empty block: why the log verifies, tells  *)
(* each operation once and in order, and reports what it must and no more.  *)
(***************************************************************************)
EXTENDS DbWALInvariant

Updating(t) == call[t].kind = "update" /\ call[t].placed

MarkerInBlock(op) == \E e \in block.entries : e.kind = "done" /\ e.op = op

MarkerInLog(op) == \E k \in Readable(log) : \E e \in log[k].entries : e.kind = "done" /\ e.op = op

(* A restart will not replay the operation, nor will one after the block in *)
(* memory is written.                                                       *)
Gone(op) ==
    /\ InLog(op, log) => MarkerInLog(op)
    /\ op.epoch < epoch \/ (op.epoch = epoch /\ op.id <= lastFlushedOpId)

(* The block holds operations of this object that are not flushed.          *)
BlockUnflushed == \A e \in block.entries :
    e.op.epoch = epoch /\ (e.kind = "op" => lastFlushedOpId < e.op.id)

AckedFlushed == status \in {"running", "closed"} => \A op \in acked : op.id <= lastFlushedOpId

(* The marker of a waiting update is in the block until the flush that      *)
(* covers the ID of the update is published; from then on it is in the      *)
(* file, unless the log has been cleared.                                   *)
WaitersMarker == \A t \in Threads : Updating(t) =>
    /\ call[t].target <= lastFlushedOpId
    /\ IF lastFlushedOpId < call[t].id THEN MarkerInBlock(Op(call[t].target))
                                       ELSE Gone(Op(call[t].target))
    /\ pc[t] = "done" => ~(lastFlushedOpId < call[t].id)

FinishedGone == \A op \in finished : Gone(op)

(* Whoever found the block empty waits for it, or is flushing it.           *)
FirstWriterStays == block.entries # {} =>
    \E t \in Threads : /\ call[t].placed /\ call[t].first
                       /\ lastFlushedOpId < call[t].id
                       /\ pc[t] \in {"wait", "timedout", "flush", "publish"}

WaitInv == BlockUnflushed /\ AckedFlushed /\ WaitersMarker /\ FinishedGone /\ FirstWriterStays

-----------------------------------------------------------------------------

(* The conditions under which the log keeps all its promises.  Each of them *)
(* is needed: there is a run that fails without it, or the README names it. *)
FaultFree ==
    /\ MaxOps < IdModulus
    /\ TruncatesOnOpen = FALSE
    /\ ClearAfterRecovery = TRUE
    /\ MaxIoFailures = 0
    /\ \A len \in EntrySizes : ~NewBlockRequired(NewBlock, len)

InUse == status \in {"running", "closed"}

Publishing == \E t \in Threads : pc[t] = "publish"

(* The blocks of the file other than the one being published, which is      *)
(* still in memory as well.                                                 *)
Earlier == {k \in Readable(log) : ~(Publishing /\ k = Len(log))}

BeingPublished == Publishing =>
    Len(log) \in Readable(log) /\ log[Len(log)].entries = block.entries

NothingFailed == NoFatalAbort /\ epoch <= MaxEpoch

(* Only a crash tears a block, and nothing is written behind it.            *)
NoneTornInUse == InUse => \A k \in DOMAIN log : ~log[k].torn

(* The entries of the block lie one behind the other and end early enough.  *)
BlockLaidOut ==
    /\ CountSize <= block.pos /\ block.pos <= BlockSize - ChecksumSize - CountSize
    /\ block.entries = {} => block.pos = CountSize
    /\ \A e \in block.entries : CountSize <= e.at /\ 0 < e.len /\ e.at + e.len <= block.pos
    /\ \A e, f \in block.entries : e # f => ~Overlap(e, f)

(* What is flushed is not empty, and what is placed has room.               *)
RoomForEntry == \A t \in Threads :
    /\ pc[t] \in {"flush", "publish"} => block.entries # {}
    /\ InCall(t) /\ ~call[t].placed =>
         0 < call[t].len /\ ~NewBlockRequired(NewBlock, call[t].len)
    /\ pc[t] = "place" => ~NewBlockRequired(block, call[t].len)

(* The file holds operations that are flushed; the IDs in block and file    *)
(* were given out by this object.                                           *)
BlockIds == \A e \in block.entries : e.op.id <= lastBlockOpId

LogIds == InUse => \A k \in Earlier : \A e \in log[k].entries :
    /\ e.op.epoch = epoch /\ e.op.id <= lastBlockOpId
    /\ e.kind = "op" => e.op.id <= lastFlushedOpId

(* After a crash, too, the file is of one object.                           *)
OneEpoch == \A k, l \in Readable(log) : \A e \in log[k].entries, f \in log[l].entries :
    e.op.epoch = f.op.epoch

(* A marked operation is neither acknowledged nor pending.                  *)
Settled(op) == op \notin acked /\ (op.epoch = epoch => op.id \notin pending)

MarkersSettled ==
    /\ \A e \in block.entries : e.kind = "done" => Settled(e.op)
    /\ \A k \in Readable(log) : \A e \in log[k].entries : e.kind = "done" => Settled(e.op)

BlockInOrder == \A e, f \in block.entries :
    e.kind = "op" /\ f.kind = "op" /\ e.at < f.at => e.op.id < f.op.id

(* No two entries of the block say the same.                                *)
BlockOnce == \A e, f \in block.entries : e.kind = f.kind /\ e.op = f.op => e = f

(* No operation is marked twice (LogIds says it of registrations).          *)
MarkedOnce == \A k \in Earlier : \A e \in log[k].entries, f \in block.entries :
    e.kind = "done" /\ f.kind = "done" => e.op # f.op

(* Each entry of the block has a call that waits for it.                    *)
EntriesHaveCalls == \A e \in block.entries : \E t \in Threads :
    /\ lastFlushedOpId < call[t].id
    /\ \/ e.kind = "op" /\ Registering(t) /\ e.op = Op(call[t].id)
       \/ e.kind = "done" /\ Updating(t) /\ e.op = Op(call[t].target)

(* No operation is being completed twice.                                   *)
UpdatesDiffer == \A t, u \in Threads :
    Updating(t) /\ Updating(u) /\ t # u => call[t].target # call[u].target

UpdatesSettled == \A t \in Threads : Updating(t) => Settled(Op(call[t].target))

LogInv ==
    /\ BeingPublished /\ NothingFailed /\ NoneTornInUse
    /\ BlockLaidOut /\ RoomForEntry
    /\ BlockIds /\ LogIds /\ OneEpoch
    /\ MarkersSettled /\ BlockInOrder /\ BlockOnce /\ MarkedOnce
    /\ EntriesHaveCalls /\ UpdatesDiffer /\ UpdatesSettled
    /\ Verifies(log) /\ BlocksWellFormed /\ ReportedOnce /\ ReplayInOrder
=============================================================================
