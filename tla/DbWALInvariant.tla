--------------------------- MODULE DbWALInvariant ---------------------------
(***************************************************************************)
(* Why an acknowledged operation is in the log: the invariant that every    *)
(* step of DbWAL preserves when IDs do not wrap and opening the file keeps  *)
(* its contents, whatever the I/O errors, crashes and entry sizes.          *)
(***************************************************************************)
EXTENDS DbWAL

InCall(t) == call[t].kind \in {"register", "update"}

(* A call that has put its entry in the block and has not returned.         *)
Registering(t) == call[t].kind = "register" /\ call[t].placed

InBlock(op) == \E e \in block.entries : e.kind = "op" /\ e.op = op

(* _mtxBlock.                                                               *)
MutualExclusion == \A t, u \in Threads :
    pc[t] \in InCriticalSection /\ pc[u] \in InCriticalSection => t = u

(* What a thread's program counter says of its call.                        *)
CallMatchesPc == \A t \in Threads :
    /\ pc[t] = "idle" => call[t] = NoCall
    /\ pc[t] = "place" => InCall(t) /\ ~call[t].placed
    /\ pc[t] \in {"wait", "timedout", "done"} => InCall(t) /\ call[t].placed
    /\ pc[t] \in {"flush", "publish"} => InCall(t) \/ (call[t].kind = "close" /\ ~call[t].placed)

QuietUnlessRunning == status \notin {"running", "closed"} => AllIdle

(* The counters of the IDs do not overtake each other.                      *)
IdOrder == /\ lastFlushedOpId <= lastBlockOpId
           /\ lastBlockOpId <= lastOpId
           /\ lastOpId = issued

(* The ID of the thread in the critical section is the newest, and not yet  *)
(* in the block; those of the waiting threads are, and differ.              *)
NewIdIsLast == \A t \in Threads :
    pc[t] \in InCriticalSection /\ InCall(t) /\ ~call[t].placed =>
        call[t].id = lastOpId /\ lastBlockOpId < call[t].id

WaitersInBlock == \A t \in Threads : call[t].placed => call[t].id <= lastBlockOpId

PendingInBlock == \A id \in pending : id <= lastBlockOpId

WaitersDiffer == \A t, u \in Threads :
    call[t].placed /\ call[u].placed /\ t # u => call[t].id # call[u].id

(* The entry of a waiting registration is in the block until the flush that *)
(* covers its ID is published, and in the file from then on.                *)
WaitersEntry == \A t \in Threads : Registering(t) =>
    /\ call[t].id \in pending
    /\ Op(call[t].id) \notin acked
    /\ IF lastFlushedOpId < call[t].id THEN InBlock(Op(call[t].id))
                                       ELSE InLog(Op(call[t].id), log)
    /\ pc[t] = "done" => ~(lastFlushedOpId < call[t].id)

(* Between the write and the publication the file ends in the block.        *)
WrittenBlock == \A t \in Threads :
    pc[t] = "publish" => \E k \in Readable(log) : log[k].entries = block.entries

(* An update in progress is of an operation that was acknowledged.          *)
UpdatesAcked == \A t \in Threads :
    call[t].kind = "update" /\ ~call[t].placed => Op(call[t].target) \in acked

(* What this object acknowledged is what it has pending.                    *)
AckedPending == status \in {"running", "closed"} =>
    \A op \in acked : op.epoch = epoch /\ op.id \in pending

IInv == /\ TypeOK
        /\ MutualExclusion /\ CallMatchesPc /\ QuietUnlessRunning
        /\ IdOrder /\ NewIdIsLast /\ WaitersInBlock /\ PendingInBlock /\ WaitersDiffer
        /\ WaitersEntry /\ WrittenBlock /\ UpdatesAcked /\ AckedPending
        /\ AckedInLog
=============================================================================
