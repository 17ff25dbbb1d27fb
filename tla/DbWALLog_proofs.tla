--------------------------- MODULE DbWALLog_proofs ---------------------------
(***************************************************************************)
(* First the calls that wait: whatever the I/O errors and the sizes of      *)
(* entries, a finished operation is not replayed, and a block with entries  *)
(* has somebody who will flush it.  Then the contents of the log file, when *)
(* nothing fails but the process and every entry fits an empty block        *)
(* (FaultFree); and, under the same conditions, that every step of DbWAL is *)
(* a step of WalService or changes nothing that the service sees.           *)
(***************************************************************************)
EXTENDS DbWALLogInvariant, DbWALRefinement, DbWAL_proofs

(* What a file holds after a block was appended to it.                      *)
LEMMA AppendBlocks ==
    ASSUME NEW f \in Seq(LogBlocks), NEW b \in LogBlocks
    PROVE  /\ Append(f, b) \in Seq(LogBlocks)
           /\ Len(f) \in Nat /\ Len(Append(f, b)) = Len(f) + 1
           /\ DOMAIN f = 1 .. Len(f) /\ DOMAIN Append(f, b) = 1 .. Len(f) + 1
           /\ \A k \in DOMAIN f : Append(f, b)[k] = f[k]
           /\ Append(f, b)[Len(f) + 1] = b
           /\ Readable(Append(f, b)) = Readable(f) \cup (IF b.torn THEN {} ELSE {Len(f) + 1})
           /\ Readable(f) \subseteq DOMAIN f /\ Len(f) + 1 \notin Readable(f)
<1>1. /\ Append(f, b) \in Seq(LogBlocks)
      /\ Len(f) \in Nat /\ Len(Append(f, b)) = Len(f) + 1
      /\ DOMAIN f = 1 .. Len(f) /\ DOMAIN Append(f, b) = 1 .. Len(f) + 1
      /\ \A k \in 1 .. Len(f) : Append(f, b)[k] = f[k]
      /\ Append(f, b)[Len(f) + 1] = b
  OBVIOUS
<1>2. Readable(f) \subseteq DOMAIN f /\ Len(f) + 1 \notin Readable(f)
  BY <1>1 DEF Readable
<1>3. Readable(Append(f, b)) = Readable(f) \cup (IF b.torn THEN {} ELSE {Len(f) + 1})
  BY <1>1 DEF Readable
<1> QED  BY <1>1, <1>2, <1>3

(* What can be read of a file after a write of the block, whole or in part: *)
(* what was there, and perhaps all entries of the block.                    *)
LEMMA PartialWriteEntries ==
    ASSUME NEW f \in Seq(LogBlocks), NEW b \in BlockRecords, NEW g \in AfterPartialWrite(f, b)
    PROVE  /\ \A k \in Readable(f) : k \in Readable(g) /\ g[k] = f[k]
           /\ \A k \in Readable(g) : \/ k \in Readable(f) /\ g[k] = f[k]
                                     \/ k = Len(f) + 1 /\ Len(g) = Len(f) + 1 /\ g[k].entries = b.entries
<1>1. Whole(b) \in LogBlocks /\ Torn(b) \in LogBlocks
  BY DEF Whole, Torn, LogBlocks, BlockRecords
<1>2. Whole(b).entries = b.entries /\ ~Whole(b).torn /\ Torn(b).torn
  BY DEF Whole, Torn
<1>3. CASE g = f
  BY <1>3
<1>4. CASE g = Append(f, Torn(b))
  BY <1>1, <1>2, <1>4, AppendBlocks
<1>5. CASE g = Append(f, Whole(b))
  BY <1>1, <1>2, <1>5, AppendBlocks
<1> QED  BY <1>3, <1>4, <1>5 DEF AfterPartialWrite

(* An operation that is gone stays gone when the block is written.          *)
LEMMA GoneStays ==
    ASSUME IInv, WaitInv, NEW op \in Ops, Gone(op), log' \in AfterPartialWrite(log, block) \/ log' = log,
           \/ epoch' = epoch /\ lastFlushedOpId <= lastFlushedOpId'
           \/ epoch' = epoch + 1,
           TypeOK'
    PROVE  Gone(op)'
<1>1. /\ log \in Seq(LogBlocks) /\ block \in BlockRecords
      /\ lastFlushedOpId \in Nat /\ lastFlushedOpId' \in Nat /\ epoch \in Nat
      /\ op.epoch \in Nat /\ op.id \in Nat
  BY ConstantsAssumption DEF IInv, TypeOK, LogBlocks, BlockRecords, OpIds, Ops
<1>2. \A k \in Readable(log) : k \in Readable(log') /\ log'[k] = log[k]
  BY <1>1, PartialWriteEntries
<1>3. MarkerInLog(op) => MarkerInLog(op)'
  BY <1>2 DEF MarkerInLog
<1>4. ~InBlock(op)
  BY <1>1 DEF WaitInv, BlockUnflushed, InBlock, Gone
<1>5. InLog(op, log') => InLog(op, log)
  <2>1. \A k \in Readable(log') : \/ k \in Readable(log) /\ log'[k] = log[k]
                                  \/ log'[k].entries = block.entries
    BY <1>1, PartialWriteEntries
  <2> QED  BY <1>4, <2>1 DEF InLog, InBlock
<1>6. op.epoch < epoch' \/ (op.epoch = epoch' /\ op.id <= lastFlushedOpId')
  BY <1>1 DEF Gone
<1> QED  BY <1>3, <1>5, <1>6 DEF Gone

LEMMA WaitTypes ==
    ASSUME TypeOK
    PROVE  /\ lastOpId \in Nat /\ lastBlockOpId \in Nat /\ lastFlushedOpId \in Nat /\ epoch \in Nat
           /\ \A t \in Threads : call[t].id \in Nat /\ call[t].target \in Nat
           /\ \A t \in Threads : Op(call[t].id) \in Ops /\ Op(call[t].target) \in Ops
           /\ acked \subseteq Ops /\ finished \subseteq Ops
           /\ log \in Seq(LogBlocks) /\ block \in BlockRecords
           /\ \A e \in block.entries : e.op.id \in Nat
BY ConstantsAssumption DEF TypeOK, OpIds, Calls, LogBlocks, BlockRecords, EntryRecords, Ops, Op

(* Steps that touch neither the block, the file nor what is published.      *)
LEMMA QuietKeepsWait ==
    ASSUME WaitInv,
           UNCHANGED <<lastFlushedOpId, log, epoch, acked, finished>>, block'.entries = block.entries,
           InUse' => InUse,
           \A t \in Threads : call'[t].placed => call[t].placed,
           \A t \in Threads : call[t].placed =>
               /\ call'[t] = call[t]
               /\ \/ pc'[t] = pc[t]
                  \/ pc[t] \in {"wait", "timedout"} /\ pc'[t] \in {"timedout", "flush"}
                  \/ pc'[t] = "done" /\ ~(lastFlushedOpId < call[t].id)
    PROVE  WaitInv'
<1> USE DEF WaitInv
<1>1. BlockUnflushed' /\ AckedFlushed'
  BY DEF BlockUnflushed, AckedFlushed, InUse
<1>2. FinishedGone'
  BY DEF FinishedGone, Gone, MarkerInLog
<1>3. WaitersMarker'
  <2> SUFFICES ASSUME NEW t \in Threads, Updating(t)' PROVE WaitersMarker!(t)!2'
    BY DEF WaitersMarker
  <2>1. Updating(t) /\ call'[t] = call[t] /\ Op(call[t].target)' = Op(call[t].target)
    BY DEF Updating, Op
  <2>2. \A op : (Gone(op)' <=> Gone(op)) /\ (MarkerInBlock(op)' <=> MarkerInBlock(op))
    BY DEF Gone, MarkerInLog, MarkerInBlock
  <2>3. pc'[t] = "done" => ~(lastFlushedOpId < call[t].id)
    BY <2>1 DEF WaitersMarker, Updating
  <2> QED  BY <2>1, <2>2, <2>3 DEF WaitersMarker
<1>4. FirstWriterStays'
  BY DEF FirstWriterStays
<1> QED  BY <1>1, <1>2, <1>3, <1>4

LEMMA WriteBlockKeepsWait ==
    ASSUME IInv, WaitInv, TypeOK', NEW t \in Threads, WriteBlock(t)
    PROVE  WaitInv'
<1> USE DEF WaitInv
<1>1. UNCHANGED <<call, lastFlushedOpId, block, epoch, status, acked, finished>>
  BY DEF WriteBlock, GoTo, objectVars, envVars, historyVars
<1>2. pc[t] = "flush" /\ pc'[t] = "publish" /\ \A u \in Threads : u # t => pc'[u] = pc[u]
  BY DEF WriteBlock, GoTo, IInv, TypeOK
<1>3. log' \in AfterPartialWrite(log, block)
  BY DEF WriteBlock, AfterPartialWrite
<1>4. \A op \in Ops : Gone(op) => Gone(op)'
  BY <1>1, <1>3, GoneStays, WaitTypes DEF IInv
<1>5. BlockUnflushed' /\ AckedFlushed'
  BY <1>1 DEF BlockUnflushed, AckedFlushed
<1>6. FinishedGone'
  BY <1>1, <1>4, WaitTypes DEF FinishedGone, IInv
<1>7. WaitersMarker'
  BY <1>1, <1>2, <1>4, WaitTypes DEF WaitersMarker, Updating, MarkerInBlock, Op, IInv
<1>8. FirstWriterStays'
  BY <1>1, <1>2 DEF FirstWriterStays
<1> QED  BY <1>5, <1>6, <1>7, <1>8

(* A marker that was in the block is now in the file.                       *)
LEMMA PublishKeepsWait ==
    ASSUME IInv, WaitInv, TypeOK', NEW t \in Threads, Publish(t)
    PROVE  WaitInv'
<1> USE DEF WaitInv
<1>1. /\ UNCHANGED <<log, epoch, acked, finished>>
      /\ lastFlushedOpId' = lastBlockOpId /\ block' = NewBlock
  BY DEF Publish, StartNewBlock, historyVars
<1>2. /\ pc[t] = "publish"
      /\ \A u \in Threads : u # t => pc'[u] = pc[u] /\ call'[u] = call[u]
      /\ \/ call'[t] = NoCall /\ ~call[t].placed /\ status' = "closed"
         \/ call'[t] = call[t] /\ status' = status
  BY DEF Publish, Finish, GoTo, IInv, TypeOK, CallMatchesPc, InCall
<1>3. InUse
  BY <1>2 DEF IInv, QuietUnlessRunning, AllIdle, InUse
<1>4. lastFlushedOpId <= lastFlushedOpId'
  BY <1>1 DEF IInv, IdOrder
<1>5. \A op \in Ops : Gone(op) => Gone(op)'
  BY <1>1, <1>4, GoneStays, WaitTypes DEF IInv
<1>6. BlockUnflushed' /\ FirstWriterStays'
  BY <1>1 DEF BlockUnflushed, FirstWriterStays, NewBlock
<1>7. AckedFlushed'
  BY <1>1, <1>3, <1>4, WaitTypes DEF AckedFlushed, InUse, IInv, TypeOK, Ops, OpIds
<1>8. FinishedGone'
  BY <1>1, <1>5, WaitTypes DEF FinishedGone, IInv
<1>9. WaitersMarker'
  <2> SUFFICES ASSUME NEW u \in Threads, Updating(u)' PROVE WaitersMarker!(u)!2'
    BY DEF WaitersMarker
  <2>1. Updating(u) /\ call'[u] = call[u] /\ ~(lastBlockOpId < call[u].id)
    BY <1>2, WaitTypes DEF Updating, NoCall, IInv, WaitersInBlock
  <2>2. call[u].target <= lastFlushedOpId'
    BY <1>1, <1>4, <2>1, WaitTypes DEF WaitersMarker, IInv
  <2>3. Gone(Op(call[u].target))'
    <3>1. CASE lastFlushedOpId < call[u].id
      <4>1. MarkerInLog(Op(call[u].target))
        BY <1>2, <2>1, <3>1 DEF WaitersMarker, MarkerInBlock, MarkerInLog, IInv, WrittenBlock
      <4>2. Op(call[u].target)' = Op(call[u].target)
        BY <1>1, <2>1 DEF Op
      <4>3. Op(call[u].target).epoch = epoch' /\ Op(call[u].target).id = call[u].target
        BY <1>1 DEF Op
      <4> QED  BY <1>1, <2>2, <4>1, <4>2, <4>3 DEF Gone, MarkerInLog
    <3>2. CASE ~(lastFlushedOpId < call[u].id)
      <4>1. Op(call[u].target) \in Ops /\ Gone(Op(call[u].target))
        BY <2>1, <3>2, WaitTypes DEF WaitersMarker, IInv
      <4>2. Op(call[u].target)' = Op(call[u].target)
        BY <1>1, <2>1 DEF Op
      <4> QED  BY <1>5, <4>1, <4>2
    <3> QED  BY <3>1, <3>2
  <2> QED  BY <1>1, <2>1, <2>2, <2>3 DEF Op
<1> QED  BY <1>6, <1>7, <1>8, <1>9

LEMMA PlaceKeepsWait ==
    ASSUME IInv, WaitInv, TypeOK', NEW t \in Threads, Place(t)
    PROVE  WaitInv'
<1> USE DEF WaitInv
<1>1. UNCHANGED <<lastFlushedOpId, log, epoch, status, finished>>
  BY DEF Place, envVars
<1>2. /\ pc[t] = "place" /\ pc'[t] = "wait" /\ InCall(t) /\ ~call[t].placed
      /\ \A u \in Threads : u # t => pc'[u] = pc[u] /\ call'[u] = call[u]
      /\ call' = [call EXCEPT ![t] = [call[t] EXCEPT !.placed = TRUE, !.first = FirstWriter]]
  BY DEF Place, IInv, TypeOK, CallMatchesPc
<1>3. /\ call'[t].placed /\ call'[t].first = (block.entries = {})
      /\ call'[t].kind = call[t].kind /\ call'[t].id = call[t].id /\ call'[t].target = call[t].target
  BY <1>2 DEF IInv, TypeOK, Calls, FirstWriter, BlockIsEmpty
<1>4. lastFlushedOpId < call[t].id
  BY <1>2, WaitTypes DEF IInv, NewIdIsLast, IdOrder, InCriticalSection
<1>5. InUse
  BY <1>2 DEF IInv, QuietUnlessRunning, AllIdle, InUse
<1>6. CASE call[t].kind = "register"
  <2> DEFINE entry == [kind |-> "op", op |-> Op(call[t].id), at |-> block.pos, len |-> call[t].len]
  <2>1. block'.entries = block.entries \cup {entry} /\ acked' = acked
    BY <1>6 DEF Place, PutEntry
  <2>2. entry.kind = "op" /\ entry.op = Op(call[t].id)
    OBVIOUS
  <2>3. Op(call[t].id).epoch = epoch /\ Op(call[t].id).id = call[t].id
    BY DEF Op
  <2> HIDE DEF entry
  <2>4. BlockUnflushed'
    BY <1>1, <1>4, <2>1, <2>2, <2>3 DEF BlockUnflushed
  <2>5. AckedFlushed' /\ FinishedGone'
    BY <1>1, <2>1 DEF AckedFlushed, FinishedGone, Gone, MarkerInLog
  <2>6. WaitersMarker'
    <3> SUFFICES ASSUME NEW u \in Threads, Updating(u)' PROVE WaitersMarker!(u)!2'
      BY DEF WaitersMarker
    <3>1. u # t /\ Updating(u) /\ call'[u] = call[u] /\ pc'[u] = pc[u]
      BY <1>2, <1>3, <1>6 DEF Updating
    <3> QED  BY <1>1, <2>1, <3>1 DEF WaitersMarker, Gone, MarkerInLog, MarkerInBlock, Op
  <2>7. FirstWriterStays'
    BY <1>1, <1>2, <1>3, <1>4, <2>1 DEF FirstWriterStays
  <2> QED  BY <2>4, <2>5, <2>6, <2>7
<1>7. CASE call[t].kind = "update"
  <2> DEFINE entry == [kind |-> "done", op |-> Op(call[t].target), at |-> block.pos, len |-> call[t].len]
  <2>1. block'.entries = block.entries \cup {entry} /\ acked' \subseteq acked
    BY <1>7 DEF Place, PutEntry
  <2>2. entry.kind = "done" /\ entry.op = Op(call[t].target)
    OBVIOUS
  <2>3. Op(call[t].target).epoch = epoch /\ Op(call[t].target).id = call[t].target
    BY DEF Op
  <2> HIDE DEF entry
  <2>4. BlockUnflushed'
    BY <1>1, <2>1, <2>2, <2>3 DEF BlockUnflushed
  <2>5. AckedFlushed' /\ FinishedGone'
    BY <1>1, <2>1 DEF AckedFlushed, FinishedGone, Gone, MarkerInLog
  <2>6. WaitersMarker'
    <3> SUFFICES ASSUME NEW u \in Threads, Updating(u)' PROVE WaitersMarker!(u)!2'
      BY DEF WaitersMarker
    <3>1. CASE u # t
      <4>1. Updating(u) /\ call'[u] = call[u] /\ pc'[u] = pc[u]
        BY <1>2, <3>1 DEF Updating
      <4> QED  BY <1>1, <2>1, <4>1 DEF WaitersMarker, Gone, MarkerInLog, MarkerInBlock, Op
    <3>2. CASE u = t
      <4>1. call[t].target <= lastFlushedOpId
        BY <1>2, <1>5, <1>7, <2>3 DEF IInv, UpdatesAcked, AckedFlushed, InUse
      <4>2. MarkerInBlock(Op(call[t].target))'
        BY <1>1, <1>3, <2>1, <2>2 DEF MarkerInBlock, Op
      <4> QED  BY <1>1, <1>2, <1>3, <1>4, <3>2, <4>1, <4>2 DEF Op
    <3> QED  BY <3>1, <3>2
  <2>7. FirstWriterStays'
    BY <1>1, <1>2, <1>3, <1>4, <2>1 DEF FirstWriterStays
  <2> QED  BY <2>4, <2>5, <2>6, <2>7
<1> QED  BY <1>2, <1>6, <1>7 DEF InCall

(* The update that returns is one whose marker was published.               *)
LEMMA ReturnKeepsWait ==
    ASSUME IInv, WaitInv, TypeOK', NEW t \in Threads, Return(t)
    PROVE  WaitInv'
<1> USE DEF WaitInv
<1>1. UNCHANGED <<lastFlushedOpId, block, log, epoch, status>>
  BY DEF Return, objectVars, envVars
<1>2. /\ InCall(t) /\ call[t].placed /\ call'[t] = NoCall
      /\ \A u \in Threads : u # t => pc'[u] = pc[u] /\ call'[u] = call[u]
  BY DEF Return, Finish, IInv, TypeOK, CallMatchesPc
<1>3. ~(lastFlushedOpId < call[t].id)
  BY <1>2 DEF Return, Flushed, InCall, WaitersMarker, Updating, IInv, WaitersEntry, Registering
<1>4. \/ call[t].kind = "register" /\ acked' = acked \cup {Op(call[t].id)} /\ finished' = finished
      \/ Updating(t) /\ acked' = acked /\ finished' = finished \cup {Op(call[t].target)}
  BY <1>2 DEF Return, Updating
<1>5. \A op : (Gone(op)' <=> Gone(op)) /\ (MarkerInBlock(op)' <=> MarkerInBlock(op))
  BY <1>1 DEF Gone, MarkerInLog, MarkerInBlock
<1>6. BlockUnflushed'
  BY <1>1 DEF BlockUnflushed
<1>7. AckedFlushed'
  BY <1>1, <1>3, <1>4, WaitTypes DEF AckedFlushed, Op, IInv
<1>8. FinishedGone'
  BY <1>3, <1>4, <1>5 DEF FinishedGone, WaitersMarker
<1>9. WaitersMarker'
  <2> SUFFICES ASSUME NEW u \in Threads, Updating(u)' PROVE WaitersMarker!(u)!2'
    BY DEF WaitersMarker
  <2>1. u # t /\ Updating(u) /\ call'[u] = call[u] /\ pc'[u] = pc[u]
    BY <1>2 DEF Updating, NoCall
  <2>2. Op(call[u].target)' = Op(call[u].target)
    BY <1>1, <2>1 DEF Op
  <2> QED  BY <1>1, <1>5, <2>1, <2>2 DEF WaitersMarker
<1>10. FirstWriterStays'
  BY <1>1, <1>2, <1>3 DEF FirstWriterStays
<1> QED  BY <1>6, <1>7, <1>8, <1>9, <1>10

(* With the object its calls are lost, and the entries of the block.        *)
LEMMA ObjectLostKeepsWait ==
    ASSUME IInv, WaitInv, TypeOK', ObjectLost, UNCHANGED finished,
           log' \in AfterPartialWrite(log, block) \/ log' = log
    PROVE  WaitInv'
<1> USE DEF WaitInv
<1>1. /\ \A u \in Threads : ~call'[u].placed
      /\ block'.entries = {} /\ status' = "down" /\ epoch' = epoch + 1
  BY DEF ObjectLost, NoCall, NewBlock
<1>2. BlockUnflushed' /\ AckedFlushed' /\ WaitersMarker' /\ FirstWriterStays'
  BY <1>1 DEF BlockUnflushed, AckedFlushed, WaitersMarker, FirstWriterStays, Updating
<1>3. FinishedGone'
  BY <1>1, GoneStays, WaitTypes DEF FinishedGone, IInv
<1> QED  BY <1>2, <1>3

LEMMA FlushFailsKeepsWait ==
    ASSUME IInv, WaitInv, TypeOK', NEW t \in Threads, pc[t] = "flush", NEW p \in Positions,
           FlushFails(t, p), UNCHANGED <<acked, finished>>,
           log' \in AfterPartialWrite(log, block) \/ log' = log
    PROVE  WaitInv'
<1>1. CASE call[t].placed
  BY <1>1, ObjectLostKeepsWait DEF FlushFails
<1>2. CASE ~call[t].placed
  <2> USE DEF WaitInv
  <2>1. UNCHANGED <<lastFlushedOpId, status, epoch>> /\ block'.entries = block.entries
    BY <1>2 DEF FlushFails, IInv, TypeOK
  <2>2. /\ pc'[t] = "idle" /\ call'[t] = NoCall
        /\ \A u \in Threads : u # t => pc'[u] = pc[u] /\ call'[u] = call[u]
    BY <1>2 DEF FlushFails, Finish, IInv, TypeOK
  <2>3. \A op \in Ops : Gone(op) => Gone(op)'
    BY <2>1, GoneStays, WaitTypes DEF IInv
  <2>4. BlockUnflushed' /\ AckedFlushed'
    BY <2>1 DEF BlockUnflushed, AckedFlushed
  <2>5. FinishedGone'
    BY <2>3, WaitTypes DEF FinishedGone, IInv
  <2>6. WaitersMarker'
    <3> SUFFICES ASSUME NEW u \in Threads, Updating(u)' PROVE WaitersMarker!(u)!2'
      BY DEF WaitersMarker
    <3>1. u # t /\ Updating(u) /\ call'[u] = call[u] /\ pc'[u] = pc[u]
      BY <2>2 DEF Updating, NoCall
    <3>2. Op(call[u].target)' = Op(call[u].target) /\ Op(call[u].target) \in Ops
      BY <2>1, <3>1, WaitTypes DEF Op, IInv
    <3>3. MarkerInBlock(Op(call[u].target)) => MarkerInBlock(Op(call[u].target))'
      BY <2>1, <3>2 DEF MarkerInBlock
    <3> QED  BY <2>1, <2>3, <3>1, <3>2, <3>3 DEF WaitersMarker
  <2>7. FirstWriterStays'
    BY <1>2, <2>1, <2>2 DEF FirstWriterStays
  <2> QED  BY <2>4, <2>5, <2>6, <2>7
<1> QED  BY <1>1, <1>2

LEMMA OwnerKeepsWait ==
    ASSUME IInv, WaitInv, TypeOK', OpenLogFile \/ VerifyLog \/ VerifyLogFails \/ ClearLog \/ Crash
    PROVE  WaitInv'
<1> USE DEF WaitInv
<1>1. CASE OpenLogFile \/ VerifyLog \/ VerifyLogFails
  <2>1. UNCHANGED <<pc, call, lastFlushedOpId, epoch>> /\ AllIdle
    BY <1>1 DEF OpenLogFile, VerifyLog, VerifyLogFails, objectVars, IInv, QuietUnlessRunning
  <2>2. \A u \in Threads : ~call[u].placed
    BY <2>1 DEF AllIdle, IInv, CallMatchesPc, NoCall
  <2>3. block.entries = {} \/ block'.entries = {}
    BY <2>2 DEF FirstWriterStays
  <2>4. block' = block \/ block'.entries = {}
    BY <1>1 DEF OpenLogFile, StartNewBlock, NewBlock, VerifyLog, VerifyLogFails, objectVars
  <2>5. BlockUnflushed' /\ FirstWriterStays' /\ WaitersMarker'
    BY <2>1, <2>2, <2>3, <2>4 DEF BlockUnflushed, FirstWriterStays, WaitersMarker, Updating
  <2>6. AckedFlushed'
    BY <1>1 DEF AckedFlushed, OpenLogFile, VerifyLog, VerifyLogFails
  <2>7. finished' = {} \/ (finished' = finished /\ (log' = log \/ log' = <<>>))
    BY <1>1 DEF OpenLogFile, VerifyLog, VerifyLogFails, historyVars
  <2>8. \A op : Gone(op) /\ (log' = log \/ log' = <<>>) => Gone(op)'
    BY <2>1 DEF Gone, MarkerInLog, InLog, Readable
  <2>9. FinishedGone'
    BY <2>7, <2>8 DEF FinishedGone
  <2> QED  BY <2>5, <2>6, <2>9
<1>2. CASE ClearLog
  <2>1. UNCHANGED <<pc, call, lastFlushedOpId, epoch, block, status, acked>> /\ log' = <<>> /\ finished' = {}
    BY <1>2 DEF ClearLog, objectVars, envVars
  <2>2. \A op : Gone(op) => Gone(op)'
    BY <2>1 DEF Gone, MarkerInLog, InLog, Readable
  <2>3. \A op : MarkerInBlock(op) => MarkerInBlock(op)'
    BY <2>1 DEF MarkerInBlock
  <2>4. BlockUnflushed' /\ FirstWriterStays' /\ AckedFlushed' /\ FinishedGone'
    BY <2>1 DEF BlockUnflushed, FirstWriterStays, AckedFlushed, FinishedGone
  <2>5. WaitersMarker'
    <3> SUFFICES ASSUME NEW u \in Threads, Updating(u)' PROVE WaitersMarker!(u)!2'
      BY DEF WaitersMarker
    <3>1. Updating(u) /\ Op(call[u].target)' = Op(call[u].target)
      BY <2>1 DEF Updating, Op
    <3> QED  BY <2>1, <2>2, <2>3, <3>1 DEF WaitersMarker
  <2> QED  BY <2>4, <2>5
<1>3. CASE Crash
  <2>1. ObjectLost /\ UNCHANGED finished /\ (log' \in AfterPartialWrite(log, block) \/ log' = log)
    BY <1>3 DEF Crash, historyVars
  <2> QED  BY <2>1, ObjectLostKeepsWait
<1> QED  BY <1>1, <1>2, <1>3

LEMMA WaitStep == IInv /\ WaitInv /\ [Next]_vars => WaitInv'
<1> SUFFICES ASSUME IInv, WaitInv, [Next]_vars PROVE WaitInv'
  OBVIOUS
<1>1. TypeOK'
  BY TypeStep DEF IInv
<1>2. CASE UNCHANGED vars
  <2>1. UNCHANGED <<lastFlushedOpId, log, epoch, acked, finished, block, status, call, pc>>
    BY <1>2 DEF vars, objectVars, envVars, historyVars
  <2> QED  BY <2>1, QuietKeepsWait DEF InUse
<1>3. ASSUME NEW t \in Threads, TimeoutExpires(t) \/ LockAfterTimeout(t)
      PROVE  WaitInv'
  <2>1. UNCHANGED <<lastFlushedOpId, log, epoch, acked, finished, block, status, call>>
    BY <1>3 DEF TimeoutExpires, LockAfterTimeout, GoTo, objectVars, envVars, historyVars
  <2>2. /\ \A u \in Threads : u # t => pc'[u] = pc[u]
        /\ pc[t] \in {"wait", "timedout"}
        /\ pc'[t] \in {"timedout", "flush"} \/ (pc'[t] = "done" /\ ~(lastFlushedOpId < call[t].id))
    BY <1>3 DEF TimeoutExpires, LockAfterTimeout, GoTo, Flushed, IInv, TypeOK
  <2> QED  BY <2>1, <2>2, QuietKeepsWait DEF InUse
<1>4. ASSUME NEW t \in Threads, NEW kind, NEW target, NEW len, TakeIdAndLock(t, kind, target, len)
      PROVE  WaitInv'
  <2>1. UNCHANGED <<lastFlushedOpId, log, epoch, acked, finished, block, status>>
    BY <1>4 DEF TakeIdAndLock, envVars, historyVars
  <2>2. /\ \A u \in Threads : u # t => pc'[u] = pc[u] /\ call'[u] = call[u]
        /\ ~call[t].placed /\ ~call'[t].placed
    BY <1>4 DEF TakeIdAndLock, IInv, TypeOK, CallMatchesPc, NoCall
  <2> QED  BY <2>1, <2>2, QuietKeepsWait DEF InUse
<1>5. ASSUME NEW t \in Threads, CloseLogFile(t)
      PROVE  WaitInv'
  <2>1. /\ UNCHANGED <<lastFlushedOpId, log, epoch, acked, finished, block>>
        /\ status = "running"
    BY <1>5 DEF CloseLogFile, objectVars, historyVars
  <2>2. /\ \A u \in Threads : u # t => pc'[u] = pc[u] /\ call'[u] = call[u]
        /\ ~call[t].placed /\ ~call'[t].placed
    BY <1>5 DEF CloseLogFile, IInv, TypeOK, CallMatchesPc, NoCall
  <2> QED  BY <2>1, <2>2, QuietKeepsWait DEF InUse
<1>6. ASSUME NEW t \in Threads, PlaceFails(t)
      PROVE  WaitInv'
  <2>1. UNCHANGED <<lastFlushedOpId, log, epoch, acked, finished, block, status>>
    BY <1>6 DEF PlaceFails, envVars, historyVars
  <2>2. /\ \A u \in Threads : u # t => pc'[u] = pc[u] /\ call'[u] = call[u]
        /\ ~call[t].placed /\ ~call'[t].placed
    BY <1>6 DEF PlaceFails, Finish, IInv, TypeOK, CallMatchesPc, NoCall
  <2> QED  BY <2>1, <2>2, QuietKeepsWait DEF InUse
<1>7. ASSUME NEW t \in Threads, WriteBlockFails(t) \/ FlushOfEmptyBlockFails(t)
      PROVE  WaitInv'
  <2>1. /\ 0 \in Positions /\ BlockSize \in Positions /\ pc[t] = "flush"
        /\ FlushFails(t, 0) \/ FlushFails(t, BlockSize)
        /\ UNCHANGED <<acked, finished>>
        /\ log' \in AfterPartialWrite(log, block) \/ log' = log
    BY <1>7, Sizes DEF WriteBlockFails, FlushOfEmptyBlockFails, Positions, historyVars
  <2> QED  BY <1>1, <2>1, FlushFailsKeepsWait
<1>8. ASSUME NEW t \in Threads, Client(t) PROVE WaitInv'
  BY <1>4, <1>5, <1>8 DEF Client, RegisterOperation, UpdateOpStatus
<1>9. ASSUME NEW t \in Threads, Proceed(t) PROVE WaitInv'
  BY <1>1, <1>3, <1>6, <1>7, <1>9, WriteBlockKeepsWait, PublishKeepsWait, PlaceKeepsWait,
     ReturnKeepsWait DEF Proceed
<1> QED  BY <1>1, <1>2, <1>7, <1>8, <1>9, OwnerKeepsWait DEF Next

LEMMA WaitInit == Init => WaitInv
BY DEF Init, WaitInv, BlockUnflushed, AckedFlushed, WaitersMarker, FinishedGone, FirstWriterStays,
   Updating, NoCall, NewBlock

LEMMA WaitingCorrect ==
    ASSUME MaxOps < IdModulus, TruncatesOnOpen = FALSE
    PROVE  Spec => [](IInv /\ WaitInv)
<1>1. IInv /\ [Next]_vars => IInv'
  BY InvStep
<1> QED  BY InvInit, WaitInit, <1>1, WaitStep, PTL DEF Spec

(* An operation whose updateOpStatus() returned is not replayed, whatever   *)
(* the I/O errors and crashes: as long as IDs do not wrap and opening the   *)
(* log file keeps what is in it.                                            *)
THEOREM FinishedStaysFinished ==
    ASSUME MaxOps < IdModulus, TruncatesOnOpen = FALSE
    PROVE  Spec => []FinishedNotReported
<1>1. IInv /\ WaitInv => FinishedNotReported
  <2> SUFFICES ASSUME WaitInv, NEW op \in finished, op \in Reported(log) PROVE FALSE
    BY DEF FinishedNotReported
  <2>1. InLog(op, log) /\ op.id \notin CompletedIds(log)
    BY DEF Reported, Entries, InLog
  <2>2. MarkerInLog(op)
    BY <2>1 DEF WaitInv, FinishedGone, Gone
  <2>3. op.id \in CompletedIds(log)
    BY <2>2 DEF MarkerInLog, CompletedIds, Entries
  <2> QED  BY <2>1, <2>3
<1> QED  BY <1>1, WaitingCorrect, PTL

(* Whenever the mutex is free and the block is not empty, the call that     *)
(* found it empty is there to flush it: no entry is left in the block with  *)
(* everybody spinning, whatever flush failed before.                        *)
THEOREM SomebodyFlushes ==
    ASSUME MaxOps < IdModulus, TruncatesOnOpen = FALSE
    PROVE  Spec => []Responsible
<1>1. IInv /\ WaitInv => Responsible
  BY DEF WaitInv, FirstWriterStays, Responsible, MutexFree, InCriticalSection, Flushed
<1> QED  BY <1>1, WaitingCorrect, PTL

-----------------------------------------------------------------------------
(* The contents of the log file.                                           *)

LEMMA EntryTypes ==
    ASSUME TypeOK
    PROVE  /\ \A e \in block.entries :
                /\ e.kind \in {"op", "done"} /\ e.op \in Ops /\ e.op.id \in Nat
                /\ e.at \in Nat /\ e.len \in Nat
           /\ \A k \in Readable(log) : \A e \in log[k].entries :
                /\ e.kind \in {"op", "done"} /\ e.op \in Ops /\ e.op.id \in Nat
                /\ e.at \in Nat /\ e.len \in Nat
           /\ block.pos \in Nat /\ block.pos \in Positions
           /\ \A k \in DOMAIN log : log[k].torn \in BOOLEAN
           /\ DOMAIN log = 1 .. Len(log) /\ Len(log) \in Nat
           /\ Readable(log) \subseteq DOMAIN log
<1>1. \A e \in EntryRecords : /\ e.kind \in {"op", "done"} /\ e.op \in Ops /\ e.op.id \in Nat
                              /\ e.at \in Nat /\ e.len \in Nat
  BY ConstantsAssumption DEF EntryRecords, Ops, OpIds, Positions
<1>2. block.entries \subseteq EntryRecords /\ block.pos \in Positions
  BY DEF TypeOK
<1>3. \A k \in DOMAIN log : log[k].entries \subseteq EntryRecords /\ log[k].torn \in BOOLEAN
  <2>1. log \in Seq(LogBlocks)
    BY DEF TypeOK, LogBlocks
  <2>2. \A k \in DOMAIN log : log[k] \in LogBlocks
    BY <2>1
  <2> QED  BY <2>2 DEF LogBlocks
<1>4. DOMAIN log = 1 .. Len(log) /\ Len(log) \in Nat
  BY DEF TypeOK
<1> QED  BY <1>1, <1>2, <1>3, <1>4 DEF Readable, Positions

(* Whether an entry of a given size goes into the block as it is.           *)
LEMMA Room ==
    ASSUME NEW b, b.pos \in Nat, b.pos <= BlockSize - ChecksumSize - CountSize, NEW len \in Nat
    PROVE  NewBlockRequired(b, len) <=> b.pos + len > 4063
BY SizeModulusAssumption, Sizes DEF NewBlockRequired, Unsigned, RemainingCapacity

LEMMA RoomInNewBlock ==
    ASSUME NEW len \in Nat
    PROVE  NewBlockRequired(NewBlock, len) <=> len > 4061
<1>1. NewBlock.pos \in Nat /\ NewBlock.pos = 2
  BY Sizes DEF NewBlock
<1> QED  BY <1>1, Room, Sizes

(* The block as it is laid out is one that verifyLog() accepts.             *)
LEMMA BlockVerifies ==
    ASSUME TypeOK, BlockLaidOut, block.entries # {}
    PROVE  WellFormed(Whole(block))
<1>1. Whole(block).entries = block.entries
  BY DEF Whole
<1>2. \A e \in block.entries : e.at >= CountSize /\ e.at + e.len <= BlockSize - ChecksumSize
  BY EntryTypes, Sizes DEF BlockLaidOut
<1> QED  BY <1>1, <1>2 DEF WellFormed, BlockLaidOut

(* What a write of the block, whole or in part, leaves of the promises that *)
(* the file itself keeps.                                                   *)
LEMMA WriteKeepsLog ==
    ASSUME IInv, WaitInv, LogInv, InUse, ~Publishing, block.entries # {},
           log' \in AfterPartialWrite(log, block), TypeOK'
    PROVE  OneEpoch' /\ Verifies(log') /\ BlocksWellFormed' /\ ReportedOnce' /\ ReplayInOrder'
<1> USE DEF LogInv
<1>t. TypeOK /\ log \in Seq(LogBlocks) /\ block \in BlockRecords
  BY WaitTypes DEF IInv
<1>1. \A k \in Readable(log') :
        \/ k \in Readable(log) /\ k <= Len(log) /\ log'[k] = log[k]
        \/ k = Len(log) + 1 /\ log'[k].entries = block.entries
  BY <1>t, PartialWriteEntries, EntryTypes
<1>2. Earlier = Readable(log)
  BY DEF Earlier
<1>3. \A k \in Readable(log) : \A e \in log[k].entries :
        e.op.epoch = epoch /\ (e.kind = "op" => e.op.id <= lastFlushedOpId)
  BY <1>2 DEF LogIds
<1>4. \A e \in block.entries :
        e.op.epoch = epoch /\ (e.kind = "op" => lastFlushedOpId < e.op.id)
  BY DEF WaitInv, BlockUnflushed
<1>5. OneEpoch'
  BY <1>1, <1>3, <1>4 DEF OneEpoch
<1>6. WellFormed(Whole(block))
  BY <1>t, BlockVerifies
<1>7. Whole(block) \in LogBlocks /\ Torn(block) \in LogBlocks /\ ~Whole(block).torn /\ Torn(block).torn
  BY <1>t DEF Whole, Torn, LogBlocks, BlockRecords
<1>8. \/ log' = log
      \/ \E b \in LogBlocks : log' = Append(log, b) /\ (b.torn \/ WellFormed(b))
  BY <1>6, <1>7 DEF AfterPartialWrite
<1>9. Verifies(log')
  <2>1. CASE log' = log
    BY <2>1
  <2>2. ASSUME NEW b \in LogBlocks, log' = Append(log, b), b.torn \/ WellFormed(b)
        PROVE  Verifies(log')
    <3>1. \A k \in DOMAIN log : ~log[k].torn /\ WellFormed(log[k])
      BY DEF NoneTornInUse, Verifies
    <3>2. \A k \in DOMAIN log' : (k \in DOMAIN log /\ log'[k] = log[k]) \/ (k = Len(log') /\ log'[k] = b)
      BY <1>t, <2>2, AppendBlocks
    <3> QED  BY <2>2, <3>1, <3>2 DEF Verifies
  <2> QED  BY <1>8, <2>1, <2>2
<1>10. BlocksWellFormed'
  BY <1>9, <1>t, EntryTypes DEF BlocksWellFormed, Verifies, Readable
<1>11. ReportedOnce'
  <2> SUFFICES ASSUME NEW k \in Readable(log'), NEW l \in Readable(log'),
                      NEW e \in log'[k].entries, NEW f \in log'[l].entries,
                      e.kind = f.kind, e.op = f.op
               PROVE  k = l /\ e = f
    BY DEF ReportedOnce
  <2>1. CASE k \in Readable(log) /\ log'[k] = log[k] /\ l \in Readable(log) /\ log'[l] = log[l]
    BY <2>1 DEF ReportedOnce
  <2>2. ASSUME NEW m \in Readable(log), NEW g \in log[m].entries, NEW h \in block.entries,
               g.kind = h.kind, g.op = h.op
        PROVE  FALSE
    <3>1. g.kind \in {"op", "done"} /\ g.op.id \in Nat /\ lastFlushedOpId \in Nat
      BY <1>t, EntryTypes, WaitTypes
    <3>2. CASE g.kind = "op"
      <4>1. g.op.id <= lastFlushedOpId /\ lastFlushedOpId < h.op.id
        BY <1>3, <1>4, <2>2, <3>2
      <4> QED  BY <2>2, <3>1, <4>1
    <3>3. CASE g.kind = "done"
      BY <1>2, <2>2, <3>3 DEF MarkedOnce
    <3> QED  BY <3>1, <3>2, <3>3
  <2>3. CASE k = Len(log) + 1 /\ l = Len(log) + 1 /\ log'[k].entries = block.entries
    BY <2>3 DEF BlockOnce
  <2> QED  BY <1>1, <2>1, <2>2, <2>3
<1>12. ReplayInOrder'
  <2> SUFFICES ASSUME NEW k \in Readable(log'), NEW l \in Readable(log'),
                      NEW e \in log'[k].entries, NEW f \in log'[l].entries,
                      e.kind = "op", f.kind = "op", e.op.epoch = f.op.epoch,
                      k < l \/ (k = l /\ e.at < f.at)
               PROVE  e.op.id < f.op.id
    BY DEF ReplayInOrder
  <2>1. CASE k \in Readable(log) /\ log'[k] = log[k] /\ l \in Readable(log) /\ log'[l] = log[l]
    <3>1. e \in log[k].entries /\ f \in log[l].entries
      BY <2>1
    <3>2. ReplayInOrder
      OBVIOUS
    <3> QED  BY <2>1, <3>1, <3>2 DEF ReplayInOrder
  <2>2. CASE k \in Readable(log) /\ log'[k] = log[k] /\ l = Len(log) + 1 /\ log'[l].entries = block.entries
    <3>1. e \in log[k].entries /\ f \in block.entries
      BY <2>2
    <3>2. e.op.id \in Nat /\ f.op.id \in Nat /\ lastFlushedOpId \in Nat
      BY <1>t, <2>2, <3>1, EntryTypes, WaitTypes
    <3>3. e.op.id <= lastFlushedOpId /\ lastFlushedOpId < f.op.id
      BY <1>3, <1>4, <2>2, <3>1
    <3> QED  BY <3>2, <3>3
  <2>3. CASE k = Len(log) + 1 /\ l = Len(log) + 1 /\ log'[l].entries = block.entries
    BY <2>3 DEF BlockInOrder
  <2>4. CASE k = Len(log) + 1 /\ l \in Readable(log) /\ l <= Len(log)
    BY <1>t, <2>4, EntryTypes
  <2> QED  BY <1>1, <2>1, <2>2, <2>3, <2>4
<1> QED  BY <1>5, <1>9, <1>10, <1>11, <1>12

(* When nothing fails and every entry fits, the error paths are dead.       *)
LEMMA NoStepFails ==
    ASSUME FaultFree, IInv, LogInv, NEW t \in Threads
    PROVE  ~FlushOfEmptyBlockFails(t) /\ ~WriteBlockFails(t) /\ ~PlaceFails(t) /\ ~VerifyLogFails
<1> USE DEF LogInv
<1>1. ~FlushOfEmptyBlockFails(t)
  BY DEF FlushOfEmptyBlockFails, BlockIsEmpty, RoomForEntry
<1>2. ~WriteBlockFails(t)
  BY DEF WriteBlockFails, FaultFree, IInv, TypeOK
<1>3. ~PlaceFails(t)
  <2> SUFFICES ASSUME pc[t] = "place" PROVE Fits(block, call[t].len)
    BY DEF PlaceFails
  <2>1. block.pos \in Nat /\ call[t].len \in Nat
    BY DEF IInv, TypeOK, Calls, Positions
  <2>2. ~NewBlockRequired(block, call[t].len)
    BY DEF RoomForEntry
  <2>3. block.pos + call[t].len <= 4063
    BY <2>1, <2>2, Room DEF BlockLaidOut
  <2> QED  BY <2>1, <2>3, Sizes DEF Fits, RemainingCapacity
<1>4. ~VerifyLogFails
  BY DEF VerifyLogFails
<1> QED  BY <1>1, <1>2, <1>3, <1>4

(* Steps that touch neither the block nor the file nor what is acknowledged *)
(* keep everything but, perhaps, the room for an entry.                     *)
LEMMA QuietKeepsLog ==
    ASSUME LogInv,
           UNCHANGED <<lastFlushedOpId, lastBlockOpId, block, log, epoch, acked, pending, fatal>>,
           status' # "unreadable", InUse' => InUse, Publishing' <=> Publishing,
           \A t \in Threads : call'[t].placed \/ call[t].placed => call'[t] = call[t],
           RoomForEntry'
    PROVE  LogInv'
<1> USE DEF LogInv
<1>1. BeingPublished' /\ NothingFailed' /\ NoneTornInUse' /\ BlockLaidOut' /\ BlockIds' /\ Earlier' = Earlier
  BY DEF BeingPublished, NothingFailed, NoFatalAbort, NoneTornInUse, BlockLaidOut, BlockIds, Earlier
<1>2. LogIds' /\ OneEpoch' /\ MarkedOnce' /\ BlockInOrder' /\ BlockOnce'
  BY <1>1 DEF LogIds, OneEpoch, MarkedOnce, BlockInOrder, BlockOnce
<1>3. MarkersSettled'
  BY DEF MarkersSettled, Settled
<1>4. EntriesHaveCalls'
  <2> SUFFICES ASSUME NEW e \in block.entries PROVE EntriesHaveCalls!(e)'
    BY DEF EntriesHaveCalls
  <2>1. PICK t \in Threads : EntriesHaveCalls!(e)!(t)
    BY DEF EntriesHaveCalls
  <2>2. call'[t] = call[t]
    BY <2>1 DEF Registering, Updating
  <2> QED  BY <2>1, <2>2 DEF Registering, Updating, Op
<1>5. UpdatesDiffer' /\ UpdatesSettled'
  BY DEF UpdatesDiffer, UpdatesSettled, Updating, Settled, Op
<1>6. Verifies(log') /\ BlocksWellFormed' /\ ReportedOnce' /\ ReplayInOrder'
  BY DEF BlocksWellFormed, ReportedOnce, ReplayInOrder
<1> QED  BY <1>1, <1>2, <1>3, <1>4, <1>5, <1>6

LEMMA TakeIdKeepsLog ==
    ASSUME FaultFree, IInv, LogInv, NEW t \in Threads, NEW kind, NEW target,
           NEW len \in EntrySizes \cup {MarkerSize}, TakeIdAndLock(t, kind, target, len)
    PROVE  LogInv'
<1> USE DEF LogInv
<1>1. /\ UNCHANGED <<lastFlushedOpId, lastBlockOpId, block, log, epoch, acked, pending, fatal, status>>
      /\ pc[t] = "idle" /\ status = "running" /\ MutexFree
  BY DEF TakeIdAndLock, envVars, historyVars
<1>2. /\ \A u \in Threads : u # t => pc'[u] = pc[u] /\ call'[u] = call[u]
      /\ pc'[t] = (IF NewBlockRequired(block, len) THEN "flush" ELSE "place")
      /\ ~call[t].placed /\ ~call'[t].placed /\ call'[t].len = len
  BY DEF TakeIdAndLock, IInv, TypeOK, CallMatchesPc, NoCall
<1>3. 0 < len /\ ~NewBlockRequired(NewBlock, len)
  <2>1. len \in Nat /\ 0 < len
    BY ConstantsAssumption, Sizes
  <2>2. CASE len \in EntrySizes
    BY <2>1, <2>2 DEF FaultFree
  <2>3. CASE len = MarkerSize
    BY <2>1, <2>3, RoomInNewBlock, Sizes
  <2> QED  BY <2>1, <2>2, <2>3
<1>4. NewBlockRequired(block, len) => block.entries # {}
  BY <1>3 DEF BlockLaidOut, NewBlockRequired, RemainingCapacity, NewBlock
<1>5. RoomForEntry'
  BY <1>1, <1>2, <1>3, <1>4 DEF RoomForEntry, MutexFree, InCriticalSection, InCall
<1>6. Publishing' <=> Publishing
  BY <1>1, <1>2 DEF Publishing
<1> QED  BY <1>1, <1>2, <1>5, <1>6, QuietKeepsLog DEF InUse, NothingFailed, NoFatalAbort

LEMMA CloseKeepsLog ==
    ASSUME IInv, LogInv, NEW t \in Threads, CloseLogFile(t)
    PROVE  LogInv'
<1> USE DEF LogInv
<1>1. /\ UNCHANGED <<lastFlushedOpId, lastBlockOpId, block, log, epoch, acked, pending, fatal>>
      /\ pc[t] = "idle" /\ status = "running" /\ status' \in {"running", "closed"} /\ MutexFree
  BY DEF CloseLogFile, objectVars, historyVars
<1>2. /\ \A u \in Threads : u # t => pc'[u] = pc[u] /\ call'[u] = call[u]
      /\ pc'[t] = "idle" \/ (pc'[t] = "flush" /\ block.entries # {})
      /\ call'[t].kind \in {"none", "close"} /\ ~call[t].placed /\ ~call'[t].placed
  BY DEF CloseLogFile, IInv, TypeOK, CallMatchesPc, NoCall, BlockIsEmpty
<1>3. RoomForEntry'
  BY <1>1, <1>2 DEF RoomForEntry, MutexFree, InCriticalSection, InCall
<1>4. Publishing' <=> Publishing
  BY <1>1, <1>2 DEF Publishing
<1> QED  BY <1>1, <1>2, <1>3, <1>4, QuietKeepsLog DEF InUse

(* The first writer that gets the mutex and finds its ID not flushed has an *)
(* entry in the block: it does not flush an empty one.                      *)
LEMMA TimeoutKeepsLog ==
    ASSUME IInv, WaitInv, LogInv, NEW t \in Threads, TimeoutExpires(t) \/ LockAfterTimeout(t)
    PROVE  LogInv'
<1> USE DEF LogInv
<1>1. UNCHANGED <<lastFlushedOpId, lastBlockOpId, block, log, epoch, acked, pending, fatal, status, call>>
  BY DEF TimeoutExpires, LockAfterTimeout, GoTo, objectVars, envVars, historyVars
<1>2. /\ \A u \in Threads : u # t => pc'[u] = pc[u]
      /\ pc[t] \in {"wait", "timedout"} /\ InCall(t) /\ call[t].placed
      /\ pc'[t] \in {"timedout", "done"} \/ (pc'[t] = "flush" /\ lastFlushedOpId < call[t].id)
  BY DEF TimeoutExpires, LockAfterTimeout, GoTo, Flushed, IInv, TypeOK, CallMatchesPc
<1>3. lastFlushedOpId < call[t].id => block.entries # {}
  BY <1>2 DEF InCall, IInv, WaitersEntry, Registering, InBlock, WaitInv, WaitersMarker, Updating, MarkerInBlock
<1>4. RoomForEntry'
  BY <1>1, <1>2, <1>3 DEF RoomForEntry, InCall
<1>5. Publishing' <=> Publishing
  BY <1>1, <1>2 DEF Publishing
<1> QED  BY <1>1, <1>4, <1>5, QuietKeepsLog DEF InUse, NothingFailed, NoFatalAbort

LEMMA WriteBlockKeepsLog ==
    ASSUME IInv, WaitInv, LogInv, TypeOK', NEW t \in Threads, WriteBlock(t)
    PROVE  LogInv'
<1> USE DEF LogInv
<1>1. /\ UNCHANGED <<call, lastFlushedOpId, lastBlockOpId, block, epoch, status, acked, pending, fatal>>
      /\ block.entries # {} /\ log' = Append(log, Whole(block))
  BY DEF WriteBlock, GoTo, BlockIsEmpty, objectVars, envVars, historyVars
<1>2. pc[t] = "flush" /\ pc'[t] = "publish" /\ \A u \in Threads : u # t => pc'[u] = pc[u]
  BY DEF WriteBlock, GoTo, IInv, TypeOK
<1>3. ~Publishing /\ Publishing' /\ InUse
  BY <1>2 DEF Publishing, IInv, MutualExclusion, InCriticalSection, QuietUnlessRunning, AllIdle, InUse
<1>4. OneEpoch' /\ Verifies(log') /\ BlocksWellFormed' /\ ReportedOnce' /\ ReplayInOrder'
  BY <1>1, <1>3, WriteKeepsLog DEF AfterPartialWrite
<1>5. Whole(block) \in LogBlocks /\ Whole(block).entries = block.entries /\ ~Whole(block).torn
  BY WaitTypes DEF Whole, LogBlocks, BlockRecords, IInv
<1>6. /\ Readable(log') = Readable(log) \cup {Len(log) + 1} /\ Len(log') = Len(log) + 1
      /\ log'[Len(log')].entries = block.entries /\ Len(log) + 1 \notin Readable(log)
      /\ DOMAIN log' = DOMAIN log \cup {Len(log) + 1}
      /\ \A k \in DOMAIN log : log'[k] = log[k] /\ k \in DOMAIN log'
      /\ ~log'[Len(log) + 1].torn
  BY <1>1, <1>5, AppendBlocks, WaitTypes DEF IInv
<1>7. \A k \in Readable(log) : log'[k] = log[k]
  BY <1>6 DEF Readable
<1>8. Earlier = Readable(log) /\ Earlier' = Readable(log)
  BY <1>3, <1>6 DEF Earlier
<1>9. BeingPublished' /\ NothingFailed'
  BY <1>1, <1>6 DEF BeingPublished, NothingFailed, NoFatalAbort
<1>10. NoneTornInUse'
  BY <1>1, <1>6 DEF NoneTornInUse, InUse
<1>11. BlockLaidOut' /\ BlockIds' /\ BlockInOrder' /\ BlockOnce'
  BY <1>1 DEF BlockLaidOut, BlockIds, BlockInOrder, BlockOnce
<1>12. RoomForEntry'
  BY <1>1, <1>2 DEF RoomForEntry, InCall
<1>13. LogIds' /\ MarkedOnce'
  <2>1. \A k \in Earlier' : k \in Earlier /\ log'[k].entries = log[k].entries
    BY <1>7, <1>8
  <2>2. LogIds'
    BY <1>1, <1>3, <2>1 DEF LogIds
  <2>3. ASSUME NEW k \in Earlier', NEW e \in log'[k].entries, NEW f \in block'.entries,
               e.kind = "done", f.kind = "done"
        PROVE  e.op # f.op
    <3>1. k \in Earlier /\ e \in log[k].entries /\ f \in block.entries
      BY <1>1, <2>1, <2>3
    <3> QED  BY <2>3, <3>1 DEF MarkedOnce
  <2>4. MarkedOnce'
    BY <2>3 DEF MarkedOnce
  <2> QED  BY <2>2, <2>4
<1>14. MarkersSettled'
  BY <1>1, <1>6, <1>7 DEF MarkersSettled, Settled
<1>15. EntriesHaveCalls' /\ UpdatesDiffer' /\ UpdatesSettled'
  BY <1>1 DEF EntriesHaveCalls, UpdatesDiffer, UpdatesSettled, Registering, Updating, Settled, Op
<1> QED  BY <1>4, <1>9, <1>10, <1>11, <1>12, <1>13, <1>14, <1>15

(* From its publication on the block's operations are those of the file.    *)
LEMMA PublishKeepsLog ==
    ASSUME IInv, WaitInv, LogInv, NEW t \in Threads, Publish(t)
    PROVE  LogInv'
<1> USE DEF LogInv
<1>1. /\ UNCHANGED <<lastBlockOpId, log, epoch, acked, pending, fatal>>
      /\ lastFlushedOpId' = lastBlockOpId /\ block' = NewBlock
  BY DEF Publish, StartNewBlock, historyVars
<1>2. /\ pc[t] = "publish"
      /\ \A u \in Threads : u # t => pc'[u] = pc[u] /\ call'[u] = call[u]
      /\ \/ call'[t] = NoCall /\ ~call[t].placed /\ status' = "closed" /\ pc'[t] = "idle"
         \/ /\ call'[t] = call[t] /\ status' = status
            /\ pc'[t] = "done" \/ (pc'[t] = "place" /\ ~call[t].placed)
  BY DEF Publish, Finish, GoTo, IInv, TypeOK, CallMatchesPc, InCall
<1>3. Publishing /\ ~Publishing' /\ InUse
  BY <1>2 DEF Publishing, IInv, MutualExclusion, InCriticalSection, QuietUnlessRunning, AllIdle, InUse
<1>4. NewBlock.entries = {} /\ NewBlock.pos = 2
  BY Sizes DEF NewBlock
<1>5. BeingPublished' /\ NothingFailed' /\ NoneTornInUse'
  BY <1>1, <1>2, <1>3 DEF BeingPublished, NothingFailed, NoFatalAbort, NoneTornInUse, InUse
<1>6. BlockLaidOut' /\ BlockIds' /\ BlockInOrder' /\ BlockOnce' /\ MarkedOnce' /\ EntriesHaveCalls'
  BY <1>1, <1>4, Sizes DEF BlockLaidOut, BlockIds, BlockInOrder, BlockOnce, MarkedOnce, EntriesHaveCalls
<1>7. RoomForEntry'
  <2>1. \A u \in Threads : pc'[u] \notin {"flush", "publish"}
    BY <1>2 DEF IInv, MutualExclusion, InCriticalSection
  <2>2. ASSUME NEW u \in Threads PROVE RoomForEntry!(u)!2'
    BY <1>1, <1>2, <2>1 DEF RoomForEntry, InCall, NoCall
  <2>3. ASSUME NEW u \in Threads, pc'[u] = "place" PROVE ~NewBlockRequired(block', call'[u].len)
    <3>1. u = t /\ call'[u] = call[u] /\ ~call[u].placed
      BY <1>2, <2>3 DEF IInv, MutualExclusion, InCriticalSection
    <3>2. InCall(u)
      BY <1>2, <2>3, <3>1 DEF Publish, Finish, InCall, IInv, CallMatchesPc, TypeOK
    <3> QED  BY <1>1, <3>1, <3>2 DEF RoomForEntry
  <2> QED  BY <2>1, <2>2, <2>3 DEF RoomForEntry
<1>8. LogIds'
  <2>1. \A k \in Earlier' : k \in Earlier \/ log[k].entries = block.entries
    BY <1>1, <1>3 DEF Earlier, BeingPublished
  <2>2. lastFlushedOpId <= lastBlockOpId /\ lastFlushedOpId \in Nat /\ lastBlockOpId \in Nat
    BY WaitTypes DEF IInv, IdOrder
  <2>3. \A k \in Earlier' : \A e \in log[k].entries : e.op.epoch = epoch /\ e.op.id <= lastBlockOpId
    BY <1>3, <2>1 DEF LogIds, BlockIds, WaitInv, BlockUnflushed
  <2> QED  BY <1>1, <2>3 DEF LogIds
<1>9. OneEpoch' /\ MarkersSettled'
  BY <1>1, <1>4 DEF OneEpoch, MarkersSettled, Settled
<1>10. UpdatesDiffer' /\ UpdatesSettled'
  <2>1. \A u \in Threads : Updating(u)' => Updating(u) /\ call'[u] = call[u]
    BY <1>2 DEF Updating, NoCall
  <2> QED  BY <1>1, <2>1 DEF UpdatesDiffer, UpdatesSettled, Settled, Op
<1>11. Verifies(log') /\ BlocksWellFormed' /\ ReportedOnce' /\ ReplayInOrder'
  BY <1>1 DEF BlocksWellFormed, ReportedOnce, ReplayInOrder
<1> QED  BY <1>5, <1>6, <1>7, <1>8, <1>9, <1>10, <1>11

LEMMA ReturnKeepsLog ==
    ASSUME IInv, WaitInv, LogInv, NEW t \in Threads, Return(t)
    PROVE  LogInv'
<1> USE DEF LogInv
<1>1. UNCHANGED <<lastFlushedOpId, lastBlockOpId, block, log, epoch, status, pending, fatal>>
  BY DEF Return, objectVars, envVars
<1>2. /\ pc[t] \in {"wait", "done"} /\ InCall(t) /\ call[t].placed
      /\ pc'[t] = "idle" /\ call'[t] = NoCall /\ ~call'[t].placed /\ ~InCall(t)'
      /\ \A u \in Threads : u # t => pc'[u] = pc[u] /\ call'[u] = call[u]
  BY DEF Return, Finish, IInv, TypeOK, CallMatchesPc, InCall, NoCall
<1>3. ~(lastFlushedOpId < call[t].id)
  BY <1>2 DEF Return, Flushed, InCall, WaitInv, WaitersMarker, Updating, IInv, WaitersEntry, Registering
<1>4. \A op : Settled(op) => Settled(op)'
  <2>1. acked' = acked \/ (acked' = acked \cup {Op(call[t].id)} /\ Registering(t))
    BY <1>2 DEF Return, Registering
  <2>2. Registering(t) => call[t].id \in pending
    BY DEF IInv, WaitersEntry
  <2> QED  BY <1>1, <2>1, <2>2 DEF Settled, Op
<1>5. Earlier' = Earlier /\ (Publishing' <=> Publishing)
  BY <1>1, <1>2 DEF Earlier, Publishing
<1>6. BeingPublished' /\ NothingFailed' /\ NoneTornInUse' /\ BlockLaidOut' /\ BlockIds' /\ BlockInOrder' /\ BlockOnce'
  BY <1>1, <1>5 DEF BeingPublished, NothingFailed, NoFatalAbort, NoneTornInUse, InUse, BlockLaidOut,
     BlockIds, BlockInOrder, BlockOnce
<1>7. LogIds' /\ OneEpoch' /\ MarkedOnce'
  BY <1>1, <1>5 DEF LogIds, InUse, OneEpoch, MarkedOnce
<1>8. RoomForEntry'
  BY <1>1, <1>2 DEF RoomForEntry, InCall
<1>9. MarkersSettled'
  BY <1>1, <1>4 DEF MarkersSettled
<1>10. EntriesHaveCalls'
  <2> SUFFICES ASSUME NEW e \in block.entries PROVE EntriesHaveCalls!(e)'
    BY <1>1 DEF EntriesHaveCalls
  <2>1. PICK u \in Threads : EntriesHaveCalls!(e)!(u)
    BY DEF EntriesHaveCalls
  <2>2. u # t /\ call'[u] = call[u]
    BY <1>2, <1>3, <2>1
  <2> QED  BY <1>1, <2>1, <2>2 DEF Registering, Updating, Op
<1>11. UpdatesDiffer' /\ UpdatesSettled'
  <2>1. \A u \in Threads : Updating(u)' => Updating(u) /\ call'[u] = call[u]
    BY <1>2 DEF Updating
  <2> QED  BY <1>1, <1>4, <2>1 DEF UpdatesDiffer, UpdatesSettled, Op
<1>12. Verifies(log') /\ BlocksWellFormed' /\ ReportedOnce' /\ ReplayInOrder'
  BY <1>1 DEF BlocksWellFormed, ReportedOnce, ReplayInOrder
<1> QED  BY <1>6, <1>7, <1>8, <1>9, <1>10, <1>11, <1>12

(* What putting an entry in the block does to it, whatever the entry.       *)
LEMMA PlaceFacts ==
    ASSUME IInv, WaitInv, LogInv, NEW t \in Threads, Place(t)
    PROVE  /\ UNCHANGED <<lastFlushedOpId, log, epoch, status, fatal>>
           /\ pc[t] = "place" /\ pc'[t] = "wait" /\ InCall(t) /\ ~call[t].placed /\ call'[t].placed
           /\ call'[t].kind = call[t].kind /\ call'[t].id = call[t].id /\ call'[t].target = call[t].target
           /\ \A u \in Threads : u # t => pc'[u] = pc[u] /\ call'[u] = call[u]
           /\ InUse /\ ~Publishing /\ ~Publishing' /\ Earlier = Readable(log) /\ Earlier' = Readable(log)
           /\ lastBlockOpId' = call[t].id /\ lastBlockOpId < call[t].id /\ lastFlushedOpId < call[t].id
           /\ \E e : /\ block'.entries = block.entries \cup {e} /\ block'.pos = block.pos + e.len
                     /\ e.at = block.pos /\ e.len = call[t].len
                     /\ \/ /\ call[t].kind = "register" /\ e.kind = "op" /\ e.op = Op(call[t].id)
                           /\ pending' = pending \cup {call[t].id} /\ acked' = acked
                        \/ /\ call[t].kind = "update" /\ e.kind = "done" /\ e.op = Op(call[t].target)
                           /\ pending' = pending \ {call[t].target}
                           /\ acked' = acked \ {Op(call[t].target)} /\ Op(call[t].target) \in acked
<1>1. UNCHANGED <<lastFlushedOpId, log, epoch, status, fatal>> /\ lastBlockOpId' = call[t].id
  BY DEF Place, envVars
<1>2. /\ pc[t] = "place" /\ pc'[t] = "wait" /\ InCall(t) /\ ~call[t].placed /\ call'[t].placed
      /\ call'[t].kind = call[t].kind /\ call'[t].id = call[t].id /\ call'[t].target = call[t].target
      /\ \A u \in Threads : u # t => pc'[u] = pc[u] /\ call'[u] = call[u]
  BY DEF Place, IInv, TypeOK, CallMatchesPc, Calls
<1>3. InUse /\ ~Publishing /\ ~Publishing'
  BY <1>2 DEF Publishing, IInv, MutualExclusion, InCriticalSection, QuietUnlessRunning, AllIdle, InUse
<1>4. Earlier = Readable(log) /\ Earlier' = Readable(log)
  BY <1>1, <1>3 DEF Earlier
<1>5. lastBlockOpId < call[t].id /\ lastFlushedOpId < call[t].id
  BY <1>2, WaitTypes DEF IInv, NewIdIsLast, IdOrder, InCriticalSection
<1>6. \E e : /\ block'.entries = block.entries \cup {e} /\ block'.pos = block.pos + e.len
             /\ e.at = block.pos /\ e.len = call[t].len
             /\ \/ /\ call[t].kind = "register" /\ e.kind = "op" /\ e.op = Op(call[t].id)
                   /\ pending' = pending \cup {call[t].id} /\ acked' = acked
                \/ /\ call[t].kind = "update" /\ e.kind = "done" /\ e.op = Op(call[t].target)
                   /\ pending' = pending \ {call[t].target}
                   /\ acked' = acked \ {Op(call[t].target)} /\ Op(call[t].target) \in acked
  <2>1. CASE call[t].kind = "register"
    <3> WITNESS [kind |-> "op", op |-> Op(call[t].id), at |-> block.pos, len |-> call[t].len]
    <3> QED  BY <2>1 DEF Place, PutEntry
  <2>2. CASE call[t].kind = "update"
    <3>1. Op(call[t].target) \in acked
      BY <1>2, <2>2 DEF IInv, UpdatesAcked
    <3> WITNESS [kind |-> "done", op |-> Op(call[t].target), at |-> block.pos, len |-> call[t].len]
    <3> QED  BY <2>2, <3>1 DEF Place, PutEntry
  <2> QED  BY <1>2, <2>1, <2>2 DEF InCall
<1> QED  BY <1>1, <1>2, <1>3, <1>4, <1>5, <1>6

(* The new entry lies behind the others, with an ID no other entry has or   *)
(* a target that nobody has marked.                                         *)
LEMMA PlaceKeepsLog ==
    ASSUME IInv, WaitInv, LogInv, NEW t \in Threads, Place(t)
    PROVE  LogInv'
<1> USE PlaceFacts DEF LogInv
<1>t. TypeOK
  BY DEF IInv
<1>1. PICK e :
        /\ block'.entries = block.entries \cup {e} /\ block'.pos = block.pos + e.len
        /\ e.at = block.pos /\ e.len = call[t].len
        /\ \/ /\ call[t].kind = "register" /\ e.kind = "op" /\ e.op = Op(call[t].id)
              /\ pending' = pending \cup {call[t].id} /\ acked' = acked
           \/ /\ call[t].kind = "update" /\ e.kind = "done" /\ e.op = Op(call[t].target)
              /\ pending' = pending \ {call[t].target}
              /\ acked' = acked \ {Op(call[t].target)} /\ Op(call[t].target) \in acked
  OBVIOUS
<1>2. e.op = Op(IF e.kind = "op" THEN call[t].id ELSE call[t].target) /\ e.op.epoch = epoch
  BY <1>1 DEF Op
<1>3. e.op.id = IF e.kind = "op" THEN call[t].id ELSE call[t].target
  BY <1>2 DEF Op
<1>4. e.kind = "done" => e.op \in acked /\ e.op.id <= lastFlushedOpId
  BY <1>1 DEF WaitInv, AckedFlushed, InUse
<1>5. BeingPublished' /\ NothingFailed' /\ NoneTornInUse'
  BY DEF BeingPublished, NothingFailed, NoFatalAbort, NoneTornInUse, InUse
<1>6. BlockLaidOut'
  <2>1. block.pos \in Nat /\ e.len \in Nat /\ 0 < e.len /\ block.pos + e.len <= 4063
    <3>1. block.pos \in Nat /\ call[t].len \in Nat
      BY <1>t DEF TypeOK, Calls, Positions
    <3> QED  BY <1>1, <3>1, Room DEF RoomForEntry, BlockLaidOut
  <2>2. \A f \in block.entries : f.at \in Nat /\ f.len \in Nat /\ f.at + f.len <= e.at
    BY <1>1, <1>t, EntryTypes DEF BlockLaidOut
  <2>3. \A f \in block.entries : ~Overlap(e, f) /\ ~Overlap(f, e)
    BY <1>1, <2>1, <2>2 DEF Overlap
  <2> QED  BY <1>1, <2>1, <2>2, <2>3, Sizes DEF BlockLaidOut
<1>7. RoomForEntry'
  <2>1. \A u \in Threads : pc'[u] \notin {"flush", "publish", "place"}
    BY DEF IInv, MutualExclusion, InCriticalSection
  <2> QED  BY <2>1 DEF RoomForEntry, InCall
<1>8. /\ \A f \in block.entries : f.op.id \in Nat
      /\ \A k \in Readable(log) : \A f \in log[k].entries : f.op.id \in Nat
      /\ lastBlockOpId \in Nat /\ lastFlushedOpId \in Nat /\ call[t].id \in Nat /\ call[t].target \in Nat
  BY <1>t, EntryTypes, WaitTypes
<1>9. BlockIds'
  BY <1>1, <1>3, <1>4, <1>8 DEF BlockIds
<1>10. LogIds'
  BY <1>8 DEF LogIds, InUse
<1>11. OneEpoch'
  BY DEF OneEpoch
<1>12. ASSUME NEW op, Settled(op), op.id <= lastBlockOpId, op.id \in Nat
       PROVE  Settled(op)'
  BY <1>1, <1>8, <1>12 DEF Settled
<1>13. MarkersSettled'
  <2>1. e.kind = "done" => Settled(e.op)'
    BY <1>1, <1>2, <1>3 DEF Settled
  <2>2. \A f \in block.entries : f.kind = "done" => Settled(f.op)'
    BY <1>8, <1>12 DEF MarkersSettled, BlockIds
  <2>3. \A k \in Readable(log) : \A f \in log[k].entries : f.kind = "done" => Settled(f.op)'
    BY <1>8, <1>12 DEF MarkersSettled, LogIds
  <2> QED  BY <1>1, <2>1, <2>2, <2>3 DEF MarkersSettled
<1>14. BlockInOrder'
  <2>1. \A f \in block.entries : f.at \in Nat /\ f.len \in Nat /\ 0 < f.len /\ f.at + f.len <= e.at /\ e.at \in Nat
    BY <1>1, <1>t, EntryTypes DEF BlockLaidOut
  <2>2. \A f \in block.entries : ~(e.at < f.at)
    BY <2>1
  <2>3. \A f \in block.entries : e.kind = "op" => f.op.id < e.op.id
    BY <1>3, <1>8 DEF BlockIds
  <2>4. ~(e.at < e.at)
    BY <1>1, <1>t, EntryTypes
  <2> QED  BY <1>1, <2>2, <2>3, <2>4 DEF BlockInOrder
<1>o. BlockOnce'
  <2>1. \A f \in block.entries : f.kind = e.kind => f.op # e.op
    <3>1. CASE e.kind = "op"
      BY <1>3, <1>8, <3>1 DEF BlockIds
    <3>2. CASE e.kind = "done"
      BY <1>4, <3>2 DEF MarkersSettled, Settled
    <3> QED  BY <1>1, <3>1, <3>2
  <2> QED  BY <1>1, <2>1 DEF BlockOnce
<1>15. MarkedOnce'
  BY <1>1, <1>4 DEF MarkedOnce, MarkersSettled, Settled
<1>16. EntriesHaveCalls'
  <2> SUFFICES ASSUME NEW f \in block'.entries PROVE EntriesHaveCalls!(f)'
    BY DEF EntriesHaveCalls
  <2>1. CASE f \in block.entries
    <3>1. PICK u \in Threads : EntriesHaveCalls!(f)!(u)
      BY <2>1 DEF EntriesHaveCalls
    <3>2. u # t /\ call'[u] = call[u]
      BY <3>1 DEF Registering, Updating
    <3>3. EntriesHaveCalls!(f)!(u)'
      BY <3>1, <3>2 DEF Registering, Updating, Op
    <3> QED  BY <3>3
  <2>2. CASE f = e
    <3>1. Op(call[t].id)' = Op(call[t].id) /\ Op(call[t].target)' = Op(call[t].target)
      BY DEF Op
    <3>2. EntriesHaveCalls!(f)!(t)'
      BY <1>1, <2>2, <3>1 DEF Registering, Updating
    <3> QED  BY <3>2
  <2> QED  BY <1>1, <2>1, <2>2
<1>17. \A u \in Threads : Updating(u)' =>
         (u = t /\ call[t].kind = "update") \/ (u # t /\ Updating(u) /\ call'[u] = call[u])
  BY DEF Updating
<1>18. UpdatesDiffer'
  <2>1. \A u \in Threads : Updating(u) /\ call[t].kind = "update" => call[u].target # call[t].target
    BY <1>1 DEF UpdatesSettled, Settled
  <2> QED  BY <1>17, <2>1 DEF UpdatesDiffer
<1>19. UpdatesSettled'
  <2> SUFFICES ASSUME NEW u \in Threads, Updating(u)' PROVE Settled(Op(call[u].target))'
    BY DEF UpdatesSettled
  <2>1. CASE u = t
    BY <1>1, <1>17, <2>1 DEF Settled, Op
  <2>2. CASE u # t
    <3>1. /\ Updating(u) /\ call'[u] = call[u] /\ call[u].target \in Nat
          /\ Op(call[u].target)' = Op(call[u].target) /\ Op(call[u].target).id = call[u].target
      BY <1>17, <1>t, <2>2, WaitTypes DEF Op
    <3>2. call[u].target <= lastFlushedOpId /\ lastFlushedOpId <= lastBlockOpId
      BY <3>1 DEF WaitInv, WaitersMarker, IInv, IdOrder
    <3> QED  BY <1>8, <1>12, <3>1, <3>2 DEF UpdatesSettled
  <2> QED  BY <2>1, <2>2
<1>20. Verifies(log') /\ BlocksWellFormed' /\ ReportedOnce' /\ ReplayInOrder'
  BY DEF BlocksWellFormed, ReportedOnce, ReplayInOrder
<1> QED  BY <1>5, <1>6, <1>7, <1>9, <1>10, <1>11, <1>13, <1>14, <1>o, <1>15, <1>16, <1>18, <1>19, <1>20

(* An empty file keeps every promise.                                       *)
LEMMA EmptyLog ==
    ASSUME log' = <<>>
    PROVE  /\ OneEpoch' /\ Verifies(log') /\ BlocksWellFormed' /\ ReportedOnce' /\ ReplayInOrder'
           /\ NoneTornInUse' /\ LogIds' /\ MarkedOnce'
<1>1. DOMAIN log' = {} /\ Readable(log') = {} /\ Earlier' = {}
  BY DEF Readable, Earlier
<1> QED  BY <1>1 DEF OneEpoch, Verifies, BlocksWellFormed, ReportedOnce, ReplayInOrder,
         NoneTornInUse, LogIds, MarkedOnce

LEMMA OwnerKeepsLog ==
    ASSUME FaultFree, IInv, WaitInv, LogInv, TypeOK', OpenLogFile \/ VerifyLog \/ ClearLog \/ Crash
    PROVE  LogInv'
<1> USE DEF LogInv
<1>1. CASE OpenLogFile
  <2>1. /\ UNCHANGED <<pc, call, lastBlockOpId, lastFlushedOpId, pending, log, epoch, fatal, acked>>
        /\ AllIdle /\ status' = "opened" /\ block' = NewBlock
    BY <1>1 DEF OpenLogFile, StartNewBlock, FaultFree, historyVars
  <2>2. NewBlock.entries = {} /\ NewBlock.pos = 2
    BY Sizes DEF NewBlock
  <2>3. ~Publishing' /\ ~InUse' /\ \A u \in Threads : call[u] = NoCall /\ pc[u] = "idle"
    BY <2>1 DEF Publishing, AllIdle, InUse, IInv, CallMatchesPc
  <2>4. BeingPublished' /\ NothingFailed' /\ NoneTornInUse' /\ LogIds'
    BY <2>1, <2>3 DEF BeingPublished, NothingFailed, NoFatalAbort, NoneTornInUse, LogIds
  <2>5. BlockLaidOut' /\ BlockIds' /\ BlockInOrder' /\ BlockOnce' /\ MarkedOnce' /\ EntriesHaveCalls'
    BY <2>1, <2>2, Sizes DEF BlockLaidOut, BlockIds, BlockInOrder, BlockOnce, MarkedOnce, EntriesHaveCalls
  <2>6. RoomForEntry' /\ UpdatesDiffer' /\ UpdatesSettled'
    BY <2>1, <2>3 DEF RoomForEntry, InCall, UpdatesDiffer, UpdatesSettled, Updating, NoCall
  <2>7. OneEpoch' /\ MarkersSettled'
    BY <2>1, <2>2 DEF OneEpoch, MarkersSettled, Settled
  <2>8. Verifies(log') /\ BlocksWellFormed' /\ ReportedOnce' /\ ReplayInOrder'
    BY <2>1 DEF BlocksWellFormed, ReportedOnce, ReplayInOrder
  <2> QED  BY <2>4, <2>5, <2>6, <2>7, <2>8
<1>2. CASE VerifyLog \/ ClearLog
  <2>1. /\ UNCHANGED <<pc, call, lastBlockOpId, lastFlushedOpId, pending, block, epoch, fatal>>
        /\ log' = <<>> /\ status' = "running" /\ acked' \subseteq acked
    BY <1>2 DEF VerifyLog, ClearLog, FaultFree, objectVars, envVars
  <2>2. ~Publishing'
    BY <1>2, <2>1 DEF VerifyLog, ClearLog, Publishing, MutexFree, InCriticalSection, IInv,
       QuietUnlessRunning, AllIdle
  <2>3. BeingPublished' /\ NothingFailed'
    BY <2>1, <2>2 DEF BeingPublished, NothingFailed, NoFatalAbort
  <2>4. BlockLaidOut' /\ BlockIds' /\ BlockInOrder' /\ BlockOnce' /\ EntriesHaveCalls'
    BY <2>1 DEF BlockLaidOut, BlockIds, BlockInOrder, BlockOnce, EntriesHaveCalls, Registering, Updating, Op
  <2>5. RoomForEntry' /\ UpdatesDiffer' /\ UpdatesSettled'
    BY <2>1 DEF RoomForEntry, InCall, UpdatesDiffer, UpdatesSettled, Updating, Settled, Op
  <2>6. MarkersSettled'
    BY <2>1 DEF MarkersSettled, Settled, Readable
  <2> QED  BY <2>1, <2>3, <2>4, <2>5, <2>6, EmptyLog
<1>3. CASE Crash
  <2>1. /\ UNCHANGED <<fatal, acked>> /\ epoch < MaxEpoch /\ epoch' = epoch + 1
        /\ block' = NewBlock /\ pending' = {} /\ status' = "down"
        /\ \A u \in Threads : pc'[u] = "idle" /\ call'[u] = NoCall
        /\ log' \in AfterPartialWrite(log, block)
    BY <1>3 DEF Crash, ObjectLost, historyVars, AfterPartialWrite
  <2>2. NewBlock.entries = {} /\ NewBlock.pos = 2
    BY Sizes DEF NewBlock
  <2>3. ~Publishing' /\ ~InUse'
    BY <2>1 DEF Publishing, InUse
  <2>4. BeingPublished' /\ NothingFailed' /\ NoneTornInUse' /\ LogIds'
    BY <2>1, <2>3, WaitTypes, ConstantsAssumption
    DEF BeingPublished, NothingFailed, NoFatalAbort, NoneTornInUse, LogIds, IInv
  <2>5. BlockLaidOut' /\ BlockIds' /\ BlockInOrder' /\ BlockOnce' /\ MarkedOnce' /\ EntriesHaveCalls'
    BY <2>1, <2>2, Sizes DEF BlockLaidOut, BlockIds, BlockInOrder, BlockOnce, MarkedOnce, EntriesHaveCalls
  <2>6. RoomForEntry' /\ UpdatesDiffer' /\ UpdatesSettled'
    BY <2>1 DEF RoomForEntry, InCall, UpdatesDiffer, UpdatesSettled, Updating, NoCall
  <2>7. MarkersSettled'
    <3>1. \A op : Settled(op) => Settled(op)'
      BY <2>1 DEF Settled
    <3>2. \A k \in Readable(log') : \/ k \in Readable(log) /\ log'[k] = log[k]
                                    \/ log'[k].entries = block.entries
      BY <2>1, PartialWriteEntries, WaitTypes DEF IInv
    <3> QED  BY <2>1, <2>2, <3>1, <3>2 DEF MarkersSettled
  <2>8. OneEpoch' /\ Verifies(log') /\ BlocksWellFormed' /\ ReportedOnce' /\ ReplayInOrder'
    <3>1. CASE log' = log
      BY <3>1 DEF OneEpoch, BlocksWellFormed, ReportedOnce, ReplayInOrder
    <3>2. CASE log' # log
      <4>1. PICK t \in Threads : pc[t] = "flush" /\ block.entries # {}
        BY <1>3, <3>2 DEF Crash, BlockIsEmpty
      <4>2. ~Publishing /\ InUse
        BY <4>1 DEF Publishing, IInv, MutualExclusion, InCriticalSection, QuietUnlessRunning, AllIdle, InUse
      <4> QED  BY <2>1, <4>1, <4>2, WriteKeepsLog
    <3> QED  BY <3>1, <3>2
  <2> QED  BY <2>4, <2>5, <2>6, <2>7, <2>8
<1> QED  BY <1>1, <1>2, <1>3

LEMMA LogStep == FaultFree /\ IInv /\ WaitInv /\ LogInv /\ [Next]_vars => LogInv'
<1> SUFFICES ASSUME FaultFree, IInv, WaitInv, LogInv, [Next]_vars PROVE LogInv'
  OBVIOUS
<1>1. TypeOK'
  BY TypeStep DEF IInv
<1>2. CASE UNCHANGED vars
  <2>1. UNCHANGED <<lastFlushedOpId, lastBlockOpId, log, epoch, acked, pending, fatal, block, status, call, pc>>
    BY <1>2 DEF vars, objectVars, envVars, historyVars
  <2> QED  BY <2>1, QuietKeepsLog DEF InUse, Publishing, RoomForEntry, InCall, LogInv, NothingFailed, NoFatalAbort
<1>3. ASSUME NEW t \in Threads, Client(t) PROVE LogInv'
  BY <1>3, TakeIdKeepsLog, CloseKeepsLog DEF Client, RegisterOperation, UpdateOpStatus
<1>4. ASSUME NEW t \in Threads, Proceed(t) \/ WriteBlockFails(t) PROVE LogInv'
  BY <1>1, <1>4, NoStepFails, WriteBlockKeepsLog, PublishKeepsLog, PlaceKeepsLog, TimeoutKeepsLog,
     ReturnKeepsLog DEF Proceed
<1>5. CASE OpenLogFile \/ VerifyLog \/ VerifyLogFails \/ ClearLog \/ Crash
  BY <1>1, <1>5, NoStepFails, OwnerKeepsLog, ConstantsAssumption
<1> QED  BY <1>2, <1>3, <1>4, <1>5 DEF Next

LEMMA LogInit == Init => LogInv
<1> SUFFICES ASSUME Init PROVE LogInv
  OBVIOUS
<1>1. /\ \A t \in Threads : pc[t] = "idle" /\ call[t] = NoCall
      /\ log = <<>> /\ DOMAIN log = {} /\ Readable(log) = {} /\ Earlier = {}
      /\ block = NewBlock /\ NewBlock.pos = 2 /\ NewBlock.entries = {}
      /\ status = "down" /\ epoch = 0 /\ ~fatal
  BY Sizes DEF Init, NewBlock, Readable, Earlier
<1>2. BeingPublished /\ NothingFailed /\ NoneTornInUse /\ BlockLaidOut /\ RoomForEntry
  BY <1>1, Sizes, ConstantsAssumption DEF BeingPublished, Publishing, NothingFailed, NoFatalAbort, NoneTornInUse,
     BlockLaidOut, RoomForEntry, InCall, NoCall
<1>3. BlockIds /\ LogIds /\ OneEpoch /\ MarkersSettled /\ BlockInOrder /\ BlockOnce /\ MarkedOnce /\ EntriesHaveCalls
  BY <1>1 DEF BlockIds, LogIds, OneEpoch, MarkersSettled, BlockInOrder, BlockOnce, MarkedOnce, EntriesHaveCalls
<1>4. UpdatesDiffer /\ UpdatesSettled
  BY <1>1 DEF UpdatesDiffer, UpdatesSettled, Updating, NoCall
<1>5. Verifies(log) /\ BlocksWellFormed /\ ReportedOnce /\ ReplayInOrder
  BY <1>1 DEF Verifies, BlocksWellFormed, ReportedOnce, ReplayInOrder
<1> QED  BY <1>2, <1>3, <1>4, <1>5 DEF LogInv

LEMMA LogCorrect ==
    ASSUME FaultFree
    PROVE  Spec => [](IInv /\ WaitInv /\ LogInv)
<1>1. MaxOps < IdModulus /\ TruncatesOnOpen = FALSE
  BY DEF FaultFree
<1>2. Spec => [](IInv /\ WaitInv)
  BY <1>1, WaitingCorrect
<1>3. IInv /\ WaitInv /\ LogInv /\ [Next]_vars => LogInv'
  BY LogStep
<1> QED  BY <1>2, <1>3, LogInit, PTL DEF Spec

(* Whenever the process dies, verifyLog() succeeds and hands over every     *)
(* operation that was registered and not marked completed.                  *)
THEOREM NothingIsLost ==
    ASSUME FaultFree
    PROVE  Spec => []UnfinishedReported
<1>1. IInv /\ LogInv => UnfinishedReported
  <2> SUFFICES ASSUME IInv, LogInv, NEW op \in acked PROVE Verifies(log) /\ op \in Reported(log)
    BY DEF UnfinishedReported, LogInv
  <2>1. PICK k \in Readable(log) : \E e \in log[k].entries : e.kind = "op" /\ e.op = op
    BY DEF IInv, AckedInLog, InLog
  <2>2. PICK e \in log[k].entries : e.kind = "op" /\ e.op = op
    BY <2>1
  <2>3. e.op \in Ops
    BY <2>2, EntryTypes DEF IInv
  <2>4. ASSUME NEW l \in Readable(log), NEW f \in log[l].entries, f.kind = "done", f.op.id = op.id
        PROVE  FALSE
    <3>1. f.op \in Ops /\ f.op.epoch = op.epoch
      BY <2>2, EntryTypes DEF IInv, LogInv, OneEpoch
    <3>2. f.op = op
      BY <2>2, <2>3, <2>4, <3>1 DEF Ops
    <3> QED  BY <2>4, <3>2 DEF LogInv, MarkersSettled, Settled
  <2>5. op.id \notin CompletedIds(log)
    BY <2>4 DEF CompletedIds, Entries
  <2>6. e \in Entries(log, "op")
    BY <2>2 DEF Entries
  <2>7. op \in Reported(log)
    BY <2>2, <2>5, <2>6 DEF Reported
  <2> QED  BY <2>7 DEF LogInv
<1> QED  BY <1>1, LogCorrect, PTL

(* No operation and no completion marker is in the log twice, neither in    *)
(* one block nor in two.                                                    *)
THEOREM ToldOnce ==
    ASSUME FaultFree
    PROVE  Spec => []ReportedOnce
<1>1. LogInv => ReportedOnce
  BY DEF LogInv
<1> QED  BY <1>1, LogCorrect, PTL

(* The operations in the log are in the order of the requests.              *)
THEOREM ToldInOrder ==
    ASSUME FaultFree
    PROVE  Spec => []ReplayInOrder
<1>1. LogInv => ReplayInOrder
  BY DEF LogInv
<1> QED  BY <1>1, LogCorrect, PTL

(* Every block written whole has the format that verifyLog() accepts.       *)
THEOREM WritesWellFormedBlocks ==
    ASSUME FaultFree
    PROVE  Spec => []BlocksWellFormed
<1>1. LogInv => BlocksWellFormed
  BY DEF LogInv
<1> QED  BY <1>1, LogCorrect, PTL

(* fatalAbort() is never called, and verifyLog() never finds a log it       *)
(* cannot read.                                                             *)
THEOREM NeverAborts ==
    ASSUME FaultFree
    PROVE  Spec => []NoFatalAbort
<1>1. LogInv => NoFatalAbort
  BY DEF LogInv, NothingFailed
<1> QED  BY <1>1, LogCorrect, PTL

------------------------------------------------------------------------------
(* The log implements the service.                                          *)

SeenByService == <<InRegistration, acked, InCompletion, finished, WouldReplay>>

LEMMA WhatIsInFlight ==
    /\ \A op : op \in InRegistration <=> \E t \in Threads : Registering(t) /\ op = Op(call[t].id)
    /\ \A op : op \in InCompletion <=> \E t \in Threads : Updating(t) /\ op = Op(call[t].target)
BY DEF InRegistration, InCompletion, CallsOf, Registering, Updating

LEMMA WhatIsInFlightNext ==
    /\ \A op : op \in InRegistration' <=> \E t \in Threads : Registering(t)' /\ op = Op(call[t].id)'
    /\ \A op : op \in InCompletion' <=> \E t \in Threads : Updating(t)' /\ op = Op(call[t].target)'
BY DEF InRegistration, InCompletion, CallsOf, Registering, Updating

(* An operation of a file of one object is reported if it is there without  *)
(* its marker: no other operation has its ID.                               *)
LEMMA WhatIsReported ==
    ASSUME NEW f \in Seq(LogBlocks), NEW op,
           \A k, l \in Readable(f) : \A d \in f[k].entries, e \in f[l].entries : d.op.epoch = e.op.epoch
    PROVE  op \in Reported(f) <=>
             /\ InLog(op, f)
             /\ ~ \E k \in Readable(f) : \E e \in f[k].entries : e.kind = "done" /\ e.op = op
<1> DEFINE Marked == \E k \in Readable(f) : \E e \in f[k].entries : e.kind = "done" /\ e.op = op
<1>1. ASSUME op \in Reported(f) PROVE InLog(op, f) /\ ~Marked
  <2>1. op.id \notin CompletedIds(f) /\ \E e \in Entries(f, "op") : op = e.op
    BY <1>1 DEF Reported
  <2> QED  BY <2>1 DEF Entries, CompletedIds, InLog
<1>2. ASSUME InLog(op, f), ~Marked PROVE op \in Reported(f)
  <2>1. PICK k \in Readable(f) : \E e \in f[k].entries : e.kind = "op" /\ e.op = op
    BY <1>2 DEF InLog
  <2>2. PICK e \in f[k].entries : e.kind = "op" /\ e.op = op
    BY <2>1
  <2>3. ASSUME NEW l \in Readable(f), NEW d \in f[l].entries, d.kind = "done", d.op.id = op.id
        PROVE  FALSE
    <3>1. f[k] \in LogBlocks /\ f[l] \in LogBlocks
      BY DEF Readable
    <3>2. d.op \in Ops /\ op \in Ops
      BY <2>2, <3>1 DEF LogBlocks, EntryRecords
    <3>3. d.op.epoch = op.epoch
      BY <2>2
    <3>4. d.op = op
      BY <2>3, <3>2, <3>3 DEF Ops
    <3> QED  BY <1>2, <2>3, <3>4
  <2>4. op.id \notin CompletedIds(f)
    BY <2>3 DEF CompletedIds, Entries
  <2>5. e \in Entries(f, "op")
    BY <2>2 DEF Entries
  <2> QED  BY <2>2, <2>4, <2>5 DEF Reported
<1> QED  BY <1>1, <1>2

LEMMA WouldReplayIs ==
    ASSUME TypeOK, OneEpoch, NEW op
    PROVE  op \in WouldReplay <=> InLog(op, log) /\ ~MarkerInLog(op)
<1>1. log \in Seq(LogBlocks)
  BY WaitTypes
<1> QED  BY <1>1, WhatIsReported DEF WouldReplay, OneEpoch, MarkerInLog

LEMMA WouldReplayNext ==
    ASSUME TypeOK', OneEpoch', NEW op
    PROVE  op \in WouldReplay' <=> InLog(op, log') /\ ~MarkerInLog(op)'
<1>1. log' \in Seq(LogBlocks)
  BY DEF TypeOK, LogBlocks
<1> QED  BY <1>1, WhatIsReported DEF WouldReplay, OneEpoch, MarkerInLog

(* Writing the block, whole or in part, commits nothing but what calls in   *)
(* flight have put in it.                                                   *)
LEMMA WriteCommits ==
    ASSUME IInv, LogInv, TypeOK', OneEpoch', log' \in AfterPartialWrite(log, block)
    PROVE  Service!GroupCommit
<1>1. /\ TypeOK /\ OneEpoch /\ EntriesHaveCalls
      /\ log \in Seq(LogBlocks) /\ block \in BlockRecords
  BY WaitTypes DEF IInv, LogInv
<1>2. /\ \A k \in Readable(log) : k \in Readable(log') /\ log'[k] = log[k]
      /\ \A k \in Readable(log') : \/ k \in Readable(log) /\ log'[k] = log[k]
                                   \/ log'[k].entries = block.entries
  BY <1>1, PartialWriteEntries
<1>3. \A op : /\ InLog(op, log) => InLog(op, log')
              /\ MarkerInLog(op) => MarkerInLog(op)'
              /\ InLog(op, log') => InLog(op, log) \/ InBlock(op)
              /\ MarkerInLog(op)' => MarkerInLog(op) \/ MarkerInBlock(op)
  BY <1>2 DEF InLog, MarkerInLog, InBlock, MarkerInBlock
<1>4. ASSUME NEW op, op \in WouldReplay', op \notin WouldReplay PROVE op \in InRegistration
  <2>1. InBlock(op)
    BY <1>1, <1>3, <1>4, WouldReplayIs, WouldReplayNext
  <2>2. \E t \in Threads : Registering(t) /\ op = Op(call[t].id)
    BY <1>1, <2>1 DEF InBlock, EntriesHaveCalls
  <2> QED  BY <2>2, WhatIsInFlight
<1>5. ASSUME NEW op, op \in WouldReplay, op \notin WouldReplay' PROVE op \in InCompletion
  <2>1. MarkerInBlock(op)
    BY <1>1, <1>3, <1>5, WouldReplayIs, WouldReplayNext
  <2>2. \E t \in Threads : Updating(t) /\ op = Op(call[t].target)
    BY <1>1, <2>1 DEF MarkerInBlock, EntriesHaveCalls
  <2> QED  BY <2>2, WhatIsInFlight
<1> QED  BY <1>4, <1>5 DEF Service!GroupCommit

(* Steps that touch neither the file nor a call that has put its entry.     *)
LEMMA NothingSeen ==
    ASSUME UNCHANGED <<log, epoch, acked, finished>>,
           \A t \in Threads : call'[t].placed \/ call[t].placed => call'[t] = call[t]
    PROVE  UNCHANGED SeenByService
<1>1. InRegistration' = InRegistration /\ InCompletion' = InCompletion
  <2>1. \A t \in Threads : /\ (Registering(t)' <=> Registering(t)) /\ (Updating(t)' <=> Updating(t))
                           /\ Registering(t) => Op(call[t].id)' = Op(call[t].id)
                           /\ Updating(t) => Op(call[t].target)' = Op(call[t].target)
    BY DEF Registering, Updating, Op
  <2>2. \A op : op \in InRegistration' <=> op \in InRegistration
    BY <2>1, WhatIsInFlight, WhatIsInFlightNext
  <2>3. \A op : op \in InCompletion' <=> op \in InCompletion
    BY <2>1, WhatIsInFlight, WhatIsInFlightNext
  <2> QED  BY <2>2, <2>3
<1>2. WouldReplay' = WouldReplay
  BY DEF WouldReplay
<1> QED  BY <1>1, <1>2 DEF SeenByService

(* A step in which one call ends, or puts its entry, as the service sees it.*)
LEMMA OthersStay ==
    ASSUME NEW t \in Threads, UNCHANGED epoch, \A u \in Threads : u # t => call'[u] = call[u]
    PROVE  /\ \A op : op \in InRegistration' <=>
                 \/ \E u \in Threads : u # t /\ Registering(u) /\ op = Op(call[u].id)
                 \/ Registering(t)' /\ op = Op(call'[t].id)
           /\ \A op : op \in InCompletion' <=>
                 \/ \E u \in Threads : u # t /\ Updating(u) /\ op = Op(call[u].target)
                 \/ Updating(t)' /\ op = Op(call'[t].target)
<1>1. \A u \in Threads : /\ Op(call[u].id)' = Op(call'[u].id) /\ Op(call[u].target)' = Op(call'[u].target)
                         /\ u # t => /\ Registering(u)' <=> Registering(u)
                                     /\ Updating(u)' <=> Updating(u)
  BY DEF Op, Registering, Updating
<1> QED  BY <1>1, WhatIsInFlightNext

LEMMA PlaceIsService ==
    ASSUME IInv, WaitInv, LogInv, NEW t \in Threads, Place(t)
    PROVE  Service!Next
<1> USE DEF LogInv
<1>0. finished' = finished /\ WouldReplay' = WouldReplay
  BY PlaceFacts DEF Place, WouldReplay
<1>1. /\ UNCHANGED <<log, epoch>>
      /\ pc[t] = "place" /\ InCall(t) /\ ~call[t].placed /\ call'[t].placed
      /\ call'[t].kind = call[t].kind /\ call'[t].id = call[t].id /\ call'[t].target = call[t].target
      /\ \A u \in Threads : u # t => call'[u] = call[u]
      /\ InUse /\ Earlier = Readable(log)
      /\ lastBlockOpId < call[t].id /\ lastFlushedOpId < call[t].id
  BY PlaceFacts
<1>2. ~Registering(t) /\ ~Updating(t)
  BY <1>1 DEF Registering, Updating
<1>3. /\ TypeOK /\ OneEpoch /\ epoch \in Nat /\ epoch <= MaxEpoch
      /\ lastBlockOpId \in Nat /\ lastFlushedOpId \in Nat /\ lastOpId \in Nat /\ lastOpId <= MaxOps
      /\ lastFlushedOpId <= lastBlockOpId /\ lastBlockOpId <= lastOpId
      /\ \A u \in Threads : call[u].id \in Nat /\ call[u].target \in Nat
  BY WaitTypes DEF IInv, TypeOK, IdOrder, NothingFailed
<1>4. \A id : Op(id).epoch = epoch /\ Op(id).id = id
  BY DEF Op
<1>5. \A id \in Nat : id <= lastOpId => Op(id) \in [epoch : 0 .. MaxEpoch + MaxIoFailures, id : 0 .. MaxOps]
  BY <1>3, ConstantsAssumption DEF Op
<1>6. CASE call[t].kind = "register"
  <2> DEFINE op == Op(call[t].id)
  <2>1. acked' = acked
    BY <1>6 DEF Place
  <2>2. op \notin InRegistration
    BY <1>1, <1>3, <1>4, WhatIsInFlight DEF IInv, WaitersInBlock, Registering
  <2>3. op \notin acked
    BY <1>1, <1>3, <1>4 DEF WaitInv, AckedFlushed, InUse
  <2>4. op \notin InCompletion
    BY <1>1, <1>3, <1>4, WhatIsInFlight DEF WaitInv, WaitersMarker
  <2>5. op \notin finished
    BY <1>1, <1>3, <1>4 DEF WaitInv, FinishedGone, Gone
  <2>6. op \notin WouldReplay
    BY <1>1, <1>3, <1>4, WouldReplayIs DEF LogIds, InLog
  <2>7. op \in [epoch : 0 .. MaxEpoch + MaxIoFailures, id : 0 .. MaxOps]
    BY <1>1, <1>3, <1>5 DEF IInv, NewIdIsLast, InCriticalSection
  <2>8. InRegistration' = InRegistration \cup {op}
    BY <1>1, <1>2, <1>6, OthersStay, WhatIsInFlight DEF Registering
  <2>9. InCompletion' = InCompletion
    <3>1. \A x : x \in InCompletion' <=> x \in InCompletion
      BY <1>1, <1>2, <1>6, OthersStay, WhatIsInFlight DEF Updating
    <3> QED  BY <3>1
  <2>10. Service!Register(op)
    BY <1>0, <2>1, <2>2, <2>3, <2>4, <2>5, <2>6, <2>8, <2>9 DEF Service!Register
  <2> QED  BY <2>7, <2>10 DEF Service!Next
<1>7. CASE call[t].kind = "update"
  <2> DEFINE op == Op(call[t].target)
  <2>1. op \in acked /\ acked' = acked \ {op}
    BY <1>1, <1>7 DEF Place, IInv, UpdatesAcked
  <2>2. op \in [epoch : 0 .. MaxEpoch + MaxIoFailures, id : 0 .. MaxOps]
    <3>1. call[t].target <= lastFlushedOpId
      BY <1>1, <1>4, <2>1 DEF WaitInv, AckedFlushed, InUse
    <3> QED  BY <1>3, <1>5, <3>1
  <2>3. InRegistration' = InRegistration
    <3>1. \A x : x \in InRegistration' <=> x \in InRegistration
      BY <1>1, <1>2, <1>7, OthersStay, WhatIsInFlight DEF Registering
    <3> QED  BY <3>1
  <2>4. InCompletion' = InCompletion \cup {op}
    BY <1>1, <1>2, <1>7, OthersStay, WhatIsInFlight DEF Updating
  <2>5. Service!Complete(op)
    BY <1>0, <2>1, <2>3, <2>4 DEF Service!Complete
  <2> QED  BY <2>2, <2>5 DEF Service!Next
<1> QED  BY <1>1, <1>6, <1>7 DEF InCall

LEMMA ReturnIsService ==
    ASSUME IInv, WaitInv, LogInv, NEW t \in Threads, Return(t)
    PROVE  Service!Next
<1> USE DEF LogInv
<1>0. WouldReplay' = WouldReplay
  BY DEF Return, WouldReplay
<1>1. UNCHANGED <<log, epoch, status>>
  BY DEF Return, envVars
<1>2. /\ pc[t] \in {"wait", "done"} /\ InCall(t) /\ call[t].placed
      /\ call'[t] = NoCall /\ ~call'[t].placed
      /\ \A u \in Threads : u # t => call'[u] = call[u]
  BY DEF Return, Finish, IInv, TypeOK, CallMatchesPc, InCall, NoCall
<1>3. ~(lastFlushedOpId < call[t].id)
  BY <1>2 DEF Return, Flushed, InCall, WaitInv, WaitersMarker, Updating, IInv, WaitersEntry, Registering
<1>4. /\ TypeOK /\ OneEpoch /\ epoch \in Nat /\ epoch <= MaxEpoch
      /\ lastBlockOpId \in Nat /\ lastFlushedOpId \in Nat /\ lastOpId \in Nat /\ lastOpId <= MaxOps
      /\ lastFlushedOpId <= lastBlockOpId /\ lastBlockOpId <= lastOpId
      /\ call[t].id \in Nat /\ call[t].target \in Nat
  BY WaitTypes DEF IInv, TypeOK, IdOrder, NothingFailed
<1>5. \A id : Op(id).epoch = epoch /\ Op(id).id = id
  BY DEF Op
<1>6. \A id \in Nat : id <= lastOpId => Op(id) \in [epoch : 0 .. MaxEpoch + MaxIoFailures, id : 0 .. MaxOps]
  BY <1>4, ConstantsAssumption DEF Op
<1>7. ~Registering(t)' /\ ~Updating(t)'
  BY <1>2 DEF Registering, Updating
<1>8. CASE call[t].kind = "register"
  <2> DEFINE op == Op(call[t].id)
  <2>1. acked' = acked \cup {op} /\ finished' = finished /\ Registering(t) /\ ~Updating(t)
    BY <1>2, <1>8 DEF Return, Registering, Updating
  <2>2. op \in InRegistration
    BY <2>1, WhatIsInFlight
  <2>3. op \in WouldReplay
    <3>1. InLog(op, log) /\ call[t].id \in pending
      BY <1>3, <2>1 DEF IInv, WaitersEntry
    <3>2. ~Settled(op)
      BY <1>5, <3>1 DEF Settled
    <3>3. ~MarkerInLog(op)
      BY <3>2 DEF MarkersSettled, MarkerInLog
    <3> QED  BY <1>4, <3>1, <3>3, WouldReplayIs
  <2>4. op \in [epoch : 0 .. MaxEpoch + MaxIoFailures, id : 0 .. MaxOps]
    BY <1>2, <1>4, <1>6 DEF IInv, WaitersInBlock
  <2>5. InRegistration' = InRegistration \ {op}
    <3>1. \A u \in Threads : u # t /\ Registering(u) => Op(call[u].id) # op
      BY <1>2, <1>5 DEF IInv, WaitersDiffer, Registering
    <3>2. \A x : x \in InRegistration' <=> \E u \in Threads : u # t /\ Registering(u) /\ x = Op(call[u].id)
      BY <1>1, <1>2, <1>7, OthersStay
    <3>3. \A x : x \in InRegistration' <=> x \in InRegistration /\ x # op
      BY <3>1, <3>2, WhatIsInFlight
    <3> QED  BY <3>3
  <2>6. InCompletion' = InCompletion
    <3>1. \A x : x \in InCompletion' <=> x \in InCompletion
      BY <1>1, <1>2, <1>7, <2>1, OthersStay, WhatIsInFlight
    <3> QED  BY <3>1
  <2>7. Service!Acknowledge(op)
    BY <1>0, <2>1, <2>2, <2>3, <2>5, <2>6 DEF Service!Acknowledge
  <2> QED  BY <2>4, <2>7 DEF Service!Next
<1>9. CASE call[t].kind = "update"
  <2> DEFINE op == Op(call[t].target)
  <2>1. finished' = finished \cup {op} /\ acked' = acked /\ Updating(t) /\ ~Registering(t)
    BY <1>2, <1>9 DEF Return, Registering, Updating
  <2>2. op \in InCompletion
    BY <2>1, WhatIsInFlight
  <2>3. Gone(op) /\ call[t].target <= lastFlushedOpId
    BY <1>3, <2>1 DEF WaitInv, WaitersMarker
  <2>4. op \notin WouldReplay
    BY <1>4, <2>3, WouldReplayIs DEF Gone
  <2>5. op \in [epoch : 0 .. MaxEpoch + MaxIoFailures, id : 0 .. MaxOps]
    BY <1>4, <1>6, <2>3
  <2>6. InCompletion' = InCompletion \ {op}
    <3>1. \A u \in Threads : u # t /\ Updating(u) => Op(call[u].target) # op
      BY <1>5, <2>1 DEF UpdatesDiffer
    <3>2. \A x : x \in InCompletion' <=> \E u \in Threads : u # t /\ Updating(u) /\ x = Op(call[u].target)
      BY <1>1, <1>2, <1>7, OthersStay
    <3>3. \A x : x \in InCompletion' <=> x \in InCompletion /\ x # op
      BY <3>1, <3>2, WhatIsInFlight
    <3> QED  BY <3>3
  <2>7. InRegistration' = InRegistration
    <3>1. \A x : x \in InRegistration' <=> x \in InRegistration
      BY <1>1, <1>2, <1>7, <2>1, OthersStay, WhatIsInFlight
    <3> QED  BY <3>1
  <2>8. Service!Finish(op)
    BY <1>0, <2>1, <2>2, <2>4, <2>6, <2>7 DEF Service!Finish
  <2> QED  BY <2>5, <2>8 DEF Service!Next
<1> QED  BY <1>2, <1>8, <1>9 DEF InCall

LEMMA EmptyLogReplaysNothing == Reported(<<>>) = {}
BY DEF Reported, Entries, Readable

LEMMA OwnerIsService ==
    ASSUME FaultFree, IInv, WaitInv, LogInv, TypeOK', LogInv', VerifyLog \/ ClearLog \/ Crash
    PROVE  Service!Next
<1>1. CASE VerifyLog
  <2>1. UNCHANGED <<call, epoch>> /\ acked' = {} /\ log' = <<>> /\ finished' = {} /\ AllIdle
    BY <1>1 DEF VerifyLog, FaultFree, IInv, QuietUnlessRunning
  <2>2. \A t \in Threads : ~call[t].placed
    BY <2>1 DEF AllIdle, IInv, CallMatchesPc, NoCall
  <2>3. \A op : op \notin InRegistration /\ op \notin InCompletion
    BY <2>2, WhatIsInFlight DEF Registering, Updating
  <2>4. \A op : op \notin InRegistration' /\ op \notin InCompletion'
    BY <2>1, <2>2, WhatIsInFlightNext DEF Registering, Updating
  <2>5. WouldReplay' = {}
    BY <2>1, EmptyLogReplaysNothing DEF WouldReplay
  <2>6. Service!Replay
    BY <2>1, <2>3, <2>4, <2>5 DEF Service!Replay
  <2> QED  BY <2>6 DEF Service!Next
<1>2. CASE ClearLog
  <2>1. /\ UNCHANGED <<call, epoch, acked>> /\ log' = <<>> /\ finished' = {} /\ pending = {}
        /\ status = "running"
    BY <1>2 DEF ClearLog, objectVars, envVars
  <2>2. acked = {}
    BY <2>1 DEF IInv, AckedPending
  <2>3. \A op : op \notin InRegistration
    BY <2>1, WhatIsInFlight DEF IInv, WaitersEntry
  <2>4. InRegistration = {} /\ InRegistration' = {} /\ InCompletion' = InCompletion
    BY <2>1, <2>3 DEF InRegistration, InCompletion, CallsOf, Op
  <2>5. WouldReplay' = {}
    BY <2>1, EmptyLogReplaysNothing DEF WouldReplay
  <2>6. Service!Trim
    BY <2>1, <2>2, <2>4, <2>5 DEF Service!Trim
  <2> QED  BY <2>6 DEF Service!Next
<1>3. CASE Crash
  <2>1. UNCHANGED <<acked, finished>> /\ log' \in AfterPartialWrite(log, block)
    BY <1>3 DEF Crash, historyVars, AfterPartialWrite
  <2>2. \A t \in Threads : ~call'[t].placed
    BY <1>3 DEF Crash, ObjectLost, NoCall
  <2>3. \A op : op \notin InRegistration' /\ op \notin InCompletion'
    BY <2>2, WhatIsInFlightNext DEF Registering, Updating
  <2>4. Service!GroupCommit
    BY <2>1, WriteCommits DEF LogInv
  <2>5. Service!Die
    BY <2>1, <2>3, <2>4 DEF Service!Die
  <2> QED  BY <2>5 DEF Service!Next
<1> QED  BY <1>1, <1>2, <1>3

(* Every step of the log is a step of the service, or one it does not see.  *)
LEMMA EveryStep ==
    ASSUME FaultFree, IInv, WaitInv, LogInv, LogInv', [Next]_vars
    PROVE  Service!Next \/ UNCHANGED SeenByService
<1>1. TypeOK'
  BY TypeStep DEF IInv
<1>2. CASE UNCHANGED vars
  BY <1>2, NothingSeen DEF vars, envVars, historyVars
<1>3. ASSUME NEW t \in Threads, NEW kind, NEW target, NEW len, TakeIdAndLock(t, kind, target, len)
      PROVE  UNCHANGED SeenByService
  <2>1. UNCHANGED <<log, epoch, acked, finished>>
    BY <1>3 DEF TakeIdAndLock, envVars, historyVars
  <2>2. /\ ~call[t].placed /\ ~call'[t].placed
        /\ \A u \in Threads : u # t => call'[u] = call[u]
    BY <1>3 DEF TakeIdAndLock, IInv, TypeOK, CallMatchesPc, NoCall
  <2> QED  BY <2>1, <2>2, NothingSeen
<1>4. ASSUME NEW t \in Threads, CloseLogFile(t)
      PROVE  UNCHANGED SeenByService
  <2>1. UNCHANGED <<log, epoch, acked, finished>>
    BY <1>4 DEF CloseLogFile, historyVars
  <2>2. /\ ~call[t].placed /\ ~call'[t].placed
        /\ \A u \in Threads : u # t => call'[u] = call[u]
    BY <1>4 DEF CloseLogFile, IInv, TypeOK, CallMatchesPc, NoCall
  <2> QED  BY <2>1, <2>2, NothingSeen
<1>5. ASSUME NEW t \in Threads, TimeoutExpires(t) \/ LockAfterTimeout(t)
      PROVE  UNCHANGED SeenByService
  BY <1>5, NothingSeen DEF TimeoutExpires, LockAfterTimeout, GoTo, envVars, historyVars
<1>6. ASSUME NEW t \in Threads, Publish(t)
      PROVE  UNCHANGED SeenByService
  <2>1. UNCHANGED <<log, epoch, acked, finished>>
    BY <1>6 DEF Publish, historyVars
  <2>2. /\ \A u \in Threads : u # t => call'[u] = call[u]
        /\ call'[t] = call[t] \/ (~call[t].placed /\ ~call'[t].placed)
    BY <1>6 DEF Publish, Finish, GoTo, IInv, TypeOK, CallMatchesPc, InCall, NoCall
  <2> QED  BY <2>1, <2>2, NothingSeen
<1>7. ASSUME NEW t \in Threads, WriteBlock(t)
      PROVE  Service!Next
  <2>1. /\ UNCHANGED <<call, epoch, acked, finished>>
        /\ log' \in AfterPartialWrite(log, block)
    BY <1>7 DEF WriteBlock, GoTo, AfterPartialWrite, envVars, historyVars
  <2>2. Service!GroupCommit
    BY <1>1, <2>1, WriteCommits DEF LogInv
  <2>3. InRegistration' = InRegistration /\ InCompletion' = InCompletion
    BY <2>1 DEF InRegistration, InCompletion, CallsOf, Op
  <2>4. Service!Commit
    BY <2>1, <2>2, <2>3 DEF Service!Commit
  <2> QED  BY <2>4 DEF Service!Next
<1>8. CASE OpenLogFile
  <2>1. UNCHANGED <<call, log, epoch, acked, finished>>
    BY <1>8 DEF OpenLogFile, FaultFree, historyVars
  <2> QED  BY <2>1, NothingSeen
<1>9. ASSUME NEW t \in Threads, Client(t)
      PROVE  UNCHANGED SeenByService
  BY <1>3, <1>4, <1>9 DEF Client, RegisterOperation, UpdateOpStatus
<1>10. ASSUME NEW t \in Threads, Proceed(t) \/ WriteBlockFails(t)
       PROVE  Service!Next \/ UNCHANGED SeenByService
  BY <1>5, <1>6, <1>7, <1>10, NoStepFails, PlaceIsService, ReturnIsService DEF Proceed
<1>11. CASE VerifyLog \/ VerifyLogFails \/ ClearLog \/ Crash
  BY <1>1, <1>11, NoStepFails, OwnerIsService, ConstantsAssumption
<1> QED  BY <1>2, <1>8, <1>9, <1>10, <1>11 DEF Next

(* DbWAL keeps the promise of WalService: an operation is acknowledged only *)
(* when a restart would replay it, it stays so until its completion is      *)
(* under way, it is finished only when no restart will replay it, and only  *)
(* the block's own operations enter or leave the log with a block, also     *)
(* with the one a crash cuts short.                                         *)
THEOREM LogIsService ==
    ASSUME FaultFree
    PROVE  Spec => ServiceSpec
<1>1. Init => Service!Init
  <2> SUFFICES ASSUME Init PROVE Service!Init
    OBVIOUS
  <2>1. \A op : op \notin InRegistration /\ op \notin InCompletion
    BY WhatIsInFlight DEF Init, Registering, Updating, NoCall
  <2>2. WouldReplay = {}
    BY EmptyLogReplaysNothing DEF WouldReplay, Init
  <2> QED  BY <2>1, <2>2 DEF Service!Init, Init
<1>2. IInv /\ WaitInv /\ LogInv /\ LogInv' /\ [Next]_vars => [Service!Next]_(Service!vars)
  BY EveryStep DEF Service!vars, SeenByService
<1> QED  BY <1>1, <1>2, LogCorrect, PTL DEF Spec, ServiceSpec, Service!Spec
=============================================================================
