---------------------------- MODULE DbWAL_proofs ----------------------------
(* Theorems about DbWAL, for every set of threads, every set of entry sizes *)
(* and any number of operations, crashes and I/O errors.                    *)
EXTENDS DbWALInvariant, TLAPS

BlockRecords == [pos : Positions, entries : SUBSET EntryRecords]
LogBlocks == [torn : BOOLEAN, entries : SUBSET EntryRecords]

LEMMA Sizes == BlockSize = 4096 /\ CountSize = 2 /\ ChecksumSize = 4 /\ MinItemSize = 7 /\ MarkerSize = 8
BY DEF BlockSize, CountSize, ChecksumSize, MinItemSize, MarkerSize, EntryHeaderSize

LEMMA NewBlockType == NewBlock \in BlockRecords
BY Sizes DEF NewBlock, BlockRecords, Positions

LEMMA NoCallType == NoCall \in Calls
BY ConstantsAssumption, Sizes DEF NoCall, Calls, OpIds, Positions

LEMMA WithinBlock ==
    ASSUME NEW x \in Positions, NEW y \in Positions, y <= BlockSize - x
    PROVE  x + y \in Positions
BY DEF Positions, BlockSize

LEMMA PutEntryType ==
    ASSUME NEW b \in BlockRecords, NEW kind \in {"op", "done"}, NEW op \in Ops,
           NEW len \in Positions, Fits(b, len)
    PROVE  PutEntry(b, kind, op, len) \in BlockRecords
<1>1. b.pos \in Positions /\ b.entries \in SUBSET EntryRecords
  BY DEF BlockRecords
<1>2. b.pos + len \in Positions
  BY <1>1, WithinBlock DEF Fits, RemainingCapacity
<1>3. [kind |-> kind, op |-> op, at |-> b.pos, len |-> len] \in EntryRecords
  BY <1>1 DEF EntryRecords
<1>4. b.entries \cup {[kind |-> kind, op |-> op, at |-> b.pos, len |-> len]} \in SUBSET EntryRecords
  BY <1>1, <1>3
<1> QED  BY <1>2, <1>4 DEF PutEntry, BlockRecords

LEMMA PartialWriteType ==
    ASSUME NEW f \in Seq(LogBlocks), NEW b \in BlockRecords, NEW g \in AfterPartialWrite(f, b)
    PROVE  g \in Seq(LogBlocks)
<1>1. Whole(b) \in LogBlocks /\ Torn(b) \in LogBlocks
  BY DEF Whole, Torn, LogBlocks, BlockRecords
<1> QED  BY <1>1 DEF AfterPartialWrite

LEMMA ObjectLostType == TypeOK /\ ObjectLost =>
    /\ pc' = [t \in Threads |-> "idle"]
    /\ call' \in [Threads -> Calls]
    /\ lastOpId' \in OpIds /\ lastBlockOpId' \in OpIds /\ lastFlushedOpId' \in OpIds
    /\ issued' \in 0 .. MaxOps
    /\ block' \in BlockRecords
    /\ pending' \subseteq OpIds
    /\ status' = "down"
    /\ epoch' \in Nat
BY NewBlockType, NoCallType, ConstantsAssumption DEF ObjectLost, TypeOK, OpIds

(* Every step keeps the types: the IDs within the range of OpID, the write  *)
(* position within the buffer, the log a sequence of blocks.                *)
LEMMA TypeStep == TypeOK /\ [Next]_vars => TypeOK'
<1> SUFFICES ASSUME TypeOK, [Next]_vars PROVE TypeOK'
  OBVIOUS
<1> USE DEF TypeOK, BlockRecords, LogBlocks
<1>0. CASE UNCHANGED vars
  BY <1>0 DEF vars, objectVars, envVars, historyVars
<1>1. ASSUME NEW t \in Threads, NEW kind \in {"register", "update"}, NEW target \in OpIds,
             NEW len \in Positions, TakeIdAndLock(t, kind, target, len)
      PROVE  TypeOK'
  <2>1. NextId \in OpIds
    BY ConstantsAssumption DEF NextId, OpIds
  <2>2. [NoCall EXCEPT !.kind = kind, !.id = NextId, !.target = target, !.len = len] \in Calls
    BY <2>1, NoCallType DEF Calls
  <2>3. call' \in [Threads -> Calls]
    BY <1>1, <2>2 DEF TakeIdAndLock
  <2>4. issued' \in 0 .. MaxOps
    BY <1>1, ConstantsAssumption DEF TakeIdAndLock
  <2>5. pc' \in [Threads -> {"idle", "flush", "publish", "place", "wait", "timedout", "done"}]
    BY <1>1 DEF TakeIdAndLock
  <2>6. lastOpId' \in OpIds
    BY <1>1, <2>1 DEF TakeIdAndLock
  <2> QED
    BY <1>1, <2>3, <2>4, <2>5, <2>6 DEF TakeIdAndLock, envVars, historyVars
<1>2. ASSUME NEW t \in Threads, NEW len \in EntrySizes, RegisterOperation(t, len)
      PROVE  TypeOK'
  <2>1. len \in Positions /\ 0 \in OpIds
    BY ConstantsAssumption, Sizes DEF Positions, OpIds
  <2> QED  BY <1>1, <1>2, <2>1 DEF RegisterOperation
<1>3. ASSUME NEW t \in Threads, NEW id \in pending, UpdateOpStatus(t, id)
      PROVE  TypeOK'
  <2>1. MarkerSize \in Positions /\ id \in OpIds
    BY Sizes DEF Positions
  <2> QED  BY <1>1, <1>3, <2>1 DEF UpdateOpStatus
<1>4. ASSUME NEW t \in Threads, CloseLogFile(t)
      PROVE  TypeOK'
  <2>1. [NoCall EXCEPT !.kind = "close"] \in Calls
    BY NoCallType DEF Calls
  <2> QED  BY <1>4, <2>1 DEF CloseLogFile, objectVars, historyVars
<1>5. ASSUME NEW t \in Threads, WriteBlock(t)
      PROVE  TypeOK'
  <2>1. Whole(block) \in LogBlocks
    BY DEF Whole
  <2>2. log' \in Seq(LogBlocks)
    BY <1>5, <2>1 DEF WriteBlock
  <2> QED  BY <1>5, <2>2 DEF WriteBlock, GoTo, objectVars, envVars, historyVars
<1>6. ASSUME NEW t \in Threads, Publish(t)
      PROVE  TypeOK'
  <2>1. call' \in [Threads -> Calls]
    BY <1>6, NoCallType DEF Publish, Finish, GoTo
  <2>2. pc' \in [Threads -> {"idle", "flush", "publish", "place", "wait", "timedout", "done"}]
    BY <1>6 DEF Publish, Finish, GoTo
  <2>3. lastFlushedOpId' \in OpIds /\ block' \in BlockRecords
    BY <1>6, NewBlockType DEF Publish, StartNewBlock
  <2>4. status' \in {"down", "closed", "opened", "running", "unreadable"}
    BY <1>6 DEF Publish
  <2> QED  BY <1>6, <2>1, <2>2, <2>3, <2>4 DEF Publish, historyVars
<1>7. ASSUME NEW t \in Threads, NEW p \in Positions, FlushFails(t, p)
      PROVE  /\ pc' \in [Threads -> {"idle", "flush", "publish", "place", "wait", "timedout", "done"}]
             /\ call' \in [Threads -> Calls]
             /\ lastOpId' \in OpIds /\ lastBlockOpId' \in OpIds /\ lastFlushedOpId' \in OpIds
             /\ issued' \in 0 .. MaxOps
             /\ block' \in BlockRecords
             /\ pending' \subseteq OpIds
             /\ status' \in {"down", "closed", "opened", "running", "unreadable"}
             /\ epoch' \in Nat
             /\ fatal' \in BOOLEAN
  <2>1. CASE call[t].placed
    BY <1>7, <2>1, ObjectLostType DEF FlushFails
  <2>2. CASE ~call[t].placed
    <3>1. block' \in BlockRecords
      BY <1>7, <2>2 DEF FlushFails
    <3>2. call' \in [Threads -> Calls]
      BY <1>7, <2>2, NoCallType DEF FlushFails, Finish
    <3> QED  BY <1>7, <2>2, <3>1, <3>2 DEF FlushFails, Finish
  <2> QED  BY <2>1, <2>2
<1>8. ASSUME NEW t \in Threads, FlushOfEmptyBlockFails(t)
      PROVE  TypeOK'
  <2>1. 0 \in Positions
    BY Sizes DEF Positions
  <2>2. FlushFails(t, 0)
    BY <1>8 DEF FlushOfEmptyBlockFails
  <2> QED  BY <1>7, <1>8, <2>1, <2>2 DEF FlushOfEmptyBlockFails, historyVars
<1>9. ASSUME NEW t \in Threads, WriteBlockFails(t)
      PROVE  TypeOK'
  <2>1. BlockSize \in Positions
    BY Sizes DEF Positions
  <2>2. FlushFails(t, BlockSize)
    BY <1>9 DEF WriteBlockFails
  <2>3. log' \in Seq(LogBlocks)
    BY <1>9, PartialWriteType DEF WriteBlockFails
  <2>4. ioFailures' \in 0 .. MaxIoFailures
    BY <1>9, ConstantsAssumption DEF WriteBlockFails
  <2> QED  BY <1>7, <1>9, <2>1, <2>2, <2>3, <2>4 DEF WriteBlockFails, historyVars
<1>10. ASSUME NEW t \in Threads, Place(t)
       PROVE  TypeOK'
  <2>1. call[t] \in Calls /\ call[t].id \in OpIds /\ call[t].target \in OpIds /\ call[t].len \in Positions
    BY DEF Calls
  <2>2. Op(call[t].id) \in Ops /\ Op(call[t].target) \in Ops
    BY <2>1 DEF Op, Ops
  <2>3. block' \in BlockRecords
    BY <1>10, <2>1, <2>2, PutEntryType DEF Place
  <2>4. call' \in [Threads -> Calls]
    <3>1. [call[t] EXCEPT !.placed = TRUE, !.first = FirstWriter] \in Calls
      BY <2>1 DEF Calls, FirstWriter, BlockIsEmpty
    <3>2. call' = [call EXCEPT ![t] = [call[t] EXCEPT !.placed = TRUE, !.first = FirstWriter]]
      BY <1>10 DEF Place
    <3> QED  BY <3>1, <3>2
  <2>5. pending' \subseteq OpIds /\ acked' \subseteq Ops
    BY <1>10, <2>1, <2>2 DEF Place
  <2> QED  BY <1>10, <2>1, <2>3, <2>4, <2>5 DEF Place, envVars
<1>11. ASSUME NEW t \in Threads, PlaceFails(t)
       PROVE  TypeOK'
  <2>1. call[t] \in Calls /\ call[t].id \in OpIds
    BY DEF Calls
  <2>2. call' \in [Threads -> Calls]
    BY <1>11, NoCallType DEF PlaceFails, Finish
  <2> QED  BY <1>11, <2>1, <2>2 DEF PlaceFails, Finish, envVars, historyVars
<1>12. ASSUME NEW t \in Threads, TimeoutExpires(t) \/ LockAfterTimeout(t)
       PROVE  TypeOK'
  BY <1>12 DEF TimeoutExpires, LockAfterTimeout, GoTo, objectVars, envVars, historyVars
<1>13. ASSUME NEW t \in Threads, Return(t)
       PROVE  TypeOK'
  <2>1. call[t] \in Calls /\ call[t].id \in OpIds /\ call[t].target \in OpIds
    BY DEF Calls
  <2>2. Op(call[t].id) \in Ops /\ Op(call[t].target) \in Ops
    BY <2>1 DEF Op, Ops
  <2>3. call' \in [Threads -> Calls]
    BY <1>13, NoCallType DEF Return, Finish
  <2>4. acked' \subseteq Ops /\ finished' \subseteq Ops
    BY <1>13, <2>2 DEF Return
  <2> QED  BY <1>13, <2>3, <2>4 DEF Return, Finish, objectVars, envVars
<1>14. CASE OpenLogFile
  <2>1. log' \in Seq(LogBlocks)
    BY <1>14 DEF OpenLogFile
  <2> QED  BY <1>14, <2>1, NewBlockType DEF OpenLogFile, StartNewBlock, historyVars
<1>15. CASE VerifyLog
  <2>1. log' \in Seq(LogBlocks) /\ finished' \subseteq Ops /\ acked' \subseteq Ops
    <3>1. \/ log' = <<>> /\ finished' = {}
          \/ UNCHANGED <<log, finished>>
      BY <1>15 DEF VerifyLog
    <3>2. acked' = {}
      BY <1>15 DEF VerifyLog
    <3>3. <<>> \in Seq(LogBlocks)
      OBVIOUS
    <3> QED  BY <3>1, <3>2, <3>3
  <2> QED  BY <1>15, <2>1 DEF VerifyLog, objectVars
<1>16. CASE VerifyLogFails
  <2>1. status' \in {"down", "closed", "opened", "running", "unreadable"}
    BY <1>16 DEF VerifyLogFails
  <2> QED  BY <1>16, <2>1 DEF VerifyLogFails, objectVars, historyVars
<1>17. CASE ClearLog
  BY <1>17 DEF ClearLog, objectVars, envVars
<1>18. CASE Crash
  <2>1. log' \in Seq(LogBlocks)
    BY <1>18, PartialWriteType DEF Crash
  <2> QED  BY <1>18, <2>1, ObjectLostType DEF Crash, historyVars
<1> QED
  BY <1>0, <1>2, <1>3, <1>4, <1>5, <1>6, <1>8, <1>9, <1>10, <1>11, <1>12, <1>13, <1>14,
     <1>15, <1>16, <1>17, <1>18 DEF Next, Client, Proceed

LEMMA TypeInit == Init => TypeOK
<1> SUFFICES ASSUME Init PROVE TypeOK
  OBVIOUS
<1>1. 0 \in OpIds /\ 0 \in 0 .. MaxOps /\ 0 \in 0 .. MaxIoFailures
  BY ConstantsAssumption DEF OpIds
<1>2. block \in [pos : Positions, entries : SUBSET EntryRecords]
  BY NewBlockType DEF Init, BlockRecords
<1>3. call \in [Threads -> Calls]
  BY NoCallType DEF Init
<1>4. log \in Seq([torn : BOOLEAN, entries : SUBSET EntryRecords])
  BY DEF Init
<1> QED  BY <1>1, <1>2, <1>3, <1>4 DEF Init, TypeOK

(* The variables keep their types.                                          *)
THEOREM TypeCorrect == Spec => []TypeOK
BY TypeInit, TypeStep, PTL DEF Spec

-----------------------------------------------------------------------------
(* The invariant: one lemma per action.                                     *)

LEMMA TypeFacts ==
    ASSUME TypeOK
    PROVE  /\ lastOpId \in Nat /\ lastBlockOpId \in Nat /\ lastFlushedOpId \in Nat /\ issued \in Nat
           /\ \A t \in Threads : call[t].id \in Nat /\ call[t].target \in Nat /\ call[t].placed \in BOOLEAN
           /\ \A id \in pending : id \in Nat
           /\ epoch \in Nat
           /\ DOMAIN call = Threads /\ DOMAIN pc = Threads
BY ConstantsAssumption DEF TypeOK, OpIds, Calls

LEMMA AppendKeepsOps ==
    ASSUME NEW f \in Seq(LogBlocks), NEW b \in LogBlocks
    PROVE  /\ \A op : InLog(op, f) => InLog(op, Append(f, b))
           /\ ~b.torn => \E k \in Readable(Append(f, b)) : Append(f, b)[k].entries = b.entries
<1>1. DOMAIN f = 1 .. Len(f) /\ DOMAIN Append(f, b) = 1 .. Len(f) + 1 /\ Len(f) \in Nat
  OBVIOUS
<1>2. \A k \in 1 .. Len(f) : Append(f, b)[k] = f[k]
  OBVIOUS
<1>3. Append(f, b)[Len(f) + 1] = b
  OBVIOUS
<1>4. \A op : InLog(op, f) => InLog(op, Append(f, b))
  BY <1>1, <1>2 DEF InLog, Readable
<1>5. ~b.torn => \E k \in Readable(Append(f, b)) : Append(f, b)[k].entries = b.entries
  BY <1>1, <1>3 DEF Readable
<1> QED  BY <1>4, <1>5

LEMMA PartialWriteKeepsOps ==
    ASSUME NEW f \in Seq(LogBlocks), NEW b \in BlockRecords, NEW g \in AfterPartialWrite(f, b)
    PROVE  \A op : InLog(op, f) => InLog(op, g)
<1>1. Whole(b) \in LogBlocks /\ Torn(b) \in LogBlocks
  BY DEF Whole, Torn, LogBlocks, BlockRecords
<1> QED  BY <1>1, AppendKeepsOps DEF AfterPartialWrite

LEMMA TakeIdKeepsInv ==
    ASSUME MaxOps < IdModulus, IInv,
           NEW t \in Threads, NEW kind \in {"register", "update"}, NEW target \in OpIds,
           NEW len \in Positions, TakeIdAndLock(t, kind, target, len),
           kind = "update" => Op(target) \in acked,
           TypeOK'
    PROVE  IInv'
<1> USE DEF IInv
<1>1. lastOpId' = lastOpId + 1 /\ issued' = issued + 1
  BY TypeFacts, ConstantsAssumption DEF TakeIdAndLock, NextId, IdOrder, TypeOK
<1>2. call' = [call EXCEPT ![t] = call'[t]]
  BY DEF TakeIdAndLock, TypeOK
<1>3. /\ call'[t].kind = kind /\ call'[t].id = lastOpId + 1 /\ call'[t].target = target
      /\ ~call'[t].placed
  BY <1>1 DEF TakeIdAndLock, NoCall, TypeOK
<1>4. \A u \in Threads : u # t => call'[u] = call[u] /\ pc'[u] = pc[u]
  BY DEF TakeIdAndLock, TypeOK
<1>5. pc[t] = "idle" /\ pc'[t] \in {"flush", "place"} /\ MutexFree /\ status = "running"
  BY DEF TakeIdAndLock, TypeOK
<1>6. UNCHANGED <<lastBlockOpId, lastFlushedOpId, block, pending, log, status, epoch, acked>>
  BY DEF TakeIdAndLock, envVars, historyVars
<1>7. MutualExclusion'
  BY <1>4, <1>5 DEF MutualExclusion, MutexFree
<1>8. CallMatchesPc'
  BY <1>3, <1>4, <1>5 DEF CallMatchesPc, InCall
<1>9. QuietUnlessRunning'
  BY <1>5, <1>6 DEF QuietUnlessRunning
<1>10. IdOrder'
  BY <1>1, <1>6, TypeFacts DEF IdOrder
<1>11. NewIdIsLast'
  BY <1>1, <1>3, <1>4, <1>5, <1>6, TypeFacts DEF NewIdIsLast, MutexFree, IdOrder
<1>12. WaitersInBlock' /\ PendingInBlock'
  BY <1>3, <1>4, <1>6 DEF WaitersInBlock, PendingInBlock
<1>13. WaitersDiffer'
  BY <1>3, <1>4 DEF WaitersDiffer
<1>14. WaitersEntry'
  BY <1>3, <1>4, <1>6 DEF WaitersEntry, Registering, InBlock, Op
<1>15. WrittenBlock'
  BY <1>4, <1>5, <1>6 DEF WrittenBlock
<1>16. UpdatesAcked'
  BY <1>3, <1>4, <1>6 DEF UpdatesAcked, Op
<1>17. AckedPending' /\ AckedInLog'
  BY <1>6 DEF AckedPending, AckedInLog
<1> QED
  BY <1>7, <1>8, <1>9, <1>10, <1>11, <1>12, <1>13, <1>14, <1>15, <1>16, <1>17
LEMMA CloseKeepsInv ==
    ASSUME IInv, NEW t \in Threads, CloseLogFile(t), TypeOK'
    PROVE  IInv'
<1> USE DEF IInv
<1>1. UNCHANGED <<objectVars, log, epoch, acked>>
  BY DEF CloseLogFile, historyVars
<1>2. \A u \in Threads : u # t => call'[u] = call[u] /\ pc'[u] = pc[u]
  BY DEF CloseLogFile, TypeOK
<1>3. /\ pc[t] = "idle" /\ MutexFree /\ status = "running" /\ status' \in {"running", "closed"}
      /\ \/ pc'[t] = "idle" /\ call'[t] = NoCall
         \/ pc'[t] = "flush" /\ call'[t].kind = "close" /\ ~call'[t].placed
  BY DEF CloseLogFile, TypeOK, NoCall, CallMatchesPc
<1>4. call'[t].kind \notin {"register", "update"} /\ ~call'[t].placed
  BY <1>3 DEF NoCall
<1>5. MutualExclusion'
  BY <1>2, <1>3 DEF MutualExclusion, MutexFree
<1>6. CallMatchesPc'
  BY <1>2, <1>3 DEF CallMatchesPc, InCall
<1>7. QuietUnlessRunning'
  BY <1>3 DEF QuietUnlessRunning
<1>8. IdOrder' /\ PendingInBlock' /\ AckedInLog'
  BY <1>1 DEF IdOrder, PendingInBlock, AckedInLog, objectVars
<1>9. NewIdIsLast'
  BY <1>1, <1>2, <1>4 DEF NewIdIsLast, InCall, objectVars
<1>10. WaitersInBlock' /\ WaitersDiffer'
  BY <1>1, <1>2, <1>4 DEF WaitersInBlock, WaitersDiffer, objectVars
<1>11. WaitersEntry'
  BY <1>1, <1>2, <1>4 DEF WaitersEntry, Registering, InBlock, Op, objectVars
<1>12. WrittenBlock'
  BY <1>1, <1>2, <1>3 DEF WrittenBlock, objectVars
<1>13. UpdatesAcked'
  BY <1>1, <1>2, <1>4 DEF UpdatesAcked, Op
<1>14. AckedPending'
  BY <1>1, <1>3 DEF AckedPending, objectVars
<1> QED
  BY <1>5, <1>6, <1>7, <1>8, <1>9, <1>10, <1>11, <1>12, <1>13, <1>14

LEMMA WriteBlockKeepsInv ==
    ASSUME IInv, NEW t \in Threads, WriteBlock(t), TypeOK'
    PROVE  IInv'
<1> USE DEF IInv
<1>1. UNCHANGED <<call, lastOpId, lastBlockOpId, lastFlushedOpId, block, pending, issued,
                  status, epoch, acked>>
  BY DEF WriteBlock, GoTo, objectVars, envVars, historyVars
<1>2. pc[t] = "flush" /\ pc'[t] = "publish" /\ \A u \in Threads : u # t => pc'[u] = pc[u]
  BY DEF WriteBlock, GoTo, TypeOK
<1>3. block \in BlockRecords /\ log \in Seq(LogBlocks) /\ Whole(block) \in LogBlocks
  BY DEF TypeOK, BlockRecords, LogBlocks, Whole
<1>4. log' = Append(log, Whole(block))
  BY DEF WriteBlock
<1>5. /\ \A op : InLog(op, log) => InLog(op, log')
      /\ \E k \in Readable(log') : log'[k].entries = block.entries
  BY <1>3, <1>4, AppendKeepsOps DEF Whole
<1>6. MutualExclusion'
  BY <1>2 DEF MutualExclusion, InCriticalSection
<1>7. CallMatchesPc'
  BY <1>1, <1>2 DEF CallMatchesPc, InCall
<1>8. QuietUnlessRunning'
  BY <1>1, <1>2 DEF QuietUnlessRunning, AllIdle
<1>9. IdOrder' /\ PendingInBlock' /\ WaitersInBlock' /\ WaitersDiffer'
  BY <1>1 DEF IdOrder, PendingInBlock, WaitersInBlock, WaitersDiffer
<1>10. NewIdIsLast'
  BY <1>1, <1>2 DEF NewIdIsLast, InCall, InCriticalSection
<1>11. WaitersEntry'
  BY <1>1, <1>2, <1>5 DEF WaitersEntry, Registering, InBlock, Op
<1>12. WrittenBlock'
  BY <1>1, <1>2, <1>5 DEF WrittenBlock, MutualExclusion, InCriticalSection
<1>13. UpdatesAcked' /\ AckedPending'
  BY <1>1 DEF UpdatesAcked, AckedPending, Op
<1>14. AckedInLog'
  BY <1>1, <1>5 DEF AckedInLog
<1> QED
  BY <1>6, <1>7, <1>8, <1>9, <1>10, <1>11, <1>12, <1>13, <1>14

(* The entries of the block are in the file when the IDs up to the last one *)
(* of the block are published.                                              *)
LEMMA PublishKeepsInv ==
    ASSUME IInv, NEW t \in Threads, Publish(t), TypeOK'
    PROVE  IInv'
<1> USE DEF IInv
<1>1. UNCHANGED <<lastOpId, lastBlockOpId, pending, issued, log, epoch, acked>>
  BY DEF Publish, historyVars
<1>2. lastFlushedOpId' = lastBlockOpId /\ block' = NewBlock
  BY DEF Publish, StartNewBlock
<1>3. \A u \in Threads : u # t => pc'[u] = pc[u] /\ call'[u] = call[u]
  BY DEF Publish, Finish, GoTo, TypeOK
<1>4. /\ pc[t] = "publish"
      /\ \/ pc'[t] = "idle" /\ call'[t] = NoCall /\ status' = "closed" /\ ~call[t].placed
         \/ pc'[t] = "done" /\ call'[t] = call[t] /\ call[t].placed /\ InCall(t) /\ status' = status
         \/ pc'[t] = "place" /\ call'[t] = call[t] /\ ~call[t].placed /\ InCall(t) /\ status' = status
  BY DEF Publish, Finish, GoTo, TypeOK, CallMatchesPc, InCall
<1>5. status \in {"running", "closed"} /\ status' \in {"running", "closed"}
  BY <1>4 DEF QuietUnlessRunning, AllIdle
<1>6. NoCall.kind = "none" /\ ~NoCall.placed
  BY DEF NoCall
<1>7. \A op : InBlock(op) => InLog(op, log)
  BY <1>4 DEF WrittenBlock, InBlock, InLog
<1>8. MutualExclusion'
  BY <1>3, <1>4 DEF MutualExclusion, InCriticalSection
<1>9. CallMatchesPc'
  BY <1>3, <1>4 DEF CallMatchesPc, InCall
<1>10. QuietUnlessRunning'
  BY <1>5 DEF QuietUnlessRunning
<1>11. IdOrder' /\ PendingInBlock'
  BY <1>1, <1>2, TypeFacts DEF IdOrder, PendingInBlock
<1>12. NewIdIsLast'
  BY <1>1, <1>3, <1>4, <1>6 DEF NewIdIsLast, InCall, InCriticalSection
<1>13. WaitersInBlock' /\ WaitersDiffer'
  BY <1>1, <1>3, <1>4, <1>6 DEF WaitersInBlock, WaitersDiffer
<1>14. WaitersEntry'
  <2>1. \A u \in Threads : Registering(u)' =>
            call'[u] = call[u] /\ Registering(u) /\ ~(lastBlockOpId < call[u].id)
    BY <1>3, <1>4, <1>6, TypeFacts DEF Registering, WaitersInBlock
  <2>2. \A u \in Threads : Registering(u) => InLog(Op(call[u].id), log)
    BY <1>7 DEF WaitersEntry
  <2> QED  BY <1>1, <1>2, <2>1, <2>2 DEF WaitersEntry, Op
<1>15. WrittenBlock'
  BY <1>3, <1>4 DEF WrittenBlock, MutualExclusion, InCriticalSection
<1>16. UpdatesAcked'
  BY <1>1, <1>3, <1>4, <1>6 DEF UpdatesAcked, Op
<1>17. AckedPending' /\ AckedInLog'
  BY <1>1, <1>5 DEF AckedPending, AckedInLog
<1> QED
  BY <1>8, <1>9, <1>10, <1>11, <1>12, <1>13, <1>14, <1>15, <1>16, <1>17
(* When the object is lost nothing is left to keep but what is in the file. *)
LEMMA ObjectLostKeepsInv ==
    ASSUME IInv, ObjectLost, TypeOK', UNCHANGED acked,
           \A op : InLog(op, log) => InLog(op, log')
    PROVE  IInv'
<1> USE DEF IInv
<1>1. /\ \A t \in Threads : pc'[t] = "idle" /\ call'[t] = NoCall
      /\ lastOpId' = 0 /\ lastBlockOpId' = 0 /\ lastFlushedOpId' = 0 /\ issued' = 0
      /\ pending' = {} /\ status' = "down"
  BY DEF ObjectLost
<1>2. NoCall.kind = "none" /\ ~NoCall.placed
  BY DEF NoCall
<1>3. MutualExclusion' /\ NewIdIsLast' /\ WrittenBlock' /\ CallMatchesPc'
  BY <1>1 DEF MutualExclusion, NewIdIsLast, WrittenBlock, CallMatchesPc, InCriticalSection
<1>4. QuietUnlessRunning' /\ IdOrder' /\ PendingInBlock' /\ AckedPending'
  BY <1>1 DEF QuietUnlessRunning, AllIdle, IdOrder, PendingInBlock, AckedPending
<1>5. WaitersInBlock' /\ WaitersDiffer' /\ WaitersEntry' /\ UpdatesAcked'
  BY <1>1, <1>2 DEF WaitersInBlock, WaitersDiffer, WaitersEntry, UpdatesAcked, Registering
<1>6. AckedInLog'
  BY DEF AckedInLog
<1> QED  BY <1>3, <1>4, <1>5, <1>6

(* A call leaves, its entry not placed, or a block written without its ID   *)
(* being published: the other calls see the same.                           *)
LEMMA FlushFailsKeepsInv ==
    ASSUME IInv, NEW t \in Threads, NEW p \in Positions, pc[t] = "flush",
           FlushFails(t, p), TypeOK', UNCHANGED acked,
           \A op : InLog(op, log) => InLog(op, log')
    PROVE  IInv'
<1> USE DEF IInv
<1>a. CASE call[t].placed
  BY <1>a, ObjectLostKeepsInv DEF FlushFails
<1>b. CASE ~call[t].placed
  <2>1. UNCHANGED <<lastOpId, lastBlockOpId, lastFlushedOpId, pending, issued, status, epoch>>
    BY <1>b DEF FlushFails
  <2>2. block'.entries = block.entries
    BY <1>b DEF FlushFails, TypeOK
  <2>3. /\ pc'[t] = "idle" /\ call'[t] = NoCall
        /\ \A u \in Threads : u # t => pc'[u] = pc[u] /\ call'[u] = call[u]
    BY <1>b DEF FlushFails, Finish, TypeOK
  <2>4. NoCall.kind = "none" /\ ~NoCall.placed
    BY DEF NoCall
  <2>5. MutualExclusion' /\ CallMatchesPc'
    BY <2>3 DEF MutualExclusion, CallMatchesPc, InCall, InCriticalSection
  <2>6. QuietUnlessRunning' /\ IdOrder' /\ PendingInBlock' /\ AckedPending'
    BY <2>1, <2>3 DEF QuietUnlessRunning, AllIdle, IdOrder, PendingInBlock, AckedPending
  <2>7. NewIdIsLast'
    BY <2>1, <2>3 DEF NewIdIsLast, InCall, InCriticalSection
  <2>8. WaitersInBlock' /\ WaitersDiffer'
    BY <2>1, <2>3, <2>4 DEF WaitersInBlock, WaitersDiffer
  <2>9. WaitersEntry'
    BY <2>1, <2>2, <2>3, <2>4 DEF WaitersEntry, Registering, InBlock, Op
  <2>10. WrittenBlock'
    BY <2>3 DEF WrittenBlock, MutualExclusion, InCriticalSection
  <2>11. UpdatesAcked'
    BY <2>1, <2>3, <2>4 DEF UpdatesAcked, Op
  <2>12. AckedInLog'
    BY DEF AckedInLog
  <2> QED
    BY <2>5, <2>6, <2>7, <2>8, <2>9, <2>10, <2>11, <2>12
<1> QED  BY <1>a, <1>b DEF TypeOK, Calls

(* The entry joins the block with the newest ID.  A completion marker takes *)
(* its operation out of pending; no registration still waits for that ID.   *)
LEMMA PlaceKeepsInv ==
    ASSUME IInv, NEW t \in Threads, Place(t), TypeOK'
    PROVE  IInv'
<1> USE DEF IInv
<1>1. UNCHANGED <<lastOpId, lastFlushedOpId, issued, log, status, epoch>>
  BY DEF Place, envVars
<1>2. pc[t] = "place" /\ pc'[t] = "wait" /\ InCall(t) /\ ~call[t].placed
  BY DEF Place, TypeOK, CallMatchesPc
<1>3. /\ \A u \in Threads : u # t => pc'[u] = pc[u] /\ call'[u] = call[u]
      /\ call'[t].placed /\ call'[t].kind = call[t].kind /\ call'[t].id = call[t].id
  <2>1. call' = [call EXCEPT ![t] = [call[t] EXCEPT !.placed = TRUE, !.first = FirstWriter]]
    BY DEF Place
  <2>2. call'[t] = [call[t] EXCEPT !.placed = TRUE, !.first = FirstWriter]
    BY <2>1 DEF TypeOK
  <2>3. call[t] \in Calls
    BY DEF TypeOK
  <2> QED  BY <2>1, <2>2, <2>3 DEF Place, TypeOK, Calls
<1>4. lastBlockOpId' = call[t].id /\ call[t].id = lastOpId /\ lastBlockOpId < call[t].id
  BY <1>2 DEF Place, NewIdIsLast, InCriticalSection
<1>5. status \in {"running", "closed"}
  BY <1>2 DEF QuietUnlessRunning, AllIdle
<1>6. /\ \A e \in block.entries : e \in block'.entries
      /\ call[t].kind = "register" =>
           /\ \E e \in block'.entries : e.kind = "op" /\ e.op = Op(call[t].id)
           /\ pending' = pending \cup {call[t].id} /\ acked' = acked
      /\ call[t].kind = "update" =>
           /\ pending' = pending \ {call[t].target}
           /\ acked' = acked \ {Op(call[t].target)}
           /\ Op(call[t].target) \in acked
  <2>1. CASE call[t].kind = "register"
    <3>1. block' = PutEntry(block, "op", Op(call[t].id), call[t].len)
      BY <2>1 DEF Place
    <3>2. block'.entries = block.entries \cup
            {[kind |-> "op", op |-> Op(call[t].id), at |-> block.pos, len |-> call[t].len]}
      BY <3>1 DEF PutEntry
    <3>3. \E e \in block'.entries : e.kind = "op" /\ e.op = Op(call[t].id)
      <4> DEFINE entry == [kind |-> "op", op |-> Op(call[t].id), at |-> block.pos, len |-> call[t].len]
      <4>1. entry.kind = "op" /\ entry.op = Op(call[t].id)
        OBVIOUS
      <4>2. entry \in block'.entries
        BY <3>2
      <4> HIDE DEF entry
      <4> QED  BY <4>1, <4>2
    <3>4. pending' = pending \cup {call[t].id} /\ acked' = acked
      BY <2>1 DEF Place
    <3>5. \A e \in block.entries : e \in block'.entries
      BY <3>2
    <3> QED  BY <2>1, <3>3, <3>4, <3>5
  <2>2. CASE call[t].kind = "update"
    <3>1. block' = PutEntry(block, "done", Op(call[t].target), call[t].len)
      BY <2>2 DEF Place
    <3>2. \A e \in block.entries : e \in block'.entries
      BY <3>1 DEF PutEntry
    <3> QED  BY <1>2, <2>2, <3>2 DEF Place, UpdatesAcked
  <2> QED  BY <1>2, <2>1, <2>2 DEF InCall
<1>7. MutualExclusion'
  BY <1>2, <1>3 DEF MutualExclusion, InCriticalSection
<1>8. CallMatchesPc'
  BY <1>2, <1>3 DEF CallMatchesPc, InCall
<1>9. QuietUnlessRunning'
  BY <1>1, <1>5 DEF QuietUnlessRunning
<1>10. IdOrder'
  BY <1>1, <1>4, TypeFacts DEF IdOrder
<1>11. NewIdIsLast'
  BY <1>2, <1>3 DEF NewIdIsLast, MutualExclusion, InCriticalSection
<1>12. WaitersInBlock' /\ WaitersDiffer'
  BY <1>3, <1>4, TypeFacts DEF WaitersInBlock, WaitersDiffer
<1>13. PendingInBlock'
  BY <1>2, <1>4, <1>6, TypeFacts DEF PendingInBlock, InCall
<1>14. WaitersEntry'
  <2>1. ASSUME NEW u \in Threads, u # t, Registering(u)
        PROVE  call[u].id \in pending' /\ Op(call[u].id) \notin acked'
    <3>1. call[u].id \in pending /\ Op(call[u].id) \notin acked
      BY <2>1 DEF WaitersEntry
    <3> QED  BY <1>2, <1>6, <3>1 DEF InCall
  <2>2. call[t].kind = "register" => Op(call[t].id) \notin acked
    BY <1>4, <1>5, TypeFacts DEF AckedPending, PendingInBlock, Op
  <2>3. lastFlushedOpId < call[t].id
    BY <1>4, TypeFacts DEF IdOrder
  <2>4. ASSUME NEW u \in Threads, u # t, Registering(u)'
        PROVE  WaitersEntry!(u)!2'
    BY <1>1, <1>3, <1>6, <2>1, <2>4 DEF WaitersEntry, Registering, InBlock, Op
  <2>5. ASSUME Registering(t)'
        PROVE  WaitersEntry!(t)!2'
    BY <1>1, <1>2, <1>3, <1>6, <2>2, <2>3, <2>5 DEF Registering, InBlock, Op
  <2> QED  BY <2>4, <2>5 DEF WaitersEntry
<1>15. WrittenBlock'
  BY <1>2, <1>3 DEF WrittenBlock, MutualExclusion, InCriticalSection
<1>16. UpdatesAcked'
  <2>1. \A u \in Threads : call[u].kind = "update" /\ ~call[u].placed => u = t
    <3> SUFFICES ASSUME NEW u \in Threads, call[u].kind = "update", ~call[u].placed PROVE u = t
      OBVIOUS
    <3>1. pc[u] \in InCriticalSection
      BY DEF CallMatchesPc, TypeOK, NoCall, InCriticalSection
    <3> QED  BY <1>2, <3>1 DEF MutualExclusion, InCriticalSection
  <2> QED  BY <1>3, <2>1 DEF UpdatesAcked
<1>17. AckedPending'
  <2>1. \A op \in acked : op.epoch = epoch /\ op.id \in pending
    BY <1>5 DEF AckedPending
  <2>2. \A op \in acked : op.id = call[t].target => op = Op(call[t].target)
    BY <2>1 DEF Op, TypeOK, Ops
  <2> QED  BY <1>1, <1>2, <1>6, <2>1, <2>2 DEF AckedPending, InCall
<1>18. AckedInLog'
  BY <1>1, <1>2, <1>6 DEF AckedInLog, InCall
<1> QED
  BY <1>7, <1>8, <1>9, <1>10, <1>11, <1>12, <1>13, <1>14, <1>15, <1>16, <1>17, <1>18
LEMMA PlaceFailsKeepsInv ==
    ASSUME IInv, NEW t \in Threads, PlaceFails(t), TypeOK'
    PROVE  IInv'
<1> USE DEF IInv
<1>1. UNCHANGED <<lastOpId, lastFlushedOpId, issued, block, pending, log, status, epoch, acked>>
  BY DEF PlaceFails, envVars, historyVars
<1>2. /\ pc[t] = "place" /\ pc'[t] = "idle" /\ call'[t] = NoCall
      /\ \A u \in Threads : u # t => pc'[u] = pc[u] /\ call'[u] = call[u]
  BY DEF PlaceFails, Finish, TypeOK
<1>3. call[t].id = lastOpId /\ lastBlockOpId < call[t].id
  BY <1>2 DEF NewIdIsLast, CallMatchesPc, InCriticalSection
<1>4. lastBlockOpId <= lastBlockOpId' /\ lastBlockOpId' <= lastOpId
  BY <1>3, TypeFacts DEF PlaceFails, IdOrder
<1>5. NoCall.kind = "none" /\ ~NoCall.placed
  BY DEF NoCall
<1>6. \A u \in Threads : pc'[u] \notin InCriticalSection
  BY <1>2 DEF MutualExclusion, InCriticalSection
<1>7. MutualExclusion' /\ NewIdIsLast' /\ WrittenBlock'
  BY <1>6 DEF MutualExclusion, NewIdIsLast, WrittenBlock, InCriticalSection
<1>8. CallMatchesPc'
  BY <1>2 DEF CallMatchesPc, InCall
<1>9. QuietUnlessRunning'
  BY <1>1, <1>2 DEF QuietUnlessRunning, AllIdle
<1>10. IdOrder' /\ PendingInBlock' /\ WaitersInBlock'
  <2>1. lastBlockOpId' \in Nat /\ lastFlushedOpId' = lastFlushedOpId
    BY <1>1, <1>4 DEF TypeOK, OpIds
  <2> QED  BY <1>1, <1>2, <1>4, <1>5, <2>1, TypeFacts DEF IdOrder, PendingInBlock, WaitersInBlock
<1>11. WaitersDiffer'
  BY <1>2, <1>5 DEF WaitersDiffer
<1>12. WaitersEntry'
  BY <1>1, <1>2, <1>5 DEF WaitersEntry, Registering, InBlock, Op
<1>13. UpdatesAcked' /\ AckedPending' /\ AckedInLog'
  BY <1>1, <1>2, <1>5 DEF UpdatesAcked, AckedPending, AckedInLog, Op
<1> QED
  BY <1>7, <1>8, <1>9, <1>10, <1>11, <1>12, <1>13

LEMMA WaitKeepsInv ==
    ASSUME IInv, NEW t \in Threads, TimeoutExpires(t) \/ LockAfterTimeout(t), TypeOK'
    PROVE  IInv'
<1> USE DEF IInv
<1>1. UNCHANGED <<call, objectVars, log, envVars, historyVars>>
  BY DEF TimeoutExpires, LockAfterTimeout, GoTo
<1>2. /\ pc[t] \in {"wait", "timedout"} /\ InCall(t) /\ call[t].placed
      /\ \A u \in Threads : u # t => pc'[u] = pc[u]
      /\ \/ pc'[t] = "timedout"
         \/ pc'[t] = "flush" /\ MutexFree
         \/ pc'[t] = "done" /\ ~(lastFlushedOpId < call[t].id)
  BY DEF TimeoutExpires, LockAfterTimeout, GoTo, Flushed, TypeOK, CallMatchesPc
<1> USE DEF objectVars, envVars, historyVars
<1>3. MutualExclusion'
  BY <1>2 DEF MutualExclusion, MutexFree, InCriticalSection
<1>4. CallMatchesPc'
  BY <1>1, <1>2 DEF CallMatchesPc, InCall
<1>5. QuietUnlessRunning'
  BY <1>1, <1>2 DEF QuietUnlessRunning, AllIdle
<1>6. IdOrder' /\ PendingInBlock' /\ WaitersInBlock' /\ WaitersDiffer'
  BY <1>1 DEF IdOrder, PendingInBlock, WaitersInBlock, WaitersDiffer
<1>7. NewIdIsLast'
  BY <1>1, <1>2 DEF NewIdIsLast, InCall, InCriticalSection
<1>8. WaitersEntry'
  BY <1>1, <1>2 DEF WaitersEntry, Registering, InBlock, Op
<1>9. WrittenBlock'
  BY <1>1, <1>2 DEF WrittenBlock
<1>10. UpdatesAcked' /\ AckedPending' /\ AckedInLog'
  BY <1>1 DEF UpdatesAcked, AckedPending, AckedInLog, Op
<1> QED
  BY <1>3, <1>4, <1>5, <1>6, <1>7, <1>8, <1>9, <1>10

(* The operation that is acknowledged is the one whose entry WaitersEntry   *)
(* finds in the file.                                                       *)
LEMMA ReturnKeepsInv ==
    ASSUME IInv, NEW t \in Threads, Return(t), TypeOK'
    PROVE  IInv'
<1> USE DEF IInv
<1>1. UNCHANGED <<objectVars, log, envVars>>
  BY DEF Return
<1>2. /\ pc[t] \in {"wait", "done"} /\ call[t].placed
      /\ pc'[t] = "idle" /\ call'[t] = NoCall
      /\ \A u \in Threads : u # t => pc'[u] = pc[u] /\ call'[u] = call[u]
  BY DEF Return, Finish, TypeOK, CallMatchesPc
<1>3. NoCall.kind = "none" /\ ~NoCall.placed
  BY DEF NoCall
<1>4. \/ acked' = acked
      \/ /\ Registering(t) /\ acked' = acked \cup {Op(call[t].id)}
         /\ ~(lastFlushedOpId < call[t].id)
  BY <1>2 DEF Return, Registering, Flushed, WaitersEntry
<1> USE DEF objectVars, envVars
<1>5. MutualExclusion' /\ CallMatchesPc'
  BY <1>1, <1>2 DEF MutualExclusion, CallMatchesPc, InCall, InCriticalSection
<1>6. QuietUnlessRunning' /\ IdOrder' /\ PendingInBlock'
  BY <1>1, <1>2 DEF QuietUnlessRunning, AllIdle, IdOrder, PendingInBlock
<1>7. NewIdIsLast' /\ WrittenBlock'
  BY <1>1, <1>2 DEF NewIdIsLast, WrittenBlock, InCall, InCriticalSection
<1>8. WaitersInBlock' /\ WaitersDiffer'
  BY <1>1, <1>2, <1>3 DEF WaitersInBlock, WaitersDiffer
<1>9. WaitersEntry'
  <2>1. \A u \in Threads : Registering(u)' => u # t /\ call'[u] = call[u] /\ Registering(u) /\ pc'[u] = pc[u]
    BY <1>2, <1>3 DEF Registering
  <2>2. \A u \in Threads : Registering(u) /\ u # t => Op(call[u].id) \notin acked'
    BY <1>2, <1>4 DEF WaitersEntry, WaitersDiffer, Registering, Op
  <2> QED  BY <1>1, <2>1, <2>2 DEF WaitersEntry, InBlock, Op
<1>10. UpdatesAcked'
  BY <1>1, <1>2, <1>3, <1>4 DEF UpdatesAcked, Op
<1>11. AckedPending'
  BY <1>1, <1>4 DEF AckedPending, WaitersEntry, Op
<1>12. AckedInLog'
  BY <1>1, <1>4 DEF AckedInLog, WaitersEntry
<1> QED
  BY <1>5, <1>6, <1>7, <1>8, <1>9, <1>10, <1>11, <1>12
(* Nothing is in flight when the file is opened, and nothing of this object *)
(* is unfinished when the log is cleared.                                   *)
LEMMA OwnerKeepsInv ==
    ASSUME IInv, TruncatesOnOpen = FALSE, TypeOK',
           OpenLogFile \/ VerifyLog \/ VerifyLogFails \/ ClearLog \/ Crash
    PROVE  IInv'
<1> USE DEF IInv
<1>1. CASE OpenLogFile \/ VerifyLog \/ VerifyLogFails
  <2>1. /\ UNCHANGED <<pc, call, lastOpId, lastBlockOpId, lastFlushedOpId, pending, issued, epoch>>
        /\ AllIdle
    BY <1>1 DEF OpenLogFile, VerifyLog, VerifyLogFails, objectVars, QuietUnlessRunning
  <2>2. \A t \in Threads : pc'[t] = "idle" /\ call'[t] = NoCall
    BY <2>1 DEF AllIdle, CallMatchesPc
  <2>3. NoCall.kind = "none" /\ ~NoCall.placed
    BY DEF NoCall
  <2>4. \/ acked' = {}
        \/ status' \notin {"running", "closed"} /\ acked' = acked /\ log' = log
    BY <1>1 DEF OpenLogFile, VerifyLog, VerifyLogFails, historyVars
  <2>5. MutualExclusion' /\ NewIdIsLast' /\ WrittenBlock' /\ CallMatchesPc'
    BY <2>2 DEF MutualExclusion, NewIdIsLast, WrittenBlock, CallMatchesPc, InCriticalSection
  <2>6. QuietUnlessRunning' /\ IdOrder' /\ PendingInBlock'
    BY <2>1, <2>2 DEF QuietUnlessRunning, AllIdle, IdOrder, PendingInBlock
  <2>7. WaitersInBlock' /\ WaitersDiffer' /\ WaitersEntry' /\ UpdatesAcked'
    BY <2>2, <2>3 DEF WaitersInBlock, WaitersDiffer, WaitersEntry, UpdatesAcked, Registering
  <2>8. AckedPending' /\ AckedInLog'
    BY <2>4 DEF AckedPending, AckedInLog
  <2> QED  BY <2>5, <2>6, <2>7, <2>8
<1>2. CASE ClearLog
  <2>1. UNCHANGED <<pc, call, objectVars, envVars, acked>> /\ MutexFree /\ pending = {}
    BY <1>2 DEF ClearLog
  <2> USE DEF objectVars, envVars
  <2>2. acked = {}
    BY <1>2, <2>1 DEF ClearLog, AckedPending
  <2>3. \A t \in Threads : ~Registering(t)
    BY <2>1 DEF WaitersEntry
  <2>4. MutualExclusion' /\ CallMatchesPc' /\ QuietUnlessRunning' /\ IdOrder'
    BY <2>1 DEF MutualExclusion, CallMatchesPc, QuietUnlessRunning, AllIdle, IdOrder, InCall
  <2>5. NewIdIsLast' /\ WaitersInBlock' /\ PendingInBlock' /\ WaitersDiffer'
    BY <2>1 DEF NewIdIsLast, WaitersInBlock, PendingInBlock, WaitersDiffer, InCall
  <2>6. WaitersEntry'
    BY <2>1, <2>3 DEF WaitersEntry, Registering
  <2>7. WrittenBlock'
    BY <2>1 DEF WrittenBlock, MutexFree, InCriticalSection
  <2>8. UpdatesAcked' /\ AckedPending' /\ AckedInLog'
    BY <2>1, <2>2 DEF UpdatesAcked, AckedPending, AckedInLog, Op
  <2> QED  BY <2>4, <2>5, <2>6, <2>7, <2>8
<1>3. CASE Crash
  <2>1. \A op : InLog(op, log) => InLog(op, log')
    <3>1. log \in Seq(LogBlocks) /\ block \in BlockRecords
      BY DEF TypeOK, LogBlocks, BlockRecords
    <3>2. log' \in AfterPartialWrite(log, block) \/ log' = log
      BY <1>3 DEF Crash
    <3> QED  BY <3>1, <3>2, PartialWriteKeepsOps
  <2>2. ObjectLost /\ UNCHANGED acked
    BY <1>3 DEF Crash, historyVars
  <2> QED  BY <2>1, <2>2, ObjectLostKeepsInv
<1> QED
  BY <1>1, <1>2, <1>3

LEMMA InvStep ==
    ASSUME MaxOps < IdModulus, TruncatesOnOpen = FALSE
    PROVE  IInv /\ [Next]_vars => IInv'
<1> SUFFICES ASSUME IInv, [Next]_vars PROVE IInv'
  OBVIOUS
<1>1. TypeOK'
  BY TypeStep DEF IInv
<1>2. CASE UNCHANGED vars
  BY <1>2 DEF vars, objectVars, envVars, historyVars, IInv, TypeOK, MutualExclusion, CallMatchesPc,
     QuietUnlessRunning, AllIdle, IdOrder, NewIdIsLast, WaitersInBlock, PendingInBlock, WaitersDiffer,
     WaitersEntry, WrittenBlock, UpdatesAcked, AckedPending, AckedInLog, InCall, Registering,
     InBlock, Op
<1>3. ASSUME NEW t \in Threads, Client(t)
      PROVE  IInv'
  <2>1. ASSUME NEW len \in EntrySizes, RegisterOperation(t, len)
        PROVE  IInv'
    <3>1. len \in Positions /\ 0 \in OpIds
      BY ConstantsAssumption, Sizes DEF Positions, OpIds
    <3>2. TakeIdAndLock(t, "register", 0, len)
      BY <2>1 DEF RegisterOperation
    <3> QED  BY <1>1, <3>1, <3>2, TakeIdKeepsInv
  <2>2. ASSUME NEW id \in pending, UpdateOpStatus(t, id)
        PROVE  IInv'
    <3>1. MarkerSize \in Positions /\ id \in OpIds
      BY Sizes DEF Positions, IInv, TypeOK
    <3>2. TakeIdAndLock(t, "update", id, MarkerSize) /\ Op(id) \in acked
      BY <2>2 DEF UpdateOpStatus
    <3> QED  BY <1>1, <3>1, <3>2, TakeIdKeepsInv
  <2> QED  BY <1>1, <1>3, <2>1, <2>2, CloseKeepsInv DEF Client
<1>4. ASSUME NEW t \in Threads, FlushOfEmptyBlockFails(t)
      PROVE  IInv'
  <2>1. 0 \in Positions /\ pc[t] = "flush" /\ FlushFails(t, 0) /\ UNCHANGED <<log, acked>>
    BY <1>4, Sizes DEF FlushOfEmptyBlockFails, Positions, historyVars
  <2>2. \A op : InLog(op, log) => InLog(op, log')
    BY <2>1
  <2> QED  BY <1>1, <2>1, <2>2, FlushFailsKeepsInv
<1>5. ASSUME NEW t \in Threads, WriteBlockFails(t)
      PROVE  IInv'
  <2>1. BlockSize \in Positions /\ pc[t] = "flush" /\ FlushFails(t, BlockSize) /\ UNCHANGED acked
    BY <1>5, Sizes DEF WriteBlockFails, Positions, historyVars
  <2>2. log \in Seq(LogBlocks) /\ block \in BlockRecords
    BY DEF IInv, TypeOK, LogBlocks, BlockRecords
  <2>3. \A op : InLog(op, log) => InLog(op, log')
    BY <1>5, <2>2, PartialWriteKeepsOps DEF WriteBlockFails
  <2> QED  BY <1>1, <2>1, <2>3, FlushFailsKeepsInv
<1>6. ASSUME NEW t \in Threads, Proceed(t)
      PROVE  IInv'
  BY <1>1, <1>4, <1>6, WriteBlockKeepsInv, PublishKeepsInv, PlaceKeepsInv, PlaceFailsKeepsInv,
     WaitKeepsInv, ReturnKeepsInv DEF Proceed
<1> QED
  BY <1>1, <1>2, <1>3, <1>5, <1>6, OwnerKeepsInv DEF Next

LEMMA InvInit == Init => IInv
<1> SUFFICES ASSUME Init PROVE IInv
  OBVIOUS
<1>1. TypeOK
  BY TypeInit
<1>2. \A t \in Threads : pc[t] = "idle" /\ call[t] = NoCall
  BY DEF Init
<1>3. NoCall.kind = "none" /\ ~NoCall.placed
  BY DEF NoCall
<1>4. MutualExclusion /\ CallMatchesPc /\ QuietUnlessRunning /\ NewIdIsLast /\ WrittenBlock
  BY <1>2 DEF MutualExclusion, CallMatchesPc, QuietUnlessRunning, AllIdle, NewIdIsLast,
     WrittenBlock, InCriticalSection
<1>5. WaitersInBlock /\ WaitersDiffer /\ WaitersEntry /\ UpdatesAcked
  BY <1>2, <1>3 DEF WaitersInBlock, WaitersDiffer, WaitersEntry, UpdatesAcked, Registering
<1>6. IdOrder /\ PendingInBlock /\ AckedPending /\ AckedInLog
  BY DEF Init, IdOrder, PendingInBlock, AckedPending, AckedInLog
<1> QED  BY <1>1, <1>4, <1>5, <1>6 DEF IInv

(* When registerOperation() returns an ID, the operation is in a block that *)
(* was written whole, and it stays there until it is marked completed, for  *)
(* any number of threads, entry sizes, I/O errors and crashes: as long as   *)
(* IDs do not wrap and opening the log file keeps what is in it.            *)
THEOREM AcknowledgedIsLogged ==
    ASSUME MaxOps < IdModulus, TruncatesOnOpen = FALSE
    PROVE  Spec => []AckedInLog
<1>1. IInv /\ [Next]_vars => IInv'
  BY InvStep
<1>2. IInv => AckedInLog
  BY DEF IInv
<1> QED  BY InvInit, <1>1, <1>2, PTL DEF Spec

(* No two threads are past the lock of _mtxBlock at once, and the one that  *)
(* is holds the newest ID, so that IDs follow the order of the lock.        *)
THEOREM LockGivesOrder ==
    ASSUME MaxOps < IdModulus, TruncatesOnOpen = FALSE
    PROVE  Spec => [](MutualExclusion /\ NewIdIsLast)
<1>1. IInv /\ [Next]_vars => IInv'
  BY InvStep
<1>2. IInv => MutualExclusion /\ NewIdIsLast
  BY DEF IInv
<1> QED  BY InvInit, <1>1, <1>2, PTL DEF Spec
=============================================================================
