------------------------------- MODULE DbWAL -------------------------------
(***************************************************************************)
(* The write-ahead log of src/src/dbwal.hpp: threads that register          *)
(* operations and mark them completed, sharing one 4 KiB block under        *)
(* _mtxBlock; whoever finds the block full, or waited 50 ms as the first    *)
(* writer of a block, writes it to the log file; the others spin on the     *)
(* atomic _lastFlushedOpId.  The owner thread opens, verifies and closes    *)
(* the log file; the process may die at any moment.                         *)
(*                                                                          *)
(* A step is what a thread does between two points where another thread or  *)
(* a crash can see the difference: everything but _lastFlushedOpId is       *)
(* touched under _mtxBlock only, so the steps are: take the lock and give   *)
(* out an ID; write the block to the file; publish _lastFlushedOpId (and    *)
(* start a new block); put the entry in the block and unlock.               *)
(***************************************************************************)
EXTENDS WalLog, FiniteSets

CONSTANTS
    Threads,            \* the threads that call the WAL
    Owner,              \* the one that made the object and opens and closes the file
    EntrySizes,         \* sizes of an operation's serialized entry
    IdModulus,          \* 2^32 in the program: where OpID wraps
    TruncatesOnOpen,    \* does the storage adapter empty the file on OpenMode::Write?
    ClearAfterRecovery, \* does the client clear the log it has verified and replayed?
    MaxOps,             \* bound: IDs given out by one DbWAL object
    MaxEpoch,           \* bound: crashes
    MaxIoFailures       \* bound: failed writes of a block

ASSUME ConstantsAssumption ==
    /\ Owner \in Threads
    /\ EntrySizes \subseteq (MinItemSize + 1) .. BlockSize
    /\ IdModulus \in Nat \ {0}
    /\ TruncatesOnOpen \in BOOLEAN
    /\ ClearAfterRecovery \in BOOLEAN
    /\ MaxOps \in Nat
    /\ MaxEpoch \in Nat
    /\ MaxIoFailures \in Nat

VARIABLES
    pc,             \* where each thread is
    call,           \* the call it is in: arguments and locals
    lastOpId,       \* _lastOpId
    lastBlockOpId,  \* _lastBlockOpId
    lastFlushedOpId,\* _lastFlushedOpId
    block,          \* _block and _blockItemCount
    pending,        \* _pendingOperations
    log,            \* the contents of the log file
    status,         \* no object, file closed, open, verified ("running"), not verifiable
    issued,         \* how many IDs this object gave out (lastOpId, without the wrap)
    epoch,          \* how many objects died before this one
    ioFailures,     \* how many writes of a block failed
    fatal,          \* fatalAbort() was called
    acked,          \* history: registered (the call returned) and not being completed
    finished        \* history: marked completed (the call returned TRUE)

objectVars  == <<lastOpId, lastBlockOpId, lastFlushedOpId, block, pending, issued>>
historyVars == <<acked, finished>>
envVars     == <<status, epoch, ioFailures, fatal>>
vars == <<pc, call, objectVars, log, envVars, historyVars>>

Op(id) == [epoch |-> epoch, id |-> id]

NoCall == [kind |-> "none", id |-> 0, target |-> 0, len |-> 0, placed |-> FALSE, first |-> FALSE]

(* The program counters of a thread that holds _mtxBlock between steps.     *)
InCriticalSection == {"flush", "publish", "place"}

(* Planted bug: the mutex is given up between taking the ID and placing the *)
(* entry.                                                                   *)
MutexFreeUnlessFlushing == \A t \in Threads : pc[t] \notin {"flush", "publish"}

MutexFree == \A t \in Threads : pc[t] \notin InCriticalSection

AllIdle == \A t \in Threads : pc[t] = "idle"

NextId == IF lastOpId + 1 = IdModulus THEN 0 ELSE lastOpId + 1

Finish(t) == /\ pc' = [pc EXCEPT ![t] = "idle"]
             /\ call' = [call EXCEPT ![t] = NoCall]

GoTo(t, label) == pc' = [pc EXCEPT ![t] = label] /\ UNCHANGED call

(* Planted bug: the position of the buffer is taken for the item count.     *)
NothingWritten == block.pos = CountSize

BlockIsEmpty == block.entries = {}

(* Planted bug: the item count is not reset.                                *)
StartNewBlockKeepingItems == block' = [block EXCEPT !.pos = CountSize]

StartNewBlock == block' = NewBlock

-----------------------------------------------------------------------------
(* The object and the process.                                              *)

Init ==
    /\ pc = [t \in Threads |-> "idle"]
    /\ call = [t \in Threads |-> NoCall]
    /\ lastOpId = 0 /\ lastBlockOpId = 0 /\ lastFlushedOpId = 0 /\ issued = 0
    /\ block = NewBlock
    /\ pending = {}
    /\ log = <<>>
    /\ status = "down"
    /\ epoch = 0 /\ ioFailures = 0 /\ fatal = FALSE
    /\ acked = {} /\ finished = {}

(* The process is gone, and with it every call and the object's state.      *)
ObjectLost ==
    /\ pc' = [t \in Threads |-> "idle"]
    /\ call' = [t \in Threads |-> NoCall]
    /\ lastOpId' = 0 /\ lastBlockOpId' = 0 /\ lastFlushedOpId' = 0 /\ issued' = 0
    /\ block' = NewBlock
    /\ pending' = {}
    /\ status' = "down"
    /\ epoch' = epoch + 1

(* A crash while the block is being written may leave any part of it.       *)
Crash ==
    /\ status \notin {"down", "unreadable"}
    /\ epoch < MaxEpoch
    /\ IF \E t \in Threads : pc[t] = "flush" /\ ~BlockIsEmpty
         THEN log' \in AfterPartialWrite(log, block)
         ELSE UNCHANGED log
    /\ ObjectLost
    /\ UNCHANGED <<ioFailures, fatal, historyVars>>

(* openLogFile(), of a new object or of the one that closed the file.  The  *)
(* client reopens after the calls in flight have returned.                  *)
OpenLogFile ==
    /\ status \in {"down", "closed"}
    /\ AllIdle
    /\ StartNewBlock
    /\ log' = IF TruncatesOnOpen THEN <<>> ELSE log
    /\ status' = "opened"
    /\ UNCHANGED <<pc, call, lastOpId, lastBlockOpId, lastFlushedOpId, pending, issued,
                   epoch, ioFailures, fatal, historyVars>>

(* verifyLog() on the log just opened: the client replays what is reported. *)
VerifyLog ==
    /\ status = "opened"
    /\ Verifies(log)
    /\ status' = "running"
    /\ acked' = {}
    /\ IF ClearAfterRecovery THEN log' = <<>> /\ finished' = {}
                             ELSE UNCHANGED <<log, finished>>
    /\ UNCHANGED <<pc, call, objectVars, epoch, ioFailures, fatal>>

(* verifyLog() on a log it cannot read: fatalAbort() or FALSE; either way   *)
(* the client has no operations to replay and no log to go on with.         *)
VerifyLogFails ==
    /\ status = "opened"
    /\ ~Verifies(log)
    /\ status' = "unreadable"
    /\ UNCHANGED <<pc, call, objectVars, log, epoch, ioFailures, fatal, historyVars>>

(* Planted bug: calls that have not returned yet are not counted.           *)
ClearLogIfNothingAcked ==
    /\ status = "running"
    /\ MutexFree
    /\ \E t \in Threads : pc[t] = "idle"
    /\ acked = {}
    /\ log' = <<>>
    /\ finished' = {}
    /\ UNCHANGED <<pc, call, objectVars, envVars, acked>>

(* clearLog(), called as the comment on _pendingOperations says.            *)
ClearLog ==
    /\ status = "running"
    /\ MutexFree
    /\ \E t \in Threads : pc[t] = "idle"
    /\ pending = {}
    /\ log' = <<>>
    /\ finished' = {}
    /\ UNCHANGED <<pc, call, objectVars, envVars, acked>>

-----------------------------------------------------------------------------
(* registerOperation() and updateOpStatus(), up to the point where the      *)
(* entry either has room or needs the block to be flushed first.            *)

TakeIdAndLock(t, kind, target, len) ==
    /\ status = "running"
    /\ pc[t] = "idle"
    /\ MutexFree
    /\ issued < MaxOps
    /\ lastOpId' = NextId
    /\ issued' = issued + 1
    /\ call' = [call EXCEPT ![t] = [NoCall EXCEPT !.kind = kind, !.id = NextId,
                                                 !.target = target, !.len = len]]
    /\ pc' = [pc EXCEPT ![t] = IF NewBlockRequired(block, len) THEN "flush" ELSE "place"]
    /\ UNCHANGED <<lastBlockOpId, lastFlushedOpId, block, pending, log, envVars, historyVars>>

RegisterOperation(t, len) == TakeIdAndLock(t, "register", 0, len)

(* A client completes an operation that it registered; a second completion  *)
(* of it returns FALSE before anything is changed.                          *)
UpdateOpStatus(t, id) ==
    /\ id \in pending
    /\ Op(id) \in acked
    /\ TakeIdAndLock(t, "update", id, MarkerSize)

(* closeLogFile(), by the owner.                                            *)
CloseLogFile(t) ==
    /\ t = Owner
    /\ status = "running"
    /\ pc[t] = "idle"
    /\ MutexFree
    /\ IF BlockIsEmpty
         THEN status' = "closed" /\ UNCHANGED <<pc, call>>
         ELSE /\ pc' = [pc EXCEPT ![t] = "flush"]
              /\ call' = [call EXCEPT ![t] = [NoCall EXCEPT !.kind = "close"]]
              /\ UNCHANGED status
    /\ UNCHANGED <<objectVars, log, epoch, ioFailures, fatal, historyVars>>

-----------------------------------------------------------------------------
(* finalizeAndflushCurrentBlock(), with the mutex held.                     *)

WriteBlock(t) ==
    /\ pc[t] = "flush"
    /\ ~BlockIsEmpty
    /\ log' = Append(log, Whole(block))
    /\ GoTo(t, "publish")
    /\ UNCHANGED <<objectVars, envVars, historyVars>>

(* _lastFlushedOpId is stored, then a new block started; the caller goes on *)
(* to place its entry, to close the file, or returns from its wait.         *)
Publish(t) ==
    /\ pc[t] = "publish"
    /\ lastFlushedOpId' = lastBlockOpId
    /\ StartNewBlock
    /\ \/ /\ call[t].kind = "close"
          /\ status' = "closed"
          /\ Finish(t)
       \/ /\ call[t].kind # "close"
          /\ GoTo(t, IF call[t].placed THEN "done" ELSE "place")
          /\ UNCHANGED status
    /\ UNCHANGED <<lastOpId, lastBlockOpId, pending, issued, log,
                   epoch, ioFailures, fatal, historyVars>>

(* Planted bug: the ID is published before the write is known to succeed.   *)
FlushFailsPublishing(t, pos) ==
    IF call[t].placed
      THEN ObjectLost /\ fatal' = TRUE
      ELSE /\ block' = [block EXCEPT !.pos = pos]
           /\ lastFlushedOpId' = lastBlockOpId
           /\ Finish(t)
           /\ UNCHANGED <<lastOpId, lastBlockOpId, pending, issued, status, epoch, fatal>>

(* A failed flush leaves the buffer's write position where it was; the call *)
(* that needed room (or closes the file) returns a failure, and the first   *)
(* writer, whose 50 ms are over, calls fatalAbort().                        *)
FlushFails(t, pos) ==
    IF call[t].placed
      THEN ObjectLost /\ fatal' = TRUE
      ELSE /\ block' = [block EXCEPT !.pos = pos]
           /\ Finish(t)
           /\ UNCHANGED <<lastOpId, lastBlockOpId, lastFlushedOpId, pending, issued,
                          status, epoch, fatal>>

(* The item count is checked after the buffer was rewound to write it.      *)
FlushOfEmptyBlockFails(t) ==
    /\ pc[t] = "flush"
    /\ BlockIsEmpty
    /\ FlushFails(t, 0)
    /\ UNCHANGED <<log, ioFailures, historyVars>>

(* The log file fails to seek, write or flush, having written the block or  *)
(* a part of it or nothing.                                                 *)
WriteBlockFails(t) ==
    /\ pc[t] = "flush"
    /\ ~BlockIsEmpty
    /\ ioFailures < MaxIoFailures
    /\ ioFailures' = ioFailures + 1
    /\ log' \in AfterPartialWrite(log, block)
    /\ FlushFails(t, BlockSize)
    /\ UNCHANGED historyVars

-----------------------------------------------------------------------------
(* The entry is copied into the block, and the mutex released.              *)

(* Planted bug: the entry is counted before the check.                      *)
NeverFirst == FALSE

FirstWriter == BlockIsEmpty

Place(t) ==
    /\ pc[t] = "place"
    /\ Fits(block, call[t].len)
    /\ lastBlockOpId' = call[t].id
    /\ \/ /\ call[t].kind = "register"
          /\ block' = PutEntry(block, "op", Op(call[t].id), call[t].len)
          /\ pending' = pending \cup {call[t].id}
          /\ UNCHANGED acked
       \/ /\ call[t].kind = "update"
          /\ block' = PutEntry(block, "done", Op(call[t].target), call[t].len)
          /\ pending' = pending \ {call[t].target}
          /\ acked' = acked \ {Op(call[t].target)}
    /\ pc' = [pc EXCEPT ![t] = "wait"]
    /\ call' = [call EXCEPT ![t].placed = TRUE, ![t].first = FirstWriter]
    /\ UNCHANGED <<lastOpId, lastFlushedOpId, issued, log, envVars, finished>>

(* The buffer has no room: the call fails.  registerOperation() has stored  *)
(* _lastBlockOpId by then, updateOpStatus() has not.                        *)
PlaceFails(t) ==
    /\ pc[t] = "place"
    /\ ~Fits(block, call[t].len)
    /\ lastBlockOpId' = IF call[t].kind = "register" THEN call[t].id ELSE lastBlockOpId
    /\ Finish(t)
    /\ UNCHANGED <<lastOpId, lastFlushedOpId, block, pending, issued, log, envVars, historyVars>>

-----------------------------------------------------------------------------
(* waitForFlushAndHandleTimeout().                                          *)

(* Planted bugs: another counter is compared; the comparison is off by one. *)
FlushedByBlockId(t) == ~(lastBlockOpId < call[t].id)
FlushedStrictly(t) == lastFlushedOpId > call[t].id

(* _lastFlushedOpId is read without the mutex.                              *)
Flushed(t) == ~(lastFlushedOpId < call[t].id)

TimeoutExpires(t) ==
    /\ pc[t] = "wait"
    /\ call[t].first
    /\ ~Flushed(t)
    /\ GoTo(t, "timedout")
    /\ UNCHANGED <<objectVars, log, envVars, historyVars>>

(* Planted bug: no second look.                                             *)
FlushAfterTimeout(t) ==
    /\ pc[t] = "timedout"
    /\ MutexFree
    /\ GoTo(t, "flush")
    /\ UNCHANGED <<objectVars, log, envVars, historyVars>>

(* The first writer gets the mutex, and looks again.                        *)
LockAfterTimeout(t) ==
    /\ pc[t] = "timedout"
    /\ MutexFree
    /\ GoTo(t, IF Flushed(t) THEN "done" ELSE "flush")
    /\ UNCHANGED <<objectVars, log, envVars, historyVars>>

Return(t) ==
    /\ pc[t] = "done" \/ (pc[t] = "wait" /\ Flushed(t))
    /\ \/ /\ call[t].kind = "register"
          /\ acked' = acked \cup {Op(call[t].id)}
          /\ UNCHANGED finished
       \/ /\ call[t].kind = "update"
          /\ finished' = finished \cup {Op(call[t].target)}
          /\ UNCHANGED acked
    /\ Finish(t)
    /\ UNCHANGED <<objectVars, log, envVars>>

-----------------------------------------------------------------------------

(* What a thread inside a call does next, whoever wants it or not.          *)
Proceed(t) ==
    \/ WriteBlock(t) \/ Publish(t) \/ FlushOfEmptyBlockFails(t)
    \/ Place(t) \/ PlaceFails(t)
    \/ TimeoutExpires(t) \/ LockAfterTimeout(t) \/ Return(t)

Client(t) ==
    \/ \E len \in EntrySizes : RegisterOperation(t, len)
    \/ \E id \in pending : UpdateOpStatus(t, id)
    \/ CloseLogFile(t)

Next ==
    \/ \E t \in Threads : Client(t) \/ Proceed(t) \/ WriteBlockFails(t)
    \/ OpenLogFile \/ VerifyLog \/ VerifyLogFails \/ ClearLog \/ Crash

Spec == Init /\ [][Next]_vars

(* The scheduler runs every thread again and again, 50 ms pass, and a       *)
(* thread that asks for a mutex that stays free gets it.                    *)
Fairness == \A t \in Threads : WF_vars(Proceed(t))

FairSpec == Spec /\ Fairness

-----------------------------------------------------------------------------
(* Properties.                                                              *)

OpIds == 0 .. IdModulus - 1
Ops == [epoch : Nat, id : OpIds]
Positions == 0 .. BlockSize
EntryRecords == [kind : {"op", "done"}, op : Ops, at : Positions, len : Positions]
Calls == [kind : {"none", "register", "update", "close"}, id : OpIds, target : OpIds,
          len : Positions, placed : BOOLEAN, first : BOOLEAN]

(* The values every variable may have: the fields and locals of DbWAL.      *)
TypeOK ==
    /\ pc \in [Threads -> {"idle", "flush", "publish", "place", "wait", "timedout", "done"}]
    /\ call \in [Threads -> Calls]
    /\ lastOpId \in OpIds /\ lastBlockOpId \in OpIds /\ lastFlushedOpId \in OpIds
    /\ issued \in 0 .. MaxOps
    /\ block \in [pos : Positions, entries : SUBSET EntryRecords]
    /\ pending \subseteq OpIds
    /\ log \in Seq([torn : BOOLEAN, entries : SUBSET EntryRecords])
    /\ status \in {"down", "closed", "opened", "running", "unreadable"}
    /\ epoch \in Nat /\ ioFailures \in 0 .. MaxIoFailures /\ fatal \in BOOLEAN
    /\ acked \subseteq Ops /\ finished \subseteq Ops

(* An ID returned by registerOperation() is the ID of an operation whose    *)
(* block has been written whole: the call waited for its own entry, however *)
(* the threads and the two reads of _lastFlushedOpId interleave, and nothing *)
(* took the entry away before the operation was marked completed.           *)
AckedInLog == \A op \in acked : InLog(op, log)

(* If the process died now, verifyLog() would succeed and report every      *)
(* operation that was registered and not marked completed.                  *)
UnfinishedReported == Verifies(log) /\ acked \subseteq Reported(log)

(* An operation whose updateOpStatus() has returned is not replayed, from   *)
(* whatever moment the process dies.                                        *)
FinishedNotReported == finished \cap Reported(log) = {}

(* No operation is in the log twice, nor is a completion marker, be it in   *)
(* one block or in two: verifyLog() hands each operation over once.         *)
ReportedOnce == \A k, l \in Readable(log) :
    \A e \in log[k].entries, f \in log[l].entries :
        e.kind = f.kind /\ e.op = f.op => k = l /\ e = f

(* Both at once: verifyLog() succeeds, and hands over each operation that   *)
(* was registered and not marked completed, once.                           *)
ReplayedOnce == UnfinishedReported /\ ReportedOnce

(* The operations one object registered are in the log in the order of      *)
(* their IDs, so that the replay keeps the order of the requests.           *)
ReplayInOrder == \A k, l \in Readable(log) :
    \A e \in log[k].entries, f \in log[l].entries :
        (/\ e.kind = "op" /\ f.kind = "op" /\ e.op.epoch = f.op.epoch
         /\ (k < l \/ (k = l /\ e.at < f.at)))
        => e.op.id < f.op.id

(* Every block written has the format that verifyLog() expects.             *)
BlocksWellFormed == \A k \in Readable(log) : WellFormed(log[k])

(* A block that has entries has a first writer that will flush it: a call   *)
(* that waits for an ID not yet flushed and whose timeout still counts.     *)
Responsible ==
    (block.entries # {} /\ MutexFree) =>
        \E t \in Threads : pc[t] \in {"wait", "timedout"} /\ call[t].first /\ ~Flushed(t)

(* Without I/O errors fatalAbort() is never called and the log verifies.    *)
NoFatalAbort == ~fatal /\ status # "unreadable"

(* Every call comes to an end: it is not left spinning on                   *)
(* _lastFlushedOpId by a block that nobody flushes.                         *)
CallsReturn == \A t \in Threads : pc[t] # "idle" ~> pc[t] = "idle"
=============================================================================
