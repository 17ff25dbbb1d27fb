# cpp-db: models, checks and proofs

cpp-db is a header-only embedded database: typed records, a data file, one index
per searchable field, and a write-ahead log (WAL) through which requests of many
threads pass. This directory models the parts that keep state, checks the models
with TLC, and proves with TLAPS, for all sizes, what the checks show on small instances.

All paths below are relative to `src/src/` of the repository unless they say more.

## 1. Inventory

| Component | State | Operations | What is hard |
|---|---|---|---|
| **WAL** `dbwal.hpp` | the 4 KiB block in memory and its item count, three ID counters, the pending operations, the log file; a mutex, one atomic read outside it | `openLogFile`, `verifyLog`, `registerOperation`, `updateOpStatus`, `clearLog`, `closeLogFile` | threads wait on a counter without the mutex; one of them is responsible for a timeout; a flush may fail half way; the process may die at any moment |
| **Log verification** `verifyLog()` | position in the file, completed IDs, pass | two passes over the blocks | torn and unreadable blocks, which is the last one, markers far from their operations |
| **Operation serializer** `WAL/wal_serializer.hpp`, `serialization/` | none (a position in a buffer) | one `serialize` per kind of operation, `deserialize`, `isOperationCompletionMarker` | the reader alone decides where an entry ends |
| **Free space** `fileallocationmanager.hpp` | the gaps by location and by length, an insertion counter | `registerGap`, `takeSuitableGap`, `consolidateGaps`, `saveToFile`, `loadFromFile`, `clear` | ranges split and merged; a saved file that is cut short or out of date |
| **Indices** `index/` | a map from key to location per field, a file per index | `addLocationForKey`, `removeKey`, `findKey`, `store`, `load` | one of several files fails; files rewritten in place; entries used before the hash is known |
| **Storage adapters** `storage/` | a position and bytes, or an open file | open, close, read, write, seek, clear, flush | the adapters differ in what opening, clearing and closing do, and in what they keep back in a buffer |
| **Record storage** `dbstorage.hpp`, `serialization/` | a file, a mutex | `openStorageFile`, `readRecord`, `writeRecord` | appends at the end, reads at pages, several reads or writes for a record, nothing is flushed |
| **Collection** `cpp-db.hpp` | storage and indices | unfinished | cannot be instantiated yet |
| **Records, fields, schema, tombstones, utilities** | none | types, compile-time checks, `fatalAbort`, `checked_mutex` | - |

Interactions. A client calls the WAL from any thread; only the owner thread
opens, verifies and closes it. `registerOperation` serializes an operation into
an entry with the serializer, copies it into the block, and waits until a block
with its ID was written to the log file through `StorageIO` and an adapter.
When the client has carried the operation out, `updateOpStatus` adds a completion
marker in the same way. After a restart `verifyLog` reads the file and calls the
client back with every operation that has no marker. Indices and the free space
manager are stored through the same adapters when a collection shuts down. The
collection that would join all these is not written yet, so they are modelled
each with a client of their own.

What makes each correct:

- WAL: an operation that was acknowledged and not completed is reported after a
  restart at any moment, a completed one is not, none is reported twice, and in
  the order of the requests; every call returns; the block format is kept.
- Verification: exactly the unfinished operations are reported, the verdict
  distinguishes a torn end from a broken middle, and it ends.
- Serializer: what is read is what was written, and the reader stays in step.
- Free space: nothing is handed out twice, nothing is forgotten, the file grows
  only when it must.
- Indices: a load that says TRUE gives back what was stored, and a store tells
  whether it did.
- Adapters: whichever is used, its user sees one and the same file; what was
  flushed survives.
- Record storage: what is read is what is at the page, of one moment, and a whole
  record where one begins; a record that was written is lost at most while it is
  the latest.

The hazards behind these properties are listed, with their lines, in
`PROJECT.json`.

## 2. Modules

| Module | Models |
|---|---|
| `WalLog` | the data of the log: block, entries, capacity rules (`newBlockRequiredForData`, unsigned), the file as blocks, what a verification would report |
| `DbWAL` | the threads, the mutex, the flush, the wait, I/O errors, crashes, the owner's calls |
| `WalService` | the abstract promise of a log: registering, acked, completing, finished, durable |
| `DbWALRefinement` | the mapping under which `DbWAL` implements `WalService` |
| `DbWALInvariant`, `DbWAL_proofs` | the inductive invariant `IInv` of the threads and the counters, the theorems about acknowledged operations, and their proofs |
| `DbWALLogInvariant`, `DbWALLog_proofs` | the invariants `WaitInv` and `LogInv` on top of it, the theorems about waiting calls and about the contents of the log, and the proof that `DbWAL` implements `WalService` |
| `MCDbWAL` | instances of `DbWAL` for TLC |
| `Ordering`, `Ordering_proofs` | the order in which `std::map` and the multi-index set iterate, and what it gives; what stands in for induction in the proofs |
| `VerifyLog`, `MCVerifyLog`, `VerifyLog_proofs` | `verifyLog()` step by step on any log |
| `WalSerializer`, `MCWalSerializer`, `WalSerializer_proofs` | writing and reading the entries of a block |
| `FileAllocationManager`, `MCFileAllocationManager`, `FileAllocationManager_proofs` | gaps, consolidation, persistence, and a storage that uses them |
| `Indices`, `MCIndices`, `Indices_proofs` | the maps, `store()`, `load()`, their files |
| `IdealFile` | the abstract promise of a file behind `StorageIO` |
| `StorageAdapters` | the five adapters, their buffers and failures, a careful caller, and the mapping under which they implement `IdealFile` |
| `RecordStorage`, `MCRecordStorage`, `RecordStorage_proofs` | the threads of a `DBStorage` on such a file; the proofs are about the adapters too |

Definitions whose comment says "Planted bug" are variants of the definition that
follows. No specification uses them; each shows that a property can fail.

### DbWAL and the code

A thread is `idle`, or in a call at one of these points:

    idle --TakeIdAndLock--> flush --WriteBlock--> publish --Publish--> place
         \________________________________________________________--> place
    place --Place--> wait --Return--> idle
                     wait --TimeoutExpires--> timedout --LockAfterTimeout--> flush or done
    done --Return--> idle

`flush`, `publish` and `place` are inside the `lock_guard`. All state but
`_lastFlushedOpId` is touched under the mutex only, so a step ends where another
thread, or a crash, can tell the difference: after the ID is taken, after the
block is in the file, after `_lastFlushedOpId` is stored, after the entry is in
the block. `++_lastOpId` and the decision whether the block is full are one step,
because the mutex is held and nothing reaches the file between them.

| Variable | Source |
|---|---|
| `lastOpId`, `lastBlockOpId`, `lastFlushedOpId` | `_lastOpId`, `_lastBlockOpId`, `_lastFlushedOpId` |
| `block` | write position of `_block`; the entries stand for the bytes and for `_blockItemCount` |
| `pending` | `_pendingOperations` |
| `log` | contents of the log file, block by block; a torn block was written in part |
| `call[t]` | arguments and locals of the call: new ID, `firstWriter`, entry size |
| `acked`, `finished` | history: what callers have been told |

Choices made in the model:

- The client completes only operations whose ID was returned to it. An unknown ID
  makes `updateOpStatus` return FALSE before it changes anything.
- The log is verified each time after it was opened, and calls are made only
  after that. The owner reopens the log when all calls have returned.
- `clearLog` is called when no operation is pending: the condition of the
  commented-out code at `dbwal.hpp:430` and of the comment at 130.
- An entry's size is the whole size with its header. `SizeModulus` (2^20) stands
  for 2^64: all that matters is that a negative number becomes larger than any
  entry.
- A write of the log file that fails may leave nothing, a part or the whole of
  the block. A partial block shifts what is written behind it; in the model it
  is a torn block in its place, which `verifyLog` judges in the same way.
- A successful flush is durable, and a write appends the block or a part of it:
  this is what `IdealFile` promises of every adapter. A log file that cannot be
  opened or closed is left out: the object then does nothing.

### The other modules

`VerifyLog` starts from a file and runs both passes; one action per path through
the loop of `dbwal.hpp:229-289`. A read that fails leaves the position where it
was, and `turn` makes a round that changes nothing else visible as a step.
`LogOfFile` shows the same file as a log of `WalLog`, so that `AgreesWithDbWAL`
can compare the loops with what `DbWAL` takes for one step.

`WalSerializer` writes one token for each `io.write()`. Each `Deserialize...`
lists the types that the source asks for, given the IDs and flags it has read,
and what it makes of them. `RoundTrip` and `InStep` are about a block of entries,
since `verifyLog` seeks to the next entry only past those it skips. The writer of
a record counts the fields of fixed size and writes that many in one piece; the
reader goes by the kind of each field (`Rank`, `RecordAt`). That the two agree
rests on the fields of fixed size coming first, which `checkAssertions()` of the
record makes sure of, and that a field is found by its ID on all IDs being
different. Its message says so too, but it compares the IDs of neighbours only
(`dbrecord.hpp:149`): `SchemaAssumption` asks of a record what the message says.
An entry of an unknown type, which is fatal in the code, is a `Failure`, like one
that cannot be read; neither is reached.
`Operations` are those about fields of the record, with one or two fields in a
Find. A Find of no fields, or of another record's field, compiles too, and is not
read back (see the hazards).

`FileAllocationManager` joins the manager with a storage that frees what it
owns, writes into gaps or at the end of the file, saves at any time, and loads
whenever it starts. The file of gaps stays after it is loaded. Nothing in the
source says that it is out of date once a gap changes, so the storage removes it
then (`KeepsOldFile = FALSE`). `Scan` is the loop of `consolidateGaps` over the
gaps in order, with the accumulator of the source; `Ascending` of `Ordering` is
that order: the element with `i - 1` elements before it is the `i`-th.

`Indices` steps from index to index in `store()` and `load()`, since an error or
a crash may strike between them; within a file the outcome is any prefix of what
`Index::store` writes. The hash is the sequence it was computed from: no
collisions. What is damaged is an entry, not the number of entries. A file may
also fail to close after its path was returned (`StoreIndexClosesBadly`).

`StorageAdapters` has one set of actions for all the adapters, with an operator
for each difference: what opening empties (`Truncates`), whether the mode counts
(`IgnoresMode`), where a seek goes (`SeekTarget`), where a write goes (`WriteAt`:
the append mode of `FopenAdapter` ignores the position), whether there is room
(`HasRoom`), whether `close` tells (`QFileReturnsTrue`). An `fclose` that fails
leaves the handle set, and `FopenAdapter` refuses to open anything from then on:
mode "broken", until the object is gone (`Discard`). `clear` has a definition for
each way it ends: `Clear` empties the file; `ResizeFails` is `QFile::resize`, whose
flush or cut fails with the file left open (and always in a file open for
reading); `ClearFails` is `FopenAdapter`, which closes the file and cannot open it
again, or cannot even close it, and then what was buffered may be lost. `IdealFile`
says of a `clear` that returns FALSE that it loses no more than a `close` does.
`view` is the file as the
process sees it and `disk` as the system has it; the difference is what the
stream or QFile keeps back. `transfer` is what a stream did last, `undefined`
that it turned without a seek, and stays TRUE then. Not modelled: a seek behind
the end of a `StaticBufferAdapter` or `QMemoryDeviceAdapter` (their buffers belong
to libraries; nobody does it), and files written elsewhere than at the end (nobody
does).

The buffers of stdio and of QFile are external: they are modelled by what the
code relies on, that `fseek`, `QFile::seek`, `fflush`, `fclose` write them out.
Memory adapters live in objects of the caller, as in the tests, so that a crash
of the process has no meaning for them.

`RecordStorage` gives such a file one `user`: a `DBStorage` or anybody else who is
careful (`CarefulCall`). A record is three units, one for each `io.write()`: the
static block, then the length and the characters of a string. A page may be of any
size: `writeRecord` appends where the last record ends, `readRecord` starts at a
multiple of `PageSize`, which may be inside a record; then what it reads as a
length may be none (`IsNoLength`), or it returns parts of two records with success.
`ReadsARecord` says what it returns in each case. The thread in a call holds the
mutex: `call[t]` is not `Idle`.

| Variable | Source |
|---|---|
| `mode`, `pos`, `view` | the adapter's `_handle`, `_file` or `_isOpen`; `_pos`; the contents |
| `call[t]` | a call past its seek: the page and the parts read, or the parts to write |
| `kept`, `latest` | history: records that `writeRecord` returned TRUE for, before and after the last move of the position |
| `returned`, `spoilt` | history: the last record read; was part of a record left in the file? |

## 3. Runs

| Run | Instance | Shows |
|---|---|---|
| `WalCore` | 3 threads, 4 IDs, 1 crash, entries of 100 and 3000 bytes | all safety properties of the log without I/O errors, and that `DbWAL` implements `WalService` |
| `WalIoErrors` | 2 threads, 4 IDs, 1 crash, 2 failed writes, entries of 1900 and 4080 bytes | acknowledged operations are in the file and blocks keep a responsible thread, in spite of errors, and every call returns |
| `VerifyAnyLog` | logs of up to 2 blocks of up to 2 entries and a partial block, IDs 0..2 | what `verifyLog` reports and returns, that it ends, and that it agrees with `DbWAL` |
| `SerializedOperations` | 4 fields (two of one type), every kind of operation, blocks of 2 entries | round trip, and no loss of step |
| `FileGaps` | file of 7 units, ranges up to 3, threshold 3 | the free space properties |
| `IndexStoreLoad` | 2 indices, 2 keys, 1 damaged entry, 1 file of a store that fails to close | loading and storing |
| `StorageFiles` | 5 adapters; 2 threads, 3 records of 3 units, pages 0, 1 and 3 of 2 units, or a careful caller and 5 units; 2 failing calls; a static buffer of 5 units | the adapters implement `IdealFile`; reading and keeping records |
| `WalTruncatingOpen`, `WalOversizedEntry`, `WalRetriedWrite`, `VerifyBadLastBlock`, `IndexStoredLate` | small | violations, see below |

Bounds. Four IDs let two threads fill a block, have it flushed by a third, and
complete an operation in a later block than its own; one crash with the reopening
after it is enough to see what recovery finds, since the second object starts
from the same state as the first but for the log. Two entries of 1900 bytes fill
a block, one of 3000 leaves no room for another; 4080 is more than an empty block
takes (the largest entry it takes without a flush is 4061). The invariants about
two entries, two blocks or two gaps are all reached by these sizes. Symmetry is
used for the threads that are not the owner, in a run without liveness. Three
records are two that are kept and one that is written; pages 0 and 3 are where the
first and the third begin, page 1 is inside the first; a static buffer of five
units is full in the middle of the second.

Deadlock is not checked: the models stop when their bounds are used up, when a
log is unreadable, or when a computation ends. That calls do not hang is
`CallsReturn` and `Terminates`.

Fairness. `DbWAL` assumes weak fairness of each thread's own steps inside a call:
the scheduler runs every thread, 50 ms pass, and a mutex that stays free is
taken. A thread locks the mutex at most twice in a call, and calls end, so
nobody can be overtaken for ever and strong fairness is not needed. Nothing is
assumed of clients, of I/O errors, or of crashes. `VerifyLog` assumes that its
loop runs.

### Disagreements found

1. `openLogFile` opens the log for writing before it is verified, and the file
   adapters empty the file then (`storage_std.hpp:26`, `storage_qt.hpp:23`):
   nothing is left to report. The tests use an adapter that keeps the data.
2. An entry too large for an empty block makes the flush of the empty block fail
   after the buffer was rewound (`dbwal.hpp:465`), and the next entry is written
   where the item count belongs.
3. A block whose `write` or `flush` failed is written again behind what is already
   in the file (`dbwal.hpp:482`). If only `flush` failed the block is there twice,
   and its operations are replayed twice: the trace of `WalRetriedWrite`. If a part
   of it was written, the torn block has become a middle one, which `verifyLog`
   treats as fatal: with `UnfinishedReported` alone, the other half of
   `ReplayedOnce`, TLC shows that trace.
4. A last block that cannot be read, "not an error", is read again for ever.
5. `Index::store` returns "on success" before its file is written out and closed,
   and nobody learns when that fails (`index_persistence.hpp:66`). The hash at
   the end of the file is what saves the next `load`.

More configurations were looked at and are not kept as runs; each is a change of
the constants of a run. In `StorageFiles` with `LongModulus = 6`, a `long` that is
too short for the last page, another page is read with success, and `ReadsARecord`
fails. In `FileGaps` with `KeepsOldFile = TRUE`, a file of gaps is loaded that is
out of date, and `CompleteFileRestores` and `FreeIsFree` fail. In `WalCore` with
`IdModulus = 4`, IDs wrap and `AckedInLog` fails: calls return at once; with
`ClearAfterRecovery = FALSE`, the next object gives out the same IDs again, its
markers complete older operations, and `UnfinishedReported` fails.

Seen and not kept as runs either: `FopenAdapter::clear` always returns FALSE and
leaves the file closed with its contents, because `close` forgets the name
(`ClearFails`), so that `clearLog` works with `QFileAdapter` only; two fields that
are not neighbours may have the same ID (`dbrecord.hpp:149`);
`QMemoryDeviceAdapter::clear` returns TRUE and clears nothing; `saveToFile` and
`loadFromFile` declare a `StorageIO` without its adapter, for which there is no
constructor.

## 4. Proofs

The theorems hold for any set of threads, any sizes of entries, files, gaps,
records and logs, and any bounds on operations, crashes and failures, within the
assumptions that the modules state about their constants and those named below.
`PROJECT.json` lists the theorems with the properties they state.

### Acknowledged operations (`DbWAL_proofs`)

`TypeCorrect` has no hypothesis. `AcknowledgedIsLogged` and `LockGivesOrder` need
`MaxOps < IdModulus` (IDs do not wrap) and `TruncatesOnOpen = FALSE` (opening keeps
the file). `AckedInLog` alone is not inductive: nothing in it says why a call that
returns has its entry in the file. `IInv` says that the counters are ordered
(`IdOrder`), that the call in the critical section has the newest ID
(`NewIdIsLast`), that waiting calls have IDs up to `lastBlockOpId` and all
different (`WaitersInBlock`, `WaitersDiffer`), and, the heart of it, that the
entry of a waiting registration is in the block while `lastFlushedOpId` is below
its ID and in the file once it is not (`WaitersEntry`). `Publish` raises
`lastFlushedOpId` over everything in the block at once, so `WrittenBlock`, that
the file already holds the block by then, is what carries the entry over. Errors
preserve the invariant because a failed flush leaves `lastFlushedOpId` alone.
`AckedPending` and `UpdatesAcked` say that `clearLog`, which needs `pending = {}`,
cannot remove an acknowledged operation.

### Calls that wait, and the contents of the log (`DbWALLog_proofs`)

`FinishedStaysFinished` and `SomebodyFlushes` hold with I/O errors, crashes and
entries of any size, under the two assumptions above. They need `WaitInv`:
`WaitersMarker` follows a completion marker from the block into the file as
`WaitersEntry` does an entry, `Gone` says what is left of a completed operation
when the log is cleared, and `FirstWriterStays` that the call that found the block
empty is still waiting or is flushing it.

`NothingIsLost`, `ToldOnce`, `ToldInOrder`, `WritesWellFormedBlocks` and
`NeverAborts` need `LogInv` and the five conditions of `FaultFree`. Each of these
is needed, and TLC shows what goes wrong without it:

| Condition | Without it |
|---|---|
| `TruncatesOnOpen = FALSE` | run `WalTruncatingOpen` |
| `\A len \in EntrySizes : ~NewBlockRequired(NewBlock, len)`: entries fit an empty block | run `WalOversizedEntry` |
| `MaxIoFailures = 0` | run `WalRetriedWrite` |
| `MaxOps < IdModulus` | `WalCore` with `IdModulus = 4`: `AckedInLog` fails |
| `ClearAfterRecovery = TRUE` | `WalCore` with `FALSE`: `UnfinishedReported` fails |

`LogInv` describes the block and the file at the same time, because `ReportedOnce`
and `ReplayInOrder` are about what a crash leaves at any moment. While a block is
being published it is in both; `Earlier` are the blocks of the file that are not.
`BlockLaidOut` and `RoomForEntry` give the block format, `BlockIds`, `LogIds` and
`BlockInOrder` the order, `MarkedOnce`, `MarkersSettled`, `EntriesHaveCalls` and
`UpdatesDiffer` that nobody marks an operation twice; `BlockOnce` says of the block
in memory what `ReportedOnce` says of each block of the file, so that a flush
brings nothing twice.

`LogIsService` is the refinement of `WalService`, under
`FaultFree`. Most steps of `DbWAL` change nothing the service sees; the step that
counts is `WriteBlock`, in which all operations of the block become durable at
once, and a crash, in which `WouldReplay` must be what it was.

### The loops of `verifyLog()` (`VerifyLog_proofs`)

On any sequence of blocks and any part of a block behind it. `VInv` says what has
been read: `SeenAt` are the entries before the position, in this pass; the first
pass has collected the IDs of the markers among them, and the second knows all
markers of the file and has reported the unfinished operations among those seen,
in order. That a block was neither unreadable nor torn in the middle, and that no
ID was 0, carries over from the first pass, so that in the second an entry that is
not skipped is an operation: "Failed to deserialize" cannot happen.
`LoopsAreOneStep` then compares with `WalLog`, on which `DbWAL` stands: the block
format of the file satisfies `WellFormed`, so that nothing but the position of the
malformed blocks decides. `FilesAssumption` (no intact block is empty or longer
than 4 KiB) is what `WritesWellFormedBlocks` proves of `DbWAL`.

`EveryTurnCounts` is about the end of it: `TurnsLeft`, a natural number, becomes
smaller with every turn, so that there can be finitely many only. It needs
`LastIsReadable`, as `Terminates` does: a last block that cannot be read is read
again for ever (run `VerifyBadLastBlock`).

### Adapters and records (`RecordStorage_proofs`)

`AdaptersAreIdeal`, `NeverTurnsWithoutSeek`, `WrittenIsKept` and `RecordTypes` have
no hypothesis; the user of the file is a `DBStorage` or a `CarefulCall`, and every
call may fail in the ways of section 2. `FileInv` says that the system's view of a
file is the beginning of the process's, `StorageInv` that a call under the mutex is
part of the way through a record or a page, and that records kept are in `disk`
and the latest in `view`. `ReadsWholeRecords` needs only `PagesFit`: the offsets
asked for fit a `long`; with `LongModulus = 6` TLC finds another page read with
success. It does not say that a page is where a record begins, which no code sees
to yet, but what is read at a page in either case.

### Indices (`Indices_proofs`)

No hypothesis. `LoadedIsStored` speaks of the end of `load()`; `SInv` says of its
middle that the indices loaded so far are right (`LoadedSoFar`), and of `store()`
that the files written so far are (`StoredSoFar`). `HashTells` is why damage is
noticed: an intact hash is the sequence of entries that was stored, so that
`ItemsRestore` (reading back what `Ascending` enumerated gives the map) applies.

### Free space (`FileAllocationManager_proofs`)

`ConsolidatedIsRuns` is about every finite set of disjoint gaps: what the pass
over neighbours leaves are the maximal runs of free units. The proof carries the
loop invariant `Scanned`: the accumulator starts a run and ends with the current
gap, `merged` are the runs before it, `erase` the gaps that went into runs of more
than one. The prover has no induction over the recursive function `Scan`; the
smallest index at which the invariant fails, and the step before it, give the
contradiction.

The other theorems need `FileIsRemoved` (`KeepsOldFile = FALSE`), without which
TLC finds `FreeIsFree` and `CompleteFileRestores` violated. `GInv` says that gaps,
used units and lost units divide the file (`Space`), and the same of the units in a
file of gaps, as long as nothing changed since it was written (`SavedSpace`).
`GrowsWhenFull` and `CompleteFileBringsAll` are action properties, and follow from
`GInv` in the state before the step.

### Operations and their entries (`WalSerializer_proofs`)

For every schema that satisfies `SchemaAssumption`, all values of the fields, and
blocks of any number of entries (`BlocksAssumption` says only that they are made of
`Operations` and markers, and that markers are skipped, as `verifyLog` does).

`DeserializeInverts` is about one operation: whatever follows its bytes, it is read
back as it was and the reader stops where the writer did. `RecordIsRead` is the
part that all kinds share: the first `StaticFieldsCount` fields are those of fixed
size (`SchemaFacts`), so that `Rank` gives each field its place in the piece or
its token behind it. Each kind then has its lemma (`InsertIsRead` and so on),
which follows the pieces written, at their places, into the types asked for.

`SerInv` is about the block: the reader stands where an entry begins, nothing has
failed, and what was reported and taken for markers is right so far. `RoundTrip`
alone is not inductive, since only `InStep` says that the next read begins at an
entry; and `InStep` needs that reading never fails, which is `SerializerNeverFails`.
`FlatRest` says that what is behind the first `k` entries begins with the next one.

### Order, and what stands in for induction (`Ordering_proofs`)

`AscendingEnumerates`: the ranks of the elements of a finite set with different
keys are different, so they are all the numbers below its size, and each element
has its place. `AscendingGrows`: an element after all the others becomes the last,
which is how `verifyLog()` and the reader of a block extend what they reported.

`Least` (a nonempty set of numbers has a smallest element) follows from the
library's fact that `<` is well-founded, and `Climb` (a set that holds `a`, and
`j + 1` with each `j` below `b`, holds all of `a .. b`) from `Least`. With them a
statement about each number is proved as one about the set of numbers where it
holds; so the concatenation of the entries of a block, which `FlattenSeq` computes
by recursion, is followed turn by turn (`TurnsExist`, `FlattenTurns`).

### Model-checked only

Liveness (`CallsReturn`, `Terminates`): the prover has no rule for fairness, nor for
ENABLED. What is proved of them are their safety halves, `SomebodyFlushes` (a call
that waits has somebody to wait for) and `EveryTurnCounts`. Every
invariant and action property of the passing runs, and the refinement of both
abstract specifications, is proved. The violations of section 3 are TLC's.

The invariants were checked by TLC before they were proved: those of `DbWAL` can
be added to `WalCore.cfg` and `WalIoErrors.cfg` (`MCDbWAL` extends their module),
and `VInv`, `SInv`, `GInv`, `RInv`, `SerInv` and `GetsNearer` to their runs through
a module that extends the MC module and the module of the proofs.

## 5. Not modelled, and why

- `HashingAdapter`: nothing uses it. A `close` after a `close`, which hands a `FILE`
  that is gone to `fclose` when the first one failed: the source does it only where
  the object ends (`storage_io_interface.hpp:25`).
- `openLogFile` while calls are in flight: nothing in the code forbids it, and it
  empties the block. The owner of the model opens the log when they have returned.
- What a client does with a log, a data file and indices together: no code joins
  them. `OnlyLatestMayBeLost` says what such code must know, that a record may
  not be called completed before the data file was flushed.
- `Collection`: an unfinished template.
- Records, fields, schema, tombstones: compile-time types.
- Tracing and statistics (`totalBlockCount`, `maxFill`, `_operationsProcessed`,
  `MaxItemCount` in assertions): nothing depends on them. Debug assertions are
  not modelled; those about the order of IDs are `IdOrder` and `NewIdIsLast`.

## 6. Plan

1. (done) `WalLog`, `DbWAL`, `WalService`, the refinement, the first theorems.
2. (done) `VerifyLog`, `WalSerializer`, `FileAllocationManager`, `Indices`.
3. (done) The adapters as implementations of `IdealFile`, `DBStorage` on them.
4. (done) `VerifyLog` against the one-step `VerifyLog` of `DbWAL`.
5. (done) Theorems about `DbWAL`: what it reports, the block format, who flushes,
   the steps of the refinement.
6. (done) Theorems about `FileAllocationManager`, `Indices`, the adapters and
   `RecordStorage`, `VerifyLog`.
7. (done) Theorems about `WalSerializer`: each kind of operation, and the block.
