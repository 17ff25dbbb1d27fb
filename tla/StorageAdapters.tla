--------------------------- MODULE StorageAdapters ---------------------------
(***************************************************************************)
(* The adapters behind StorageIO, src/src/storage: a stdio stream           *)
(* (FopenAdapter), a QFile, a QBuffer (QMemoryDeviceAdapter), and bytes in  *)
(* memory that grow (VectorAdapter) or have a capacity                      *)
(* (StaticBufferAdapter).                                                   *)
(*                                                                          *)
(* "view" is the file as the process sees it, "disk" as the system has it:  *)
(* stream and QFile keep back what was written until they seek, flush or    *)
(* close, or their buffer is full.  Bytes in memory are there at once, and  *)
(* the object outlives its user, as in the tests.                           *)
(***************************************************************************)
EXTENDS Integers, Sequences, SequencesExt

CONSTANTS
    Adapters,       \* the adapters in question
    Capacity,       \* MaxSize of the StaticBufferAdapter
    LongModulus,    \* values of a long: 2^64, or 2^32 on Windows
    MaxFailures     \* bound: calls that fail because of the system

ASSUME AdaptersAssumption ==
    /\ Adapters \subseteq {"fopen", "qfile", "memory", "vector", "static"}
    /\ Capacity \in Nat /\ LongModulus \in Nat \ {0} /\ MaxFailures \in Nat

VARIABLES
    adapter,    \* the adapter of this file
    mode,       \* "closed", the OpenMode, or "broken": fclose() failed
    view,       \* the units of the file, buffered ones included
    disk,       \* those the operating system has
    pos,        \* position
    transfer,   \* fopen: what was done since the last seek
    undefined,  \* fopen: a read followed a write, or the reverse, without a seek
    last,       \* the last call and whether it returned TRUE
    got,        \* what it read
    failures    \* calls that failed so far

file == <<mode, view, disk, pos, transfer, undefined, last, got>>
fileVars == <<adapter, file, failures>>

InMemory == adapter \in {"memory", "vector", "static"}
IsOpen == mode \notin {"closed", "broken"}
IgnoresMode == adapter \in {"vector", "static"}
CanRead == IgnoresMode \/ mode # "Write"
CanWrite == IgnoresMode \/ mode # "Read"

Returns(name, result) == last' = [call |-> name, ok |-> result]
ReadsNothing == got' = <<>>
Fails == failures < MaxFailures /\ failures' = failures + 1
Works == UNCHANGED failures

(* Definitions marked "Planted bug" are variants that the runs must reject; *)
(* the model does not use them.                                             *)

(* Planted bug: what is written out is put at the beginning of the file.    *)
WrittenAtBeginning == {SubSeq(view, n + 1, Len(view)) : n \in 0 .. Len(disk)}

(* Prefixes of the file that reach the system when it stops in the middle.  *)
PartlyWritten == {SubSeq(view, 1, n) : n \in Len(disk) .. Len(view)}

FileInit ==
    /\ adapter \in Adapters
    /\ mode = "closed" /\ view = <<>> /\ disk = <<>> /\ pos = 0
    /\ transfer = "none" /\ undefined = FALSE
    /\ last = [call |-> "none", ok |-> TRUE] /\ got = <<>>
    /\ failures = 0

(* open(): "wb" and WriteOnly empty the file; "a+b" and ReadWrite keep it,  *)
(* as everything in memory does.                                            *)
FopenTruncates(openMode) == adapter = "fopen" /\ openMode = "Write"
QFileTruncates(openMode) == adapter = "qfile" /\ openMode = "Write"
Truncates(openMode) == FopenTruncates(openMode) \/ QFileTruncates(openMode)

Open(openMode) ==
    /\ mode = "closed"
    /\ mode' = openMode
    /\ view' = IF Truncates(openMode) THEN <<>> ELSE view
    /\ disk' = view'
    /\ pos' = 0 /\ transfer' = "none"
    /\ Returns("open", TRUE) /\ ReadsNothing /\ Works
    /\ UNCHANGED <<adapter, undefined>>

(* The system refuses: no such file, too many open ones.                    *)
OpenFails ==
    /\ mode = "closed" /\ ~InMemory
    /\ Fails
    /\ Returns("open", FALSE) /\ ReadsNothing
    /\ UNCHANGED <<adapter, mode, view, disk, pos, transfer, undefined>>

(* FopenAdapter keeps its handle when fclose() fails, and opens nothing     *)
(* from then on.                                                            *)
OpenRefuses ==
    /\ mode = "broken"
    /\ Returns("open", FALSE) /\ ReadsNothing /\ Works
    /\ UNCHANGED <<adapter, mode, view, disk, pos, transfer, undefined>>

(* The object is gone, and the next one has a handle of its own.            *)
Discard ==
    /\ mode = "broken" /\ mode' = "closed"
    /\ UNCHANGED <<adapter, view, disk, pos, transfer, undefined, last, got, failures>>

(* close(), also by the destructor of StorageIO: what is still in the       *)
(* buffer is written out.                                                   *)
Close ==
    /\ IsOpen
    /\ disk' = view
    /\ mode' = "closed" /\ pos' = 0 /\ transfer' = "none"
    /\ Returns("close", TRUE) /\ ReadsNothing /\ Works
    /\ UNCHANGED <<adapter, view, undefined>>

QFileReturnsTrue == adapter = "qfile"

LosesBuffered == \E written \in PartlyWritten : view' = written /\ disk' = written

(* Writing it out fails: fclose() tells, QFile::close() does not.           *)
CloseFails ==
    /\ IsOpen /\ ~InMemory
    /\ Fails /\ LosesBuffered
    /\ mode' = IF adapter = "fopen" THEN "broken" ELSE "closed"
    /\ pos' = 0 /\ transfer' = "none"
    /\ Returns("close", QFileReturnsTrue) /\ ReadsNothing
    /\ UNCHANGED <<adapter, undefined>>

(* The position asked for, as a long of fseek().                            *)
AsLong(position) ==
    LET low == position % LongModulus
    IN  IF low < LongModulus \div 2 THEN low ELSE low - LongModulus

VectorRefuses(position) == adapter = "vector" /\ position > Len(view)

(* Where seek() moves to; a negative number when it returns FALSE.          *)
SeekTarget(position) ==
    CASE adapter = "fopen" -> AsLong(position)
      [] VectorRefuses(position) -> -1
      [] OTHER -> position

(* A position behind the end is not asked of the two libraries that keep    *)
(* their data in a buffer of their own.                                     *)
IsDefined(position) == adapter \in {"memory", "static"} => position <= Len(view)

(* Planted bug: the buffer is written out when it is full, not before.      *)
SeekKeepingBuffer(position) ==
    /\ IsOpen /\ IsDefined(position)
    /\ SeekTarget(position) >= 0
    /\ pos' = SeekTarget(position) /\ transfer' = "none"
    /\ Returns("seek", TRUE) /\ ReadsNothing /\ Works
    /\ UNCHANGED <<adapter, mode, view, disk, undefined>>

(* A seek writes the buffer out.                                            *)
Seek(position) ==
    /\ IsOpen /\ IsDefined(position)
    /\ SeekTarget(position) >= 0
    /\ pos' = SeekTarget(position) /\ disk' = view /\ transfer' = "none"
    /\ Returns("seek", TRUE) /\ ReadsNothing /\ Works
    /\ UNCHANGED <<adapter, mode, view, undefined>>

SeekFails(position) ==
    /\ IsOpen
    /\ SeekTarget(position) < 0
    /\ Returns("seek", FALSE) /\ ReadsNothing /\ Works
    /\ UNCHANGED <<adapter, mode, view, disk, pos, transfer, undefined>>

(* Either of the two seeks cannot write the buffer out.                     *)
SeekCannotFlush(name) ==
    /\ IsOpen /\ ~InMemory /\ disk # view
    /\ Fails
    /\ disk' \in PartlyWritten \ {view}
    /\ Returns(name, FALSE) /\ ReadsNothing
    /\ UNCHANGED <<adapter, mode, view, pos, transfer, undefined>>

(* Planted bug: nothing is done where the end has been reached.             *)
SeekToEndUnlessThere ==
    /\ IsOpen
    /\ pos' = Len(view)
    /\ IF pos = Len(view) THEN UNCHANGED <<disk, transfer>>
                          ELSE disk' = view /\ transfer' = "none"
    /\ Returns("seekToEnd", TRUE) /\ ReadsNothing /\ Works
    /\ UNCHANGED <<adapter, mode, view, undefined>>

SeekToEnd ==
    /\ IsOpen
    /\ pos' = Len(view) /\ disk' = view /\ transfer' = "none"
    /\ Returns("seekToEnd", TRUE) /\ ReadsNothing /\ Works
    /\ UNCHANGED <<adapter, mode, view, undefined>>

(* In append mode a stream writes at the end, wherever it is.               *)
WriteAt == IF adapter = "fopen" /\ mode = "ReadWrite" THEN Len(view) ELSE pos

Overwritten(at, data) ==
    [i \in 1 .. IF at + Len(data) > Len(view) THEN at + Len(data) ELSE Len(view) |->
        IF i > at /\ i <= at + Len(data) THEN data[i - at] ELSE view[i]]

(* A static buffer takes all of it or nothing.                              *)
HasRoom(data) == adapter = "static" => WriteAt + Len(data) <= Capacity

(* A stream must be positioned between reading and writing.                 *)
Turns(direction) ==
    /\ transfer' = direction
    /\ undefined' = (undefined \/ (adapter = "fopen" /\ transfer \notin {"none", direction}))

Written(data) ==
    /\ view' = Overwritten(WriteAt, data)
    /\ pos' = WriteAt + Len(data)
    /\ disk' = IF InMemory THEN view' ELSE disk
    /\ Turns("write")
    /\ ReadsNothing
    /\ UNCHANGED <<adapter, mode>>

Write(data) ==
    /\ IsOpen /\ CanWrite
    /\ WriteAt <= Len(view) /\ HasRoom(data)
    /\ Written(data)
    /\ Returns("write", TRUE) /\ Works

(* The disk is full, or the device fails: a part of the data is there.      *)
WriteFails(data) ==
    /\ IsOpen /\ CanWrite /\ ~InMemory
    /\ WriteAt <= Len(view)
    /\ Fails
    /\ \E n \in 0 .. Len(data) - 1 : Written(SubSeq(data, 1, n))
    /\ Returns("write", FALSE)

WriteFindsNoRoom(data) ==
    /\ IsOpen /\ ~HasRoom(data)
    /\ Returns("write", FALSE) /\ ReadsNothing /\ Works
    /\ UNCHANGED <<adapter, mode, view, disk, pos, transfer, undefined>>

Read(n) ==
    /\ IsOpen /\ CanRead
    /\ pos + n <= Len(view)
    /\ got' = SubSeq(view, pos + 1, pos + n)
    /\ pos' = pos + n
    /\ Turns("read")
    /\ Returns("read", TRUE) /\ Works
    /\ UNCHANGED <<adapter, mode, view, disk>>

(* Fewer than n units lie ahead: stream and QIODevice have moved over them. *)
ReadFindsTooLittle(n) ==
    /\ IsOpen /\ CanRead
    /\ pos + n > Len(view)
    /\ pos' = IF adapter \in {"vector", "static"} \/ pos > Len(view) THEN pos ELSE Len(view)
    /\ Turns("read")
    /\ Returns("read", FALSE) /\ ReadsNothing /\ Works
    /\ UNCHANGED <<adapter, mode, view, disk>>

(* The device fails: some of the units have been read.                      *)
ReadFails(n) ==
    /\ IsOpen /\ CanRead /\ ~InMemory
    /\ pos + n <= Len(view)
    /\ Fails
    /\ pos' \in pos .. pos + n - 1
    /\ Turns("read")
    /\ Returns("read", FALSE) /\ ReadsNothing
    /\ UNCHANGED <<adapter, mode, view, disk>>

(* Planted bug: the stream is not flushed.                                  *)
FlushNothing ==
    /\ IsOpen /\ CanWrite
    /\ Returns("flush", TRUE) /\ ReadsNothing /\ Works
    /\ UNCHANGED <<adapter, mode, view, disk, pos, transfer, undefined>>

Flush ==
    /\ IsOpen /\ CanWrite
    /\ disk' = view
    /\ Returns("flush", TRUE) /\ ReadsNothing /\ Works
    /\ UNCHANGED <<adapter, mode, view, pos, transfer, undefined>>

FlushFails ==
    /\ IsOpen /\ CanWrite /\ ~InMemory
    /\ Fails
    /\ disk' \in PartlyWritten
    /\ Returns("flush", FALSE) /\ ReadsNothing
    /\ UNCHANGED <<adapter, mode, view, pos, transfer, undefined>>

(* clear(): a QFile and a static buffer are emptied.  VectorAdapter has no  *)
(* clear(), and that of QMemoryDeviceAdapter empties an array that it does  *)
(* not use: nobody calls it.                                                *)
Clear ==
    /\ IsOpen /\ CanWrite /\ adapter \in {"qfile", "static"}
    /\ view' = <<>> /\ disk' = <<>> /\ pos' = 0 /\ transfer' = "none"
    /\ Returns("clear", TRUE) /\ ReadsNothing /\ Works
    /\ UNCHANGED <<adapter, mode, undefined>>

(* QFile::resize() writes the buffer out, moves to the beginning and then   *)
(* cuts the file; it may fail before that, or, as always in a file that is  *)
(* open for reading, after it.  The file stays open.                        *)
ResizeFails ==
    /\ IsOpen /\ adapter = "qfile"
    /\ \/ Fails /\ disk' \in PartlyWritten \ {view} /\ UNCHANGED pos
       \/ /\ Fails \/ (~CanWrite /\ Works)
          /\ disk' = view /\ pos' = 0
    /\ Returns("clear", FALSE) /\ ReadsNothing
    /\ UNCHANGED <<adapter, mode, view, transfer, undefined>>

(* FopenAdapter::clear() closes the file, which makes it forget its name,   *)
(* and cannot open a file without a name; or it cannot even close it.       *)
ClearFails ==
    /\ IsOpen /\ adapter = "fopen"
    /\ \/ Works /\ mode' = "closed" /\ disk' = view /\ UNCHANGED view
       \/ Fails /\ mode' = "broken" /\ LosesBuffered
    /\ pos' = 0 /\ transfer' = "none"
    /\ Returns("clear", FALSE) /\ ReadsNothing
    /\ UNCHANGED <<adapter, undefined>>

(* The buffer is full, or the system wants it.                              *)
Spill ==
    /\ IsOpen
    /\ disk' \in PartlyWritten \ {disk}
    /\ UNCHANGED <<adapter, mode, view, pos, transfer, undefined, last, got, failures>>

(* The process dies: what it kept back is gone.                             *)
Die ==
    /\ ~InMemory
    /\ view' = disk
    /\ mode' = "closed" /\ pos' = 0 /\ transfer' = "none"
    /\ last' = [call |-> "none", ok |-> TRUE] /\ ReadsNothing
    /\ UNCHANGED <<adapter, disk, undefined, failures>>

-----------------------------------------------------------------------------
(* A careful user: DbWAL, saveToFile() and the indices write at the end of  *)
(* the file only, and nobody turns from one direction to the other without  *)
(* a seek.  Positions are those of a record or the end.                     *)

CONSTANTS Units, MaxSize    \* bound: size of the file

ASSUME SizeAssumption == MaxSize \in Nat

AtEnd == WriteAt = Len(view)

CarefulCall ==
    \/ \E openMode \in {"Read", "Write", "ReadWrite"} : Open(openMode)
    \/ OpenFails \/ OpenRefuses \/ Discard
    \/ Close \/ CloseFails \/ SeekToEnd
    \/ \E name \in {"seek", "seekToEnd"} : SeekCannotFlush(name)
    \/ \E position \in 0 .. MaxSize + 1 : Seek(position) \/ SeekFails(position)
    \/ \E unit \in Units :
          /\ AtEnd /\ Len(view) < MaxSize /\ transfer # "read"
          /\ Write(<<unit>>) \/ WriteFails(<<unit, unit>>) \/ WriteFindsNoRoom(<<unit, unit>>)
    \/ transfer # "write" /\ \E n \in 1 .. 2 : Read(n) \/ ReadFindsTooLittle(n) \/ ReadFails(n)
    \/ Flush \/ FlushFails \/ Clear \/ ResizeFails \/ ClearFails
    \/ Spill \/ Die

-----------------------------------------------------------------------------
(* The adapters implement the ideal file.                                   *)

Ideal == INSTANCE IdealFile WITH
    content <- view,
    safe    <- Len(disk),
    opened  <- IsOpen

(* Whatever the adapter, its user sees the ideal file: units are read back  *)
(* as they were appended, a flush() that returned TRUE makes everything     *)
(* survive, what fails leaves a part of what was asked for, and nothing is  *)
(* lost in another way: not by a clear() that returns FALSE either.         *)
FileSpec == Ideal!Spec
=============================================================================
