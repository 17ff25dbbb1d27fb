---------------------------- MODULE RecordStorage ----------------------------
(***************************************************************************)
(* DBStorage, src/src/dbstorage.hpp: threads that append and read records   *)
(* of one file under _storageMutex, with the serializer of records,         *)
(* src/src/serialization/dbrecord-serializer.hpp.                           *)
(*                                                                          *)
(* A record is three units, one for each io.write(): the block of its       *)
(* static fields, then the length and the characters of its string.         *)
(* Records are appended one behind the other, and readRecord() starts at a  *)
(* multiple of PageSize: in the middle of a record, perhaps.                *)
(*                                                                          *)
(* The same file may have another user, who is careful and alone.           *)
(***************************************************************************)
EXTENDS StorageAdapters

CONSTANTS
    Threads,
    Pages,          \* page numbers that are asked for
    PageSize,       \* in units
    MaxRecords      \* bound: records written

ASSUME StorageAssumption ==
    /\ Pages \subseteq Nat /\ PageSize \in Nat \ {0} /\ MaxRecords \in Nat

VARIABLES
    user,       \* of the file: "DBStorage" or "other"
    call,       \* the call each thread is in
    written,    \* records that calls of writeRecord() have had so far
    returned,   \* history: the page and the units of the last successful readRecord()
    spoilt,     \* history: part of a record was left in the file
    kept,       \* history: records that writeRecord() returned TRUE for
    latest      \*   ... the one after which the position has not been moved

storageVars == <<call, written, returned, spoilt, kept, latest>>
vars == <<fileVars, user, storageVars>>

Parts == <<"static", "size", "characters">>
RecordSize == Len(Parts)
UnitsOf(record) == [i \in 1 .. RecordSize |-> [record |-> record, part |-> Parts[i]]]

Idle == [op |-> "none"]

(* Planted bug: there is no mutex.                                          *)
NoMutex == TRUE

(* _storageMutex: whoever is in a call holds it.                            *)
MutexFree == \A t \in Threads : call[t] = Idle

Writing(calls) == \E t \in Threads : calls[t].op = "write"

(* Nobody is writing, and the file ends in the middle of a record.          *)
NotesTornRecord == spoilt' = (spoilt \/ (~Writing(call') /\ Len(view') % RecordSize # 0))

StorageInit ==
    /\ call = [t \in Threads |-> Idle]
    /\ written = 0 /\ returned = {} /\ spoilt = FALSE
    /\ kept = {} /\ latest = {}

Init == FileInit /\ StorageInit /\ user \in {"DBStorage", "other"}

Enters(t, newCall) == call' = [call EXCEPT ![t] = newCall]
Leaves(t) == Enters(t, Idle)

(* What was written before is with the system once the position is moved.   *)
KeepsLatest == kept' = kept \cup latest /\ latest' = {}

-----------------------------------------------------------------------------
(* openStorageFile(), and the destructor: it closes the file, whatever      *)
(* comes of it, and nobody is in a call then.                               *)

OpenStorageFile ==
    /\ Open("ReadWrite") \/ OpenFails
    /\ UNCHANGED storageVars

DestroyStorage ==
    /\ MutexFree
    /\ \/ Close /\ KeepsLatest
       \/ CloseFails /\ latest' = {} /\ UNCHANGED kept
    /\ returned' = {}
    /\ UNCHANGED <<call, written>>
    /\ NotesTornRecord

ProcessDies ==
    /\ Die
    /\ call' = [t \in Threads |-> Idle]
    /\ returned' = {} /\ latest' = {}
    /\ NotesTornRecord
    /\ UNCHANGED <<written, kept>>

-----------------------------------------------------------------------------
(* readRecord().                                                            *)

pageNumberToOffset(page) == page * PageSize

BeginRead(t, page) ==
    /\ MutexFree /\ call[t] = Idle
    /\ Seek(pageNumberToOffset(page))
    /\ Enters(t, [op |-> "read", page |-> page, units |-> <<>>])
    /\ KeepsLatest
    /\ UNCHANGED <<written, returned, spoilt>>

ReadSeekFails(t, page) ==
    /\ MutexFree /\ call[t] = Idle
    /\ SeekFails(pageNumberToOffset(page)) \/ SeekCannotFlush("seek")
    /\ UNCHANGED storageVars

(* One io.read() of deserialize(); after the last one the call returns.     *)
ReadPart(t) ==
    /\ call[t].op = "read"
    /\ Read(1)
    /\ LET units == call[t].units \o got'
       IN  IF Len(units) < RecordSize
           THEN Enters(t, [call[t] EXCEPT !.units = units]) /\ UNCHANGED returned
           ELSE Leaves(t) /\ returned' = {[page |-> call[t].page, units |-> units]}
    /\ UNCHANGED <<written, spoilt, kept, latest>>

(* The file ends there, or what was read as a length is none.               *)
IsNoLength(units) == Len(units) = 2 /\ units[2].part # "size"

ReadPartFails(t) ==
    /\ call[t].op = "read"
    /\ \/ ReadFindsTooLittle(1) \/ ReadFails(1)
       \/ IsNoLength(call[t].units) /\ ReadFindsTooLittle(Len(view) + 1)
    /\ Leaves(t)
    /\ UNCHANGED <<written, returned, spoilt, kept, latest>>

-----------------------------------------------------------------------------
(* writeRecord().                                                           *)

BeginWrite(t) ==
    /\ written < MaxRecords
    /\ MutexFree /\ call[t] = Idle
    /\ SeekToEnd
    /\ Enters(t, [op |-> "write", record |-> written + 1, units |-> UnitsOf(written + 1)])
    /\ written' = written + 1
    /\ KeepsLatest
    /\ UNCHANGED <<returned, spoilt>>

WriteSeekFails(t) ==
    /\ MutexFree /\ call[t] = Idle
    /\ SeekCannotFlush("seekToEnd")
    /\ UNCHANGED storageVars

(* One io.write() of serialize(); after the last one the call returns TRUE. *)
WritePart(t) ==
    /\ call[t].op = "write"
    /\ Write(<<Head(call[t].units)>>)
    /\ IF Len(call[t].units) > 1
       THEN Enters(t, [call[t] EXCEPT !.units = Tail(@)]) /\ UNCHANGED latest
       ELSE Leaves(t) /\ latest' = {call[t].record}
    /\ UNCHANGED <<written, returned, spoilt, kept>>

WritePartFails(t) ==
    /\ call[t].op = "write"
    /\ LET unit == <<Head(call[t].units)>>
       IN  WriteFails(unit) \/ WriteFindsNoRoom(unit)
    /\ Leaves(t)
    /\ NotesTornRecord
    /\ UNCHANGED <<written, returned, kept, latest>>

StorageNext ==
    \/ OpenStorageFile \/ DestroyStorage \/ ProcessDies
    \/ \E t \in Threads :
        \/ \E page \in Pages : BeginRead(t, page) \/ ReadSeekFails(t, page)
        \/ ReadPart(t) \/ ReadPartFails(t)
        \/ BeginWrite(t) \/ WriteSeekFails(t) \/ WritePart(t) \/ WritePartFails(t)
    \/ (Spill \/ Discard) /\ UNCHANGED storageVars

Next ==
    /\ UNCHANGED user
    /\ \/ user = "DBStorage" /\ StorageNext
       \/ user = "other" /\ CarefulCall /\ UNCHANGED storageVars

Spec == Init /\ [][Next]_vars

-----------------------------------------------------------------------------
(* Properties.                                                              *)

RecordUnits == [record : 1 .. MaxRecords, part : ToSet(Parts)]

(* The values the file, its position and the calls may have; the system     *)
(* never has more of the file than the process has written.                 *)
TypeOK ==
    /\ mode \in {"closed", "Read", "Write", "ReadWrite", "broken"}
    /\ view \in Seq(IF user = "other" THEN Units ELSE RecordUnits)
    /\ IsPrefix(disk, view)
    /\ pos \in Nat
    /\ transfer \in {"none", "read", "write"} /\ undefined \in BOOLEAN
    /\ failures \in 0 .. MaxFailures
    /\ \A t \in Threads : call[t].op \in {"none", "read", "write"}
    /\ written \in 0 .. MaxRecords
    /\ kept \cup latest \subseteq 1 .. MaxRecords

(* A readRecord() that returns TRUE returns the units at the offset of its  *)
(* page, no others and none of two moments, whatever other threads have     *)
(* read and written meanwhile.  If a record can begin there, and no failure *)
(* or crash has left part of a record in the file, it is one whole record.  *)
ReadsARecord ==
    \A r \in returned :
        LET offset == pageNumberToOffset(r.page)
        IN  /\ offset + RecordSize <= Len(view)
            /\ r.units = SubSeq(view, offset + 1, offset + RecordSize)
            /\ ~spoilt /\ offset % RecordSize = 0 =>
                  \E record \in 1 .. written : r.units = UnitsOf(record)

(* A stdio stream is never turned from writing to reading, or back, without *)
(* a seek between: ISO C leaves undefined what happens then.                *)
NoUndefinedBehaviour == ~undefined

IsIn(record, units) ==
    \E i \in 0 .. Len(units) - RecordSize : SubSeq(units, i + 1, i + RecordSize) = UnitsOf(record)

(* A record for which writeRecord() has returned TRUE is in the file, whole. *)
(* Nothing is flushed, and so a crash or a failure may take the latest one, *)
(* but only until another call, a reading one too, has moved the position.  *)
OnlyLatestMayBeLost ==
    /\ \A record \in kept : IsIn(record, disk)
    /\ \A record \in latest : IsIn(record, view)
=============================================================================
