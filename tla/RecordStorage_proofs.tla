------------------------ MODULE RecordStorage_proofs ------------------------
(* Theorems about the files behind StorageIO and the records kept in them,  *)
(* for every adapter, any threads, pages and bounds, and any failures.      *)
EXTENDS RecordStorage, SequenceTheorems, TLAPS

-----------------------------------------------------------------------------
(* Sequences.                                                               *)

Begins(s, t) == Len(s) <= Len(t) /\ \A i \in 1 .. Len(s) : s[i] = t[i]

LEMMA Beginning ==
    ASSUME NEW S, NEW s \in Seq(S), NEW n \in Nat, n <= Len(s)
    PROVE  /\ SubSeq(s, 1, n) \in Seq(S) /\ Len(SubSeq(s, 1, n)) = n
           /\ \A i \in 1 .. n : SubSeq(s, 1, n)[i] = s[i]
<1>1. \A i \in 1 .. n : i \in 1 .. Len(s)
  OBVIOUS
<1>2. \A i \in 1 .. n : s[i] \in S
  BY <1>1
<1>3. /\ SubSeq(s, 1, n) \in Seq(S)
      /\ Len(SubSeq(s, 1, n)) = IF 1 <= n THEN n - 1 + 1 ELSE 0
      /\ \A i \in 1 .. n - 1 + 1 : SubSeq(s, 1, n)[i] = s[1 + i - 1]
  BY <1>2, SubSeqProperties
<1> QED  BY <1>3

LEMMA PrefixIs ==
    ASSUME NEW S, NEW s \in Seq(S), NEW t \in Seq(S)
    PROVE  /\ IsPrefix(s, t) <=> Begins(s, t)
           /\ Begins(s, t) => s = SubSeq(t, 1, Len(s))
<1>1. Len(s) \in Nat /\ Len(t) \in Nat
  OBVIOUS
<1>2. SubSeq(s, 1, Len(s)) = s
  BY SubSeqFull
<1>3. ASSUME Len(s) <= Len(t) 
      PROVE  s = SubSeq(t, 1, Len(s)) <=> \A i \in 1 .. Len(s) : s[i] = t[i]
  <2>1. /\ SubSeq(t, 1, Len(s)) \in Seq(S) /\ Len(SubSeq(t, 1, Len(s))) = Len(s)
        /\ \A i \in 1 .. Len(s) : SubSeq(t, 1, Len(s))[i] = t[i]
    BY <1>1, <1>3, Beginning
  <2>2. ASSUME \A i \in 1 .. Len(s) : s[i] = t[i] PROVE s = SubSeq(t, 1, Len(s))
    BY <2>1, <2>2, SeqEqual
  <2>3. ASSUME s = SubSeq(t, 1, Len(s)), NEW i \in 1 .. Len(s) PROVE s[i] = t[i]
    BY <2>1, <2>3
  <2> QED  BY <2>2, <2>3
<1> QED  BY <1>2, <1>3 DEF IsPrefix, Begins

-----------------------------------------------------------------------------
(* The file: what the system has of it is its beginning, and all of it when *)
(* it is closed.                                                            *)

Modes == {"closed", "Read", "Write", "ReadWrite", "broken"}

FileInv(S) ==
    /\ adapter \in Adapters /\ mode \in Modes
    /\ view \in Seq(S) /\ disk \in Seq(S) /\ Begins(disk, view)
    /\ ~IsOpen => disk = view
    /\ pos \in Nat /\ failures \in 0 .. MaxFailures
    /\ transfer \in {"none", "read", "write"}

(* What reaches the system of a file, when it stops in the middle.          *)
LEMMA PartlyWrittenIs ==
    ASSUME NEW S, FileInv(S), NEW p \in PartlyWritten
    PROVE  /\ p \in Seq(S) /\ Begins(disk, p) /\ Begins(p, view)
           /\ p = SubSeq(view, 1, Len(p)) /\ Len(p) \in Len(disk) .. Len(view)
<1>1. PICK n \in Len(disk) .. Len(view) : p = SubSeq(view, 1, n)
  BY DEF PartlyWritten
<1>2. /\ view \in Seq(S) /\ disk \in Seq(S) /\ n \in Nat /\ n <= Len(view)
      /\ Len(disk) <= n /\ \A i \in 1 .. Len(disk) : disk[i] = view[i]
  BY DEF FileInv, Begins
<1>3. p \in Seq(S) /\ Len(p) = n /\ \A i \in 1 .. n : p[i] = view[i]
  BY <1>1, <1>2, Beginning
<1>4. \A i \in 1 .. Len(disk) : disk[i] = p[i]
  BY <1>2, <1>3
<1> QED  BY <1>1, <1>2, <1>3, <1>4 DEF Begins

(* Writing at the end appends.                                              *)
LEMMA WritingAtEnd ==
    ASSUME NEW S, NEW data \in Seq(S), view \in Seq(S)
    PROVE  Overwritten(Len(view), data) = view \o data
<1> DEFINE new == Overwritten(Len(view), data)
           n == Len(view) + Len(data)
<1>1. Len(view) \in Nat /\ Len(data) \in Nat
  OBVIOUS
<1>2. new = [i \in 1 .. n |-> IF i > Len(view) /\ i <= n THEN data[i - Len(view)] ELSE view[i]]
  <2>1. (IF n > Len(view) THEN n ELSE Len(view)) = n
    BY <1>1
  <2> QED  BY <2>1 DEF Overwritten
<1>3. /\ view \o data \in Seq(S) /\ Len(view \o data) = n
      /\ \A i \in 1 .. n : (view \o data)[i] =
            IF i <= Len(view) THEN view[i] ELSE data[i - Len(view)]
  BY ConcatProperties
<1>4. \A i \in 1 .. n : new[i] = (view \o data)[i]
  BY <1>1, <1>2, <1>3
<1>5. DOMAIN (view \o data) = 1 .. n /\ view \o data = [i \in DOMAIN (view \o data) |-> (view \o data)[i]]
  BY <1>3, LenProperties
<1> QED  BY <1>2, <1>4, <1>5

-----------------------------------------------------------------------------
(* What each call of an adapter does to the file, and to the ideal file.    *)

LEMMA FileEmpty ==
    ASSUME NEW S, FileInit
    PROVE  FileInv(S) /\ Ideal!Init
<1> QED  BY AdaptersAssumption DEF FileInit, FileInv, Begins, Modes, IsOpen, Ideal!Init

LEMMA Settling ==
    ASSUME NEW S, FileInv(S)
    PROVE  /\ /\ view \in Seq(S) /\ Len(view) \in Nat /\ Begins(view, view)
              /\ Len(view) \in Len(disk) .. Len(view)
           /\ /\ disk \in Seq(S) /\ Len(disk) \in Nat /\ Begins(disk, view)
              /\ Len(disk) \in Len(disk) .. Len(view)
           /\ failures \in 0 .. MaxFailures
           /\ failures < MaxFailures => failures + 1 \in 0 .. MaxFailures
<1> QED  BY AdaptersAssumption DEF FileInv, Begins

LEMMA OpenKeepsFile ==
    ASSUME NEW S, FileInv(S), NEW openMode \in {"Read", "Write", "ReadWrite"}, Open(openMode)
    PROVE  FileInv(S)' /\ Ideal!Next
<1>1. /\ disk = view /\ Len(view) \in Nat
      /\ view' = view \/ view' = <<>>
      /\ disk' = view'
  BY DEF Open, FileInv, IsOpen
<1>2. FileInv(S)'
  BY <1>1 DEF Open, FileInv, Begins, Modes, IsOpen, Works
<1>3. Ideal!Open
  BY <1>1 DEF Open, Modes, IsOpen, Returns, ReadsNothing, Ideal!Open, Ideal!Returned
<1> QED  BY <1>2, <1>3 DEF Ideal!Next

LEMMA NotOpenedKeepsFile ==
    ASSUME NEW S, FileInv(S), OpenFails \/ OpenRefuses
    PROVE  FileInv(S)' /\ Ideal!Next
<1>1. failures' \in 0 .. MaxFailures
  BY Settling DEF OpenFails, OpenRefuses, Fails, Works
<1>2. FileInv(S)'
  BY <1>1 DEF OpenFails, OpenRefuses, FileInv, IsOpen
<1>3. Ideal!Open
  BY DEF OpenFails, OpenRefuses, IsOpen, Returns, ReadsNothing, Ideal!Open, Ideal!Returned
<1> QED  BY <1>2, <1>3 DEF Ideal!Next

LEMMA DiscardKeepsFile ==
    ASSUME NEW S, FileInv(S), Discard
    PROVE  FileInv(S)' /\ UNCHANGED Ideal!vars
<1> QED  BY DEF Discard, FileInv, Modes, IsOpen, Ideal!vars

LEMMA CloseKeepsFile ==
    ASSUME NEW S, FileInv(S), Close \/ CloseFails
    PROVE  FileInv(S)' /\ Ideal!Next
<1>1. PICK p \in Seq(S) : /\ p = SubSeq(view, 1, Len(p)) /\ Len(p) \in Len(disk) .. Len(view)
                          /\ view' = p /\ disk' = p
  <2>1. CASE Close
    <3>1. view \in Seq(S) /\ Len(disk) \in Nat /\ Len(disk) <= Len(view) /\ view' = view /\ disk' = view
      BY <2>1 DEF Close, FileInv, Begins
    <3>2. SubSeq(view, 1, Len(view)) = view
      BY <3>1, SubSeqFull
    <3> QED  BY <3>1, <3>2
  <2>2. CASE CloseFails
    BY <2>2, PartlyWrittenIs DEF CloseFails, LosesBuffered
  <2> QED  BY <2>1, <2>2
<1>2. FileInv(S)'
  <2>1. /\ view' \in Seq(S) /\ disk' = view' /\ Begins(disk', view')
    BY <1>1 DEF Begins
  <2>2. failures' \in 0 .. MaxFailures
    BY Settling DEF Close, CloseFails, Works, Fails
  <2>3. UNCHANGED adapter /\ mode' \in {"closed", "broken"} /\ pos' = 0 /\ transfer' = "none"
    BY DEF Close, CloseFails
  <2> QED  BY <2>1, <2>2, <2>3 DEF FileInv, Modes, IsOpen
<1>3. Ideal!Close
  <2>1. Len(p) \in Nat /\ Len(p) = Len(disk')
    BY <1>1
  <2>2. last' = [call |-> "close", ok |-> TRUE] \/ last' = [call |-> "close", ok |-> FALSE]
    BY DEF Close, CloseFails, Returns, QFileReturnsTrue
  <2> QED  BY <1>1, <2>1, <2>2
             DEF Close, CloseFails, IsOpen, ReadsNothing, Ideal!Close, Ideal!Closes, Ideal!Returned
<1> QED  BY <1>2, <1>3 DEF Ideal!Next

LEMMA SeekTargets ==
    ASSUME NEW position \in Nat
    PROVE  SeekTarget(position) \in Int
<1>1. position % LongModulus \in Nat
  BY AdaptersAssumption
<1>2. AsLong(position) \in Int
  BY <1>1, AdaptersAssumption DEF AsLong
<1> QED  BY <1>2 DEF SeekTarget

(* A call that leaves the units alone, and may bring some to the system.    *)
OnlySettles(S) ==
    /\ UNCHANGED <<adapter, mode, view>>
    /\ disk' \in Seq(S) /\ Begins(disk', view) /\ Len(disk') \in Len(disk) .. Len(view)
    /\ pos' \in Nat /\ failures' \in 0 .. MaxFailures
    /\ transfer' \in {"none", "read", "write"}

LEMMA SettlingKeepsFile ==
    ASSUME NEW S, FileInv(S), OnlySettles(S), IsOpen
    PROVE  FileInv(S)' /\ Ideal!Settles
<1> QED  BY DEF FileInv, OnlySettles, IsOpen, Ideal!Settles

LEMMA SeekKeepsFile ==
    ASSUME NEW S, FileInv(S), NEW position \in Nat,
           Seek(position) \/ SeekFails(position) \/ SeekToEnd
    PROVE  FileInv(S)' /\ Ideal!Next
<1>1. OnlySettles(S) /\ IsOpen
  <2>1. CASE Seek(position)
    BY <2>1, Settling, SeekTargets DEF Seek, OnlySettles, Works
  <2>2. CASE SeekFails(position)
    BY <2>2, Settling DEF SeekFails, OnlySettles, Works, FileInv
  <2>3. CASE SeekToEnd
    BY <2>3, Settling DEF SeekToEnd, OnlySettles, Works
  <2> QED  BY <2>1, <2>2, <2>3
<1>2. FileInv(S)' /\ Ideal!Settles
  BY <1>1, SettlingKeepsFile
<1>3. Ideal!Seek \/ Ideal!SeekToEnd
  BY <1>1, <1>2 DEF Seek, SeekFails, SeekToEnd, OnlySettles, IsOpen, Returns, ReadsNothing,
                    Ideal!Seek, Ideal!SeekToEnd, Ideal!Returned
<1> QED  BY <1>2, <1>3 DEF Ideal!Next

LEMMA SeekCannotFlushKeepsFile ==
    ASSUME NEW S, FileInv(S), SeekCannotFlush("seek") \/ SeekCannotFlush("seekToEnd")
    PROVE  FileInv(S)' /\ Ideal!Next
<1>1. OnlySettles(S) /\ IsOpen
  <2>1. disk' \in PartlyWritten
    BY DEF SeekCannotFlush
  <2>2. disk' \in Seq(S) /\ Begins(disk', view) /\ Len(disk') \in Len(disk) .. Len(view)
    BY <2>1, PartlyWrittenIs
  <2> QED  BY <2>2, Settling DEF SeekCannotFlush, OnlySettles, Fails, FileInv
<1>2. FileInv(S)' /\ Ideal!Settles
  BY <1>1, SettlingKeepsFile
<1>3. Ideal!Seek \/ Ideal!SeekToEnd
  BY <1>1, <1>2 DEF SeekCannotFlush, OnlySettles, IsOpen, Returns, ReadsNothing,
                    Ideal!Seek, Ideal!SeekToEnd, Ideal!Returned
<1> QED  BY <1>2, <1>3 DEF Ideal!Next

LEMMA SpillKeepsFile ==
    ASSUME NEW S, FileInv(S), Spill
    PROVE  FileInv(S)' /\ Ideal!Next
<1>1. OnlySettles(S) /\ IsOpen
  <2>1. disk' \in PartlyWritten
    BY DEF Spill
  <2>2. disk' \in Seq(S) /\ Begins(disk', view) /\ Len(disk') \in Len(disk) .. Len(view)
    BY <2>1, PartlyWrittenIs
  <2> QED  BY <2>2 DEF Spill, OnlySettles, FileInv
<1>2. FileInv(S)' /\ Ideal!Settles
  BY <1>1, SettlingKeepsFile
<1>3. Ideal!Settle
  BY <1>1, <1>2 DEF Spill, IsOpen, Ideal!Settle
<1> QED  BY <1>2, <1>3 DEF Ideal!Next

LEMMA FlushKeepsFile ==
    ASSUME NEW S, FileInv(S), Flush \/ FlushFails
    PROVE  FileInv(S)' /\ Ideal!Next
<1>1. OnlySettles(S) /\ IsOpen
  <2>1. CASE Flush
    BY <2>1, Settling DEF Flush, OnlySettles, Works, FileInv
  <2>2. CASE FlushFails
    <3>1. disk' \in Seq(S) /\ Begins(disk', view) /\ Len(disk') \in Len(disk) .. Len(view)
      BY <2>2, PartlyWrittenIs DEF FlushFails
    <3> QED  BY <2>2, <3>1, Settling DEF FlushFails, OnlySettles, Fails, FileInv
  <2> QED  BY <2>1, <2>2
<1>2. FileInv(S)' /\ Ideal!Settles
  BY <1>1, SettlingKeepsFile
<1>3. Ideal!Flush
  BY <1>1, <1>2 DEF Flush, FlushFails, OnlySettles, IsOpen, Returns, ReadsNothing,
                    Ideal!Flush, Ideal!Returned
<1> QED  BY <1>2, <1>3 DEF Ideal!Next

LEMMA ClearKeepsFile ==
    ASSUME NEW S, FileInv(S), Clear \/ ResizeFails \/ ClearFails
    PROVE  FileInv(S)' /\ Ideal!Next
<1>1. CASE Clear
  <2>1. FileInv(S)'
    BY <1>1 DEF Clear, FileInv, Begins, IsOpen, Works
  <2>2. Ideal!Clear
    BY <1>1 DEF Clear, IsOpen, Returns, ReadsNothing, Ideal!Clear, Ideal!Returned
  <2> QED  BY <2>1, <2>2 DEF Ideal!Next
<1>2. CASE ResizeFails
  <2>1. OnlySettles(S) /\ IsOpen /\ pos' \in {0, pos}
    <3>1. disk' \in PartlyWritten \/ disk' = view
      BY <1>2 DEF ResizeFails
    <3>2. disk' \in Seq(S) /\ Begins(disk', view) /\ Len(disk') \in Len(disk) .. Len(view)
      BY <3>1, PartlyWrittenIs, Settling
    <3>3. failures' \in 0 .. MaxFailures
      BY <1>2, Settling DEF ResizeFails, Fails, Works
    <3> QED  BY <1>2, <3>2, <3>3 DEF ResizeFails, OnlySettles, FileInv
  <2>2. FileInv(S)' /\ Ideal!Settles
    BY <2>1, SettlingKeepsFile
  <2>3. Ideal!Clear
    BY <1>2, <2>1, <2>2
       DEF ResizeFails, IsOpen, Returns, ReadsNothing, Ideal!Clear, Ideal!Returned
  <2> QED  BY <2>2, <2>3 DEF Ideal!Next
<1>3. CASE ClearFails
  <2>1. PICK p \in Seq(S) : /\ p = SubSeq(view, 1, Len(p)) /\ Len(p) \in Len(disk) .. Len(view)
                            /\ view' = p /\ disk' = p
    <3>1. view \in Seq(S) /\ Len(view) \in Len(disk) .. Len(view) /\ SubSeq(view, 1, Len(view)) = view
      BY Settling, SubSeqFull
    <3> QED  BY <1>3, <3>1, PartlyWrittenIs DEF ClearFails, LosesBuffered
  <2>2. FileInv(S)'
    <3>1. view' \in Seq(S) /\ disk' = view' /\ Begins(disk', view')
      BY <2>1 DEF Begins
    <3>2. failures' \in 0 .. MaxFailures
      BY <1>3, Settling DEF ClearFails, Fails, Works
    <3>3. UNCHANGED adapter /\ mode' \in {"closed", "broken"} /\ pos' = 0 /\ transfer' = "none"
      BY <1>3 DEF ClearFails
    <3> QED  BY <3>1, <3>2, <3>3 DEF FileInv, Modes
  <2>3. Ideal!Clear
    <3>1. Len(p) = Len(disk') /\ ~IsOpen'
      BY <1>3, <2>1 DEF ClearFails, IsOpen
    <3> QED  BY <1>3, <2>1, <3>1
               DEF ClearFails, Returns, ReadsNothing, Ideal!Clear, Ideal!Closes, Ideal!Returned
  <2> QED  BY <2>2, <2>3 DEF Ideal!Next
<1> QED  BY <1>1, <1>2, <1>3

LEMMA DieKeepsFile ==
    ASSUME NEW S, FileInv(S), Die
    PROVE  FileInv(S)' /\ Ideal!Next
<1>1. FileInv(S)'
  BY Settling DEF Die, FileInv, Begins, Modes, IsOpen
<1>2. disk = SubSeq(view, 1, Len(disk))
  BY PrefixIs DEF FileInv
<1>3. Ideal!Lose
  BY <1>2 DEF Die, IsOpen, ReadsNothing, Ideal!Lose
<1> QED  BY <1>1, <1>3 DEF Ideal!Next

LEMMA ReadKeepsFile ==
    ASSUME NEW S, FileInv(S), NEW n \in Nat \ {0},
           Read(n) \/ ReadFindsTooLittle(n) \/ ReadFails(n)
    PROVE  FileInv(S)' /\ Ideal!Next
<1>1. OnlySettles(S) /\ IsOpen
  <2>1. CASE Read(n)
    BY <2>1, Settling DEF Read, OnlySettles, Turns, Works, FileInv
  <2>2. CASE ReadFindsTooLittle(n)
    BY <2>2, Settling DEF ReadFindsTooLittle, OnlySettles, Turns, Works, FileInv
  <2>3. CASE ReadFails(n)
    <3>1. pos' \in Nat
      BY <2>3 DEF ReadFails, FileInv
    <3> QED  BY <2>3, <3>1, Settling DEF ReadFails, OnlySettles, Turns, Fails, FileInv
  <2> QED  BY <2>1, <2>2, <2>3
<1>2. FileInv(S)'
  BY <1>1, SettlingKeepsFile
<1>3. Ideal!Read
  <2>1. pos \in Nat /\ Len(view) \in Nat
    BY Settling DEF FileInv
  <2>2. CASE Read(n)
    BY <2>1, <2>2 DEF Read, IsOpen, Returns, Ideal!Read, Ideal!Returned
  <2>3. CASE ReadFindsTooLittle(n)
    BY <2>1, <2>3 DEF ReadFindsTooLittle, IsOpen, Returns, ReadsNothing, Ideal!Read, Ideal!Returned
  <2>4. CASE ReadFails(n)
    <3>1. pos' >= pos
      BY <2>1, <2>4 DEF ReadFails
    <3> QED  BY <2>4, <3>1
               DEF ReadFails, IsOpen, Returns, ReadsNothing, Ideal!Read, Ideal!Returned
  <2> QED  BY <2>2, <2>3, <2>4
<1> QED  BY <1>2, <1>3 DEF Ideal!Next

LEMMA Appended ==
    ASSUME NEW S, FileInv(S), WriteAt = Len(view), NEW data \in Seq(S), Written(data)
    PROVE  /\ view' = view \o data
           /\ view' \in Seq(S) /\ Begins(view, view') /\ Len(view') = Len(view) + Len(data)
           /\ disk' \in Seq(S) /\ Begins(disk, disk') /\ Begins(disk', view')
           /\ Len(disk') \in Len(disk) .. Len(view')
           /\ pos' = Len(view') /\ pos' \in Nat /\ transfer' = "write"
<1>1. /\ view \in Seq(S) /\ Len(view) \in Nat /\ disk \in Seq(S) /\ Len(disk) \in Nat
      /\ Len(data) \in Nat /\ Begins(disk, view)
  BY Settling
<1>2. view' = view \o data
  BY <1>1, WritingAtEnd DEF Written
<1>3. /\ view' \in Seq(S) /\ Len(view') = Len(view) + Len(data)
      /\ \A i \in 1 .. Len(view) + Len(data) :
            view'[i] = IF i <= Len(view) THEN view[i] ELSE data[i - Len(view)]
  BY <1>1, <1>2, ConcatProperties
<1>4. Begins(view, view')
  BY <1>1, <1>3 DEF Begins
<1>5. disk' = disk \/ disk' = view'
  BY DEF Written
<1>6. disk' \in Seq(S) /\ Begins(disk, disk') /\ Begins(disk', view') /\ Len(disk') \in Len(disk) .. Len(view')
  <2>1. CASE disk' = disk
    BY <1>1, <1>3, <2>1 DEF Begins
  <2>2. CASE disk' = view'
    BY <1>1, <1>3, <2>2 DEF Begins
  <2> QED  BY <1>5, <2>1, <2>2
<1>7. pos' = Len(view') /\ transfer' = "write"
  BY <1>3 DEF Written, Turns
<1> QED  BY <1>1, <1>2, <1>3, <1>4, <1>6, <1>7

LEMMA WriteKeepsFile ==
    ASSUME NEW S, FileInv(S), WriteAt = Len(view), NEW data \in Seq(S), data # <<>>,
           Write(data) \/ WriteFails(data) \/ WriteFindsNoRoom(data)
    PROVE  FileInv(S)' /\ Ideal!Next
<1>1. /\ view \in Seq(S) /\ Len(view) \in Nat /\ disk \in Seq(S) /\ Len(disk) \in Nat
      /\ Len(data) \in Nat \ {0} /\ Begins(disk, view) /\ Begins(view, view)
  BY Settling, EmptySeq
<1>2. CASE WriteFindsNoRoom(data)
  <2>1. FileInv(S)'
    BY <1>2 DEF WriteFindsNoRoom, FileInv, IsOpen, Works
  <2>2. pos = Len(view) /\ IsPrefix(view, view)
    BY <1>1, <1>2, PrefixIs DEF WriteFindsNoRoom, HasRoom, WriteAt
  <2>3. Ideal!Write
    BY <1>1, <1>2, <2>2
       DEF WriteFindsNoRoom, IsOpen, Begins, Returns, ReadsNothing, Ideal!Write, Ideal!Returned,
           Ideal!IsPrefix, IsPrefix
  <2> QED  BY <2>1, <2>3 DEF Ideal!Next
<1>3. CASE Write(data)
  <2>1. Written(data) /\ IsOpen /\ IsOpen' /\ UNCHANGED <<adapter, mode, failures>> /\ got' = <<>>
    BY <1>3 DEF Write, Written, IsOpen, ReadsNothing, Works
  <2>2. FileInv(S)'
    BY <2>1, Appended DEF FileInv
  <2>3. IsPrefix(view, view') /\ view # view'
    BY <1>1, <2>1, Appended, PrefixIs
  <2>4. Ideal!Write
    BY <1>3, <2>1, <2>3, Appended
       DEF Write, Returns, Ideal!Write, Ideal!Returned, Ideal!IsStrictPrefix, Ideal!IsPrefix, IsPrefix
  <2> QED  BY <2>2, <2>4 DEF Ideal!Next
<1>4. CASE WriteFails(data)
  <2>1. PICK n \in 0 .. Len(data) - 1 : Written(SubSeq(data, 1, n))
    BY <1>4 DEF WriteFails
  <2>2. SubSeq(data, 1, n) \in Seq(S)
    BY <1>1, Beginning
  <2>3. /\ IsOpen /\ IsOpen' /\ UNCHANGED <<adapter, mode>> /\ got' = <<>>
        /\ failures' \in 0 .. MaxFailures
    BY <1>4, <2>1, Settling DEF WriteFails, Written, IsOpen, ReadsNothing, Fails
  <2>4. FileInv(S)'
    BY <2>1, <2>2, <2>3, Appended DEF FileInv
  <2>5. IsPrefix(view, view')
    BY <1>1, <2>1, <2>2, Appended, PrefixIs
  <2>6. Ideal!Write
    BY <1>4, <2>1, <2>2, <2>3, <2>5, Appended
       DEF WriteFails, Returns, Ideal!Write, Ideal!Returned, Ideal!IsPrefix, IsPrefix
  <2> QED  BY <2>4, <2>6 DEF Ideal!Next
<1> QED  BY <1>2, <1>3, <1>4

-----------------------------------------------------------------------------
(* The invariant.  While a record is written, its first units are the last  *)
(* of the file; while one is read, what has been read is what is there.     *)

(* No offset is too large for fseek().                                      *)
PagesFit == \A page \in Pages : pageNumberToOffset(page) < LongModulus \div 2

HasAt(record, units, i) ==
    i + RecordSize <= Len(units) /\ \A j \in 1 .. RecordSize : units[i + j] = UnitsOf(record)[j]

Done(t) == RecordSize - Len(call[t].units)

ReadingOK(t) ==
    /\ call[t].op = "read"
    /\ call[t] = [op |-> "read", page |-> call[t].page, units |-> call[t].units]
    /\ call[t].page \in Pages /\ call[t].units \in Seq(RecordUnits)
    /\ Len(call[t].units) < RecordSize
    /\ transfer # "write"
    /\ PagesFit =>
          /\ pos = pageNumberToOffset(call[t].page) + Len(call[t].units)
          /\ call[t].units # <<>> => pos <= Len(view)
          /\ \A i \in 1 .. Len(call[t].units) :
                call[t].units[i] = view[pageNumberToOffset(call[t].page) + i]

WritingOK(t) ==
    /\ call[t].op = "write"
    /\ call[t] = [op |-> "write", record |-> call[t].record, units |-> call[t].units]
    /\ call[t].record \in 1 .. written
    /\ Done(t) \in 0 .. RecordSize - 1
    /\ call[t].units = SubSeq(UnitsOf(call[t].record), Done(t) + 1, RecordSize)
    /\ transfer # "read"
    /\ pos = Len(view) /\ Done(t) <= Len(view)
    /\ \A i \in 1 .. Done(t) : view[Len(view) - Done(t) + i] = UnitsOf(call[t].record)[i]
    /\ ~spoilt => Len(view) % RecordSize = Done(t)

CallsOK ==
    /\ \A t \in Threads : call[t] = Idle \/ (IsOpen /\ (ReadingOK(t) \/ WritingOK(t)))
    /\ \A t, u \in Threads : call[t] # Idle /\ call[u] # Idle => t = u

(* Unless part of a record was left in it, the file is records one after    *)
(* the other.                                                               *)
RecordsOK ==
    ~spoilt =>
        /\ \A i \in 0 .. Len(view) : i % RecordSize = 0 /\ i + RecordSize <= Len(view) =>
              \E record \in 1 .. written : HasAt(record, view, i)
        /\ ~Writing(call) => Len(view) % RecordSize = 0

ReturnedOK ==
    PagesFit => \A r \in returned :
        /\ r.page \in Nat /\ r.units \in Seq(RecordUnits) /\ Len(r.units) = RecordSize
        /\ pageNumberToOffset(r.page) + RecordSize <= Len(view)
        /\ \A j \in 1 .. RecordSize : r.units[j] = view[pageNumberToOffset(r.page) + j]

KeptOK ==
    /\ \A record \in kept : \E i \in 0 .. Len(disk) : HasAt(record, disk, i)
    /\ \A record \in latest : \E i \in 0 .. Len(view) : HasAt(record, view, i)

StorageInv ==
    /\ FileInv(RecordUnits)
    /\ CallsOK /\ RecordsOK /\ ReturnedOK /\ KeptOK

OtherInv ==
    /\ FileInv(Units)
    /\ call = [t \in Threads |-> Idle] /\ returned = {} /\ kept = {} /\ latest = {}

RInv ==
    /\ user \in {"DBStorage", "other"}
    /\ call = [t \in Threads |-> call[t]] /\ spoilt \in BOOLEAN
    /\ written \in 0 .. MaxRecords /\ kept \cup latest \subseteq 1 .. written
    /\ undefined = FALSE
    /\ user = "other" => OtherInv
    /\ user = "DBStorage" => StorageInv

-----------------------------------------------------------------------------
(* Records and the units of the file.                                       *)

LEMMA Offsets ==
    ASSUME NEW page \in Nat
    PROVE  pageNumberToOffset(page) \in Nat
<1> QED  BY StorageAssumption DEF pageNumberToOffset

LEMMA RecordsAreThreeUnits ==
    /\ RecordSize = 3
    /\ \A record \in 1 .. MaxRecords :
          /\ UnitsOf(record) \in Seq(RecordUnits) /\ Len(UnitsOf(record)) = 3
          /\ \A i \in 1 .. 3 : UnitsOf(record)[i] \in RecordUnits
<1>1. RecordSize = 3
  BY DEF RecordSize, Parts
<1>2. ASSUME NEW record \in 1 .. MaxRecords
      PROVE  UnitsOf(record) \in [1 .. 3 -> RecordUnits]
  <2>1. ASSUME NEW i \in 1 .. 3 PROVE Parts[i] \in ToSet(Parts)
    BY DEF Parts, ToSet
  <2>2. \A i \in 1 .. 3 : [record |-> record, part |-> Parts[i]] \in RecordUnits
    BY <2>1 DEF RecordUnits
  <2> QED  BY <1>1, <2>2 DEF UnitsOf
<1>3. ASSUME NEW s \in [1 .. 3 -> RecordUnits]
      PROVE  s \in Seq(RecordUnits) /\ Len(s) = 3 /\ \A i \in 1 .. 3 : s[i] \in RecordUnits
  <2>1. s \in Seq(RecordUnits)
    BY SeqDef
  <2>2. Len(s) \in Nat /\ 1 .. Len(s) = 1 .. 3
    BY <2>1, LenProperties
  <2> QED  BY <2>1, <2>2
<1> QED  BY <1>1, <1>2, <1>3

LEMMA FoundInLonger ==
    ASSUME NEW S, NEW s \in Seq(S), NEW t \in Seq(S), Begins(s, t),
           NEW record, NEW i \in Nat, HasAt(record, s, i)
    PROVE  HasAt(record, t, i)
<1> QED  BY RecordsAreThreeUnits DEF HasAt, Begins

LEMMA ThreeUnits ==
    ASSUME NEW S, NEW units \in Seq(S), NEW found \in Seq(S), Len(found) = 3,
           NEW i \in Nat, i + 3 <= Len(units), \A k \in 1 .. 3 : found[k] = units[i + k]
    PROVE  found = SubSeq(units, i + 1, i + 3)
<1> DEFINE three == SubSeq(units, i + 1, i + 3)
<1>1. i + 1 \in Int /\ i + 3 \in Int /\ \A k \in i + 1 .. i + 3 : units[k] \in S
  <2>1. \A k \in i + 1 .. i + 3 : k \in 1 .. Len(units)
    OBVIOUS
  <2> QED  BY <2>1
<1>2. /\ three \in Seq(S)
      /\ Len(three) = IF i + 1 <= i + 3 THEN i + 3 - (i + 1) + 1 ELSE 0
      /\ \A k \in 1 .. i + 3 - (i + 1) + 1 : three[k] = units[i + 1 + k - 1]
  BY <1>1, SubSeqProperties
<1>3. Len(three) = 3 /\ \A k \in 1 .. 3 : three[k] = units[i + k]
  BY <1>2
<1>4. \A k \in 1 .. Len(found) : found[k] = three[k]
  BY <1>3
<1> HIDE DEF three
<1>5. found = three
  BY <1>2, <1>3, <1>4, SeqEqual
<1> QED  BY <1>5 DEF three

LEMMA HasAtIsIn ==
    ASSUME NEW units \in Seq(RecordUnits), NEW record \in 1 .. MaxRecords,
           NEW i \in 0 .. Len(units), HasAt(record, units, i)
    PROVE  IsIn(record, units)
<1>1. i \in 0 .. Len(units) - 3 /\ i + 3 <= Len(units) /\ i \in Nat
  BY RecordsAreThreeUnits DEF HasAt
<1>2. UnitsOf(record) = SubSeq(units, i + 1, i + 3)
  BY <1>1, RecordsAreThreeUnits, ThreeUnits DEF HasAt
<1> QED  BY <1>1, <1>2, RecordsAreThreeUnits DEF IsIn

-----------------------------------------------------------------------------
(* How the parts of the invariant survive.                                  *)

LEMMA KeptStaysOK ==
    ASSUME StorageInv, FileInv(RecordUnits)', Begins(disk, disk'),
           \/ kept' = kept /\ latest' = latest /\ Begins(view, view')
           \/ KeepsLatest /\ disk' = view
           \/ /\ kept' = kept
              /\ \A record \in latest' : \E i \in 0 .. Len(view') : HasAt(record, view', i)
    PROVE  KeptOK'
<1>1. /\ disk \in Seq(RecordUnits) /\ disk' \in Seq(RecordUnits)
      /\ view \in Seq(RecordUnits) /\ view' \in Seq(RecordUnits)
      /\ Len(disk) \in Nat /\ Len(disk') \in Nat /\ Len(view) \in Nat /\ Len(view') \in Nat
  BY DEF StorageInv, FileInv
<1>2. ASSUME NEW record \in kept'
      PROVE  \E i \in 0 .. Len(disk') : HasAt(record, disk', i)
  <2>1. CASE record \in kept
    <3>1. PICK i \in 0 .. Len(disk) : HasAt(record, disk, i)
      BY <2>1 DEF StorageInv, KeptOK
    <3>2. HasAt(record, disk', i) /\ i \in 0 .. Len(disk')
      BY <1>1, <3>1, FoundInLonger DEF Begins
    <3> QED  BY <3>2
  <2>2. CASE record \in latest /\ disk' = view
    BY <2>2 DEF StorageInv, KeptOK
  <2> QED  BY <1>2, <2>1, <2>2 DEF KeepsLatest
<1>3. ASSUME NEW record \in latest'
      PROVE  \E i \in 0 .. Len(view') : HasAt(record, view', i)
  <2>1. CASE latest' = latest /\ Begins(view, view')
    <3>1. PICK i \in 0 .. Len(view) : HasAt(record, view, i)
      BY <1>3, <2>1 DEF StorageInv, KeptOK
    <3>2. HasAt(record, view', i) /\ i \in 0 .. Len(view')
      BY <1>1, <2>1, <3>1, FoundInLonger DEF Begins
    <3> QED  BY <3>2
  <2> QED  BY <1>3, <2>1 DEF KeepsLatest
<1> QED  BY <1>2, <1>3 DEF KeptOK

LEMMA ReturnedStaysOK ==
    ASSUME StorageInv, FileInv(RecordUnits)', Begins(view, view'), returned' = returned
    PROVE  ReturnedOK'
<1>1. /\ view \in Seq(RecordUnits) /\ view' \in Seq(RecordUnits)
      /\ Len(view) \in Nat /\ Len(view') \in Nat
  BY DEF StorageInv, FileInv
<1> SUFFICES ASSUME PagesFit, NEW r \in returned
             PROVE  /\ r.page \in Nat /\ r.units \in Seq(RecordUnits) /\ Len(r.units) = RecordSize
                    /\ pageNumberToOffset(r.page) + RecordSize <= Len(view')
                    /\ \A j \in 1 .. RecordSize : r.units[j] = view'[pageNumberToOffset(r.page) + j]
  BY DEF ReturnedOK
<1> DEFINE first == pageNumberToOffset(r.page)
<1>2. /\ r.page \in Nat /\ r.units \in Seq(RecordUnits) /\ Len(r.units) = 3
      /\ first + 3 <= Len(view)
      /\ \A j \in 1 .. 3 : r.units[j] = view[first + j]
  BY RecordsAreThreeUnits DEF StorageInv, ReturnedOK
<1>3. first \in Nat
  BY <1>2, Offsets
<1> HIDE DEF first
<1>4. first + 3 <= Len(view') /\ \A j \in 1 .. 3 : view'[first + j] = view[first + j]
  <2>1. Len(view) <= Len(view') /\ \A i \in 1 .. Len(view) : view[i] = view'[i]
    BY DEF Begins
  <2>2. ASSUME NEW j \in 1 .. 3 PROVE first + j \in 1 .. Len(view)
    BY <1>1, <1>2, <1>3
  <2>3. first + 3 <= Len(view')
    BY <1>1, <1>2, <1>3, <2>1
  <2> QED  BY <2>1, <2>2, <2>3
<1> QED  BY <1>2, <1>4, RecordsAreThreeUnits DEF first

(* The file has lost its end, or nothing, and every call has ended.         *)
LEMMA StoppingStaysOK ==
    ASSUME RInv, user = "DBStorage", UNCHANGED <<user, written, undefined>>,
           FileInv(RecordUnits)', Begins(disk, view'), Begins(view', view), disk' = view',
           call' = [t \in Threads |-> Idle], returned' = {}, NotesTornRecord,
           \/ kept' = kept /\ latest' = {}
           \/ KeepsLatest /\ disk' = view
    PROVE  RInv'
<1>1. StorageInv /\ spoilt \in BOOLEAN /\ written \in Nat
  BY StorageAssumption DEF RInv
<1>2. /\ view \in Seq(RecordUnits) /\ view' \in Seq(RecordUnits)
      /\ Len(view) \in Nat /\ Len(view') \in Nat
  BY <1>1 DEF StorageInv, FileInv
<1>3. KeptOK'
  BY <1>1, KeptStaysOK
<1>4. ~Writing(call')
  BY DEF Writing, Idle
<1>5. spoilt' \in BOOLEAN /\ (~spoilt' => ~spoilt /\ Len(view') % RecordSize = 0)
  BY <1>1, <1>4 DEF NotesTornRecord
<1>6. RecordsOK'
  <2>1. ASSUME ~spoilt', NEW i \in 0 .. Len(view'), i % RecordSize = 0, i + RecordSize <= Len(view')
        PROVE  \E record \in 1 .. written : HasAt(record, view', i)
    <3>1. i \in 0 .. Len(view) /\ i + RecordSize <= Len(view)
      BY <1>2, <2>1, RecordsAreThreeUnits DEF Begins
    <3>2. PICK record \in 1 .. written : HasAt(record, view, i)
      BY <1>1, <1>5, <2>1, <3>1 DEF StorageInv, RecordsOK
    <3>3. HasAt(record, view', i)
      BY <1>2, <2>1, <3>2, RecordsAreThreeUnits DEF HasAt, Begins
    <3> QED  BY <3>3
  <2> QED  BY <1>5, <2>1 DEF RecordsOK
<1>7. CallsOK' /\ ReturnedOK'
  BY DEF CallsOK, ReturnedOK
<1>8. kept' \cup latest' \subseteq 1 .. written
  BY DEF RInv, KeepsLatest
<1> QED  BY <1>3, <1>5, <1>6, <1>7, <1>8 DEF RInv, StorageInv

(* Nothing is written.                                                      *)
LEMMA QuietStaysOK ==
    ASSUME RInv, user = "DBStorage", UNCHANGED <<user, view, spoilt, undefined>>,
           FileInv(RecordUnits)', Begins(disk, disk'), written' \in written .. MaxRecords,
           call' = [t \in Threads |-> call'[t]], CallsOK', ReturnedOK',
           ~Writing(call) \/ call' = call,
           \/ kept' = kept /\ latest' = latest
           \/ KeepsLatest /\ disk' = view
    PROVE  RInv'
<1>1. StorageInv /\ written \in Nat /\ view \in Seq(RecordUnits)
  BY StorageAssumption DEF RInv, StorageInv, FileInv
<1>2. KeptOK'
  <2>1. Begins(view, view')
    BY <1>1 DEF Begins
  <2> QED  BY <1>1, <2>1, KeptStaysOK
<1>3. RecordsOK'
  BY <1>1 DEF StorageInv, RecordsOK, HasAt
<1>4. kept' \cup latest' \subseteq 1 .. written'
  BY <1>1 DEF RInv, KeepsLatest
<1>5. written' \in 0 .. MaxRecords
  BY <1>1, StorageAssumption
<1> QED  BY <1>2, <1>3, <1>4, <1>5 DEF RInv, StorageInv

(* The mutex: a call is the only one.                                       *)
LEMMA OneCall ==
    ASSUME RInv, user = "DBStorage", NEW t \in Threads, NEW c,
           MutexFree \/ call[t].op # "none", Enters(t, c)
    PROVE  call' = [u \in Threads |-> IF u = t THEN c ELSE Idle]
<1>1. \A u \in Threads : u # t => call[u] = Idle
  BY DEF RInv, StorageInv, CallsOK, MutexFree, Idle
<1> QED  BY <1>1 DEF RInv, Enters

LEMMA NobodyWrites ==
    ASSUME RInv, user = "DBStorage", NEW t \in Threads, MutexFree \/ call[t].op = "read"
    PROVE  ~Writing(call)
<1> QED  BY DEF RInv, StorageInv, CallsOK, MutexFree, Writing, Idle

-----------------------------------------------------------------------------
(* The steps.                                                               *)

(* Nothing but what the system has of the file changes.                     *)
LEMMA OnlyDiskStays ==
    ASSUME RInv, user = "DBStorage", FileInv(RecordUnits)', Begins(disk, disk'),
           IsOpen' <=> IsOpen, UNCHANGED <<user, view, pos, transfer, undefined, storageVars>>
    PROVE  RInv'
<1>1. StorageInv /\ FileInv(RecordUnits) /\ written \in written .. MaxRecords
  BY StorageAssumption DEF RInv, StorageInv
<1>2. Begins(view, view')
  BY <1>1, Settling
<1>3. ReturnedOK'
  BY <1>1, <1>2, ReturnedStaysOK DEF storageVars
<1>4. CallsOK'
  BY <1>1 DEF storageVars, StorageInv, CallsOK, ReadingOK, WritingOK, Done
<1>5. call' = [t \in Threads |-> call'[t]]
  BY DEF storageVars, RInv
<1>6. call' = call
  BY DEF storageVars
<1>7. /\ UNCHANGED <<user, view, spoilt, undefined>> /\ kept' = kept /\ latest' = latest
      /\ written' \in written .. MaxRecords
  BY <1>1 DEF storageVars
<1> QED  BY <1>1, <1>3, <1>4, <1>5, <1>6, <1>7, QuietStaysOK

LEMMA OpenStays ==
    ASSUME RInv, user = "DBStorage", UNCHANGED user, OpenStorageFile
    PROVE  RInv' /\ Ideal!Next
<1>1. StorageInv /\ FileInv(RecordUnits) /\ disk = view
  BY DEF RInv, StorageInv, FileInv, OpenStorageFile, Open, OpenFails, IsOpen
<1>2. FileInv(RecordUnits)' /\ Ideal!Next
  BY <1>1, OpenKeepsFile, NotOpenedKeepsFile DEF OpenStorageFile
<1>3. UNCHANGED <<view, disk, undefined>>
  BY <1>1 DEF OpenStorageFile, Open, OpenFails, Truncates, FopenTruncates, QFileTruncates
<1>4. Begins(view, view) /\ Begins(disk, disk')
  BY <1>1, <1>3, Settling
<1>5. CASE OpenFails
  BY <1>2, <1>3, <1>4, <1>5, OnlyDiskStays DEF OpenStorageFile, OpenFails, IsOpen
<1>6. CASE Open("ReadWrite")
  <2>1. call' = [t \in Threads |-> Idle] /\ written \in written .. MaxRecords
    BY <1>1, <1>6, StorageAssumption
       DEF OpenStorageFile, Open, IsOpen, storageVars, StorageInv, CallsOK, RInv
  <2>2. CallsOK'
    BY <2>1 DEF CallsOK
  <2>3. ReturnedOK'
    BY <1>1, <1>2, <1>3, <1>4, ReturnedStaysOK DEF OpenStorageFile, storageVars
  <2>4. ~Writing(call)
    BY <2>1 DEF OpenStorageFile, storageVars, Writing, Idle
  <2> QED  BY <1>1, <1>2, <1>3, <1>4, <2>1, <2>2, <2>3, <2>4, QuietStaysOK
             DEF OpenStorageFile, storageVars
<1> QED  BY <1>5, <1>6 DEF OpenStorageFile

LEMMA DestroyStays ==
    ASSUME RInv, user = "DBStorage", UNCHANGED user, DestroyStorage
    PROVE  RInv' /\ Ideal!Next
<1>1. StorageInv /\ FileInv(RecordUnits)
  BY DEF RInv, StorageInv
<1>2. FileInv(RecordUnits)' /\ Ideal!Next
  BY <1>1, CloseKeepsFile DEF DestroyStorage
<1>3. Begins(disk, view') /\ Begins(view', view) /\ disk' = view' /\ UNCHANGED undefined
  <2>1. CASE Close
    BY <1>1, <2>1, Settling DEF Close
  <2>2. CASE CloseFails
    BY <1>1, <2>2, PartlyWrittenIs DEF CloseFails, LosesBuffered
  <2> QED  BY <2>1, <2>2 DEF DestroyStorage
<1>4. call' = [t \in Threads |-> Idle]
  BY DEF DestroyStorage, MutexFree, RInv
<1>5. \/ kept' = kept /\ latest' = {}
      \/ KeepsLatest /\ disk' = view
  BY DEF DestroyStorage, Close
<1> QED  BY <1>2, <1>3, <1>4, <1>5, StoppingStaysOK DEF DestroyStorage

LEMMA DieStays ==
    ASSUME RInv, user = "DBStorage", UNCHANGED user, ProcessDies
    PROVE  RInv' /\ Ideal!Next
<1>1. StorageInv /\ FileInv(RecordUnits)
  BY DEF RInv, StorageInv
<1>2. FileInv(RecordUnits)' /\ Ideal!Next
  BY <1>1, DieKeepsFile DEF ProcessDies
<1>3. Begins(disk, disk) /\ Begins(disk, view)
  BY <1>1 DEF FileInv, Begins
<1> QED  BY <1>2, <1>3, StoppingStaysOK DEF ProcessDies, Die

LEMMA SpillStays ==
    ASSUME RInv, user = "DBStorage", UNCHANGED user, Spill, UNCHANGED storageVars
    PROVE  RInv' /\ Ideal!Next
<1>1. FileInv(RecordUnits)
  BY DEF RInv, StorageInv
<1>2. FileInv(RecordUnits)' /\ Ideal!Next
  BY <1>1, SpillKeepsFile
<1>3. Begins(disk, disk')
  BY <1>1, PartlyWrittenIs DEF Spill
<1>4. IsOpen' <=> IsOpen
  BY DEF Spill, IsOpen
<1> QED  BY <1>2, <1>3, <1>4, OnlyDiskStays DEF Spill

LEMMA DiscardStays ==
    ASSUME RInv, user = "DBStorage", UNCHANGED user, Discard, UNCHANGED storageVars
    PROVE  RInv' /\ UNCHANGED Ideal!vars
<1>1. FileInv(RecordUnits)
  BY DEF RInv, StorageInv
<1>2. FileInv(RecordUnits)' /\ UNCHANGED Ideal!vars
  BY <1>1, DiscardKeepsFile
<1>3. Begins(disk, disk') /\ (IsOpen' <=> IsOpen)
  BY <1>1 DEF Discard, FileInv, Begins, IsOpen
<1> QED  BY <1>2, <1>3, OnlyDiskStays DEF Discard

LEMMA SeekFailsStays ==
    ASSUME RInv, user = "DBStorage", UNCHANGED user, NEW t \in Threads, NEW page \in Nat,
           ReadSeekFails(t, page) \/ WriteSeekFails(t)
    PROVE  RInv' /\ Ideal!Next
<1>1. FileInv(RecordUnits) /\ page * PageSize \in Nat
  BY StorageAssumption DEF RInv, StorageInv
<1>2. CASE SeekFails(page * PageSize)
  <2>1. FileInv(RecordUnits)' /\ Ideal!Next
    BY <1>1, <1>2, SeekKeepsFile
  <2>2. Begins(disk, disk')
    BY <1>1, <1>2 DEF SeekFails, FileInv, Begins
  <2>3. UNCHANGED storageVars
    BY DEF ReadSeekFails, WriteSeekFails
  <2> QED  BY <1>2, <2>1, <2>2, <2>3, OnlyDiskStays DEF SeekFails, IsOpen
<1>3. CASE SeekCannotFlush("seek") \/ SeekCannotFlush("seekToEnd")
  <2>1. FileInv(RecordUnits)' /\ Ideal!Next
    BY <1>1, <1>3, SeekCannotFlushKeepsFile
  <2>2. Begins(disk, disk')
    BY <1>1, <1>3, PartlyWrittenIs DEF SeekCannotFlush
  <2>3. UNCHANGED storageVars
    BY DEF ReadSeekFails, WriteSeekFails
  <2> QED  BY <1>3, <2>1, <2>2, <2>3, OnlyDiskStays DEF SeekCannotFlush, IsOpen
<1> QED  BY <1>2, <1>3 DEF ReadSeekFails, WriteSeekFails, pageNumberToOffset

(* Where a page is.                                                         *)
LEMMA PageFound ==
    ASSUME PagesFit, NEW page \in Pages,
           SeekTarget(pageNumberToOffset(page)) >= 0
    PROVE  SeekTarget(pageNumberToOffset(page)) = pageNumberToOffset(page)
<1> DEFINE n == pageNumberToOffset(page)
<1>1. n \in Nat /\ n < LongModulus \div 2 /\ LongModulus \in Nat \ {0}
  BY AdaptersAssumption, StorageAssumption, Offsets DEF PagesFit
<1> HIDE DEF n
<1>2. n % LongModulus = n
  BY <1>1
<1>3. AsLong(n) = n
  BY <1>1, <1>2 DEF AsLong
<1>4. SeekTarget(n) >= 0 => SeekTarget(n) = n
  BY <1>1, <1>3 DEF SeekTarget
<1> QED  BY <1>4 DEF n

LEMMA BeginReadStays ==
    ASSUME RInv, user = "DBStorage", UNCHANGED user, NEW t \in Threads, NEW page \in Pages,
           BeginRead(t, page)
    PROVE  RInv' /\ Ideal!Next
<1> DEFINE new == [op |-> "read", page |-> page, units |-> <<>>]
<1>1. /\ StorageInv /\ FileInv(RecordUnits) /\ pageNumberToOffset(page) \in Nat
      /\ written \in written .. MaxRecords
  BY StorageAssumption, Offsets DEF RInv, StorageInv
<1>2. FileInv(RecordUnits)' /\ Ideal!Next
  BY <1>1, SeekKeepsFile DEF BeginRead
<1>3. call' = [u \in Threads |-> IF u = t THEN new ELSE Idle]
  BY OneCall DEF BeginRead
<1>4. Begins(disk, disk') /\ Begins(view, view') /\ disk' = view
  BY <1>1, Settling DEF BeginRead, Seek, FileInv
<1>5. ReadingOK(t)'
  <2>1. /\ call'[t] = [op |-> "read", page |-> page, units |-> <<>>]
        /\ transfer' # "write" /\ pos' \in Nat
        /\ PagesFit => pos' = pageNumberToOffset(page)
    BY <1>2, <1>3, PageFound DEF BeginRead, Seek, FileInv
  <2>2. pageNumberToOffset(page) + 0 = pageNumberToOffset(page)
    BY <1>1
  <2>3. <<>> \in Seq(RecordUnits) /\ Len(<<>>) = 0
    BY EmptySeq
  <2> QED  BY <2>1, <2>2, <2>3, RecordsAreThreeUnits DEF ReadingOK
<1>6. CallsOK'
  BY <1>3, <1>5 DEF CallsOK, Idle, BeginRead, Seek, IsOpen
<1>7. ReturnedOK'
  BY <1>1, <1>2, <1>4, ReturnedStaysOK DEF BeginRead
<1>8. ~Writing(call)
  BY NobodyWrites DEF BeginRead
<1>9. call' = [u \in Threads |-> call'[u]]
  BY <1>3
<1> QED  BY <1>1, <1>2, <1>4, <1>6, <1>7, <1>8, <1>9, QuietStaysOK DEF BeginRead, Seek

(* One unit more.                                                           *)
LEMMA OneMore ==
    ASSUME NEW S, NEW old \in Seq(S), NEW unit \in S
    PROVE  /\ old \o <<unit>> \in Seq(S) /\ Len(old \o <<unit>>) = Len(old) + 1
           /\ \A i \in 1 .. Len(old) : (old \o <<unit>>)[i] = old[i]
           /\ (old \o <<unit>>)[Len(old) + 1] = unit
<1>1. <<unit>> \in Seq(S) /\ Len(<<unit>>) = 1 /\ <<unit>>[1] = unit /\ Len(old) \in Nat
  OBVIOUS
<1>2. /\ old \o <<unit>> \in Seq(S) /\ Len(old \o <<unit>>) = Len(old) + Len(<<unit>>)
      /\ \A i \in 1 .. Len(old) + Len(<<unit>>) : (old \o <<unit>>)[i] =
            IF i <= Len(old) THEN old[i] ELSE <<unit>>[i - Len(old)]
  BY <1>1, ConcatProperties
<1> QED  BY <1>1, <1>2

LEMMA OneUnit ==
    ASSUME NEW S, NEW s \in Seq(S), NEW m \in 1 .. Len(s)
    PROVE  SubSeq(s, m, m) = <<s[m]>> /\ s[m] \in S
<1> DEFINE one == SubSeq(s, m, m)
<1>1. m \in Int /\ \A k \in m .. m : s[k] \in S
  OBVIOUS
<1>2. /\ one \in Seq(S) /\ Len(one) = IF m <= m THEN m - m + 1 ELSE 0
      /\ \A k \in 1 .. m - m + 1 : one[k] = s[m + k - 1]
  BY <1>1, SubSeqProperties
<1>3. one \in Seq(S) /\ Len(one) = 1 /\ one[1] = s[m]
  BY <1>1, <1>2
<1>4. <<s[m]>> \in Seq(S) /\ Len(<<s[m]>>) = 1 /\ <<s[m]>>[1] = s[m]
  BY <1>1
<1> HIDE DEF one
<1>5. \A k \in 1 .. Len(one) : one[k] = <<s[m]>>[k]
  BY <1>3, <1>4
<1>6. one = <<s[m]>>
  BY <1>3, <1>4, <1>5, SeqEqual
<1> QED  BY <1>1, <1>6 DEF one

LEMMA ReadPartStays ==
    ASSUME RInv, user = "DBStorage", UNCHANGED user, NEW t \in Threads, ReadPart(t)
    PROVE  RInv' /\ Ideal!Next
<1>1. /\ StorageInv /\ FileInv(RecordUnits) /\ ReadingOK(t) /\ call[t].op = "read"
      /\ written \in written .. MaxRecords
  BY StorageAssumption DEF ReadPart, RInv, StorageInv, CallsOK, WritingOK, Idle
<1>2. FileInv(RecordUnits)' /\ Ideal!Next
  BY <1>1, ReadKeepsFile DEF ReadPart
<1>3. /\ view \in Seq(RecordUnits) /\ Len(view) \in Nat /\ pos \in Nat /\ pos + 1 <= Len(view)
      /\ Begins(disk, disk') /\ Begins(view, view') /\ UNCHANGED <<view, disk, mode>>
      /\ pos' = pos + 1 /\ transfer' = "read" /\ UNCHANGED undefined
  <2>1. /\ view \in Seq(RecordUnits) /\ Len(view) \in Nat /\ pos \in Nat
        /\ Begins(disk, disk) /\ Begins(view, view)
    BY <1>1 DEF FileInv, Begins
  <2>2. /\ pos + 1 <= Len(view) /\ pos' = pos + 1 /\ UNCHANGED <<view, disk, mode>>
        /\ transfer' = "read"
    BY DEF ReadPart, Read, Turns
  <2>3. transfer \in {"none", "read"}
    BY <1>1 DEF ReadingOK, FileInv
  <2>4. UNCHANGED undefined
    BY <2>3 DEF ReadPart, Read, Turns, RInv
  <2> QED  BY <2>1, <2>2, <2>4
<1>4. got' = <<view[pos + 1]>> /\ view[pos + 1] \in RecordUnits
  <2>1. got' = SubSeq(view, pos + 1, pos + 1)
    BY DEF ReadPart, Read
  <2>2. pos + 1 \in 1 .. Len(view)
    BY <1>3
  <2> QED  BY <1>3, <2>1, <2>2, OneUnit
<1>5. PICK page \in Pages, old \in Seq(RecordUnits) :
         /\ call[t] = [op |-> "read", page |-> page, units |-> old]
         /\ Len(old) < 3
         /\ PagesFit => /\ pos = pageNumberToOffset(page) + Len(old)
                        /\ \A i \in 1 .. Len(old) : old[i] = view[pageNumberToOffset(page) + i]
  BY <1>1, RecordsAreThreeUnits DEF ReadingOK
<1>6. PICK first \in Nat : first = pageNumberToOffset(page)
  BY StorageAssumption, Offsets
<1>7. PICK units \in Seq(RecordUnits) :
         /\ units = old \o got' /\ Len(units) = Len(old) + 1
         /\ \A i \in 1 .. Len(old) : units[i] = old[i]
         /\ units[Len(old) + 1] = view[pos + 1]
  <2>1. PICK unit \in RecordUnits : unit = view[pos + 1] /\ got' = <<unit>>
    BY <1>4
  <2>2. /\ old \o <<unit>> \in Seq(RecordUnits) /\ Len(old \o <<unit>>) = Len(old) + 1
        /\ \A i \in 1 .. Len(old) : (old \o <<unit>>)[i] = old[i]
        /\ (old \o <<unit>>)[Len(old) + 1] = unit
    BY OneMore
  <2> QED  BY <2>1, <2>2
<1> DEFINE new == [op |-> "read", page |-> page, units |-> units]
<1>8. \/ Len(units) < 3 /\ Enters(t, new) /\ UNCHANGED returned
      \/ Len(units) = 3 /\ Leaves(t) /\ returned' = {[page |-> page, units |-> units]}
  <2>1. /\ call[t].units = old /\ call[t].page = page
        /\ [call[t] EXCEPT !.units = units] = new
    BY <1>5
  <2>2. \/ Len(units) < 3 /\ Enters(t, new) /\ UNCHANGED returned
        \/ ~(Len(units) < 3) /\ Leaves(t) /\ returned' = {[page |-> page, units |-> units]}
    BY <1>7, <2>1, RecordsAreThreeUnits DEF ReadPart
  <2>3. Len(units) < 3 \/ Len(units) = 3
    BY <1>5, <1>7
  <2> QED  BY <2>2, <2>3
<1>9. ASSUME PagesFit
      PROVE  /\ pos' = first + Len(units) /\ pos' <= Len(view)
             /\ \A i \in 1 .. Len(units) : units[i] = view[first + i]
  <2>1. Len(old) \in Nat /\ pos = first + Len(old) /\ \A i \in 1 .. Len(old) : old[i] = view[first + i]
    BY <1>5, <1>6, <1>9
  <2>2. ASSUME NEW i \in 1 .. Len(units) PROVE units[i] = view[first + i]
    <3>1. CASE i \in 1 .. Len(old)
      BY <1>7, <2>1, <3>1
    <3>2. CASE i = Len(old) + 1
      BY <1>7, <2>1, <3>2
    <3> QED  BY <1>7, <2>1, <3>1, <3>2
  <2> QED  BY <1>3, <1>7, <2>1, <2>2
<1>10. CASE Len(units) < 3 /\ Enters(t, new) /\ UNCHANGED returned
  <2>2. call' = [u \in Threads |-> IF u = t THEN new ELSE Idle]
    BY <1>1, <1>10, OneCall
  <2>3. call'[t] = new
    BY <2>2
  <2>4. ReadingOK(t)'
    <3>1. Len(units) < RecordSize
      BY <1>10, RecordsAreThreeUnits
    <3>2. PagesFit =>
             /\ pos' = pageNumberToOffset(page) + Len(units)
             /\ pos' <= Len(view)
             /\ \A i \in 1 .. Len(units) : units[i] = view[pageNumberToOffset(page) + i]
      BY <1>6, <1>9, RecordsAreThreeUnits
    <3> QED  BY <1>3, <1>7, <2>3, <3>1, <3>2 DEF ReadingOK
  <2>5. CallsOK'
    BY <1>3, <2>2, <2>4 DEF CallsOK, Idle, ReadPart, Read, IsOpen
  <2>6. ReturnedOK'
    BY <1>1, <1>2, <1>3, <1>10, ReturnedStaysOK DEF ReadPart
  <2>7. ~Writing(call) /\ call' = [u \in Threads |-> call'[u]]
    BY <1>1, <2>2, NobodyWrites
  <2> QED  BY <1>1, <1>2, <1>3, <2>5, <2>6, <2>7, QuietStaysOK DEF ReadPart
<1>11. CASE Len(units) = 3 /\ Leaves(t) /\ returned' = {[page |-> page, units |-> units]}
  <2>2. call' = [u \in Threads |-> Idle]
    BY <1>1, <1>11, OneCall DEF Leaves
  <2>3. CallsOK'
    BY <2>2 DEF CallsOK
  <2>5. ReturnedOK'
    <3>1. ASSUME PagesFit
          PROVE  /\ page \in Nat /\ units \in Seq(RecordUnits) /\ Len(units) = 3
                 /\ pageNumberToOffset(page) + 3 <= Len(view')
                 /\ \A j \in 1 .. 3 : units[j] = view'[pageNumberToOffset(page) + j]
      BY <1>3, <1>6, <1>9, <1>11, <3>1, StorageAssumption
    <3> QED  BY <1>11, <3>1, RecordsAreThreeUnits DEF ReturnedOK
  <2>6. ~Writing(call) /\ call' = [u \in Threads |-> call'[u]]
    BY <1>1, <2>2, NobodyWrites
  <2> QED  BY <1>1, <1>2, <1>3, <2>3, <2>5, <2>6, QuietStaysOK DEF ReadPart
<1> QED  BY <1>8, <1>10, <1>11

LEMMA ReadPartFailsStays ==
    ASSUME RInv, user = "DBStorage", UNCHANGED user, NEW t \in Threads, ReadPartFails(t)
    PROVE  RInv' /\ Ideal!Next
<1>1. /\ StorageInv /\ FileInv(RecordUnits) /\ ReadingOK(t) /\ call[t].op = "read"
      /\ written \in written .. MaxRecords
  BY StorageAssumption DEF ReadPartFails, RInv, StorageInv, CallsOK, WritingOK, Idle
<1>2. /\ ReadFindsTooLittle(1) \/ ReadFindsTooLittle(Len(view) + 1) \/ ReadFails(1)
      /\ Len(view) + 1 \in Nat \ {0}
  BY <1>1 DEF ReadPartFails, FileInv
<1>3. FileInv(RecordUnits)' /\ Ideal!Next
  BY <1>1, <1>2, ReadKeepsFile
<1>4. UNCHANGED <<view, disk, undefined>>
  <2>1. transfer \in {"none", "read"} /\ undefined = FALSE
    BY <1>1 DEF ReadingOK, FileInv, RInv
  <2> QED  BY <1>2, <2>1 DEF ReadFindsTooLittle, ReadFails, Turns
<1>5. Begins(disk, disk') /\ Begins(view, view')
  BY <1>1, <1>4 DEF FileInv, Begins
<1>6. call' = [u \in Threads |-> Idle]
  BY <1>1, OneCall DEF ReadPartFails, Leaves
<1>7. CallsOK' /\ call' = [u \in Threads |-> call'[u]]
  BY <1>6 DEF CallsOK
<1>8. ReturnedOK'
  BY <1>1, <1>3, <1>5, ReturnedStaysOK DEF ReadPartFails
<1>9. ~Writing(call)
  BY <1>1, NobodyWrites
<1> QED  BY <1>1, <1>3, <1>4, <1>5, <1>7, <1>8, <1>9, QuietStaysOK DEF ReadPartFails

LEMMA BeginWriteStays ==
    ASSUME RInv, user = "DBStorage", UNCHANGED user, NEW t \in Threads, BeginWrite(t)
    PROVE  RInv' /\ Ideal!Next
<1> DEFINE new == [op |-> "write", record |-> written + 1, units |-> UnitsOf(written + 1)]
<1>1. /\ StorageInv /\ FileInv(RecordUnits) /\ written \in Nat
      /\ written' = written + 1 /\ written' \in written .. MaxRecords /\ written' \in 1 .. MaxRecords
  BY StorageAssumption DEF RInv, StorageInv, BeginWrite
<1>2. FileInv(RecordUnits)' /\ Ideal!Next
  <2>1. 0 \in Nat
    OBVIOUS
  <2> QED  BY <1>1, <2>1, SeekKeepsFile DEF BeginWrite
<1>3. call' = [u \in Threads |-> IF u = t THEN new ELSE Idle]
  BY OneCall DEF BeginWrite
<1>4. /\ Begins(disk, disk') /\ Begins(view, view') /\ disk' = view /\ view' = view
      /\ Len(view) \in Nat /\ pos' = Len(view) /\ transfer' = "none"
  BY <1>1, Settling DEF BeginWrite, SeekToEnd, FileInv
<1>5. ~Writing(call)
  BY NobodyWrites DEF BeginWrite
<1>6. ~spoilt => Len(view) % 3 = 0
  BY <1>1, <1>5, RecordsAreThreeUnits DEF StorageInv, RecordsOK
<1>7. WritingOK(t)'
  <2>1. call'[t] = [op |-> "write", record |-> written', units |-> UnitsOf(written')]
    BY <1>1, <1>3
  <2>2. UnitsOf(written') \in Seq(RecordUnits) /\ Len(UnitsOf(written')) = 3
    BY <1>1, RecordsAreThreeUnits
  <2>3. UnitsOf(written') = SubSeq(UnitsOf(written'), 1, 3)
    BY <2>2, SubSeqFull
  <2>4. Done(t)' = 0
    BY <2>1, <2>2, RecordsAreThreeUnits DEF Done
  <2>5. spoilt' = spoilt /\ written' \in 1 .. written'
    BY <1>1 DEF BeginWrite
  <2> QED  BY <1>4, <1>6, <2>1, <2>3, <2>4, <2>5, RecordsAreThreeUnits DEF WritingOK
<1>8. CallsOK'
  BY <1>3, <1>7 DEF CallsOK, Idle, BeginWrite, SeekToEnd, IsOpen
<1>9. ReturnedOK'
  BY <1>1, <1>2, <1>4, ReturnedStaysOK DEF BeginWrite
<1>10. call' = [u \in Threads |-> call'[u]]
  BY <1>3
<1> QED  BY <1>1, <1>2, <1>4, <1>5, <1>8, <1>9, <1>10, QuietStaysOK DEF BeginWrite, SeekToEnd

(* What the writing thread has written, and what it writes next.            *)
NextUnitIs(t, record, n) ==
    /\ record = call[t].record /\ n = Done(t)
    /\ UnitsOf(record)[n + 1] \in RecordUnits
    /\ Head(call[t].units) = UnitsOf(record)[n + 1]
    /\ Tail(call[t].units) = SubSeq(UnitsOf(record), n + 2, 3)
    /\ Len(call[t].units) = 3 - n /\ Len(SubSeq(UnitsOf(record), n + 2, 3)) = 2 - n
    /\ n <= Len(view) /\ \A i \in 1 .. n : view[Len(view) - n + i] = UnitsOf(record)[i]
    /\ ~spoilt => Len(view) % 3 = n

LEMMA NextUnit ==
    ASSUME RInv, user = "DBStorage", NEW t \in Threads, call[t].op = "write"
    PROVE  WritingOK(t) /\ \E record \in 1 .. written, n \in 0 .. 2 : NextUnitIs(t, record, n)
<1>1. WritingOK(t) /\ IsOpen /\ written \in 0 .. MaxRecords
  BY DEF RInv, StorageInv, CallsOK, ReadingOK, Idle
<1>2. PICK record \in 1 .. written, n \in 0 .. 2 :
         /\ record = call[t].record /\ n = Done(t)
         /\ call[t].units = SubSeq(UnitsOf(record), n + 1, 3)
         /\ n <= Len(view) /\ \A i \in 1 .. n : view[Len(view) - n + i] = UnitsOf(record)[i]
         /\ ~spoilt => Len(view) % 3 = n
  <2>1. Done(t) \in 0 .. 2 /\ call[t].record \in 1 .. written
    BY <1>1, RecordsAreThreeUnits DEF WritingOK
  <2>2. /\ call[t].units = SubSeq(UnitsOf(call[t].record), Done(t) + 1, 3)
        /\ Done(t) <= Len(view)
        /\ \A i \in 1 .. Done(t) : view[Len(view) - Done(t) + i] = UnitsOf(call[t].record)[i]
        /\ ~spoilt => Len(view) % 3 = Done(t)
    BY <1>1, RecordsAreThreeUnits DEF WritingOK
  <2> QED  BY <2>1, <2>2
<1>3. PICK units \in Seq(RecordUnits) :
         units = UnitsOf(record) /\ Len(units) = 3 /\ \A i \in 1 .. 3 : units[i] \in RecordUnits
  <2>1. record \in 1 .. MaxRecords
    BY <1>1, <1>2, StorageAssumption
  <2> QED  BY <2>1, RecordsAreThreeUnits
<1>4. ASSUME NEW m \in 1 .. 4
      PROVE  Len(SubSeq(units, m, 3)) = 4 - m
  <2>1. \A k \in m .. 3 : units[k] \in RecordUnits
    BY <1>3
  <2>2. Len(SubSeq(units, m, 3)) = IF m <= 3 THEN 3 - m + 1 ELSE 0
    BY <2>1, SubSeqProperties
  <2> QED  BY <2>2
<1>5. PICK m \in 1 .. 3 : m = n + 1 /\ n + 2 = m + 1
  BY <1>2
<1>6. Head(SubSeq(units, m, 3)) = units[m] /\ Tail(SubSeq(units, m, 3)) = SubSeq(units, m + 1, 3)
  BY <1>3, HeadTailOfSubSeq
<1>7. Len(SubSeq(units, m, 3)) = 3 - n
  BY <1>4, <1>5
<1>8. Len(SubSeq(units, m + 1, 3)) = 2 - n
  <2>1. m + 1 \in 1 .. 4 /\ 4 - (m + 1) = 2 - n
    BY <1>5
  <2> QED  BY <1>4, <2>1
<1>9. NextUnitIs(t, record, n)
  BY <1>2, <1>3, <1>5, <1>6, <1>7, <1>8 DEF NextUnitIs
<1> QED  BY <1>1, <1>9

LEMMA ModThree ==
    ASSUME NEW k \in Nat, NEW n \in 0 .. 2, k % 3 = n
    PROVE  /\ n < 2 => (k + 1) % 3 = n + 1
           /\ n = 2 => (k + 1) % 3 = 0
           /\ n < 2 => \A i \in Nat : i % 3 = 0 /\ i + 3 <= k + 1 => i + 3 <= k
<1>1. n < 2 => (k + 1) % 3 = n + 1
  OBVIOUS
<1>2. n = 2 => (k + 1) % 3 = 0
  OBVIOUS
<1>3. ASSUME n < 2, NEW i \in Nat, i % 3 = 0, i + 3 <= k + 1 PROVE i + 3 <= k
  <2>1. i + 3 # k + 1
    <3>1. (i + 3) % 3 = 0
      BY <1>3
    <3> QED  BY <1>1, <1>3, <3>1
  <2> QED  BY <1>3, <2>1
<1> QED  BY <1>1, <1>2, <1>3

LEMMA WritePartStays ==
    ASSUME RInv, user = "DBStorage", UNCHANGED user, NEW t \in Threads, WritePart(t)
    PROVE  RInv' /\ Ideal!Next
<1>1. /\ StorageInv /\ FileInv(RecordUnits) /\ call[t].op = "write" /\ written \in 0 .. MaxRecords
      /\ Len(view) \in Nat /\ Len(disk) \in Nat
  BY DEF WritePart, RInv, StorageInv, FileInv
<1>2. WritingOK(t)
  BY <1>1, NextUnit
<1>3. PICK record \in 1 .. written, n \in 0 .. 2 : NextUnitIs(t, record, n)
  BY <1>1, NextUnit
<1>4. PICK unit \in RecordUnits : unit = UnitsOf(record)[n + 1] /\ Write(<<unit>>)
  BY <1>3 DEF WritePart, NextUnitIs
<1>5. <<unit>> \in Seq(RecordUnits) /\ <<unit>> # <<>> /\ Len(<<unit>>) = 1
  OBVIOUS
<1>6. WriteAt = Len(view) /\ transfer # "read"
  BY <1>2 DEF WritingOK, WriteAt
<1>7. FileInv(RecordUnits)' /\ Ideal!Next
  BY <1>1, <1>4, <1>5, <1>6, WriteKeepsFile
<1>8. /\ view' = view \o <<unit>> /\ view' \in Seq(RecordUnits) /\ Begins(view, view')
      /\ Len(view') = Len(view) + 1 /\ disk' \in Seq(RecordUnits) /\ pos' = Len(view')
      /\ transfer' = "write" /\ mode' = mode /\ IsOpen /\ IsOpen'
  BY <1>1, <1>4, <1>5, <1>6, Appended DEF Write, Written, IsOpen
<1>9. /\ \A i \in 1 .. Len(view) : view'[i] = view[i]
      /\ view'[Len(view) + 1] = unit
  BY <1>1, <1>8, OneMore DEF FileInv
<1>10. \A i \in 1 .. n + 1 : view'[Len(view) - n + i] = UnitsOf(record)[i]
  <2>1. ASSUME NEW i \in 1 .. n PROVE view'[Len(view) - n + i] = UnitsOf(record)[i]
    <3>1. n <= Len(view)
      BY <1>3 DEF NextUnitIs
    <3>2. Len(view) - n + i \in 1 .. Len(view)
      BY <1>1, <3>1
    <3> QED  BY <1>3, <1>9, <3>2 DEF NextUnitIs
  <2>2. view'[Len(view) - n + (n + 1)] = UnitsOf(record)[n + 1]
    <3>1. Len(view) - n + (n + 1) = Len(view) + 1
      BY <1>1
    <3> QED  BY <1>4, <1>9, <3>1
  <2> QED  BY <2>1, <2>2
<1>11. ReturnedOK'
  BY <1>1, <1>7, <1>8, ReturnedStaysOK DEF WritePart
<1>12. UNCHANGED <<written, spoilt, kept>> /\ UNCHANGED undefined
  <2>1. transfer \in {"none", "write"} /\ undefined = FALSE
    BY <1>1, <1>6 DEF FileInv, RInv
  <2> QED  BY <1>4, <2>1 DEF WritePart, Write, Written, Turns
<1>13. Begins(disk, disk')
  BY <1>1, <1>4, <1>5, <1>6, Appended DEF Write
<1>14. ASSUME ~spoilt, NEW i \in Nat, i % 3 = 0, i + 3 <= Len(view)
       PROVE  \E r \in 1 .. written : HasAt(r, view', i)
  <2>0. i \in 0 .. Len(view) /\ RecordSize = 3
    BY <1>1, <1>14, RecordsAreThreeUnits
  <2>1. PICK r \in 1 .. written : HasAt(r, view, i)
    BY <1>1, <1>14, <2>0 DEF StorageInv, RecordsOK
  <2>2. HasAt(r, view', i)
    BY <1>1, <1>8, <2>1, FoundInLonger DEF FileInv
  <2> QED  BY <2>2
<1>15. Len(call[t].units) = 3 - n /\ call[t].record = record /\ call[t] = [op |-> "write", record |-> record, units |-> call[t].units]
  BY <1>2, <1>3 DEF NextUnitIs, WritingOK
<1>18. n \in 0 .. 2 /\ n <= Len(view) /\ Tail(call[t].units) = SubSeq(UnitsOf(record), n + 2, 3)
  BY <1>3 DEF NextUnitIs
<1>19. ~spoilt => Len(view) % 3 = n
  BY <1>3 DEF NextUnitIs
<1>16. CASE n < 2
  <2> DEFINE rest == SubSeq(UnitsOf(record), n + 2, 3)
             new == [op |-> "write", record |-> record, units |-> rest]
  <2>1. Enters(t, new) /\ UNCHANGED latest
    <3>1. Len(call[t].units) > 1 /\ Tail(call[t].units) = rest
      BY <1>15, <1>16, <1>18
    <3>2. [call[t] EXCEPT !.units = Tail(@)] = new
      <4> HIDE DEF rest
      <4> QED  BY <1>15, <3>1
    <3> QED  BY <3>1, <3>2 DEF WritePart
  <2>2. call' = [u \in Threads |-> IF u = t THEN new ELSE Idle]
    BY <1>1, <2>1, OneCall
  <2>3. WritingOK(t)'
    <3>1. call'[t] = new /\ Len(rest) = 2 - n
      BY <1>3, <2>2 DEF NextUnitIs
    <3>2. Done(t)' = n + 1
      BY <3>1, RecordsAreThreeUnits DEF Done
    <3>3. ~spoilt => Len(view') % 3 = n + 1
      BY <1>1, <1>8, <1>16, <1>18, <1>19, ModThree
    <3>4. n + 1 <= Len(view') /\ Len(view') - (n + 1) = Len(view) - n
      BY <1>1, <1>8, <1>18
    <3>5. n + 1 \in 0 .. 2 /\ (n + 1) + 1 = n + 2 /\ RecordSize = 3
      BY <1>16, RecordsAreThreeUnits
    <3>6. /\ call'[t].op = "write" /\ call'[t].record = record /\ call'[t].units = rest
          /\ call'[t] = [op |-> "write", record |-> call'[t].record, units |-> call'[t].units]
      BY <3>1
    <3>7. call'[t].record \in 1 .. written'
      BY <1>12, <3>6
    <3>8. Done(t)' \in 0 .. RecordSize - 1
      BY <3>2, <3>5
    <3>9. call'[t].units = SubSeq(UnitsOf(call'[t].record), Done(t)' + 1, RecordSize)
      BY <3>2, <3>5, <3>6
    <3>10. transfer' # "read" /\ pos' = Len(view') /\ Done(t)' <= Len(view')
      BY <1>8, <3>2, <3>4
    <3>11. \A i \in 1 .. Done(t)' : view'[Len(view') - Done(t)' + i] = UnitsOf(call'[t].record)[i]
      <4>1. Len(view') - Done(t)' = Len(view) - n
        BY <3>2, <3>4
      <4> QED  BY <1>10, <3>2, <3>6, <4>1
    <3>12. ~spoilt' => Len(view') % RecordSize = Done(t)'
      BY <1>12, <3>2, <3>3, <3>5
    <3> QED  BY <3>6, <3>7, <3>8, <3>9, <3>10, <3>11, <3>12 DEF WritingOK
  <2>4. CallsOK'
    BY <1>8, <2>2, <2>3 DEF CallsOK, Idle
  <2>5. KeptOK'
    BY <1>1, <1>7, <1>8, <1>12, <1>13, <2>1, KeptStaysOK
  <2>6. RecordsOK'
    <3>1. ASSUME ~spoilt, NEW i \in 0 .. Len(view'), i % 3 = 0, i + 3 <= Len(view')
          PROVE  i \in Nat /\ i + 3 <= Len(view)
      <4>1. i \in Nat /\ i + 3 <= Len(view) + 1
        BY <1>1, <1>8, <3>1
      <4> QED  BY <1>1, <1>16, <1>18, <1>19, <3>1, <4>1, ModThree
    <3>2. Writing(call')
      BY <2>2 DEF Writing
    <3> QED  BY <1>12, <1>14, <3>1, <3>2, RecordsAreThreeUnits DEF RecordsOK
  <2>7. call' = [u \in Threads |-> call'[u]]
    BY <2>2
  <2> QED  BY <1>1, <1>7, <1>11, <1>12, <2>1, <2>4, <2>5, <2>6, <2>7 DEF RInv, StorageInv
<1>17. CASE n = 2
  <2>1. Leaves(t) /\ latest' = {record}
    BY <1>15, <1>17 DEF WritePart
  <2>2. call' = [u \in Threads |-> Idle]
    BY <1>1, <2>1, OneCall DEF Leaves
  <2>3. CallsOK' /\ call' = [u \in Threads |-> call'[u]]
    BY <2>2 DEF CallsOK
  <2>4. PICK i \in Nat : i = Len(view) - 2 /\ i + 3 = Len(view')
    <3>1. Len(view) >= 2
      BY <1>17, <1>18
    <3>2. Len(view) - 2 \in Nat /\ Len(view) - 2 + 3 = Len(view')
      BY <1>1, <1>8, <3>1
    <3> QED  BY <3>2
  <2>5. HasAt(record, view', i) /\ i \in 0 .. Len(view')
    BY <1>10, <1>17, <2>4, RecordsAreThreeUnits DEF HasAt
  <2>6. KeptOK'
    BY <1>1, <1>7, <1>12, <1>13, <2>1, <2>5, KeptStaysOK
  <2>7. RecordsOK'
    <3>1. ASSUME ~spoilt, NEW k \in 0 .. Len(view'), k % 3 = 0, k + 3 <= Len(view')
          PROVE  \E r \in 1 .. written : HasAt(r, view', k)
      <4>1. CASE k + 3 <= Len(view)
        BY <1>14, <3>1, <4>1
      <4>2. CASE k = i
        BY <2>5, <4>2
      <4>3. k + 3 <= Len(view) \/ k = i
        BY <1>1, <1>8, <2>4, <3>1
      <4> QED  BY <4>1, <4>2, <4>3
    <3>2. ~spoilt => Len(view') % 3 = 0
      BY <1>1, <1>8, <1>17, <1>19, ModThree
    <3> QED  BY <1>12, <3>1, <3>2, RecordsAreThreeUnits DEF RecordsOK
  <2>8. kept' \cup latest' \subseteq 1 .. written'
    BY <1>12, <2>1 DEF RInv
  <2> QED  BY <1>1, <1>7, <1>11, <1>12, <2>1, <2>3, <2>6, <2>7, <2>8 DEF RInv, StorageInv
<1> QED  BY <1>7, <1>16, <1>17

(* What fails leaves nothing of a unit; the system may still take some.     *)
LEMMA WritePartFailsStays ==
    ASSUME RInv, user = "DBStorage", UNCHANGED user, NEW t \in Threads, WritePartFails(t)
    PROVE  RInv' /\ Ideal!Next
<1>1. /\ StorageInv /\ FileInv(RecordUnits) /\ call[t].op = "write" /\ written \in 0 .. MaxRecords
      /\ Len(view) \in Nat /\ view \in Seq(RecordUnits) /\ spoilt \in BOOLEAN
      /\ WritingOK(t)
  <2>1. call[t].op = "write"
    BY DEF WritePartFails
  <2>2. WritingOK(t)
    BY <2>1, NextUnit
  <2> QED  BY <2>1, <2>2 DEF RInv, StorageInv, FileInv
<1>2. PICK unit \in RecordUnits : WriteFails(<<unit>>) \/ WriteFindsNoRoom(<<unit>>)
  <2>1. PICK record \in 1 .. written, n \in 0 .. 2 : NextUnitIs(t, record, n)
    BY <1>1, NextUnit
  <2> QED  BY <2>1 DEF WritePartFails, NextUnitIs
<1>3. <<unit>> \in Seq(RecordUnits) /\ <<unit>> # <<>> /\ Len(<<unit>>) = 1
  OBVIOUS
<1>4. WriteAt = Len(view) /\ transfer \in {"none", "write"} /\ undefined = FALSE
  BY <1>1 DEF WritingOK, WriteAt, FileInv, RInv
<1>5. FileInv(RecordUnits)' /\ Ideal!Next
  BY <1>1, <1>2, <1>3, <1>4, WriteKeepsFile
<1>6. view' = view /\ Begins(view, view') /\ Begins(disk, disk') /\ UNCHANGED undefined
  <2>1. CASE WriteFindsNoRoom(<<unit>>)
    BY <1>1, <2>1 DEF WriteFindsNoRoom, FileInv, Begins
  <2>2. CASE WriteFails(<<unit>>)
    <3>1. PICK n \in 0 .. 0 : Written(SubSeq(<<unit>>, 1, n))
      BY <1>3, <2>2 DEF WriteFails
    <3>2. SubSeq(<<unit>>, 1, n) = <<>> /\ <<>> \in Seq(RecordUnits)
      BY SubSeqEmpty
    <3>3. view' = view \o <<>> /\ Begins(view, view') /\ Begins(disk, disk')
      BY <1>1, <1>4, <3>1, <3>2, Appended
    <3>4. UNCHANGED undefined
      BY <1>4, <3>1 DEF Written, Turns
    <3> QED  BY <1>1, <3>3, <3>4, ConcatEmptySeq
  <2> QED  BY <1>2, <2>1, <2>2
<1>7. call' = [u \in Threads |-> Idle]
  BY <1>1, OneCall DEF WritePartFails, Leaves
<1>8. CallsOK' /\ ~Writing(call') /\ call' = [u \in Threads |-> call'[u]]
  BY <1>7 DEF CallsOK, Writing, Idle
<1>9. spoilt' \in BOOLEAN /\ (~spoilt' => ~spoilt /\ Len(view') % RecordSize = 0)
  BY <1>1, <1>8 DEF WritePartFails, NotesTornRecord
<1>10. ReturnedOK'
  BY <1>1, <1>5, <1>6, <1>9, ReturnedStaysOK DEF WritePartFails
<1>11. KeptOK'
  BY <1>1, <1>5, <1>6, KeptStaysOK DEF WritePartFails
<1>12. RecordsOK'
  BY <1>1, <1>6, <1>9 DEF WritePartFails, StorageInv, RecordsOK, HasAt
<1> QED  BY <1>1, <1>5, <1>6, <1>8, <1>9, <1>10, <1>11, <1>12
           DEF WritePartFails, RInv, StorageInv

(* The other user.                                                          *)
LEMMA OtherStays ==
    ASSUME RInv, user = "other", UNCHANGED user, CarefulCall, UNCHANGED storageVars
    PROVE  RInv' /\ [Ideal!Next]_(Ideal!vars)
<1>1. OtherInv /\ FileInv(Units) /\ undefined = FALSE
  BY DEF RInv, OtherInv
<1>2. UNCHANGED undefined /\ FileInv(Units)' /\ [Ideal!Next]_(Ideal!vars)
  <2>1. CASE \E openMode \in {"Read", "Write", "ReadWrite"} : Open(openMode)
    BY <1>1, <2>1, OpenKeepsFile DEF Open
  <2>2. CASE Close \/ CloseFails
    BY <1>1, <2>2, CloseKeepsFile DEF Close, CloseFails
  <2>3. CASE \E position \in 0 .. MaxSize + 1 : Seek(position) \/ SeekFails(position) \/ SeekToEnd
    <3>1. \A position \in 0 .. MaxSize + 1 : position \in Nat
      BY SizeAssumption
    <3> QED  BY <1>1, <2>3, <3>1, SeekKeepsFile DEF Seek, SeekFails, SeekToEnd
  <2>4. CASE \E name \in {"seek", "seekToEnd"} : SeekCannotFlush(name)
    BY <1>1, <2>4, SeekCannotFlushKeepsFile DEF SeekCannotFlush
  <2>5. ASSUME NEW unit \in Units, AtEnd, transfer # "read",
               Write(<<unit>>) \/ WriteFails(<<unit, unit>>) \/ WriteFindsNoRoom(<<unit, unit>>)
        PROVE  UNCHANGED undefined /\ FileInv(Units)' /\ Ideal!Next
    <3>1. PICK data \in Seq(Units) :
             data # <<>> /\ (Write(data) \/ WriteFails(data) \/ WriteFindsNoRoom(data))
      <4>1. /\ <<unit>> \in Seq(Units) /\ <<unit>> # <<>>
            /\ <<unit, unit>> \in Seq(Units) /\ <<unit, unit>> # <<>>
        OBVIOUS
      <4> QED  BY <2>5, <4>1
    <3>2. transfer \in {"none", "write"}
      BY <1>1, <2>5 DEF FileInv
    <3> QED  BY <1>1, <2>5, <3>1, <3>2, WriteKeepsFile
               DEF AtEnd, Write, WriteFails, WriteFindsNoRoom, Written, Turns
  <2>6. ASSUME NEW n \in 1 .. 2, transfer # "write", Read(n) \/ ReadFindsTooLittle(n) \/ ReadFails(n)
        PROVE  UNCHANGED undefined /\ FileInv(Units)' /\ Ideal!Next
    <3>1. transfer \in {"none", "read"} /\ n \in Nat \ {0}
      BY <1>1, <2>6 DEF FileInv
    <3> QED  BY <1>1, <2>6, <3>1, ReadKeepsFile DEF Read, ReadFindsTooLittle, ReadFails, Turns
  <2>7. CASE Flush \/ FlushFails
    BY <1>1, <2>7, FlushKeepsFile DEF Flush, FlushFails
  <2>8. CASE Clear \/ ResizeFails \/ ClearFails
    BY <1>1, <2>8, ClearKeepsFile DEF Clear, ResizeFails, ClearFails
  <2>9. CASE Spill
    BY <1>1, <2>9, SpillKeepsFile DEF Spill
  <2>10. CASE Die
    BY <1>1, <2>10, DieKeepsFile DEF Die
  <2>11. SeekToEnd => \E position \in 0 .. MaxSize + 1 : Seek(position) \/ SeekFails(position) \/ SeekToEnd
    <3>1. 0 \in 0 .. MaxSize + 1
      BY SizeAssumption
    <3> QED  BY <3>1
  <2>12. CASE OpenFails \/ OpenRefuses
    BY <1>1, <2>12, NotOpenedKeepsFile DEF OpenFails, OpenRefuses
  <2>13. CASE Discard
    BY <1>1, <2>13, DiscardKeepsFile DEF Discard
  <2> QED  BY <2>1, <2>2, <2>3, <2>4, <2>5, <2>6, <2>7, <2>8, <2>9, <2>10, <2>11, <2>12, <2>13
             DEF CarefulCall
<1> QED  BY <1>1, <1>2 DEF storageVars, RInv, OtherInv

LEMMA RecordStep ==
    ASSUME RInv, [Next]_vars
    PROVE  RInv' /\ [Ideal!Next]_(Ideal!vars)
<1>1. CASE UNCHANGED vars
  <2>1. RInv'
    BY <1>1 DEF vars, fileVars, file, storageVars, RInv, StorageInv, OtherInv, FileInv, CallsOK,
                ReadingOK, WritingOK, Done, RecordsOK, ReturnedOK, KeptOK, IsOpen
  <2>2. UNCHANGED Ideal!vars
    BY <1>1 DEF vars, fileVars, file, Ideal!vars, IsOpen
  <2> QED  BY <2>1, <2>2
<1>2. CASE UNCHANGED user /\ user = "DBStorage" /\ StorageNext
  <2>1. CASE OpenStorageFile \/ DestroyStorage \/ ProcessDies \/ (Spill /\ UNCHANGED storageVars)
    BY <1>2, <2>1, OpenStays, DestroyStays, DieStays, SpillStays
  <2>2. ASSUME NEW t \in Threads, NEW page \in Pages, BeginRead(t, page) \/ ReadSeekFails(t, page)
        PROVE  RInv' /\ Ideal!Next
    <3>1. page \in Nat
      BY StorageAssumption
    <3> QED  BY <1>2, <2>2, <3>1, BeginReadStays, SeekFailsStays
  <2>3. ASSUME NEW t \in Threads, ReadPart(t) \/ ReadPartFails(t)
        PROVE  RInv' /\ Ideal!Next
    BY <1>2, <2>3, ReadPartStays, ReadPartFailsStays
  <2>4. ASSUME NEW t \in Threads,
               BeginWrite(t) \/ WriteSeekFails(t) \/ WritePart(t) \/ WritePartFails(t)
        PROVE  RInv' /\ Ideal!Next
    <3>1. 0 \in Nat
      OBVIOUS
    <3> QED  BY <1>2, <2>4, <3>1, BeginWriteStays, SeekFailsStays, WritePartStays, WritePartFailsStays
  <2>5. ASSUME Discard, UNCHANGED storageVars PROVE RInv' /\ UNCHANGED Ideal!vars
    BY <1>2, <2>5, DiscardStays
  <2> QED  BY <1>2, <2>1, <2>2, <2>3, <2>4, <2>5 DEF StorageNext
<1>3. CASE UNCHANGED user /\ user = "other" /\ CarefulCall /\ UNCHANGED storageVars
  BY <1>3, OtherStays
<1> QED  BY <1>1, <1>2, <1>3 DEF Next

LEMMA RecordInit == Init => RInv /\ Ideal!Init
<1> SUFFICES ASSUME Init PROVE RInv /\ Ideal!Init
  OBVIOUS
<1>1. FileInv(Units) /\ FileInv(RecordUnits) /\ Ideal!Init
  BY FileEmpty DEF Init
<1>2. view = <<>> /\ disk = <<>> /\ undefined = FALSE /\ Len(view) = 0
  BY DEF Init, FileInit
<1>3. call = [t \in Threads |-> Idle] /\ CallsOK
  BY DEF Init, StorageInit, CallsOK
<1>4. RecordsOK /\ ReturnedOK /\ KeptOK
  BY <1>2, RecordsAreThreeUnits DEF Init, StorageInit, RecordsOK, ReturnedOK, KeptOK
<1>5. 0 \in 0 .. MaxRecords
  BY StorageAssumption
<1> QED  BY <1>1, <1>2, <1>3, <1>4, <1>5 DEF Init, StorageInit, RInv, StorageInv, OtherInv

LEMMA RecordsCorrect == Spec => []RInv
<1>1. Init => RInv
  BY RecordInit
<1>2. RInv /\ [Next]_vars => RInv'
  BY RecordStep
<1> QED  BY <1>1, <1>2, PTL DEF Spec

-----------------------------------------------------------------------------
(* The theorems.                                                            *)

(* The types of the file and of the calls: FileInv and the parts on calls.  *)
THEOREM RecordTypes == Spec => []TypeOK
<1>1. ASSUME RInv PROVE TypeOK
  <2>1. FileInv(IF user = "other" THEN Units ELSE RecordUnits)
    BY <1>1 DEF RInv, StorageInv, OtherInv
  <2>2. IsPrefix(disk, view)
    BY <2>1, PrefixIs DEF FileInv
  <2>3. \A t \in Threads : call[t].op \in {"none", "read", "write"}
    BY <1>1 DEF RInv, StorageInv, OtherInv, CallsOK, ReadingOK, WritingOK, Idle
  <2>4. written \in 0 .. MaxRecords /\ kept \cup latest \subseteq 1 .. MaxRecords
    BY <1>1, StorageAssumption DEF RInv
  <2>5. undefined \in BOOLEAN
    BY <1>1 DEF RInv
  <2> QED  BY <2>1, <2>2, <2>3, <2>4, <2>5 DEF TypeOK, FileInv, Modes
<1> QED  BY <1>1, RecordsCorrect, PTL

(* A stream is never turned from one direction to the other without a seek: *)
(* readRecord() and writeRecord() seek first and go one way, and the mutex  *)
(* keeps them apart.                                                        *)
THEOREM NeverTurnsWithoutSeek == Spec => []NoUndefinedBehaviour
<1>1. RInv => NoUndefinedBehaviour
  BY DEF RInv, NoUndefinedBehaviour
<1> QED  BY <1>1, RecordsCorrect, PTL

(* Every adapter implements the ideal file, for a careful caller and for a  *)
(* DBStorage, with any number of crashes and of the calls that fail here:   *)
(* open, close, seek, read, write, flush and clear.                         *)
THEOREM AdaptersAreIdeal == Spec => FileSpec
<1>1. Init => Ideal!Init
  BY RecordInit
<1>2. RInv /\ [Next]_vars => [Ideal!Next]_(Ideal!vars)
  BY RecordStep
<1> QED  BY <1>1, <1>2, RecordsCorrect, PTL DEF Spec, FileSpec, Ideal!Spec

(* A record for which writeRecord() returned TRUE is in the file, and with  *)
(* the system as soon as the position has been moved.                       *)
THEOREM WrittenIsKept == Spec => []OnlyLatestMayBeLost
<1>1. ASSUME RInv PROVE OnlyLatestMayBeLost
  <2>1. CASE user = "DBStorage"
    <3>1. KeptOK /\ disk \in Seq(RecordUnits) /\ view \in Seq(RecordUnits)
      BY <1>1, <2>1 DEF RInv, StorageInv, FileInv
    <3>2. \A record \in kept \cup latest : record \in 1 .. MaxRecords
      BY <1>1, StorageAssumption DEF RInv
    <3> QED  BY <3>1, <3>2, HasAtIsIn DEF KeptOK, OnlyLatestMayBeLost
  <2>2. CASE user = "other"
    BY <1>1, <2>2 DEF RInv, OtherInv, OnlyLatestMayBeLost
  <2> QED  BY <1>1, <2>1, <2>2 DEF RInv
<1> QED  BY <1>1, RecordsCorrect, PTL

(* Where no offset is too large for the long of fseek(), readRecord()       *)
(* returns the units at the offset of its page, spoilt file or not, and one *)
(* whole record if one can begin there; for pages of any size.              *)
THEOREM ReadsWholeRecords ==
    ASSUME PagesFit
    PROVE  Spec => []ReadsARecord
<1>1. ASSUME RInv, NEW r \in returned, NEW offset, offset = pageNumberToOffset(r.page)
      PROVE  /\ offset + RecordSize <= Len(view)
             /\ r.units = SubSeq(view, offset + 1, offset + RecordSize)
             /\ ~spoilt /\ offset % RecordSize = 0 =>
                   \E record \in 1 .. written : r.units = UnitsOf(record)
  <2>1. RecordsOK /\ ReturnedOK /\ view \in Seq(RecordUnits) /\ Len(view) \in Nat
    BY <1>1 DEF RInv, StorageInv, OtherInv, FileInv
  <2>2. PICK units \in Seq(RecordUnits) :
           /\ units = r.units /\ Len(units) = 3 /\ offset \in Nat
           /\ offset + 3 <= Len(view)
           /\ \A j \in 1 .. 3 : units[j] = view[offset + j]
    BY <1>1, <2>1, RecordsAreThreeUnits, Offsets DEF ReturnedOK
  <2>3. units = SubSeq(view, offset + 1, offset + 3)
    BY <2>1, <2>2, ThreeUnits
  <2>4. ASSUME ~spoilt, offset % RecordSize = 0
        PROVE  \E record \in 1 .. written : units = UnitsOf(record)
    <3>1. PICK record \in 1 .. written : HasAt(record, view, offset)
      <4>1. offset \in 0 .. Len(view) /\ offset + RecordSize <= Len(view)
        BY <2>1, <2>2, RecordsAreThreeUnits
      <4> QED  BY <2>1, <2>4, <4>1 DEF RecordsOK
    <3>2. /\ record \in 1 .. MaxRecords
          /\ \A j \in 1 .. Len(units) : units[j] = UnitsOf(record)[j]
      BY <1>1, <2>2, <3>1, StorageAssumption, RecordsAreThreeUnits DEF RInv, HasAt
    <3> QED  BY <2>2, <3>2, RecordsAreThreeUnits, SeqEqual
  <2> QED  BY <2>2, <2>3, <2>4, RecordsAreThreeUnits
<1>2. RInv => ReadsARecord
  BY <1>1 DEF ReadsARecord
<1> QED  BY <1>2, RecordsCorrect, PTL

=============================================================================
