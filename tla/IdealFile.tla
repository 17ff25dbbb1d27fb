------------------------------ MODULE IdealFile ------------------------------
(***************************************************************************)
(* What the components of cpp-db may expect of a file behind StorageIO,     *)
(* whichever adapter of src/src/storage is used: a sequence of units that   *)
(* grows at its end, a position, and "safe", how much of it survives when   *)
(* the process dies.  "last" is the last call and what it returned; "got"   *)
(* is what it read.                                                         *)
(*                                                                          *)
(* Only flush() promises that what was written is safe.  A clear() that     *)
(* returns FALSE has cleared nothing: it keeps the file open, or closes it, *)
(* with what may be lost when a file is closed.                             *)
(***************************************************************************)
EXTENDS Naturals, Sequences, SequencesExt

VARIABLES content, safe, pos, opened, last, got

vars == <<content, safe, pos, opened, last, got>>

Returned(call, result) == last' = [call |-> call, ok |-> result]

(* What is safe grows by itself: buffers are written out when they are full. *)
Settles == safe' \in safe .. Len(content)

Init == /\ content = <<>> /\ safe = 0 /\ pos = 0 /\ opened = FALSE
        /\ last = [call |-> "none", ok |-> TRUE] /\ got = <<>>

(* A file opened for writing is emptied by some adapters and not by others. *)
Open == /\ ~opened
        /\ \/ /\ Returned("open", TRUE) /\ opened' /\ pos' = 0
              /\ UNCHANGED <<content, safe>> \/ (content' = <<>> /\ safe' = 0)
           \/ Returned("open", FALSE) /\ UNCHANGED <<content, safe, pos, opened>>
        /\ got' = <<>>

(* What was written and not flushed may be lost.                            *)
Closes == /\ ~opened' /\ pos' = 0
          /\ \E n \in safe .. Len(content) : content' = SubSeq(content, 1, n) /\ safe' = n

(* Nobody is told.                                                          *)
Close == /\ opened
         /\ \E result \in BOOLEAN : Returned("close", result)
         /\ Closes
         /\ got' = <<>>

Seek == /\ opened
        /\ \/ Returned("seek", TRUE) /\ pos' \in Nat
           \/ Returned("seek", FALSE) /\ UNCHANGED pos
        /\ Settles
        /\ got' = <<>>
        /\ UNCHANGED <<content, opened>>

SeekToEnd == /\ opened
             /\ \/ Returned("seekToEnd", TRUE) /\ pos' = Len(content)
                \/ Returned("seekToEnd", FALSE) /\ UNCHANGED pos
             /\ Settles
             /\ got' = <<>>
             /\ UNCHANGED <<content, opened>>

(* A read that returns TRUE has moved over what it returns.                 *)
Read == /\ opened
        /\ \/ /\ Returned("read", TRUE)
              /\ pos' \in pos + 1 .. Len(content)
              /\ got' = SubSeq(content, pos + 1, pos')
           \/ /\ Returned("read", FALSE)
              /\ pos' >= pos
              /\ got' = <<>>
        /\ UNCHANGED <<content, safe, opened>>

(* What is written is put at the end, a part of it when the call fails.     *)
Write == /\ opened
         /\ \/ Returned("write", TRUE) /\ IsStrictPrefix(content, content')
            \/ Returned("write", FALSE) /\ IsPrefix(content, content')
         /\ pos' = Len(content')
         /\ safe' \in safe .. Len(content')
         /\ got' = <<>>
         /\ UNCHANGED opened

Flush == /\ opened
         /\ \/ Returned("flush", TRUE) /\ safe' = Len(content)
            \/ Returned("flush", FALSE) /\ Settles
         /\ got' = <<>>
         /\ UNCHANGED <<content, pos, opened>>

Clear == /\ opened
         /\ \/ Returned("clear", TRUE) /\ content' = <<>> /\ safe' = 0 /\ pos' = 0
               /\ UNCHANGED opened
            \/ Returned("clear", FALSE) /\ Settles /\ pos' \in {0, pos}
               /\ UNCHANGED <<content, opened>>
            \/ Returned("clear", FALSE) /\ Closes
         /\ got' = <<>>

Settle == Settles /\ UNCHANGED <<content, pos, opened, last, got>>

(* The process dies, and with it what is not safe.                          *)
Lose == /\ content' = SubSeq(content, 1, safe)
        /\ pos' = 0 /\ opened' = FALSE
        /\ last' = [call |-> "none", ok |-> TRUE] /\ got' = <<>>
        /\ UNCHANGED safe

Next == Open \/ Close \/ Seek \/ SeekToEnd \/ Read \/ Write \/ Flush \/ Clear \/ Settle \/ Lose

Spec == Init /\ [][Next]_vars
=============================================================================
