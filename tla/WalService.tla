----------------------------- MODULE WalService -----------------------------
(***************************************************************************)
(* What the write-ahead log promises to the storage that uses it, without   *)
(* threads, blocks, IDs or a file: the life of an operation is              *)
(*                                                                          *)
(*    registering -> acked -> completing -> finished                        *)
(*                                                                          *)
(* and "durable" is the set of operations that a restart would replay.      *)
(* Operations enter and leave it in groups, when a block is written.        *)
(***************************************************************************)
CONSTANT Operations

VARIABLES registering, acked, completing, finished, durable

vars == <<registering, acked, completing, finished, durable>>

Init == /\ registering = {} /\ acked = {} /\ completing = {} /\ finished = {}
        /\ durable = {}

(* A block written: some of the operations being registered will now be     *)
(* replayed, some of those being completed no longer.                       *)
GroupCommit == /\ durable' \ durable \subseteq registering
               /\ durable \ durable' \subseteq completing

Register(op) ==
    /\ op \notin registering \cup acked \cup completing \cup finished \cup durable
    /\ registering' = registering \cup {op}
    /\ UNCHANGED <<acked, completing, finished, durable>>

Commit == GroupCommit /\ UNCHANGED <<registering, acked, completing, finished>>

Acknowledge(op) ==
    /\ op \in registering \cap durable
    /\ registering' = registering \ {op}
    /\ acked' = acked \cup {op}
    /\ UNCHANGED <<completing, finished, durable>>

Complete(op) ==
    /\ op \in acked
    /\ acked' = acked \ {op}
    /\ completing' = completing \cup {op}
    /\ UNCHANGED <<registering, finished, durable>>

Finish(op) ==
    /\ op \in completing \ durable
    /\ completing' = completing \ {op}
    /\ finished' = finished \cup {op}
    /\ UNCHANGED <<registering, acked, durable>>

(* A crash decides what was under way one way or the other.                 *)
Die == /\ GroupCommit
       /\ registering' = {} /\ completing' = {}
       /\ UNCHANGED <<acked, finished>>

(* The storage replays what is durable, and may clear the log.              *)
Replay == /\ registering = {} /\ completing = {}
          /\ acked' = {}
          /\ \/ durable' = {} /\ finished' = {}
             \/ UNCHANGED <<durable, finished>>
          /\ UNCHANGED <<registering, completing>>

(* The log is cleared while in use: nothing may depend on it.               *)
Trim == /\ registering = {} /\ acked = {}
        /\ durable' = {} /\ finished' = {}
        /\ UNCHANGED <<registering, acked, completing>>

Next == \/ \E op \in Operations : Register(op) \/ Acknowledge(op) \/ Complete(op) \/ Finish(op)
        \/ Commit \/ Die \/ Replay \/ Trim

Spec == Init /\ [][Next]_vars
=============================================================================
