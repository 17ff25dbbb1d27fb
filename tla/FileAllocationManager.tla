------------------------ MODULE FileAllocationManager ------------------------
(***************************************************************************)
(* The free space of a data file: src/src/fileallocationmanager.hpp, used   *)
(* by a storage that frees ranges it owns, asks for room, and puts new data *)
(* at the end of the file when there is no gap.  The file is a sequence of  *)
(* units; "live" are those that hold the storage's data.                    *)
(***************************************************************************)
EXTENDS Integers, FiniteSets, Sequences, Ordering

CONSTANTS
    MaxLength,              \* bound: longest range asked for or freed
    MaxEnd,                 \* bound: size of the file
    ConsolidationThreshold, \* 1000 in the program
    MaxInsertions,          \* bound: insertions that are counted
    KeepsOldFile            \* is the file still there when gaps have changed?

ASSUME BoundsAssumption ==
    /\ MaxLength \in Nat \ {0} /\ MaxEnd \in Nat
    /\ ConsolidationThreshold \in Nat \ {0}
    /\ MaxInsertions \in Nat /\ MaxInsertions >= ConsolidationThreshold
    /\ KeepsOldFile \in BOOLEAN

VARIABLES
    gaps,       \* _gapLocations
    insertions, \* _insertionsSinceLastConsolidation
    live,       \* the units that hold data
    fileEnd,    \* size of the data file
    lost,       \* units neither live nor known to be free
    saved,      \* the file saveToFile() wrote: its gaps, and whether it is complete
    running     \* does the object exist?

vars == <<gaps, insertions, live, fileEnd, lost, saved, running>>

Gap(location, length) == [location |-> location, length |-> length]
EndOffset(gap) == gap.location + gap.length
Extent(location, length) == location .. location + length - 1
Units(S) == UNION {Extent(g.location, g.length) : g \in S}

(* Definitions marked "Planted bug" are variants that the runs must reject; *)
(* the model does not use them.                                             *)

NoFile == [items |-> <<>>, complete |-> FALSE]

(* The multi-index set: unique locations, iterated in their order.  Gaps,   *)
(* of different locations, are put in unless their location is taken.       *)
Emplace(S, new) == S \cup {g \in new : \A h \in S : h.location # g.location}
InOrder(S) == Ascending([g \in S |-> g.location])

Init == /\ gaps = {} /\ insertions = 0 /\ live = {} /\ fileEnd = 0
        /\ lost = {} /\ saved = NoFile /\ running = TRUE

-----------------------------------------------------------------------------
(* consolidateGaps(): one pass over neighbours.                             *)

(* Planted bug: the last gap of a run is not erased.                        *)
NextGapKeepingLast(scan, current, next) ==
    IF EndOffset(current) >= next.location
      THEN [scan EXCEPT !.accumulated = Gap(@.location, @.length + next.length),
                        !.merging = TRUE,
                        !.erase = @ \cup {current}]
      ELSE [scan EXCEPT !.accumulated = next,
                        !.merging = FALSE,
                        !.merged = @ \cup {scan.accumulated}]

NextGap(scan, current, next) ==
    IF EndOffset(current) >= next.location
      THEN [scan EXCEPT !.accumulated = Gap(@.location, @.length + next.length),
                        !.merging = TRUE,
                        !.erase = @ \cup {current}]
      ELSE [scan EXCEPT !.accumulated = next,
                        !.merging = FALSE,
                        !.erase = IF scan.merging THEN @ \cup {current} ELSE @,
                        !.merged = @ \cup {scan.accumulated}]

(* The loop, up to its i-th turn.                                           *)
Scan(s) ==
    LET scan[i \in 1 .. Len(s)] ==
            IF i = 1
              THEN [accumulated |-> s[1], merging |-> FALSE, erase |-> {}, merged |-> {}]
              ELSE NextGap(scan[i - 1], s[i - 1], s[i])
    IN  scan

(* The runs found are put back after their parts are erased; a gap that was *)
(* not merged is still there.                                               *)
Consolidated(S) ==
    LET s == InOrder(S)
        last == Scan(s)[Len(s)]
        erase  == last.erase \cup (IF last.merging THEN {s[Len(s)]} ELSE {})
        merged == last.merged \cup (IF last.merging THEN {last.accumulated} ELSE {})
    IN  IF Cardinality(S) < 2 THEN S ELSE Emplace(S \ erase, merged)

-----------------------------------------------------------------------------
(* The operations.                                                          *)

(* The storage removes a file of gaps when it is no longer true, or not.    *)
GapsChange == saved' = IF KeepsOldFile THEN saved ELSE NoFile

RegisterGap(offset, length) ==
    /\ running
    /\ insertions < MaxInsertions
    /\ Extent(offset, length) \subseteq live
    /\ live' = live \ Extent(offset, length)
    /\ gaps' = Emplace(gaps, {Gap(offset, length)})
    /\ insertions' = insertions + 1
    /\ GapsChange
    /\ UNCHANGED <<fileEnd, lost, running>>

(* findSecondaryInRange() starts at the shortest gap that is long enough.   *)
Suitable(S, length) == {g \in S : g.length >= length}
Shortest(S) == {g \in S : \A h \in S : g.length <= h.length}

(* Planted bug: the rest of the gap keeps its location.                     *)
WithoutShortened(S, gap, length) ==
    IF gap.length = length THEN S \ {gap}
                           ELSE Emplace(S \ {gap}, {Gap(gap.location, gap.length - length)})

(* Planted bug: the rest of the gap is forgotten.                           *)
WithoutRest(S, gap, length) == S \ {gap}

(* The first part of the gap is given away, the rest goes back.             *)
Without(S, gap, length) ==
    IF gap.length = length THEN S \ {gap}
                           ELSE Emplace(S \ {gap}, {Gap(gap.location + length, gap.length - length)})

(* takeSuitableGap() looks, and may consolidate and look once more.         *)
(* Planted bug: it consolidates but does not look again.                    *)
SearchedOnce(length) ==
    IF Suitable(gaps, length) # {} \/ insertions < ConsolidationThreshold
      THEN [gaps |-> gaps, insertions |-> insertions, suitable |-> Suitable(gaps, length)]
      ELSE [gaps |-> Consolidated(gaps), insertions |-> 0, suitable |-> {}]

Searched(length) ==
    IF Suitable(gaps, length) # {} \/ insertions < ConsolidationThreshold
      THEN [gaps |-> gaps, insertions |-> insertions, suitable |-> Suitable(gaps, length)]
      ELSE [gaps |-> Consolidated(gaps), insertions |-> 0,
            suitable |-> Suitable(Consolidated(gaps), length)]

TakeSuitableGap(length) ==
    /\ running
    /\ LET found == Searched(length)
       IN  /\ insertions' = found.insertions
           /\ \/ \E gap \in Shortest(found.suitable) :
                  /\ gaps' = Without(found.gaps, gap, length)
                  /\ live' = live \cup Extent(gap.location, length)
                  /\ UNCHANGED fileEnd
              \/ /\ found.suitable = {}     \* NoGap: the storage writes at the end
                 /\ fileEnd + length <= MaxEnd
                 /\ gaps' = found.gaps
                 /\ live' = live \cup Extent(fileEnd, length)
                 /\ fileEnd' = fileEnd + length
    /\ GapsChange
    /\ UNCHANGED <<lost, running>>

ConsolidateGaps ==
    /\ running
    /\ gaps' = Consolidated(gaps)
    /\ insertions' = 0
    /\ UNCHANGED <<live, fileEnd, lost, saved, running>>

(* clear(): the free space is forgotten.                                    *)
Clear ==
    /\ running
    /\ gaps' = {} /\ insertions' = 0
    /\ lost' = lost \cup Units(gaps)
    /\ GapsChange
    /\ UNCHANGED <<live, fileEnd, running>>

(* saveToFile(): the object lives on; a write that fails leaves the gaps    *)
(* written so far.                                                          *)
SaveToFile ==
    /\ running
    /\ \/ saved' = [items |-> InOrder(gaps), complete |-> TRUE]
       \/ \E n \in 0 .. Cardinality(gaps) :
            saved' = [items |-> SubSeq(InOrder(gaps), 1, n), complete |-> FALSE]
    /\ UNCHANGED <<gaps, insertions, live, fileEnd, lost, running>>

(* The process ends, or dies, and with it the gaps in memory.               *)
Stop ==
    /\ running
    /\ running' = FALSE
    /\ gaps' = {} /\ insertions' = 0
    /\ UNCHANGED <<live, fileEnd, lost, saved>>

(* Planted bug: length and location are read in the other order.            *)
LoadedSwapped(items) == {Gap(items[i].length, items[i].location) : i \in DOMAIN items}

(* Planted bug: the loop stops one gap early.                               *)
LoadedButLast(items) == {items[i] : i \in 1 .. Len(items) - 1}

Loaded(items) == {items[i] : i \in DOMAIN items}

UnknownUnits(known) == (0 .. fileEnd - 1) \ (live \cup known)

(* loadFromFile() by the next object.  It keeps what it could read, and     *)
(* returns FALSE, when the file is not complete.  The file stays.           *)
LoadFromFile ==
    /\ ~running
    /\ running' = TRUE
    /\ gaps' = Loaded(saved.items)
    /\ insertions' = 0
    /\ lost' = UnknownUnits(Units(Loaded(saved.items)))
    /\ UNCHANGED <<live, fileEnd, saved>>

Next ==
    \/ \E length \in 1 .. MaxLength :
          TakeSuitableGap(length) \/ \E offset \in live : RegisterGap(offset, length)
    \/ ConsolidateGaps \/ Clear \/ SaveToFile \/ Stop \/ LoadFromFile

Spec == Init /\ [][Next]_vars

-----------------------------------------------------------------------------
(* Properties.                                                              *)

(* The gaps and units lie in the file.                                      *)
TypeOK ==
    /\ gaps \subseteq [location : 0 .. MaxEnd, length : 1 .. MaxEnd]
    /\ insertions \in 0 .. MaxInsertions
    /\ fileEnd \in 0 .. MaxEnd
    /\ live \subseteq 0 .. fileEnd - 1 /\ lost \subseteq 0 .. fileEnd - 1
    /\ saved \in [items : Seq([location : 0 .. MaxEnd, length : 1 .. MaxEnd]), complete : BOOLEAN]
    /\ running \in BOOLEAN

(* No unit is free twice, and none that holds data is free: takeSuitableGap *)
(* never hands out a range that is in use, also after files were loaded.    *)
FreeIsFree ==
    /\ \A g, h \in gaps : g # h => Extent(g.location, g.length) \cap Extent(h.location, h.length) = {}
    /\ Units(gaps) \cap live = {}

(* While the object lives every unit of the file is in use, or free, or was *)
(* lost with an earlier object: no operation forgets a part of a gap.       *)
NothingForgotten == running => 0 .. fileEnd - 1 = live \cup Units(gaps) \cup lost

(* The runs of free units, each as one gap.                                 *)
MaximalRuns(U) ==
    {Gap(a, n) : a \in U, n \in 1 .. MaxEnd} \cap
    {g \in [location : 0 .. MaxEnd, length : 1 .. MaxEnd] :
        /\ Extent(g.location, g.length) \subseteq U
        /\ g.location - 1 \notin U /\ EndOffset(g) \notin U}

(* consolidateGaps() leaves one gap for each run of free units.             *)
ConsolidationMerges == Consolidated(gaps) = MaximalRuns(Units(gaps))

(* The file grows only when no gap has room; after enough insertions, only  *)
(* when no run of free units has room.                                      *)
GrowthWithoutRoom ==
    fileEnd' > fileEnd =>
        LET length == fileEnd' - fileEnd
            free == IF insertions < ConsolidationThreshold THEN gaps ELSE MaximalRuns(Units(gaps))
        IN  \A g \in free : g.length < length

GrowsOnlyWithoutRoom == [][GrowthWithoutRoom]_vars

(* A file that was written completely, and after which no gap has changed,  *)
(* brings every gap back, again and again.                                  *)
RestoresGaps ==
    ~running /\ running' /\ saved.complete =>
        Units(gaps') = (0 .. fileEnd - 1) \ (live \cup lost)

CompleteFileRestores == [][RestoresGaps]_vars
=============================================================================
