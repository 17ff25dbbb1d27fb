------------------------------- MODULE Indices -------------------------------
(***************************************************************************)
(* The indices of a collection, src/src/index: each maps the keys of a      *)
(* field to the location of the record, and has a file of its own that      *)
(* store() writes and load() reads, one index after the other.              *)
(*                                                                          *)
(* Either pass may meet I/O errors, the process may die in the middle of    *)
(* store(), and an entry of a file may be damaged while nobody looks.  The  *)
(* hash at the end of a file is the sequence of entries it was computed of. *)
(***************************************************************************)
EXTENDS Integers, FiniteSets, Sequences, SequencesExt, Ordering

CONSTANTS
    Fields,         \* the indexed fields, a sequence: the tuple of the indices
    Keys,           \* numbers: std::map iterates in their order
    Locations,      \* page numbers
    MaxDamage,      \* bound: entries damaged
    MaxLateFailures \* bound: files that fail to close, in one store()

ASSUME FieldsAssumption == Fields \in Seq(STRING) /\ Fields # <<>>
ASSUME KeysAssumption == Keys \subseteq Nat /\ IsFiniteSet(Keys)
ASSUME BoundsAssumption == {MaxDamage, MaxLateFailures} \subseteq Nat

VARIABLES
    index,      \* the contents of each index, a function on some of the keys
    file,       \* the file of each index
    status,     \* what the client is doing with the object
    at,         \* the index store() or load() has come to
    success,    \* the flag of store() and load()
    failed,     \* history: indices whose part of this store() failed
    late,       \* history: indices that it stored, but whose file failed to close
    stored,     \* history: what each file was given, when it was last written whole
    damage      \* entries damaged so far

vars == <<index, file, status, at, success, failed, late, stored, damage>>

FieldSet == ToSet(Fields)
Empty == [k \in {} |-> 0]

(* A file: absent, or the number of entries, the entries and the hash, as   *)
(* far as they were written.                                                *)
NoFile == [exists |-> FALSE, count |-> {}, items |-> <<>>, hash |-> {}]

Items(contents) ==
    LET keys == Ascending([k \in DOMAIN contents |-> k])
    IN  [i \in DOMAIN keys |-> [key |-> keys[i], location |-> contents[keys[i]]]]

CompleteFile(contents) ==
    [exists |-> TRUE, count |-> {Len(Items(contents))},
     items |-> Items(contents), hash |-> {Items(contents)}]

(* Written up to the size, up to one of the entries, or up to the hash.     *)
PartOf(contents) ==
    {[NoFile EXCEPT !.exists = TRUE]} \cup
    {[CompleteFile(contents) EXCEPT !.items = SubSeq(@, 1, n), !.hash = {}] :
        n \in 0 .. Cardinality(DOMAIN contents)}

Init ==
    /\ index = [f \in FieldSet |-> Empty]
    /\ file = [f \in FieldSet |-> NoFile]
    /\ status = "ready" /\ at = 1 /\ success = TRUE
    /\ failed = {} /\ late = {} /\ stored = [f \in FieldSet |-> {}]
    /\ damage = 0

-----------------------------------------------------------------------------
(* The keys.                                                                *)

InUse == status \in {"ready", "loaded", "stored"}

(* A key that is there already keeps its location, and FALSE is returned.   *)
AddLocationForKey(f, key, location) ==
    /\ InUse
    /\ key \notin DOMAIN index[f]
    /\ index' = [index EXCEPT ![f] = [k \in DOMAIN @ \cup {key} |->
                                        IF k = key THEN location ELSE @[k]]]
    /\ status' = "ready"
    /\ UNCHANGED <<file, at, success, failed, late, stored, damage>>

RemoveKey(f, key) ==
    /\ InUse
    /\ key \in DOMAIN index[f]
    /\ index' = [index EXCEPT ![f] = [k \in DOMAIN @ \ {key} |-> @[k]]]
    /\ status' = "ready"
    /\ UNCHANGED <<file, at, success, failed, late, stored, damage>>

-----------------------------------------------------------------------------
(* store(): the flag is kept over all the indices.                          *)

BeginStore ==
    /\ InUse
    /\ status' = "storing" /\ at' = 1 /\ success' = TRUE /\ failed' = {} /\ late' = {}
    /\ UNCHANGED <<index, file, stored, damage>>

(* Planted bug: one index too many.                                         *)
AfterFieldTooFar(done) == IF at > Len(Fields) THEN done /\ at' = 1
                                              ELSE UNCHANGED status /\ at' = at + 1

AfterField(done) == IF at = Len(Fields) THEN done /\ at' = 1
                                        ELSE UNCHANGED status /\ at' = at + 1

StoreIndex ==
    /\ status = "storing"
    /\ LET f == Fields[at]
       IN  /\ file' = [file EXCEPT ![f] = CompleteFile(index[f])]
           /\ stored' = [stored EXCEPT ![f] = {index[f]}]
    /\ AfterField(status' = "stored")
    /\ UNCHANGED <<index, success, failed, late, damage>>

(* The file cannot be opened, or a write fails after it was truncated.      *)
PartlyStored(f) ==
    \/ UNCHANGED <<file, stored>>
    \/ /\ \E part \in PartOf(index[f]) : file' = [file EXCEPT ![f] = part]
       /\ stored' = [stored EXCEPT ![f] = {}]

(* Planted bug: the first failure ends the loop.                            *)
StoreIndexFailsAndEnds ==
    /\ status = "storing"
    /\ PartlyStored(Fields[at])
    /\ success' = FALSE
    /\ failed' = failed \cup {Fields[at]}
    /\ status' = "stored" /\ at' = 1
    /\ UNCHANGED <<index, late, damage>>

StoreIndexFails ==
    /\ status = "storing"
    /\ PartlyStored(Fields[at])
    /\ success' = FALSE
    /\ failed' = failed \cup {Fields[at]}
    /\ AfterField(status' = "stored")
    /\ UNCHANGED <<index, late, damage>>

(* Everything was written and the path returned, but the adapter still had  *)
(* it in a buffer, and the destructor of StorageIO cannot write that out.   *)
StoreIndexClosesBadly ==
    /\ status = "storing"
    /\ Cardinality(late) < MaxLateFailures
    /\ LET f == Fields[at]
       IN  /\ \E part \in PartOf(index[f]) : file' = [file EXCEPT ![f] = part]
           /\ stored' = [stored EXCEPT ![f] = {}]
           /\ late' = late \cup {f}
    /\ AfterField(status' = "stored")
    /\ UNCHANGED <<index, success, failed, damage>>

-----------------------------------------------------------------------------
(* The process dies, and the next one loads into new, empty indices; when   *)
(* that fails the client starts them anew.                                  *)

Crash ==
    /\ status \notin {"down", "aborted"}
    /\ IF status = "storing" THEN PartlyStored(Fields[at]) ELSE UNCHANGED <<file, stored>>
    /\ index' = [f \in FieldSet |-> Empty]
    /\ status' = "down" /\ at' = 1 /\ success' = TRUE
    /\ failed' = {} /\ late' = {}
    /\ UNCHANGED damage

BeginLoad ==
    /\ status = "down"
    /\ status' = "loading"
    /\ UNCHANGED <<index, file, at, success, failed, late, stored, damage>>

(* The entries come before the hash is known: a key that comes twice aborts. *)
HasDuplicate(items) == \E i, j \in DOMAIN items : i < j /\ items[i].key = items[j].key

Loaded(items) == [k \in {item.key : item \in ToSet(items)} |->
    (CHOOSE item \in ToSet(items) : item.key = k).location]

(* Planted bug: the hash is read but not compared.                          *)
HashNotCompared(f) ==
    /\ file[f].count = {Len(file[f].items)}
    /\ file[f].hash # {}

IsIntact(f) ==
    /\ file[f].count = {Len(file[f].items)}
    /\ file[f].hash = {file[f].items}

(* The whole file is read, and it is intact.                                *)
LoadIndex ==
    /\ status = "loading"
    /\ LET f == Fields[at]
       IN  /\ file[f].exists /\ IsIntact(f)
           /\ ~HasDuplicate(file[f].items)
           /\ index' = [index EXCEPT ![f] = Loaded(file[f].items)]
    /\ AfterField(status' = IF success THEN "loaded" ELSE "refused")
    /\ UNCHANGED <<file, success, failed, late, stored, damage>>

(* There is no file, or an error stops the reading, or the end of the file  *)
(* does, or the hash differs: the index keeps what was read.                *)
LoadIndexFails ==
    /\ status = "loading"
    /\ \E n \in 0 .. Len(file[Fields[at]].items) :
          LET read == SubSeq(file[Fields[at]].items, 1, n)
          IN  /\ ~HasDuplicate(read)
              /\ index' = [index EXCEPT ![Fields[at]] = Loaded(read)]
    /\ success' = FALSE
    /\ AfterField(status' = "refused")
    /\ UNCHANGED <<file, failed, late, stored, damage>>

LoadIndexAborts ==
    /\ status = "loading"
    /\ HasDuplicate(file[Fields[at]].items)
    /\ status' = "aborted"
    /\ UNCHANGED <<index, file, at, success, failed, late, stored, damage>>

StartAnew ==
    /\ status = "refused"
    /\ index' = [f \in FieldSet |-> Empty]
    /\ status' = "ready" /\ success' = TRUE
    /\ UNCHANGED <<file, at, failed, late, stored, damage>>

(* An entry of a file at rest changes.                                      *)
Damage(f, n, item) ==
    /\ damage < MaxDamage
    /\ status = "down"
    /\ item # file[f].items[n]
    /\ file' = [file EXCEPT ![f].items[n] = item]
    /\ damage' = damage + 1
    /\ UNCHANGED <<index, status, at, success, failed, late, stored>>

Next ==
    \/ \E f \in FieldSet, key \in Keys :
          RemoveKey(f, key) \/ \E location \in Locations : AddLocationForKey(f, key, location)
    \/ BeginStore \/ StoreIndex \/ StoreIndexFails \/ StoreIndexClosesBadly
    \/ BeginLoad \/ LoadIndex \/ LoadIndexFails \/ LoadIndexAborts \/ StartAnew
    \/ Crash
    \/ \E f \in FieldSet : \E n \in DOMAIN file[f].items :
          \E item \in [key : Keys, location : Locations] : Damage(f, n, item)

Spec == Init /\ [][Next]_vars

-----------------------------------------------------------------------------
(* Properties.                                                              *)

Contents == UNION {[domain -> Locations] : domain \in SUBSET Keys}
Entries == [key : Keys, location : Locations]

(* The values the indices, their files and the loops over them may have.    *)
TypeOK ==
    /\ index \in [FieldSet -> Contents]
    /\ \A f \in FieldSet :
        /\ file[f].exists \in BOOLEAN
        /\ file[f].count \subseteq 0 .. Cardinality(Keys) /\ Cardinality(file[f].count) <= 1
        /\ ToSet(file[f].items) \subseteq Entries
    /\ status \in {"ready", "storing", "stored", "down", "loading", "loaded", "refused", "aborted"}
    /\ at \in DOMAIN Fields
    /\ success \in BOOLEAN /\ failed \cup late \subseteq FieldSet
    /\ damage \in 0 .. MaxDamage

(* When load() returns TRUE, every index is what the last store() that      *)
(* wrote its file whole was given: a file that was cut short by an error or *)
(* a crash, or damaged since, makes load() return FALSE.                    *)
LoadedIsStored == status = "loaded" => \A f \in FieldSet : stored[f] = {index[f]}

(* When store() returns, its result tells whether every index was stored,   *)
(* and the ones after one that failed are stored all the same: each file is *)
(* whole but those that failed, or failed to close.                         *)
StoreTells == status = "stored" =>
    /\ success = (failed = {})
    /\ \A f \in FieldSet \ (failed \cup late) : file[f] = CompleteFile(index[f])

(* As the comment on Index::store() has it, the path is returned "on        *)
(* success": when store() returns TRUE, every file is whole.                *)
SuccessMeansWhole == status = "stored" /\ success =>
    \A f \in FieldSet : file[f] = CompleteFile(index[f])
=============================================================================
