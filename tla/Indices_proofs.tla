--------------------------- MODULE Indices_proofs ---------------------------
(***************************************************************************)
(* What Indices promises, for any indices, keys, failures and crashes.      *)
(***************************************************************************)
EXTENDS Indices, Ordering_proofs, SequenceTheorems

(***************************************************************************)
(* The entries of a file.                                                   *)
(***************************************************************************)

(* store() writes one entry for each key, and load() makes of them the      *)
(* contents that were stored.                                               *)
LEMMA ItemsRestore ==
    ASSUME NEW c \in Contents
    PROVE  /\ Items(c) \in Seq(Entries)
           /\ Len(Items(c)) = Cardinality(DOMAIN c)
           /\ Cardinality(DOMAIN c) \in 0 .. Cardinality(Keys)
           /\ Loaded(Items(c)) = c
<1> PICK D \in SUBSET Keys : c \in [D -> Locations]
  BY DEF Contents
<1>0. PICK key : key = [k \in D |-> k]
  OBVIOUS
<1> PICK n : n = Cardinality(D)
  OBVIOUS
<1>1. /\ IsFiniteSet(D) /\ DOMAIN c = D /\ D \subseteq Keys /\ D \subseteq Nat
      /\ Cardinality(D) <= Cardinality(Keys)
      /\ Cardinality(D) \in Nat /\ Cardinality(Keys) \in Nat
  BY KeysAssumption, FS_Subset, FS_CardinalityType
<1>2. PICK keys : keys = Ascending(key)
  OBVIOUS
<1>3. /\ keys \in [1 .. n -> D]
      /\ \A k \in D : \E i \in 1 .. n : keys[i] = k
  <2>1. key \in [D -> Int]
    BY <1>0, <1>1
  <2>2. \A d, e \in D : key[d] = key[e] => d = e
    BY <1>0
  <2>3. /\ Ascending(key) \in [1 .. Cardinality(D) -> D]
        /\ \A k \in D : \E i \in 1 .. Cardinality(D) : Ascending(key)[i] = k
    <3>1. IsFiniteSet(D)
      BY <1>1
    <3> QED
      BY <3>1, <2>1, <2>2, AscendingEnumerates
  <2> QED
    BY <1>2, <2>3
<1>4. PICK items : items = [i \in 1 .. n |-> [key |-> keys[i], location |-> c[keys[i]]]]
  OBVIOUS
<1>5. Items(c) = items
  BY <1>0, <1>1, <1>2, <1>3, <1>4 DEF Items
<1>6. items \in Seq(Entries) /\ Len(items) = n /\ DOMAIN items = 1 .. n
  <2>1. \A i \in 1 .. n : keys[i] \in Keys /\ c[keys[i]] \in Locations
    BY <1>1, <1>3
  <2>2. items \in [1 .. n -> Entries]
    BY <1>4, <2>1 DEF Entries
  <2> QED
    BY <2>2, <1>1
<1>7. ToSet(items) = {[key |-> k, location |-> c[k]] : k \in D}
  <2>1. ToSet(items) = {items[i] : i \in 1 .. n}
    BY <1>6 DEF ToSet
  <2> QED
    BY <2>1, <1>3, <1>4
<1>8. {item.key : item \in ToSet(items)} = D
  <2>1. \A item \in ToSet(items) : item.key \in D
    BY <1>7
  <2>2. ASSUME NEW k \in D PROVE \E item \in ToSet(items) : item.key = k
    <3>1. [key |-> k, location |-> c[k]] \in ToSet(items)
      BY <1>7
    <3>2. [key |-> k, location |-> c[k]].key = k
      OBVIOUS
    <3> QED
      BY <3>1, <3>2
  <2> QED
    BY <2>1, <2>2
<1>9. ASSUME NEW k \in D
      PROVE  (CHOOSE item \in ToSet(items) : item.key = k).location = c[k]
  <2>1. [key |-> k, location |-> c[k]] \in ToSet(items)
    BY <1>7
  <2>2. \A item \in ToSet(items) : item.key = k => item = [key |-> k, location |-> c[k]]
    BY <1>7
  <2>3. PICK item : item = CHOOSE x \in ToSet(items) : x.key = k
    OBVIOUS
  <2>4. item \in ToSet(items) /\ item.key = k
    <3>1. [key |-> k, location |-> c[k]].key = k
      OBVIOUS
    <3> QED
      BY <2>1, <2>3, <3>1
  <2>5. item.location = c[k]
    BY <2>2, <2>4
  <2> QED
    BY <2>3, <2>5
<1>10. Loaded(items) = c
  <2>1. Loaded(items) = [k \in D |-> (CHOOSE item \in ToSet(items) : item.key = k).location]
    BY <1>8 DEF Loaded
  <2> QED
    BY <2>1, <1>9, <1>1
<1> QED
  BY <1>1, <1>5, <1>6, <1>10

(* What load() makes of any entries are contents of an index.               *)
LEMMA LoadedIsContents ==
    ASSUME NEW items \in Seq(Entries)
    PROVE  Loaded(items) \in Contents
<1>1. ToSet(items) \subseteq Entries
  BY DEF ToSet
<1> DEFINE D == {item.key : item \in ToSet(items)}
<1>2. D \in SUBSET Keys
  BY <1>1 DEF Entries
<1>3. ASSUME NEW k \in D
      PROVE  (CHOOSE item \in ToSet(items) : item.key = k).location \in Locations
  <2>1. \E item \in ToSet(items) : item.key = k
    OBVIOUS
  <2>2. (CHOOSE item \in ToSet(items) : item.key = k) \in Entries
    BY <2>1, <1>1
  <2> QED
    BY <2>2 DEF Entries
<1>4. Loaded(items) \in [D -> Locations]
  BY <1>3 DEF Loaded
<1> QED
  BY <1>2, <1>4 DEF Contents

(***************************************************************************)
(* The inductive invariant.  LoadedIsStored and StoreTells speak of the     *)
(* ends of the two loops; the loops are halfway, and what a file holds is   *)
(* known from the hash at its end only.                                     *)
(***************************************************************************)

FileType == [exists : BOOLEAN,
             count  : {{}} \cup {{n} : n \in 0 .. Cardinality(Keys)},
             items  : Seq(Entries),
             hash   : SUBSET Seq(Entries)]

Types ==
    /\ index \in [FieldSet -> Contents]
    /\ file \in [FieldSet -> FileType]
    /\ stored \in [FieldSet -> SUBSET Contents]
    /\ status \in {"ready", "storing", "stored", "down", "loading", "loaded", "refused", "aborted"}
    /\ at \in DOMAIN Fields
    /\ success \in BOOLEAN
    /\ failed \subseteq FieldSet /\ late \subseteq FieldSet
    /\ damage \in 0 .. MaxDamage

(* A file that has a hash has the one of what was stored; what lies before  *)
(* it may be damaged.                                                       *)
HashTells == \A f \in FieldSet : file[f].hash # {} =>
    \E c \in Contents : stored[f] = {c} /\ file[f].hash = {Items(c)}

(* The indices that store() has come past.                                  *)
StoredSoFar == status = "storing" =>
    /\ success = (failed = {})
    /\ \A i \in 1 .. at - 1 :
          \/ Fields[i] \in failed \cup late
          \/ file[Fields[i]] = CompleteFile(index[Fields[i]])

(* The indices that load() has come past, unless it failed.                 *)
LoadedSoFar ==
    /\ status = "down" => at = 1
    /\ status = "loading" /\ success =>
          \A i \in 1 .. at - 1 : stored[Fields[i]] = {index[Fields[i]]}

SInv == Types /\ HashTells /\ StoredSoFar /\ LoadedSoFar /\ LoadedIsStored /\ StoreTells

-----------------------------------------------------------------------------
(* The fields and the files.                                                *)

LEMMA FieldFacts ==
    /\ Len(Fields) \in Nat \ {0} /\ DOMAIN Fields = 1 .. Len(Fields)
    /\ FieldSet = {Fields[i] : i \in 1 .. Len(Fields)}
    /\ \A i \in 1 .. Len(Fields) : Fields[i] \in FieldSet
<1>1. Len(Fields) \in Nat /\ DOMAIN Fields = 1 .. Len(Fields)
  BY FieldsAssumption
<1>2. Len(Fields) # 0
  BY FieldsAssumption
<1> QED
  BY <1>1, <1>2 DEF FieldSet, ToSet

LEMMA NoContents == Empty \in Contents /\ <<>> \in Seq(Entries)
<1>1. {} \in SUBSET Keys /\ Empty \in [{} -> Locations]
  BY DEF Empty
<1> QED
  BY <1>1 DEF Contents

(* What store() can leave of a file.                                        *)
LEMMA FileKinds ==
    ASSUME NEW c \in Contents
    PROVE  /\ NoFile \in FileType /\ NoFile.hash = {}
           /\ CompleteFile(c) \in FileType /\ CompleteFile(c).hash = {Items(c)}
           /\ \A part \in PartOf(c) : part \in FileType /\ part.hash = {}
<1>1. /\ Items(c) \in Seq(Entries)
      /\ Len(Items(c)) \in 0 .. Cardinality(Keys)
      /\ Len(Items(c)) = Cardinality(DOMAIN c)
  BY ItemsRestore
<1>2. NoFile \in FileType /\ NoFile.hash = {}
  BY NoContents DEF NoFile, FileType
<1>3. CompleteFile(c) \in FileType /\ CompleteFile(c).hash = {Items(c)}
  BY <1>1 DEF CompleteFile, FileType
<1>4. [NoFile EXCEPT !.exists = TRUE] \in FileType /\ [NoFile EXCEPT !.exists = TRUE].hash = {}
  BY <1>2 DEF NoFile, FileType
<1>5. ASSUME NEW n \in 0 .. Cardinality(DOMAIN c)
      PROVE  LET part == [CompleteFile(c) EXCEPT !.items = SubSeq(@, 1, n), !.hash = {}]
             IN  part \in FileType /\ part.hash = {}
  <2>1. SubSeq(Items(c), 1, n) \in Seq(Entries)
    <3>1. \A i \in 1 .. n : i \in 1 .. Len(Items(c))
      BY <1>1
    <3> QED
      BY <1>1, <3>1, SubSeqProperties
  <2>2. PICK file0 : file0 = CompleteFile(c)
    OBVIOUS
  <2>3. file0 \in FileType /\ file0.items = Items(c)
    BY <1>3, <2>2 DEF CompleteFile
  <2>4. SubSeq(file0.items, 1, n) \in Seq(Entries)
    BY <2>1, <2>3
  <2>5. /\ [file0 EXCEPT !.items = SubSeq(@, 1, n), !.hash = {}] \in FileType
        /\ [file0 EXCEPT !.items = SubSeq(@, 1, n), !.hash = {}].hash = {}
    BY <2>3, <2>4 DEF FileType
  <2> QED
    BY <2>2, <2>5
<1> QED
  BY <1>2, <1>3, <1>4, <1>5 DEF PartOf

(* A file that was not written, or written in part, has no hash of anything *)
(* but what it was given last.                                              *)
LEMMA PartlyStoredLemma ==
    ASSUME Types, HashTells, NEW f \in FieldSet, PartlyStored(f)
    PROVE  /\ file' \in [FieldSet -> FileType]
           /\ stored' \in [FieldSet -> SUBSET Contents]
           /\ HashTells'
           /\ \A g \in FieldSet \ {f} : file'[g] = file[g]
<1>1. CASE UNCHANGED <<file, stored>>
  BY <1>1 DEF Types, HashTells
<1>2. ASSUME NEW part \in PartOf(index[f]), file' = [file EXCEPT ![f] = part],
             stored' = [stored EXCEPT ![f] = {}]
      PROVE  /\ file' \in [FieldSet -> FileType]
             /\ stored' \in [FieldSet -> SUBSET Contents]
             /\ HashTells'
             /\ \A g \in FieldSet \ {f} : file'[g] = file[g]
  <2>1. part \in FileType /\ part.hash = {}
    BY FileKinds DEF Types
  <2>2. /\ file' \in [FieldSet -> FileType] /\ stored' \in [FieldSet -> SUBSET Contents]
        /\ \A g \in FieldSet \ {f} : file'[g] = file[g] /\ stored'[g] = stored[g]
        /\ file'[f] = part
    BY <1>2, <2>1 DEF Types
  <2>3. HashTells'
    BY <2>1, <2>2 DEF HashTells
  <2> QED
    BY <2>2, <2>3
<1> QED
  BY <1>1, <1>2 DEF PartlyStored

-----------------------------------------------------------------------------
(* The loops.                                                               *)

(* When store() goes on to the next index, or returns.                      *)
LEMMA StoreAdvances ==
    ASSUME Types, status = "storing",
           \/ at # Len(Fields) /\ status' = status /\ at' = at + 1
           \/ at = Len(Fields) /\ status' = "stored" /\ at' = 1,
           success' = (failed' = {}),
           \A i \in 1 .. at : \/ Fields[i] \in failed' \cup late'
                             \/ file'[Fields[i]] = CompleteFile(index'[Fields[i]])
    PROVE  /\ at' \in DOMAIN Fields /\ status' \in {"storing", "stored"}
           /\ StoredSoFar' /\ LoadedSoFar' /\ LoadedIsStored' /\ StoreTells'
<1>1. at \in 1 .. Len(Fields) /\ Len(Fields) \in Nat
  BY FieldFacts DEF Types
<1>2. CASE at # Len(Fields) /\ status' = status /\ at' = at + 1
  <2>1. at + 1 \in 1 .. Len(Fields) /\ (at + 1) - 1 = at
    BY <1>1, <1>2
  <2>2. at + 1 \in DOMAIN Fields /\ 1 .. (at + 1) - 1 = 1 .. at
    BY <2>1, FieldFacts
  <2> QED
    BY <1>2, <2>2 DEF StoredSoFar, LoadedSoFar, LoadedIsStored, StoreTells
<1>3. CASE at = Len(Fields) /\ status' = "stored" /\ at' = 1
  <2>1. \A f \in FieldSet : \/ f \in failed' \cup late'
                           \/ file'[f] = CompleteFile(index'[f])
    BY <1>3, FieldFacts
  <2>2. 1 \in DOMAIN Fields
    BY FieldFacts
  <2> QED
    BY <1>3, <2>1, <2>2 DEF StoredSoFar, LoadedSoFar, LoadedIsStored, StoreTells
<1> QED
  BY <1>2, <1>3

(* When load() goes on to the next index, or returns.                       *)
LEMMA LoadAdvances ==
    ASSUME Types, status = "loading",
           \/ at # Len(Fields) /\ status' = status /\ at' = at + 1
           \/ at = Len(Fields) /\ status' = (IF success' THEN "loaded" ELSE "refused") /\ at' = 1,
           success' => \A i \in 1 .. at : stored'[Fields[i]] = {index'[Fields[i]]}
    PROVE  /\ at' \in DOMAIN Fields /\ status' \in {"loading", "loaded", "refused"}
           /\ StoredSoFar' /\ LoadedSoFar' /\ LoadedIsStored' /\ StoreTells'
<1>1. at \in 1 .. Len(Fields) /\ Len(Fields) \in Nat
  BY FieldFacts DEF Types
<1>2. CASE at # Len(Fields) /\ status' = status /\ at' = at + 1
  <2>1. at + 1 \in 1 .. Len(Fields) /\ (at + 1) - 1 = at
    BY <1>1, <1>2
  <2>2. at + 1 \in DOMAIN Fields /\ 1 .. (at + 1) - 1 = 1 .. at
    BY <2>1, FieldFacts
  <2> QED
    BY <1>2, <2>2 DEF StoredSoFar, LoadedSoFar, LoadedIsStored, StoreTells
<1>3. CASE at = Len(Fields) /\ status' = (IF success' THEN "loaded" ELSE "refused") /\ at' = 1
  <2>1. success' => \A f \in FieldSet : stored'[f] = {index'[f]}
    BY <1>3, FieldFacts
  <2>2. 1 \in DOMAIN Fields
    BY FieldFacts
  <2> QED
    BY <1>3, <2>1, <2>2 DEF StoredSoFar, LoadedSoFar, LoadedIsStored, StoreTells
<1> QED
  BY <1>2, <1>3

-----------------------------------------------------------------------------
(* One lemma for each action.                                               *)

LEMMA InitSInv == Init => SInv
<1> SUFFICES ASSUME Init PROVE SInv
  OBVIOUS
<1>1. Types
  <2>1. file \in [FieldSet -> FileType]
    BY NoContents, FileKinds DEF Init
  <2>2. index \in [FieldSet -> Contents] /\ stored \in [FieldSet -> SUBSET Contents]
    BY NoContents DEF Init
  <2>3. at \in DOMAIN Fields /\ damage \in 0 .. MaxDamage
    BY FieldFacts, BoundsAssumption DEF Init
  <2> QED
    BY <2>1, <2>2, <2>3 DEF Types, Init
<1>2. HashTells
  BY NoContents, FileKinds DEF HashTells, Init
<1> QED
  BY <1>1, <1>2 DEF SInv, StoredSoFar, LoadedSoFar, LoadedIsStored, StoreTells, Init

(* An operation on the keys, the beginning of store(), and what goes on     *)
(* before and after load() touch no file.                                   *)
LEMMA AddPreserves ==
    ASSUME SInv, NEW f \in FieldSet, NEW key \in Keys, NEW location \in Locations,
           AddLocationForKey(f, key, location)
    PROVE  SInv'
<1>1. index[f] \in Contents
  BY DEF SInv, Types
<1>2. [k \in DOMAIN index[f] \cup {key} |-> IF k = key THEN location ELSE index[f][k]] \in Contents
  <2>1. PICK D \in SUBSET Keys : index[f] \in [D -> Locations]
    BY <1>1 DEF Contents
  <2>2. D \cup {key} \in SUBSET Keys /\ DOMAIN index[f] = D
    BY <2>1
  <2>3. [k \in D \cup {key} |-> IF k = key THEN location ELSE index[f][k]]
            \in [D \cup {key} -> Locations]
    BY <2>1
  <2> QED
    BY <2>2, <2>3 DEF Contents
<1>3. index' \in [FieldSet -> Contents]
  BY <1>2 DEF AddLocationForKey, SInv, Types
<1> QED
  BY <1>3 DEF AddLocationForKey, SInv, Types, HashTells, StoredSoFar, LoadedSoFar,
              LoadedIsStored, StoreTells

LEMMA RemovePreserves ==
    ASSUME SInv, NEW f \in FieldSet, NEW key \in Keys, RemoveKey(f, key)
    PROVE  SInv'
<1>1. index[f] \in Contents
  BY DEF SInv, Types
<1>2. [k \in DOMAIN index[f] \ {key} |-> index[f][k]] \in Contents
  <2>1. PICK D \in SUBSET Keys : index[f] \in [D -> Locations]
    BY <1>1 DEF Contents
  <2>2. D \ {key} \in SUBSET Keys /\ DOMAIN index[f] = D
    BY <2>1
  <2>3. [k \in D \ {key} |-> index[f][k]] \in [D \ {key} -> Locations]
    BY <2>1
  <2> QED
    BY <2>2, <2>3 DEF Contents
<1>3. index' \in [FieldSet -> Contents]
  BY <1>2 DEF RemoveKey, SInv, Types
<1> QED
  BY <1>3 DEF RemoveKey, SInv, Types, HashTells, StoredSoFar, LoadedSoFar,
              LoadedIsStored, StoreTells

LEMMA BeginsPreserve ==
    ASSUME SInv, BeginStore \/ BeginLoad \/ LoadIndexAborts
    PROVE  SInv'
<1>1. 1 \in DOMAIN Fields /\ 1 .. 1 - 1 = {}
  BY FieldFacts
<1>2. CASE BeginStore
  BY <1>1, <1>2 DEF BeginStore, SInv, Types, HashTells, StoredSoFar, LoadedSoFar,
                    LoadedIsStored, StoreTells
<1>3. CASE BeginLoad
  BY <1>1, <1>3 DEF BeginLoad, SInv, Types, HashTells, StoredSoFar, LoadedSoFar,
                    LoadedIsStored, StoreTells
<1>4. CASE LoadIndexAborts
  BY <1>4 DEF LoadIndexAborts, SInv, Types, HashTells, StoredSoFar, LoadedSoFar,
              LoadedIsStored, StoreTells
<1> QED
  BY <1>2, <1>3, <1>4

LEMMA StartAnewPreserves == ASSUME SInv, StartAnew PROVE SInv'
<1>1. index' \in [FieldSet -> Contents]
  BY NoContents DEF StartAnew
<1> QED
  BY <1>1 DEF StartAnew, SInv, Types, HashTells, StoredSoFar, LoadedSoFar,
              LoadedIsStored, StoreTells

(* The index that store() has come to.                                      *)
LEMMA AtFact ==
    ASSUME Types
    PROVE  /\ at \in 1 .. Len(Fields) /\ Fields[at] \in FieldSet
           /\ \A i \in 1 .. at : i = at \/ i \in 1 .. at - 1
           /\ index[Fields[at]] \in Contents
<1>1. at \in 1 .. Len(Fields) /\ Len(Fields) \in Nat
  BY FieldFacts DEF Types
<1>2. \A i \in 1 .. at : i = at \/ i \in 1 .. at - 1
  BY <1>1
<1> QED
  BY <1>1, <1>2, FieldFacts DEF Types

LEMMA StoreIndexPreserves == ASSUME SInv, StoreIndex PROVE SInv'
<1>1. PICK f : f = Fields[at]
  OBVIOUS
<1>2. f \in FieldSet /\ index[f] \in Contents
  BY <1>1, AtFact DEF SInv
<1>3. /\ CompleteFile(index[f]) \in FileType
      /\ CompleteFile(index[f]).hash = {Items(index[f])}
  BY <1>2, FileKinds
<1>4. /\ file' = [file EXCEPT ![f] = CompleteFile(index[f])]
      /\ stored' = [stored EXCEPT ![f] = {index[f]}]
  BY <1>1 DEF StoreIndex
<1>5. /\ file' \in [FieldSet -> FileType] /\ stored' \in [FieldSet -> SUBSET Contents]
      /\ \A g \in FieldSet \ {f} : file'[g] = file[g] /\ stored'[g] = stored[g]
      /\ file'[f] = CompleteFile(index[f]) /\ stored'[f] = {index[f]}
  BY <1>2, <1>3, <1>4 DEF SInv, Types
<1>6. HashTells'
  BY <1>2, <1>3, <1>5 DEF SInv, HashTells
<1>7. /\ at' \in DOMAIN Fields /\ status' \in {"storing", "stored"}
      /\ StoredSoFar' /\ LoadedSoFar' /\ LoadedIsStored' /\ StoreTells'
  <2>1. /\ status = "storing" /\ success' = (failed' = {})
        /\ \/ at # Len(Fields) /\ status' = status /\ at' = at + 1
           \/ at = Len(Fields) /\ status' = "stored" /\ at' = 1
    BY DEF StoreIndex, AfterField, SInv, StoredSoFar
  <2>2. index' = index /\ failed' = failed /\ late' = late
    BY DEF StoreIndex
  <2>3. ASSUME NEW i \in 1 .. at
        PROVE  \/ Fields[i] \in failed' \cup late'
               \/ file'[Fields[i]] = CompleteFile(index'[Fields[i]])
    <3>1. Fields[i] \in FieldSet
      BY FieldFacts, AtFact DEF SInv
    <3>2. CASE Fields[i] = f
      BY <3>2, <1>5, <2>2
    <3>3. CASE Fields[i] # f
      <4>1. i \in 1 .. at - 1
        BY <3>3, <1>1, AtFact DEF SInv
      <4>2. \/ Fields[i] \in failed \cup late
            \/ file[Fields[i]] = CompleteFile(index[Fields[i]])
        BY <4>1, <2>1 DEF SInv, StoredSoFar
      <4> QED
        BY <4>2, <3>1, <3>3, <1>5, <2>2
    <3> QED
      BY <3>2, <3>3
  <2> QED
    BY <2>1, <2>3, StoreAdvances DEF SInv
<1> QED
  BY <1>5, <1>6, <1>7 DEF StoreIndex, SInv, Types

(* The failures of store(): the index at hand is among the failed or the    *)
(* late ones, and those it came past keep their files.                      *)
LEMMA StoreIndexFailsPreserves ==
    ASSUME SInv, StoreIndexFails \/ StoreIndexClosesBadly
    PROVE  SInv'
<1>1. PICK f : f = Fields[at]
  OBVIOUS
<1>2. f \in FieldSet /\ index[f] \in Contents
  BY <1>1, AtFact DEF SInv
<1>3. /\ status = "storing" /\ index' = index /\ damage' = damage
      /\ \/ at # Len(Fields) /\ status' = status /\ at' = at + 1
         \/ at = Len(Fields) /\ status' = "stored" /\ at' = 1
  BY DEF StoreIndexFails, StoreIndexClosesBadly, AfterField
<1>4. PartlyStored(f)
  BY <1>1 DEF StoreIndexFails, StoreIndexClosesBadly, PartlyStored
<1>5. /\ failed \cup late \cup {f} = failed' \cup late'
      /\ failed' \subseteq FieldSet /\ late' \subseteq FieldSet /\ success' \in BOOLEAN
      /\ success' = (failed' = {})
  <2>1. CASE StoreIndexFails
    BY <2>1, <1>1, <1>2 DEF StoreIndexFails, SInv, Types
  <2>2. CASE StoreIndexClosesBadly
    BY <2>2, <1>1, <1>2 DEF StoreIndexClosesBadly, SInv, Types, StoredSoFar
  <2> QED
    BY <2>1, <2>2
<1>6. /\ file' \in [FieldSet -> FileType] /\ stored' \in [FieldSet -> SUBSET Contents]
      /\ HashTells'
      /\ \A g \in FieldSet \ {f} : file'[g] = file[g]
  BY <1>2, <1>4, PartlyStoredLemma DEF SInv
<1>7. /\ at' \in DOMAIN Fields /\ status' \in {"storing", "stored"}
      /\ StoredSoFar' /\ LoadedSoFar' /\ LoadedIsStored' /\ StoreTells'
  <2>1. ASSUME NEW i \in 1 .. at
        PROVE  \/ Fields[i] \in failed' \cup late'
               \/ file'[Fields[i]] = CompleteFile(index'[Fields[i]])
    <3>1. Fields[i] \in FieldSet
      BY FieldFacts, AtFact DEF SInv
    <3>2. CASE Fields[i] = f
      BY <3>2, <1>5
    <3>3. CASE Fields[i] # f
      <4>1. i \in 1 .. at - 1
        BY <3>3, <1>1, AtFact DEF SInv
      <4>2. \/ Fields[i] \in failed \cup late
            \/ file[Fields[i]] = CompleteFile(index[Fields[i]])
        BY <4>1, <1>3 DEF SInv, StoredSoFar
      <4> QED
        BY <4>2, <3>1, <3>3, <1>3, <1>5, <1>6
    <3> QED
      BY <3>2, <3>3
  <2> QED
    BY <1>3, <1>5, <2>1, StoreAdvances DEF SInv
<1> QED
  BY <1>3, <1>5, <1>6, <1>7 DEF SInv, Types

(* A process that dies in the middle of store() leaves a file in part.      *)
LEMMA CrashPreserves == ASSUME SInv, Crash PROVE SInv'
<1>1. /\ file' \in [FieldSet -> FileType] /\ stored' \in [FieldSet -> SUBSET Contents]
      /\ HashTells'
  <2>1. CASE status = "storing" /\ PartlyStored(Fields[at])
    BY <2>1, AtFact, PartlyStoredLemma DEF SInv
  <2>2. CASE UNCHANGED <<file, stored>>
    BY <2>2 DEF SInv, Types, HashTells
  <2> QED
    BY <2>1, <2>2 DEF Crash
<1>2. index' \in [FieldSet -> Contents] /\ 1 \in DOMAIN Fields
  BY NoContents, FieldFacts DEF Crash
<1> QED
  BY <1>1, <1>2 DEF Crash, SInv, Types, StoredSoFar, LoadedSoFar, LoadedIsStored, StoreTells

(* A file that is read whole and whose hash is right has the entries of     *)
(* what was stored last.                                                    *)
LEMMA LoadIndexPreserves == ASSUME SInv, LoadIndex PROVE SInv'
<1>1. PICK f : f = Fields[at]
  OBVIOUS
<1>2. f \in FieldSet /\ file[f] \in FileType
  BY <1>1, AtFact DEF SInv, Types
<1>3. /\ status = "loading" /\ IsIntact(f)
      /\ index' = [index EXCEPT ![f] = Loaded(file[f].items)]
  BY <1>1 DEF LoadIndex
<1>4. /\ UNCHANGED <<file, success, failed, late, stored, damage>>
      /\ \/ at # Len(Fields) /\ status' = status /\ at' = at + 1
         \/ at = Len(Fields) /\ status' = (IF success' THEN "loaded" ELSE "refused") /\ at' = 1
  BY DEF LoadIndex, AfterField
<1>5. PICK c \in Contents : stored[f] = {c} /\ file[f].hash = {Items(c)}
  BY <1>2, <1>3 DEF SInv, HashTells, IsIntact
<1>6. Loaded(file[f].items) = c
  BY <1>3, <1>5, ItemsRestore DEF IsIntact
<1>7. /\ index' \in [FieldSet -> Contents] /\ index'[f] = c
      /\ \A g \in FieldSet \ {f} : index'[g] = index[g]
  BY <1>2, <1>3, <1>6 DEF SInv, Types
<1>8. ASSUME success', NEW i \in 1 .. at
      PROVE  stored'[Fields[i]] = {index'[Fields[i]]}
  <2>1. Fields[i] \in FieldSet
    <3>1. at \in 1 .. Len(Fields) /\ Len(Fields) \in Nat
      BY FieldFacts, AtFact DEF SInv
    <3>2. i \in 1 .. Len(Fields)
      BY <3>1
    <3> QED
      BY <3>2, FieldFacts
  <2>2. CASE Fields[i] = f
    BY <2>2, <1>4, <1>5, <1>7
  <2>3. CASE Fields[i] # f
    <3>1. i \in 1 .. at - 1
      BY <2>3, <1>1, AtFact DEF SInv
    <3>2. stored[Fields[i]] = {index[Fields[i]]}
      BY <3>1, <1>3, <1>4, <1>8 DEF SInv, LoadedSoFar
    <3> QED
      BY <3>2, <2>1, <2>3, <1>4, <1>7
  <2> QED
    BY <2>2, <2>3
<1>9. /\ at' \in DOMAIN Fields /\ status' \in {"loading", "loaded", "refused"}
      /\ StoredSoFar' /\ LoadedSoFar' /\ LoadedIsStored' /\ StoreTells'
  BY <1>3, <1>4, <1>8, LoadAdvances DEF SInv
<1> QED
  BY <1>4, <1>7, <1>9 DEF SInv, Types, HashTells

LEMMA LoadIndexFailsPreserves == ASSUME SInv, LoadIndexFails PROVE SInv'
<1>1. PICK f : f = Fields[at]
  OBVIOUS
<1>2. f \in FieldSet /\ file[f].items \in Seq(Entries)
  BY <1>1, AtFact DEF SInv, Types, FileType
<1>3. PICK n \in 0 .. Len(file[f].items) :
          index' = [index EXCEPT ![f] = Loaded(SubSeq(file[f].items, 1, n))]
  BY <1>1 DEF LoadIndexFails
<1>4. SubSeq(file[f].items, 1, n) \in Seq(Entries)
  <2>1. \A i \in 1 .. n : file[f].items[i] \in Entries
    BY <1>2
  <2> QED
    BY <2>1, SubSeqProperties
<1>5. index' \in [FieldSet -> Contents]
  BY <1>2, <1>3, <1>4, LoadedIsContents DEF SInv, Types
<1>6. /\ status = "loading" /\ success' = FALSE
      /\ UNCHANGED <<file, failed, late, stored, damage>>
      /\ \/ at # Len(Fields) /\ status' = status /\ at' = at + 1
         \/ at = Len(Fields) /\ status' = "refused" /\ at' = 1
  BY DEF LoadIndexFails, AfterField
<1>7. /\ at' \in DOMAIN Fields /\ status' \in {"loading", "loaded", "refused"}
      /\ StoredSoFar' /\ LoadedSoFar' /\ LoadedIsStored' /\ StoreTells'
  BY <1>6, LoadAdvances DEF SInv
<1> QED
  BY <1>5, <1>6, <1>7 DEF SInv, Types, HashTells

(* Damage leaves the hash as it is.                                         *)
LEMMA DamagePreserves ==
    ASSUME SInv, NEW f \in FieldSet, NEW n \in DOMAIN file[f].items, NEW item \in Entries,
           Damage(f, n, item)
    PROVE  SInv'
<1>1. file[f] \in FileType /\ file[f].items \in Seq(Entries)
  BY DEF SInv, Types, FileType
<1>2. [file[f].items EXCEPT ![n] = item] \in Seq(Entries)
  BY <1>1
<1>3. /\ [file[f] EXCEPT !.items = [file[f].items EXCEPT ![n] = item]] \in FileType
      /\ [file[f] EXCEPT !.items = [file[f].items EXCEPT ![n] = item]].hash = file[f].hash
  BY <1>1, <1>2 DEF FileType
<1>4. file' = [file EXCEPT ![f] = [file[f] EXCEPT !.items = [file[f].items EXCEPT ![n] = item]]]
  BY DEF Damage, SInv, Types
<1>5. /\ file' \in [FieldSet -> FileType]
      /\ \A g \in FieldSet : file'[g].hash = file[g].hash
  BY <1>3, <1>4 DEF SInv, Types
<1>6. damage' \in 0 .. MaxDamage
  BY BoundsAssumption DEF Damage, SInv, Types
<1>7. HashTells'
  BY <1>5 DEF Damage, SInv, HashTells
<1> QED
  BY <1>5, <1>6, <1>7 DEF Damage, SInv, Types, StoredSoFar, LoadedSoFar, LoadedIsStored, StoreTells

-----------------------------------------------------------------------------
(* The theorems.                                                            *)

(* SInv holds in every reachable state.                                     *)
THEOREM Invariance == Spec => []SInv
<1>1. SInv /\ [Next]_vars => SInv'
  <2> SUFFICES ASSUME SInv, [Next]_vars PROVE SInv'
    OBVIOUS
  <2>1. CASE UNCHANGED vars
    BY <2>1 DEF vars, SInv, Types, HashTells, StoredSoFar, LoadedSoFar, LoadedIsStored, StoreTells
  <2>2. ASSUME NEW f \in FieldSet, NEW key \in Keys, RemoveKey(f, key) PROVE SInv'
    BY <2>2, RemovePreserves
  <2>3. ASSUME NEW f \in FieldSet, NEW key \in Keys, NEW location \in Locations,
               AddLocationForKey(f, key, location)
        PROVE  SInv'
    BY <2>3, AddPreserves
  <2>4. ASSUME NEW f \in FieldSet, NEW n \in DOMAIN file[f].items,
               NEW item \in [key : Keys, location : Locations], Damage(f, n, item)
        PROVE  SInv'
    BY <2>4, DamagePreserves DEF Entries
  <2> QED
    BY <2>1, <2>2, <2>3, <2>4, BeginsPreserve, StartAnewPreserves, StoreIndexPreserves,
       StoreIndexFailsPreserves, CrashPreserves, LoadIndexPreserves, LoadIndexFailsPreserves
       DEF Next
<1> QED
  BY <1>1, InitSInv, PTL DEF Spec

(* The indices, their files and the loops over them have the types of the   *)
(* source in every reachable state.                                         *)
THEOREM IndexTypes == Spec => []TypeOK
<1>1. SInv => TypeOK
  <2> SUFFICES ASSUME SInv PROVE TypeOK
    OBVIOUS
  <2>1. ASSUME NEW f \in FieldSet
        PROVE  /\ file[f].exists \in BOOLEAN
               /\ file[f].count \subseteq 0 .. Cardinality(Keys)
               /\ Cardinality(file[f].count) <= 1
               /\ ToSet(file[f].items) \subseteq Entries
    <3>1. /\ file[f].exists \in BOOLEAN /\ file[f].items \in Seq(Entries)
          /\ \/ file[f].count = {}
             \/ \E n \in 0 .. Cardinality(Keys) : file[f].count = {n}
      BY DEF SInv, Types, FileType
    <3>2. Cardinality(file[f].count) \in {0, 1}
      BY <3>1, FS_EmptySet, FS_Singleton
    <3>3. ToSet(file[f].items) \subseteq Entries
      BY <3>1 DEF ToSet
    <3> QED
      BY <3>1, <3>2, <3>3
  <2> QED
    BY <2>1 DEF SInv, Types, TypeOK
<1> QED
  BY <1>1, Invariance, PTL

(* When Indices::load() returns TRUE, every index has the contents that     *)
(* store() wrote last into its file, whatever errors, crashes and damaged   *)
(* entries came between.                                                    *)
THEOREM LoadsWhatWasStored == Spec => []LoadedIsStored
<1>1. SInv => LoadedIsStored
  BY DEF SInv
<1> QED
  BY <1>1, Invariance, PTL

(* What Indices::store() returns tells whether each index was stored, and   *)
(* it tries all of them.                                                    *)
THEOREM StoreTellsTruth == Spec => []StoreTells
<1>1. SInv => StoreTells
  BY DEF SInv
<1> QED
  BY <1>1, Invariance, PTL
=============================================================================
