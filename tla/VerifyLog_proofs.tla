-------------------------- MODULE VerifyLog_proofs --------------------------
(***************************************************************************)
(* verifyLog() on a log of any length: what it reports, what it returns,    *)
(* and that it does what DbWAL takes for one step.                          *)
(***************************************************************************)
EXTENDS VerifyLog, Ordering_proofs

(* What the loops have read in this pass: the blocks before the position,   *)
(* of the last of them the entries before the next one.                     *)
Seen(p) == p[1] < blockPos \/ (p[1] = blockPos /\ (item = -1 \/ p[2] <= item))
SeenAt == {p \in Positions : Seen(p)}
SeenMarkers == {p \in SeenAt : EntryAt(p).marker}

IdAt(p) == EntryAt(p).id
Spoilt(k) == file.blocks[k].state # "intact"
IsLast(k) == k = Len(file.blocks) /\ ~file.tail

(* Where the loops are.                                                     *)
PlaceInv ==
    /\ file \in Files /\ pass \in 1 .. 2 /\ turn \in 0 .. 1
    /\ blockPos \in 0 .. Len(file.blocks)
    /\ result \in {"none", "true", "false", "fatal"}
    /\ item = -1 \/ (/\ blockPos > 0 /\ item \in Nat /\ item < Len(Entries)
                     /\ file.blocks[blockPos].state = "intact")
    /\ completed \in Seq(Nat) /\ reported \in Seq(Nat)

(* What was read so far, block by block.                                    *)
ReadInv ==
    /\ result # "fatal" =>
         \A k \in DOMAIN file.blocks :
             k <= blockPos \/ pass = 2 =>
                 file.blocks[k].state # "bad" /\ (file.blocks[k].state = "torn" => IsLast(k))
    /\ \A p \in Positions : p \in SeenAt \/ pass = 2 => IdAt(p) # 0

ReportedSoFar == IdsAt(InFileOrder(UnfinishedAt \cap SeenAt))

(* The first pass collects the markers, and the second reports the others.  *)
ReportInv ==
    /\ pass = 1 => reported = <<>> /\ ToSet(completed) = {IdAt(p) : p \in SeenMarkers}
    /\ pass = 2 => /\ ToSet(completed) = MarkedIds
                   /\ reported = ReportedSoFar

(* How it ends.                                                             *)
ResultInv ==
    /\ result = "fatal" => \E k \in DOMAIN file.blocks : Spoilt(k) /\ ~IsLast(k)
    /\ result = "false" => \E p \in Positions : IdAt(p) = 0
    /\ result = "true"  => pass = 2 /\ blockPos = Len(file.blocks) /\ item = -1

VInv == PlaceInv /\ ReadInv /\ ReportInv /\ ResultInv

-----------------------------------------------------------------------------
(* The files that DbWAL may leave.                                          *)

LEMMA Sizes == Wal!BlockSize = 4096 /\ Wal!CountSize = 2 /\ Wal!ChecksumSize = 4 /\ Wal!MarkerSize = 8
BY DEF Wal!BlockSize, Wal!CountSize, Wal!ChecksumSize, Wal!MarkerSize

LEMMA BlockFacts ==
    ASSUME file \in Files
    PROVE  /\ Len(file.blocks) \in Nat /\ DOMAIN file.blocks = 1 .. Len(file.blocks)
           /\ file.tail \in BOOLEAN
           /\ \A k \in DOMAIN file.blocks :
                /\ file.blocks[k].state \in {"intact", "torn", "bad"}
                /\ Len(file.blocks[k].entries) \in Nat
                /\ DOMAIN file.blocks[k].entries = 1 .. Len(file.blocks[k].entries)
                /\ \A i \in DOMAIN file.blocks[k].entries :
                     /\ file.blocks[k].entries[i].id \in Nat
                     /\ file.blocks[k].entries[i].marker \in BOOLEAN
                /\ file.blocks[k].state = "intact" =>
                     Len(file.blocks[k].entries) > 0 /\ Len(file.blocks[k].entries) <= 511
<1>1. file.blocks \in Seq(Blocks) /\ file.tail \in BOOLEAN
  BY FilesAssumption
<1>2. Len(file.blocks) \in Nat /\ DOMAIN file.blocks = 1 .. Len(file.blocks)
  BY <1>1
<1>3. ASSUME NEW k \in DOMAIN file.blocks
      PROVE  /\ file.blocks[k].state \in {"intact", "torn", "bad"}
             /\ file.blocks[k].entries \in Seq(EntryRecords)
  <2>1. file.blocks[k] \in Blocks
    BY <1>1, <1>3
  <2> QED
    BY <2>1 DEF Blocks
<1>4. ASSUME NEW k \in DOMAIN file.blocks
      PROVE  /\ Len(file.blocks[k].entries) \in Nat
             /\ DOMAIN file.blocks[k].entries = 1 .. Len(file.blocks[k].entries)
             /\ \A i \in DOMAIN file.blocks[k].entries : file.blocks[k].entries[i] \in EntryRecords
  <2>1. PICK s : s = file.blocks[k].entries
    OBVIOUS
  <2>2. s \in Seq(EntryRecords)
    BY <2>1, <1>3
  <2>3. Len(s) \in Nat /\ DOMAIN s = 1 .. Len(s) /\ \A i \in DOMAIN s : s[i] \in EntryRecords
    BY <2>2
  <2> QED
    BY <2>1, <2>3
<1>5. ASSUME NEW k \in DOMAIN file.blocks, file.blocks[k].state = "intact"
      PROVE  Len(file.blocks[k].entries) > 0 /\ Len(file.blocks[k].entries) <= 511
  <2>1. PICK n : n = Len(file.blocks[k].entries)
    OBVIOUS
  <2>2. n > 0 /\ 2 + n * 8 <= 4096 - 4
    BY <2>1, <1>5, FilesAssumption, Sizes
  <2>3. n \in Nat
    BY <2>1, <1>4
  <2>4. n > 0 /\ n <= 511
    BY <2>2, <2>3
  <2> QED
    BY <2>1, <2>4
<1>6. \A e \in EntryRecords : e.id \in Nat /\ e.marker \in BOOLEAN
  BY DEF EntryRecords
<1> QED
  BY <1>1, <1>2, <1>3, <1>4, <1>5, <1>6

(* The positions, and that they differ by their places.                     *)
LEMMA PositionFacts ==
    ASSUME file \in Files
    PROVE  /\ \A p \in Positions :
                /\ p[1] \in DOMAIN file.blocks /\ file.blocks[p[1]].state = "intact"
                /\ p[2] \in DOMAIN file.blocks[p[1]].entries
                /\ p[1] \in Nat /\ p[2] \in 1 .. 511 /\ p = <<p[1], p[2]>>
                /\ IdAt(p) \in Nat /\ EntryAt(p).marker \in BOOLEAN
                /\ Place(p) \in Int
           /\ \A k \in DOMAIN file.blocks : file.blocks[k].state = "intact" =>
                \A i \in DOMAIN file.blocks[k].entries : <<k, i>> \in Positions
           /\ \A p, q \in Positions :
                /\ Place(p) = Place(q) => p = q
                /\ p[1] < q[1] \/ (p[1] = q[1] /\ p[2] < q[2]) => Place(p) < Place(q)
           /\ IsFiniteSet(Positions)
<1>1. ASSUME NEW p \in Positions
      PROVE  /\ p[1] \in DOMAIN file.blocks /\ file.blocks[p[1]].state = "intact"
             /\ p[2] \in DOMAIN file.blocks[p[1]].entries
             /\ p = <<p[1], p[2]>>
  <2>1. PICK k \in BlocksOf("intact") : p \in {k} \X DOMAIN file.blocks[k].entries
    BY <1>1 DEF Positions
  <2>2. p[1] = k /\ p[2] \in DOMAIN file.blocks[k].entries /\ p = <<p[1], p[2]>>
    BY <2>1
  <2> QED
    BY <2>1, <2>2 DEF BlocksOf
<1>2. ASSUME NEW p \in Positions
      PROVE  /\ p[1] \in Nat /\ p[2] \in 1 .. 511
             /\ IdAt(p) \in Nat /\ EntryAt(p).marker \in BOOLEAN
  <2>1. p[1] \in Nat
    BY <1>1, BlockFacts
  <2>2. p[2] \in 1 .. 511
    <3>1. PICK n : n = Len(file.blocks[p[1]].entries)
      OBVIOUS
    <3>2. n \in Nat /\ n <= 511 /\ p[2] \in 1 .. n
      BY <1>1, <3>1, BlockFacts
    <3> QED
      BY <3>2
  <2>3. IdAt(p) \in Nat /\ EntryAt(p).marker \in BOOLEAN
    BY <1>1, BlockFacts DEF IdAt, EntryAt
  <2> QED
    BY <2>1, <2>2, <2>3
<1>3. ASSUME NEW k \in DOMAIN file.blocks, file.blocks[k].state = "intact",
             NEW i \in DOMAIN file.blocks[k].entries
      PROVE  <<k, i>> \in Positions
  BY <1>3 DEF Positions, BlocksOf
<1>4. ASSUME NEW p \in Positions PROVE Place(p) \in Int /\ Place(p) = p[1] * 4096 + p[2]
  <2>1. PICK a, b : a = p[1] /\ b = p[2]
    OBVIOUS
  <2>2. Place(p) = a * 4096 + b /\ p[1] * 4096 + p[2] = a * 4096 + b
    BY <2>1, Sizes DEF Place
  <2>3. a \in Nat /\ b \in 1 .. 511
    BY <1>2, <2>1
  <2>4. a * 4096 + b \in Int
    BY <2>3
  <2> QED
    BY <2>2, <2>4
<1>5. ASSUME NEW p \in Positions, NEW q \in Positions
      PROVE  /\ Place(p) = Place(q) => p = q
             /\ p[1] < q[1] \/ (p[1] = q[1] /\ p[2] < q[2]) => Place(p) < Place(q)
  <2>1. PICK a \in Nat, b \in 1 .. 511, c \in Nat, d \in 1 .. 511 :
           a = p[1] /\ b = p[2] /\ c = q[1] /\ d = q[2]
    <3> p[1] \in Nat /\ p[2] \in 1 .. 511 /\ q[1] \in Nat /\ q[2] \in 1 .. 511
      BY <1>2
    <3> WITNESS p[1] \in Nat, p[2] \in 1 .. 511, q[1] \in Nat, q[2] \in 1 .. 511
    <3> QED
      OBVIOUS
  <2>2. a * 4096 + b = c * 4096 + d => a = c /\ b = d
    OBVIOUS
  <2>3. a < c \/ (a = c /\ b < d) => a * 4096 + b < c * 4096 + d
    OBVIOUS
  <2>4. p = <<a, b>> /\ q = <<c, d>>
    BY <1>1, <2>1
  <2> QED
    BY <2>1, <2>2, <2>3, <2>4, <1>4
<1>6. IsFiniteSet(Positions)
  <2>1. IsFiniteSet(1 .. Len(file.blocks)) /\ IsFiniteSet(1 .. 511)
    <3>1. PICK a \in Int, m \in Int, n \in Int : a = 1 /\ m = Len(file.blocks) /\ n = 511
      BY BlockFacts
    <3>2. IsFiniteSet(a .. m) /\ IsFiniteSet(a .. n)
      BY FS_Interval
    <3> QED
      BY <3>1, <3>2
  <2>2. IsFiniteSet((1 .. Len(file.blocks)) \X (1 .. 511))
    <3>1. PICK S, T : S = 1 .. Len(file.blocks) /\ T = 1 .. 511
      OBVIOUS
    <3>2. IsFiniteSet(S) /\ IsFiniteSet(T)
      BY <2>1, <3>1
    <3>3. IsFiniteSet(S \X T)
      BY <3>2, FS_Product
    <3> QED
      BY <3>1, <3>3
  <2>3. Positions \subseteq (1 .. Len(file.blocks)) \X (1 .. 511)
    <3>1. ASSUME NEW p \in Positions PROVE p \in (1 .. Len(file.blocks)) \X (1 .. 511)
      <4>1. p[1] \in 1 .. Len(file.blocks) /\ p[2] \in 1 .. 511 /\ p = <<p[1], p[2]>>
        BY <1>1, <1>2, BlockFacts
      <4> QED
        BY <4>1
    <3> QED
      BY <3>1
  <2> QED
    BY <2>2, <2>3, FS_Subset
<1> QED
  BY <1>1, <1>2, <1>3, <1>4, <1>5, <1>6

(* Some positions in the order of the file: the one after them comes last.  *)
LEMMA InFileOrderAppends ==
    ASSUME file \in Files, NEW S \in SUBSET Positions, NEW p \in Positions, p \notin S,
           \A q \in S : Place(q) < Place(p)
    PROVE  IdsAt(InFileOrder(S \cup {p})) = Append(IdsAt(InFileOrder(S)), IdAt(p))
<1> DEFINE key == [q \in S |-> Place(q)]
<1> DEFINE more == [q \in S \cup {p} |-> Place(q)]
<1>1. IsFiniteSet(S)
  BY PositionFacts, FS_Subset
<1>2. key \in [S -> Int] /\ more \in [S \cup {p} -> Int]
  BY PositionFacts
<1>3. \A d, e \in S : key[d] = key[e] => d = e
  BY PositionFacts
<1>4. \A e \in S : more[e] = key[e] /\ key[e] < more[p]
  OBVIOUS
<1> DEFINE n == Cardinality(S)
<1> DEFINE s == Ascending(key)
<1> DEFINE t == Ascending(more)
<1>5. /\ n \in Nat
      /\ t \in [1 .. n + 1 -> S \cup {p}]
      /\ \A i \in 1 .. n : t[i] = s[i]
      /\ t[n + 1] = p
  <2>1. PICK k, m : k = key /\ m = more
    OBVIOUS
  <2>2. k \in [S -> Int] /\ m \in [S \cup {p} -> Int]
    BY <1>2, <2>1
  <2>3. \A d, e \in S : k[d] = k[e] => d = e
    BY <1>3, <2>1
  <2>4. \A e \in S : m[e] = k[e] /\ k[e] < m[p]
    BY <1>4, <2>1
  <2>5. Ascending(m) \in [1 .. Cardinality(S) + 1 -> S \cup {p}]
    BY <1>1, <2>2, <2>3, <2>4, AscendingAppends
  <2>6. \A i \in 1 .. Cardinality(S) : Ascending(m)[i] = Ascending(k)[i]
    BY <1>1, <2>2, <2>3, <2>4, AscendingAppends
  <2>7. Ascending(m)[Cardinality(S) + 1] = p
    BY <1>1, <2>2, <2>3, <2>4, AscendingAppends
  <2>8. Cardinality(S) \in Nat
    BY <1>1, FS_CardinalityType
  <2> QED
    BY <2>1, <2>5, <2>6, <2>7, <2>8
<1>6. s \in [1 .. n -> S]
  <2> HIDE DEF key, more
  <2> QED
    BY <1>1, <1>2, <1>3, AscendingEnumerates
<1>7. InFileOrder(S) = s /\ InFileOrder(S \cup {p}) = t
  BY DEF InFileOrder
<1> HIDE DEF s, t, key, more, n
<1>8. ASSUME NEW i \in 1 .. n PROVE EntryAt(s[i]).id \in Nat
  BY <1>6, <1>8, PositionFacts DEF IdAt
<1>9. IdsAt(s) \in [1 .. n -> Nat] /\ IdsAt(t) = [i \in 1 .. n + 1 |-> EntryAt(t[i]).id]
  BY <1>5, <1>6, <1>8 DEF IdsAt
<1>10. IdsAt(s) \in Seq(Nat) /\ Len(IdsAt(s)) = n
  BY <1>5, <1>9
<1>11. /\ Append(IdsAt(s), IdAt(p)) \in [1 .. n + 1 -> Nat]
       /\ \A i \in 1 .. n + 1 :
            Append(IdsAt(s), IdAt(p))[i] = IF i = n + 1 THEN IdAt(p) ELSE IdsAt(s)[i]
  <2>1. PICK z : z = IdsAt(s)
    OBVIOUS
  <2>2. PICK x \in Nat : x = IdAt(p)
    BY PositionFacts
  <2>3. z \in Seq(Nat) /\ Len(z) = n
    BY <1>10, <2>1
  <2>4. PICK a : a = Append(z, x)
    OBVIOUS
  <2>5. /\ a \in Seq(Nat) /\ Len(a) = n + 1
        /\ \A i \in 1 .. n + 1 : a[i] = IF i = n + 1 THEN x ELSE z[i]
    BY <2>3, <2>4, <1>5
  <2>6. a \in [1 .. n + 1 -> Nat]
    BY <2>5
  <2> QED
    BY <2>1, <2>2, <2>4, <2>5, <2>6
<1>12. ASSUME NEW i \in 1 .. n + 1
       PROVE  EntryAt(t[i]).id = IF i = n + 1 THEN IdAt(p) ELSE IdsAt(s)[i]
  <2>1. CASE i = n + 1
    BY <2>1, <1>5 DEF IdAt
  <2>2. CASE i # n + 1
    <3>1. i \in 1 .. n
      BY <2>2, <1>5
    <3>2. IdsAt(s)[i] = EntryAt(s[i]).id
      BY <3>1, <1>6 DEF IdsAt
    <3> QED
      BY <2>2, <3>1, <3>2, <1>5
  <2> QED
    BY <2>1, <2>2
<1> QED
  <2>1. PICK a : a = Append(IdsAt(s), IdAt(p))
    OBVIOUS
  <2>2. DOMAIN a = 1 .. n + 1 /\ a = [i \in 1 .. n + 1 |-> a[i]]
    BY <1>11, <2>1
  <2>3. \A i \in 1 .. n + 1 : a[i] = EntryAt(t[i]).id
    BY <1>11, <1>12, <2>1
  <2> QED
    BY <1>7, <1>9, <2>1, <2>2, <2>3

-----------------------------------------------------------------------------
(* Each step of the loops preserves the invariant.                          *)

LEMMA SameFile ==
    ASSUME file' = file
    PROVE  /\ Positions' = Positions /\ UnfinishedAt' = UnfinishedAt /\ MarkedIds' = MarkedIds
           /\ \A p : EntryAt(p)' = EntryAt(p) /\ IdAt(p)' = IdAt(p)
           /\ \A k : IsLast(k)' = IsLast(k) /\ Spoilt(k)' = Spoilt(k)
           /\ ReportedSoFar' = IdsAt(InFileOrder(UnfinishedAt \cap SeenAt'))
<1>1. /\ Positions' = Positions
      /\ \A p : EntryAt(p)' = EntryAt(p) /\ IdAt(p)' = IdAt(p)
      /\ \A k : IsLast(k)' = IsLast(k) /\ Spoilt(k)' = Spoilt(k)
  BY DEF Positions, BlocksOf, EntryAt, IdAt, IsLast, Spoilt
<1>2. MarkedIds' = MarkedIds
  BY <1>1 DEF MarkedIds, AllEntries
<1>3. UnfinishedAt' = UnfinishedAt
  BY <1>1, <1>2 DEF UnfinishedAt
<1>4. ReportedSoFar' = IdsAt(InFileOrder(UnfinishedAt \cap SeenAt'))
  BY <1>3 DEF ReportedSoFar, IdsAt, InFileOrder, EntryAt
<1> QED
  BY <1>1, <1>2, <1>3, <1>4

(* A step that reads no entry: what was reported stays what it was.         *)
LEMMA QuietKeepsReports ==
    ASSUME ReportInv, file' = file, SeenAt' = SeenAt, pass' = pass,
           completed' = completed, reported' = reported
    PROVE  ReportInv'
<1>1. ReportedSoFar' = ReportedSoFar
  BY SameFile DEF ReportedSoFar
<1>2. SeenMarkers' = SeenMarkers /\ \A p : IdAt(p)' = IdAt(p)
  BY SameFile DEF SeenMarkers
<1>3. MarkedIds' = MarkedIds
  BY SameFile
<1> QED
  BY <1>1, <1>2, <1>3 DEF ReportInv

LEMMA ReadFailsKeeps == VInv /\ ReadFails => VInv'
<1> SUFFICES ASSUME VInv, ReadFails PROVE VInv'
  OBVIOUS
<1> USE DEF VInv
<1>1. /\ file' = file /\ pass' = pass /\ blockPos' = blockPos /\ item' = item
      /\ completed' = completed /\ reported' = reported
      /\ result = "none" /\ item = -1 /\ blockPos < Len(file.blocks)
      /\ file.blocks[blockPos + 1].state = "bad"
      /\ result' = (IF IsLastBlock THEN result ELSE "fatal") /\ turn' = 1 - turn
  BY DEF ReadFails, Reading, BlockAhead
<1>2. SeenAt' = SeenAt
  BY <1>1, SameFile DEF SeenAt, Seen
<1>3. PlaceInv'
  BY <1>1 DEF PlaceInv, Entries
<1>4. ReadInv'
  BY <1>1, <1>2, SameFile DEF ReadInv
<1>5. ReportInv'
  BY <1>1, <1>2, QuietKeepsReports
<1>6. ResultInv'
  <2>1. CASE IsLastBlock
    BY <1>1, <2>1 DEF ResultInv
  <2>2. CASE ~IsLastBlock
    <3>1. /\ Len(file.blocks) \in Nat /\ DOMAIN file.blocks = 1 .. Len(file.blocks)
          /\ file.tail \in BOOLEAN /\ blockPos \in Nat
      BY BlockFacts DEF PlaceInv
    <3>2. blockPos + 1 \in DOMAIN file.blocks /\ Spoilt(blockPos + 1) /\ ~IsLast(blockPos + 1)
      BY <1>1, <2>2, <3>1 DEF IsLastBlock, Remaining, IsLast, Spoilt
    <3>3. Spoilt(blockPos + 1)' /\ ~IsLast(blockPos + 1)'
      BY <1>1, <3>2 DEF Spoilt, IsLast
    <3> QED
      BY <1>1, <2>2, <3>2, <3>3 DEF ResultInv, Spoilt, IsLast
  <2> QED
    BY <2>1, <2>2
<1> QED
  BY <1>3, <1>4, <1>5, <1>6

LEMMA ChecksumFailsKeeps == VInv /\ ChecksumFails => VInv'
<1> SUFFICES ASSUME VInv, ChecksumFails PROVE VInv'
  OBVIOUS
<1> USE DEF VInv
<1>1. /\ file' = file /\ pass' = pass /\ blockPos' = blockPos + 1 /\ item' = item
      /\ completed' = completed /\ reported' = reported /\ turn' = turn
      /\ result = "none" /\ item = -1 /\ blockPos < Len(file.blocks)
      /\ file.blocks[blockPos + 1].state = "torn"
      /\ result' = (IF IsLastBlock THEN result ELSE "fatal")
  BY DEF ChecksumFails, Reading, BlockAhead
<1>2. /\ Len(file.blocks) \in Nat /\ DOMAIN file.blocks = 1 .. Len(file.blocks)
      /\ file.tail \in BOOLEAN /\ blockPos \in Nat /\ blockPos + 1 \in DOMAIN file.blocks
  <2>1. Len(file.blocks) \in Nat /\ DOMAIN file.blocks = 1 .. Len(file.blocks) /\ file.tail \in BOOLEAN
    BY BlockFacts DEF PlaceInv
  <2> QED
    BY <1>1, <2>1 DEF PlaceInv
<1>3. SeenAt' = SeenAt
  <2>1. ASSUME NEW p \in Positions PROVE Seen(p)' <=> Seen(p)
    <3>1. p[1] \in Nat /\ p[1] # blockPos + 1
      BY <1>1, PositionFacts DEF PlaceInv
    <3> QED
      BY <1>1, <1>2, <3>1 DEF Seen
  <2> QED
    BY <1>1, <2>1, SameFile DEF SeenAt
<1>4. PlaceInv'
  BY <1>1, <1>2 DEF PlaceInv, Entries
<1>5. IsLast(blockPos + 1) <=> IsLastBlock
  BY <1>2 DEF IsLast, IsLastBlock, Remaining
<1>6. ReadInv'
  <2>1. ASSUME result' # "fatal", NEW k \in DOMAIN file.blocks, k <= blockPos + 1 \/ pass = 2
        PROVE  file.blocks[k].state # "bad" /\ (file.blocks[k].state = "torn" => IsLast(k))
    <3>1. CASE k = blockPos + 1
      BY <1>1, <1>5, <2>1, <3>1
    <3>2. CASE k # blockPos + 1
      <4>1. k <= blockPos \/ pass = 2
        BY <1>2, <2>1, <3>2
      <4> QED
        BY <1>1, <2>1, <4>1 DEF ReadInv
    <3> QED
      BY <3>1, <3>2
  <2>2. \A p \in Positions : p \in SeenAt \/ pass = 2 => IdAt(p) # 0
    BY DEF ReadInv
  <2> QED
    BY <1>1, <1>3, <2>1, <2>2, SameFile DEF ReadInv
<1>7. ReportInv'
  BY <1>1, <1>3, QuietKeepsReports
<1>8. ResultInv'
  <2>1. CASE IsLastBlock
    BY <1>1, <2>1 DEF ResultInv
  <2>2. CASE ~IsLastBlock
    <3>1. Spoilt(blockPos + 1) /\ ~IsLast(blockPos + 1)
      BY <1>1, <1>5, <2>2 DEF Spoilt
    <3> QED
      BY <1>1, <1>2, <2>2, <3>1 DEF ResultInv, Spoilt, IsLast
  <2> QED
    BY <2>1, <2>2
<1> QED
  BY <1>4, <1>6, <1>7, <1>8

LEMMA ReadBlockKeeps == VInv /\ ReadBlock => VInv'
<1> SUFFICES ASSUME VInv, ReadBlock PROVE VInv'
  OBVIOUS
<1> USE DEF VInv
<1>1. /\ Len(file.blocks) \in Nat /\ DOMAIN file.blocks = 1 .. Len(file.blocks) /\ file \in Files
      /\ blockPos \in Nat /\ blockPos < Len(file.blocks) /\ blockPos + 1 \in DOMAIN file.blocks
  <2>1. Len(file.blocks) \in Nat /\ DOMAIN file.blocks = 1 .. Len(file.blocks)
    BY BlockFacts DEF PlaceInv
  <2> QED
    BY <2>1 DEF PlaceInv, ReadBlock, BlockAhead
<1>2. Len(file.blocks[blockPos + 1].entries) > 0 /\ file.blocks[blockPos + 1].entries # <<>>
  <2>1. PICK s : s = file.blocks[blockPos + 1].entries
    OBVIOUS
  <2>2. Len(s) > 0
    BY <1>1, <2>1, BlockFacts DEF ReadBlock
  <2>3. s # <<>>
    BY <2>2
  <2> QED
    BY <2>1, <2>2, <2>3
<1>3. /\ file' = file /\ pass' = pass /\ blockPos' = blockPos + 1 /\ item' = 0
      /\ completed' = completed /\ reported' = reported /\ turn' = turn
      /\ result = "none" /\ result' = result /\ item = -1
      /\ file.blocks[blockPos + 1].state = "intact"
  BY <1>2 DEF ReadBlock, Reading
<1>4. SeenAt' = SeenAt
  <2>1. ASSUME NEW p \in Positions PROVE Seen(p)' <=> Seen(p)
    <3>1. PICK a, b : a = p[1] /\ b = p[2]
      OBVIOUS
    <3>2. a \in Nat /\ b \in 1 .. 511
      BY <1>1, <3>1, PositionFacts
    <3>3. Seen(p) <=> a < blockPos \/ a = blockPos
      BY <1>3, <3>1 DEF Seen
    <3>4. Seen(p)' <=> a < blockPos + 1 \/ (a = blockPos + 1 /\ b <= 0)
      BY <1>3, <3>1 DEF Seen
    <3> QED
      BY <1>1, <3>2, <3>3, <3>4
  <2> QED
    BY <1>3, <2>1, SameFile DEF SeenAt
<1>5. PlaceInv'
  BY <1>1, <1>2, <1>3 DEF PlaceInv, Entries
<1>6. ReadInv'
  <2>1. ASSUME NEW k \in DOMAIN file.blocks, k <= blockPos + 1 \/ pass = 2
        PROVE  file.blocks[k].state # "bad" /\ (file.blocks[k].state = "torn" => IsLast(k))
    <3>1. CASE k = blockPos + 1
      BY <1>3, <3>1
    <3>2. CASE k # blockPos + 1
      <4>1. k <= blockPos \/ pass = 2
        BY <1>1, <2>1, <3>2
      <4> QED
        BY <1>3, <2>1, <4>1 DEF ReadInv
    <3> QED
      BY <3>1, <3>2
  <2>2. \A p \in Positions : p \in SeenAt \/ pass = 2 => IdAt(p) # 0
    BY DEF ReadInv
  <2> QED
    BY <1>3, <1>4, <2>1, <2>2, SameFile DEF ReadInv
<1>7. ReportInv'
  BY <1>3, <1>4, QuietKeepsReports
<1>8. ResultInv'
  BY <1>3 DEF ResultInv
<1> QED
  BY <1>5, <1>6, <1>7, <1>8

LEMMA AppendToSet ==
    ASSUME NEW s \in Seq(Nat), NEW x \in Nat
    PROVE  Append(s, x) \in Seq(Nat) /\ ToSet(Append(s, x)) = ToSet(s) \cup {x}
<1>1. /\ Append(s, x) \in Seq(Nat) /\ Len(s) \in Nat
      /\ DOMAIN s = 1 .. Len(s) /\ DOMAIN Append(s, x) = 1 .. Len(s) + 1
      /\ \A i \in 1 .. Len(s) : Append(s, x)[i] = s[i]
      /\ Append(s, x)[Len(s) + 1] = x
  OBVIOUS
<1> QED
  BY <1>1 DEF ToSet

(* A block is loaded.                                                       *)
LEMMA EntryAhead ==
    ASSUME PlaceInv, item # -1
    PROVE  /\ file \in Files /\ blockPos \in Nat /\ item \in Nat /\ item < Len(Entries)
           /\ blockPos \in DOMAIN file.blocks /\ file.blocks[blockPos].state = "intact"
           /\ Len(Entries) \in Nat /\ DOMAIN Entries = 1 .. Len(Entries)
<1>1. file \in Files
  BY DEF PlaceInv
<1>2. blockPos \in DOMAIN file.blocks
  BY <1>1, BlockFacts DEF PlaceInv
<1> QED
  BY <1>1, <1>2, BlockFacts DEF PlaceInv, Entries

(* The next entry comes after all that were read.                           *)
LEMMA NextPosition ==
    ASSUME PlaceInv, item # -1, NEW p, p = <<blockPos, item + 1>>
    PROVE  /\ p \in Positions /\ EntryAt(p) = Entries[item + 1]
           /\ p \notin SeenAt /\ \A q \in SeenAt : Place(q) < Place(p)
<1>1. /\ file \in Files /\ blockPos \in Nat /\ item \in Nat /\ item < Len(Entries)
      /\ blockPos \in DOMAIN file.blocks /\ file.blocks[blockPos].state = "intact"
      /\ Len(Entries) \in Nat /\ DOMAIN Entries = 1 .. Len(Entries)
  BY EntryAhead
<1>2. item + 1 \in DOMAIN Entries
  BY <1>1
<1>3. p \in Positions /\ EntryAt(p) = Entries[item + 1]
  BY <1>1, <1>2, PositionFacts DEF Entries, EntryAt
<1>4. p[1] = blockPos /\ p[2] = item + 1
  OBVIOUS
<1>5. p \notin SeenAt
  BY <1>1, <1>4 DEF SeenAt, Seen
<1>6. ASSUME NEW q \in SeenAt PROVE Place(q) < Place(p)
  <2>1. q \in Positions /\ Seen(q) /\ q[1] \in Nat /\ q[2] \in 1 .. 511
    BY <1>1, PositionFacts DEF SeenAt
  <2>2. q[1] < p[1] \/ (q[1] = p[1] /\ q[2] < p[2])
    <3>1. PICK a, b : a = q[1] /\ b = q[2]
      OBVIOUS
    <3>2. a < blockPos \/ (a = blockPos /\ b <= item)
      BY <1>1, <2>1, <3>1 DEF Seen
    <3>3. a \in Nat /\ b \in Nat
      BY <2>1, <3>1
    <3>4. a < blockPos \/ (a = blockPos /\ b < item + 1)
      BY <1>1, <3>2, <3>3
    <3> QED
      BY <1>4, <3>1, <3>4
  <2> QED
    BY <1>1, <1>3, <2>1, <2>2, PositionFacts
<1> QED
  BY <1>3, <1>5, <1>6

LEMMA NextSeen ==
    ASSUME PlaceInv, item # -1, NEW p, p = <<blockPos, item + 1>>,
           file' = file, blockPos' = blockPos, item' = NextItem
    PROVE  SeenAt' = SeenAt \cup {p}
<1>1. ASSUME NEW q \in Positions PROVE Seen(q)' <=> Seen(q) \/ q = p
  <2>1. PICK a, b : a = q[1] /\ b = q[2]
    OBVIOUS
  <2>2. a \in Nat /\ b \in 1 .. 511 /\ q = <<a, b>>
    BY EntryAhead, <2>1, PositionFacts
  <2>3. a = blockPos => b <= Len(Entries)
    <3>1. q[2] \in DOMAIN file.blocks[q[1]].entries
      BY EntryAhead, PositionFacts
    <3>2. a = blockPos => b \in DOMAIN Entries
      BY <2>1, <3>1 DEF Entries
    <3> QED
      BY EntryAhead, <2>2, <3>2
  <2>4. q = p <=> a = blockPos /\ b = item + 1
    BY <2>2
  <2>5. Seen(q) <=> a < blockPos \/ (a = blockPos /\ b <= item)
    BY EntryAhead, <2>1 DEF Seen
  <2>6. Seen(q)' <=> a < blockPos \/ (a = blockPos /\ (item' = -1 \/ b <= item'))
    BY <2>1 DEF Seen
  <2>7. CASE item + 1 = Len(Entries)
    <3>1. item' = -1
      BY <2>7 DEF NextItem
    <3>2. a = blockPos => (b <= item \/ b = item + 1)
      BY EntryAhead, <2>2, <2>3, <2>7
    <3> QED
      BY <2>4, <2>5, <2>6, <3>1, <3>2
  <2>8. CASE item + 1 # Len(Entries)
    <3>1. item' = item + 1
      BY <2>8 DEF NextItem
    <3>2. b <= item + 1 <=> b <= item \/ b = item + 1
      BY EntryAhead, <2>2
    <3> QED
      BY EntryAhead, <2>4, <2>5, <2>6, <3>1, <3>2
  <2> QED
    BY <2>7, <2>8
<1> QED
  BY NextPosition, <1>1, SameFile DEF SeenAt

(* An entry whose ID is 0 ends the verification.                            *)
LEMMA BadEntryKeeps ==
    ASSUME VInv, ReadEntry, Entries[item + 1].id = 0
    PROVE  VInv'
<1> USE DEF VInv
<1>1. /\ file' = file /\ pass' = pass /\ blockPos' = blockPos /\ item' = item
      /\ completed' = completed /\ reported' = reported /\ turn' = turn
      /\ result = "none" /\ result' = "false" /\ item # -1
  BY DEF ReadEntry
<1>2. PICK p : p = <<blockPos, item + 1>>
  OBVIOUS
<1>3. p \in Positions /\ IdAt(p) = 0
  BY <1>1, <1>2, NextPosition DEF IdAt
<1>4. SeenAt' = SeenAt
  BY <1>1, SameFile DEF SeenAt, Seen
<1>5. PlaceInv'
  BY <1>1 DEF PlaceInv, Entries
<1>6. ReadInv'
  BY <1>1, <1>4, SameFile DEF ReadInv
<1>7. ReportInv'
  BY <1>1, <1>4, QuietKeepsReports
<1>8. ResultInv'
  BY <1>1, <1>3, SameFile DEF ResultInv
<1> QED
  BY <1>5, <1>6, <1>7, <1>8

(* In the second pass the markers are skipped: they complete themselves.    *)
LEMMA EntryIsRead ==
    ASSUME VInv, ReadEntry, Entries[item + 1].id # 0, NEW p, p = <<blockPos, item + 1>>
    PROVE  /\ file' = file /\ pass' = pass /\ blockPos' = blockPos /\ turn' = turn
           /\ item # -1 /\ item' = NextItem /\ result = "none" /\ result' = result
           /\ completed' = (IF pass = 1 /\ EntryAt(p).marker
                              THEN Append(completed, IdAt(p)) ELSE completed)
           /\ reported' = (IF pass = 2 /\ p \in UnfinishedAt
                              THEN Append(reported, IdAt(p)) ELSE reported)
<1> USE DEF VInv
<1>1. /\ file' = file /\ pass' = pass /\ blockPos' = blockPos /\ turn' = turn
      /\ item # -1 /\ item' = NextItem /\ result = "none"
  BY DEF ReadEntry
<1>2. p \in Positions /\ EntryAt(p) = Entries[item + 1] /\ IdAt(p) = Entries[item + 1].id
  BY <1>1, NextPosition DEF IdAt
<1>3. completed' = (IF pass = 1 /\ EntryAt(p).marker THEN Append(completed, IdAt(p)) ELSE completed)
  BY <1>2 DEF ReadEntry
<1>4. CASE pass = 1
  BY <1>1, <1>2, <1>3, <1>4 DEF ReadEntry, SkipEntry
<1>5. CASE pass = 2
  <2>1. IsCompleted(IdAt(p)) <=> IdAt(p) \in MarkedIds
    BY <1>5 DEF ReportInv, IsCompleted
  <2>2. EntryAt(p).marker => IdAt(p) \in MarkedIds
    BY <1>2 DEF MarkedIds, AllEntries, IdAt
  <2>3. p \in UnfinishedAt <=> IdAt(p) \notin MarkedIds
    BY <1>2, <2>2 DEF UnfinishedAt, IdAt
  <2>4. SkipEntry(Entries[item + 1]) <=> p \notin UnfinishedAt
    BY <1>2, <1>5, <2>1, <2>3 DEF SkipEntry
  <2>5. CASE p \notin UnfinishedAt
    BY <1>1, <1>3, <1>5, <2>4, <2>5 DEF ReadEntry
  <2>6. CASE p \in UnfinishedAt
    <3>1. ~Entries[item + 1].marker
      BY <1>2, <2>2, <2>3, <2>6
    <3> QED
      BY <1>1, <1>2, <1>3, <1>5, <2>4, <2>6, <3>1 DEF ReadEntry
  <2> QED
    BY <2>5, <2>6
<1>6. pass = 1 \/ pass = 2
  BY DEF PlaceInv
<1> QED
  BY <1>4, <1>5, <1>6

LEMMA GoodEntryKeeps ==
    ASSUME VInv, ReadEntry, Entries[item + 1].id # 0
    PROVE  VInv'
<1> USE DEF VInv
<1>0. PICK p : p = <<blockPos, item + 1>>
  OBVIOUS
<1>1. /\ file' = file /\ pass' = pass /\ blockPos' = blockPos /\ turn' = turn
      /\ item # -1 /\ item' = NextItem /\ result = "none" /\ result' = result
      /\ completed' = (IF pass = 1 /\ EntryAt(p).marker
                         THEN Append(completed, IdAt(p)) ELSE completed)
      /\ reported' = (IF pass = 2 /\ p \in UnfinishedAt
                         THEN Append(reported, IdAt(p)) ELSE reported)
  BY <1>0, EntryIsRead
<1>2. /\ p \in Positions /\ EntryAt(p) = Entries[item + 1]
      /\ p \notin SeenAt /\ \A q \in SeenAt : Place(q) < Place(p)
  BY <1>0, <1>1, NextPosition
<1>3. SeenAt' = SeenAt \cup {p}
  BY <1>0, <1>1, NextSeen
<1>4. file \in Files /\ IdAt(p) \in Nat /\ IdAt(p) # 0 /\ EntryAt(p).marker \in BOOLEAN
  BY <1>2, PositionFacts DEF PlaceInv, IdAt
<1>5. PlaceInv'
  <2>1. completed' \in Seq(Nat) /\ reported' \in Seq(Nat)
    BY <1>1, <1>4, AppendToSet DEF PlaceInv
  <2>2. item' = -1 \/ (item' \in Nat /\ item' < Len(Entries))
    <3>1. item \in Nat /\ item < Len(Entries)
      BY <1>1 DEF PlaceInv
    <3>2. Len(Entries) \in Nat
      <4>1. blockPos \in DOMAIN file.blocks
        BY <1>1, <1>4, BlockFacts DEF PlaceInv
      <4> QED
        BY <4>1, <1>4, BlockFacts DEF Entries
    <3> QED
      BY <1>1, <3>1, <3>2 DEF NextItem
  <2>3. Entries' = Entries
    BY <1>1 DEF Entries
  <2> QED
    BY <1>1, <2>1, <2>2, <2>3 DEF PlaceInv
<1>6. ReadInv'
  <2>1. \A q \in Positions : q \in SeenAt \cup {p} \/ pass = 2 => IdAt(q) # 0
    BY <1>4 DEF ReadInv
  <2> QED
    BY <1>1, <1>3, <2>1, SameFile DEF ReadInv
<1>7. ReportInv'
  <2>1. CASE pass = 1
    <3>1. reported' = <<>> /\ ToSet(completed) = {IdAt(q) : q \in SeenMarkers}
      BY <1>1, <2>1 DEF ReportInv
    <3>2. SeenMarkers' = SeenMarkers \cup (IF EntryAt(p).marker THEN {p} ELSE {})
      BY <1>1, <1>3, SameFile DEF SeenMarkers
    <3>3. ToSet(completed') = {IdAt(q) : q \in SeenMarkers'}
      <4>1. CASE EntryAt(p).marker
        <5>1. ToSet(completed') = ToSet(completed) \cup {IdAt(p)}
          BY <1>1, <1>4, <2>1, <4>1, AppendToSet DEF PlaceInv
        <5> QED
          BY <3>1, <3>2, <4>1, <5>1
      <4>2. CASE ~EntryAt(p).marker
        BY <1>1, <3>1, <3>2, <4>2
      <4> QED
        BY <4>1, <4>2
    <3>4. \A q : IdAt(q)' = IdAt(q)
      BY <1>1, SameFile
    <3> QED
      BY <1>1, <2>1, <3>1, <3>3, <3>4 DEF ReportInv
  <2>2. CASE pass = 2
    <3>1. completed' = completed /\ ToSet(completed) = MarkedIds /\ reported = ReportedSoFar
      BY <1>1, <2>2 DEF ReportInv
    <3>2. reported' = IdsAt(InFileOrder(UnfinishedAt \cap (SeenAt \cup {p})))
      <4>1. PICK S : S = UnfinishedAt \cap SeenAt
        OBVIOUS
      <4>2. reported = IdsAt(InFileOrder(S))
        BY <3>1, <4>1 DEF ReportedSoFar
      <4>3. CASE p \in UnfinishedAt
        <5>1. UnfinishedAt \cap (SeenAt \cup {p}) = S \cup {p}
          BY <4>1, <4>3
        <5>2. S \in SUBSET Positions /\ p \notin S /\ \A q \in S : Place(q) < Place(p)
          BY <1>2, <4>1 DEF UnfinishedAt
        <5>3. IdsAt(InFileOrder(S \cup {p})) = Append(IdsAt(InFileOrder(S)), IdAt(p))
          BY <1>2, <1>4, <5>2, InFileOrderAppends
        <5> QED
          BY <1>1, <2>2, <4>2, <4>3, <5>1, <5>3
      <4>4. CASE p \notin UnfinishedAt
        <5>1. UnfinishedAt \cap (SeenAt \cup {p}) = S
          BY <4>1, <4>4
        <5> QED
          BY <1>1, <4>2, <4>4, <5>1
      <4> QED
        BY <4>3, <4>4
    <3>3. ReportedSoFar' = reported' /\ MarkedIds' = MarkedIds
      BY <1>1, <1>3, <3>2, SameFile
    <3> QED
      BY <1>1, <2>2, <3>1, <3>3 DEF ReportInv
  <2> QED
    BY <2>1, <2>2 DEF PlaceInv
<1>8. ResultInv'
  BY <1>1 DEF ResultInv
<1> QED
  BY <1>5, <1>6, <1>7, <1>8

LEMMA AllSeen ==
    ASSUME file \in Files, item = -1, blockPos = Len(file.blocks)
    PROVE  SeenAt = Positions
<1>1. Len(file.blocks) \in Nat /\ DOMAIN file.blocks = 1 .. Len(file.blocks)
  BY BlockFacts
<1>2. ASSUME NEW p \in Positions PROVE Seen(p)
  <2>1. p[1] \in 1 .. Len(file.blocks)
    BY <1>1, PositionFacts
  <2> QED
    BY <1>1, <2>1 DEF Seen
<1> QED
  BY <1>2 DEF SeenAt

LEMMA NoneInOrder == IdsAt(InFileOrder({})) = <<>>
<1>1. Cardinality({}) = 0
  BY FS_EmptySet
<1>2. Ascending([p \in {} |-> Place(p)]) = [i \in 1 .. 0 |-> CHOOSE e \in {} : TRUE] 
  <2>1. DOMAIN [p \in {} |-> Place(p)] = {}
    OBVIOUS
  <2>2. 1 .. 0 = {}
    OBVIOUS
  <2> QED
    BY <1>1, <2>1, <2>2 DEF Ascending
<1>3. DOMAIN InFileOrder({}) = {}
  BY <1>2 DEF InFileOrder
<1>4. IdsAt(InFileOrder({})) = [i \in {} |-> EntryAt(InFileOrder({})[i]).id]
  BY <1>3 DEF IdsAt
<1> QED
  BY <1>4

LEMMA EndPassKeeps == VInv /\ EndPass => VInv'
<1> SUFFICES ASSUME VInv, EndPass PROVE VInv'
  OBVIOUS
<1> USE DEF VInv
<1>1. /\ file' = file /\ item' = item /\ completed' = completed /\ reported' = reported
      /\ turn' = turn /\ result = "none" /\ item = -1 /\ ~(blockPos < Len(file.blocks))
      /\ IF pass = 1 THEN pass' = 2 /\ blockPos' = 0 /\ result' = result
                     ELSE result' = "true" /\ pass' = pass /\ blockPos' = blockPos
  BY DEF EndPass, Reading, BlockAhead
<1>2. /\ file \in Files /\ Len(file.blocks) \in Nat /\ DOMAIN file.blocks = 1 .. Len(file.blocks)
      /\ blockPos = Len(file.blocks)
  <2>1. file \in Files /\ Len(file.blocks) \in Nat /\ DOMAIN file.blocks = 1 .. Len(file.blocks)
    BY BlockFacts DEF PlaceInv
  <2> QED
    BY <1>1, <2>1 DEF PlaceInv
<1>3. SeenAt = Positions
  BY <1>1, <1>2, AllSeen
<1>4. PlaceInv'
  BY <1>1, <1>2 DEF PlaceInv
<1>5. /\ \A k \in DOMAIN file.blocks :
            file.blocks[k].state # "bad" /\ (file.blocks[k].state = "torn" => IsLast(k))
      /\ \A p \in Positions : IdAt(p) # 0
  BY <1>1, <1>2, <1>3 DEF ReadInv
<1>6. ReadInv'
  BY <1>1, <1>5, SameFile DEF ReadInv
<1>7. CASE pass = 1
  <2>1. SeenAt' = {}
    <3>1. ASSUME NEW p \in Positions PROVE ~Seen(p)'
      <4>1. p[1] \in 1 .. Len(file.blocks)
        BY <1>2, PositionFacts
      <4> QED
        BY <1>1, <1>2, <1>7, <4>1 DEF Seen
    <3> QED
      BY <1>1, <3>1, SameFile DEF SeenAt
  <2>2. ToSet(completed') = MarkedIds
    <3>1. ToSet(completed) = {IdAt(p) : p \in SeenMarkers}
      BY <1>7 DEF ReportInv
    <3>2. {IdAt(p) : p \in SeenMarkers} = MarkedIds
      BY <1>3 DEF SeenMarkers, MarkedIds, AllEntries, IdAt
    <3> QED
      BY <1>1, <3>1, <3>2
  <2>3. reported' = ReportedSoFar'
    <3>1. UnfinishedAt \cap SeenAt' = {}
      BY <2>1
    <3>2. ReportedSoFar' = IdsAt(InFileOrder({}))
      BY <1>1, <3>1, SameFile
    <3> QED
      BY <1>1, <1>7, <3>2, NoneInOrder DEF ReportInv
  <2>4. ReportInv'
    BY <1>1, <1>7, <2>2, <2>3, SameFile DEF ReportInv
  <2>5. ResultInv'
    BY <1>1, <1>7 DEF ResultInv
  <2> QED
    BY <1>4, <1>6, <2>4, <2>5
<1>8. CASE pass # 1
  <2>1. pass = 2
    BY <1>8 DEF PlaceInv
  <2>2. SeenAt' = SeenAt
    BY <1>1, <1>8, SameFile DEF SeenAt, Seen
  <2>3. ReportInv'
    BY <1>1, <1>8, <2>2, QuietKeepsReports
  <2>4. ResultInv'
    BY <1>1, <1>2, <1>8, <2>1 DEF ResultInv
  <2> QED
    BY <1>4, <1>6, <2>3, <2>4
<1> QED
  BY <1>7, <1>8

LEMMA StepKeeps == VInv /\ [Next]_vars => VInv'
<1> SUFFICES ASSUME VInv, [Next]_vars PROVE VInv'
  OBVIOUS
<1>1. CASE Next
  <2>1. ReadEntry => VInv'
    BY BadEntryKeeps, GoodEntryKeeps
  <2> QED
    BY <1>1, <2>1, ReadFailsKeeps, ChecksumFailsKeeps, ReadBlockKeeps, EndPassKeeps DEF Next
<1>2. CASE UNCHANGED vars
  <2>1. /\ file' = file /\ pass' = pass /\ blockPos' = blockPos /\ item' = item
        /\ completed' = completed /\ reported' = reported /\ turn' = turn /\ result' = result
    BY <1>2 DEF vars
  <2>2. SeenAt' = SeenAt
    BY <2>1, SameFile DEF SeenAt, Seen
  <2>3. PlaceInv'
    BY <2>1 DEF VInv, PlaceInv, Entries
  <2>4. ReadInv'
    BY <2>1, <2>2, SameFile DEF VInv, ReadInv
  <2>5. ReportInv'
    BY <2>1, <2>2, QuietKeepsReports DEF VInv
  <2>6. ResultInv'
    BY <2>1, SameFile DEF VInv, ResultInv
  <2> QED
    BY <2>3, <2>4, <2>5, <2>6 DEF VInv
<1> QED
  BY <1>1, <1>2

LEMMA StartIsSound == Init => VInv
<1> SUFFICES ASSUME Init PROVE VInv
  OBVIOUS
<1>1. /\ file \in Files /\ pass = 1 /\ blockPos = 0 /\ item = -1
      /\ completed = <<>> /\ reported = <<>> /\ result = "none" /\ turn = 0
  BY DEF Init
<1>2. Len(file.blocks) \in Nat /\ DOMAIN file.blocks = 1 .. Len(file.blocks)
  BY <1>1, BlockFacts
<1>3. SeenAt = {}
  <2>1. ASSUME NEW p \in Positions PROVE ~Seen(p)
    <3>1. p[1] \in 1 .. Len(file.blocks)
      BY <1>1, <1>2, PositionFacts
    <3> QED
      BY <1>1, <1>2, <3>1 DEF Seen
  <2> QED
    BY <2>1 DEF SeenAt
<1>4. PlaceInv
  BY <1>1, <1>2 DEF PlaceInv
<1>5. ReadInv
  BY <1>1, <1>2, <1>3 DEF ReadInv
<1>6. ReportInv
  <2>1. ToSet(completed) = {}
    BY <1>1 DEF ToSet
  <2>2. SeenMarkers = {}
    BY <1>3 DEF SeenMarkers
  <2> QED
    BY <1>1, <2>1, <2>2 DEF ReportInv
<1>7. ResultInv
  BY <1>1 DEF ResultInv
<1> QED
  BY <1>4, <1>5, <1>6, <1>7 DEF VInv

LEMMA Invariance == Spec => []VInv
<1> QED
  BY StartIsSound, StepKeeps, PTL DEF Spec

-----------------------------------------------------------------------------
(* What the invariant says of the results.                                  *)

LEMMA IdsInOrder ==
    ASSUME file \in Files, NEW S \in SUBSET Positions
    PROVE  ToSet(IdsAt(InFileOrder(S))) = {IdAt(p) : p \in S}
<1>1. PICK key : key = [q \in S |-> Place(q)]
  OBVIOUS
<1>2. IsFiniteSet(S)
  BY PositionFacts, FS_Subset
<1>3. key \in [S -> Int] /\ \A d, e \in S : key[d] = key[e] => d = e
  BY <1>1, PositionFacts
<1>4. PICK n : n = Cardinality(S)
  OBVIOUS
<1>5. PICK s : s = Ascending(key)
  OBVIOUS
<1>6. s \in [1 .. n -> S]
  BY <1>2, <1>3, <1>4, <1>5, AscendingEnumerates
<1>7. \A e \in S : \E i \in 1 .. n : s[i] = e
  BY <1>2, <1>3, <1>4, <1>5, AscendingEnumerates
<1>8. InFileOrder(S) = s
  BY <1>1, <1>5 DEF InFileOrder
<1>9. IdsAt(s) = [i \in 1 .. n |-> IdAt(s[i])]
  BY <1>6 DEF IdsAt, IdAt
<1>10. ToSet(IdsAt(s)) = {IdAt(s[i]) : i \in 1 .. n}
  BY <1>9 DEF ToSet
<1>11. {IdAt(s[i]) : i \in 1 .. n} = {IdAt(p) : p \in S}
  <2>1. ASSUME NEW i \in 1 .. n PROVE \E p \in S : IdAt(s[i]) = IdAt(p)
    BY <1>6
  <2>2. ASSUME NEW p \in S PROVE \E i \in 1 .. n : IdAt(p) = IdAt(s[i])
    BY <1>7
  <2> QED
    BY <2>1, <2>2
<1> QED
  BY <1>8, <1>10, <1>11

LEMMA WhatWasRead ==
    ASSUME VInv, result = "true"
    PROVE  /\ pass = 2 /\ SeenAt = Positions
           /\ reported = IdsAt(InFileOrder(UnfinishedAt))
           /\ ToSet(reported) = {IdAt(p) : p \in UnfinishedAt}
<1>1. pass = 2 /\ SeenAt = Positions
  BY AllSeen DEF VInv, PlaceInv, ResultInv
<1>2. UnfinishedAt \cap SeenAt = UnfinishedAt /\ UnfinishedAt \in SUBSET Positions
  BY <1>1 DEF UnfinishedAt
<1>3. reported = IdsAt(InFileOrder(UnfinishedAt))
  BY <1>1, <1>2 DEF VInv, ReportInv, ReportedSoFar
<1> QED
  BY <1>1, <1>2, <1>3, IdsInOrder DEF VInv, PlaceInv

(* The position stays in the file and in the block, and only IDs of the     *)
(* file are collected or reported.                                          *)
THEOREM VerifyTypes == Spec => []TypeOK
<1>1. ASSUME VInv PROVE TypeOK
  <2> USE <1>1 DEF VInv
  <2>1. \A p \in Positions : IdAt(p) \in {e.id : e \in AllEntries}
    BY DEF AllEntries, IdAt
  <2>2. ToSet(completed) \subseteq {e.id : e \in AllEntries}
    <3>1. CASE pass = 1
      <4>1. ToSet(completed) = {IdAt(p) : p \in SeenMarkers}
        BY <3>1 DEF ReportInv
      <4>2. SeenMarkers \subseteq Positions
        BY DEF SeenMarkers, SeenAt
      <4> QED
        BY <2>1, <4>1, <4>2
    <3>2. CASE pass = 2
      <4>1. MarkedIds \subseteq {e.id : e \in AllEntries}
        BY DEF MarkedIds
      <4> QED
        BY <3>2, <4>1 DEF ReportInv
    <3> QED
      BY <3>1, <3>2 DEF PlaceInv
  <2>3. ToSet(reported) \subseteq {e.id : e \in AllEntries}
    <3>1. CASE pass = 1
      BY <3>1 DEF ReportInv, ToSet
    <3>2. CASE pass = 2
      <4>1. UnfinishedAt \cap SeenAt \in SUBSET Positions
        BY DEF SeenAt
      <4>2. ToSet(reported) = {IdAt(p) : p \in UnfinishedAt \cap SeenAt}
        BY <3>2, <4>1, IdsInOrder DEF PlaceInv, ReportInv, ReportedSoFar
      <4> QED
        BY <2>1, <4>1, <4>2
    <3> QED
      BY <3>1, <3>2 DEF PlaceInv
  <2>4. item = -1 \/ (blockPos > 0 /\ item \in 0 .. Len(Entries) - 1)
    BY EntryAhead DEF PlaceInv
  <2> QED
    BY <2>2, <2>3, <2>4 DEF PlaceInv, TypeOK
<1> QED
  BY <1>1, Invariance, PTL

(* A verification that succeeds has reported every operation without a      *)
(* completion marker, in the order of the log, and no other: isCompleted()  *)
(* knows the markers of the whole file when the second pass begins.         *)
THEOREM ReportsWhatIsUnfinished == Spec => []ReportsUnfinished
<1>1. VInv => ReportsUnfinished
  BY WhatWasRead DEF ReportsUnfinished
<1> QED
  BY <1>1, Invariance, PTL

(* The verdict: fatalAbort() only for a malformed block that is not the     *)
(* last, FALSE only for an ID of 0 (never for a marker that could not be    *)
(* deserialized), TRUE only when all other blocks were read.                *)
THEOREM GivesTheRightVerdict == Spec => []Verdict
<1>1. ASSUME VInv PROVE Verdict
  <2> USE <1>1 DEF VInv
  <2>1. /\ Len(file.blocks) \in Nat /\ DOMAIN file.blocks = 1 .. Len(file.blocks)
        /\ file.tail \in BOOLEAN
        /\ \A k \in DOMAIN file.blocks : file.blocks[k].state \in {"intact", "torn", "bad"}
    BY BlockFacts DEF PlaceInv
  <2>2. result = "fatal" =>
          \E k \in BlocksOf("torn") \cup BlocksOf("bad") : k < Len(file.blocks) \/ file.tail
    <3> SUFFICES ASSUME result = "fatal"
                 PROVE  \E k \in BlocksOf("torn") \cup BlocksOf("bad") : k < Len(file.blocks) \/ file.tail
      OBVIOUS
    <3>1. PICK k \in DOMAIN file.blocks : Spoilt(k) /\ ~IsLast(k)
      BY DEF ResultInv
    <3>2. k \in BlocksOf("torn") \cup BlocksOf("bad")
      BY <2>1, <3>1 DEF Spoilt, BlocksOf
    <3>3. k < Len(file.blocks) \/ file.tail
      BY <2>1, <3>1 DEF IsLast
    <3> QED
      BY <3>2, <3>3
  <2>3. result = "false" => \E e \in AllEntries : e.id = 0
    BY DEF ResultInv, AllEntries, IdAt
  <2>4. result = "true" => /\ \A k \in BlocksOf("torn") : k = Len(file.blocks) /\ ~file.tail
                           /\ BlocksOf("bad") = {}
    BY DEF ResultInv, ReadInv, BlocksOf, IsLast
  <2> QED
    BY <2>2, <2>3, <2>4 DEF Verdict
<1> QED
  BY <1>1, Invariance, PTL

-----------------------------------------------------------------------------
(* The same file as DbWAL sees it.                                          *)

LEMMA LogFacts ==
    ASSUME file \in Files
    PROVE  /\ DOMAIN LogOfFile = 1 .. Len(LogOfFile)
           /\ Len(LogOfFile) = Len(file.blocks) + (IF file.tail THEN 1 ELSE 0)
           /\ \A k \in DOMAIN file.blocks : LogOfFile[k] = BlockInLog(file.blocks[k])
           /\ \A k \in DOMAIN LogOfFile : k \notin DOMAIN file.blocks =>
                  k = Len(LogOfFile) /\ LogOfFile[k].torn
<1>1. PICK n : n = Len(file.blocks)
  OBVIOUS
<1>2. n \in Nat /\ DOMAIN file.blocks = 1 .. n /\ file.tail \in BOOLEAN
  BY <1>1, BlockFacts
<1>3. PICK torn : torn = Wal!Torn(Wal!NewBlock)
  OBVIOUS
<1>4. torn.torn
  BY <1>3 DEF Wal!Torn
<1>5. PICK X : X = {BlockInLog(file.blocks[k]) : k \in 1 .. n} \cup {torn}
  OBVIOUS
<1>6. PICK f : f = [k \in 1 .. n |-> BlockInLog(file.blocks[k])]
  OBVIOUS
<1>7. f \in [1 .. n -> X]
  BY <1>5, <1>6
<1>8. f \in Seq(X) /\ Len(f) = n /\ torn \in X
  BY <1>2, <1>5, <1>7
<1>9. LogOfFile = f \o (IF file.tail THEN <<torn>> ELSE <<>>)
  BY <1>2, <1>3, <1>6 DEF LogOfFile
<1>10. CASE file.tail
  <2>1. LogOfFile = f \o <<torn>>
    BY <1>9, <1>10
  <2>2. PICK g : g = f \o <<torn>>
    OBVIOUS
  <2>3. /\ DOMAIN g = 1 .. n + 1 /\ Len(g) = n + 1
        /\ \A k \in 1 .. n : g[k] = f[k]
        /\ g[n + 1] = torn
    BY <1>2, <1>8, <2>2
  <2> QED
    BY <1>1, <1>2, <1>4, <1>6, <1>10, <2>1, <2>2, <2>3
<1>11. CASE ~file.tail
  <2>1. LogOfFile = f
    BY <1>8, <1>9, <1>11
  <2> QED
    BY <1>1, <1>2, <1>6, <1>8, <1>11, <2>1
<1> QED
  BY <1>10, <1>11

LEMMA TornInLog ==
    \A b : /\ BlockInLog(b).torn <=> b.state # "intact"
           /\ BlockInLog(b).entries = {EntryInBlock(b.entries[i], i) : i \in DOMAIN b.entries}
BY DEF BlockInLog

LEMMA BlocksAreWellFormed ==
    ASSUME file \in Files, NEW k \in DOMAIN file.blocks, file.blocks[k].state = "intact"
    PROVE  Wal!WellFormed(BlockInLog(file.blocks[k]))
<1>1. PICK s : s = file.blocks[k].entries
  OBVIOUS
<1>2. PICK n : n = Len(s)
  OBVIOUS
<1>3. n \in Nat /\ n > 0 /\ n <= 511 /\ DOMAIN s = 1 .. n
  BY <1>1, <1>2, BlockFacts
<1>4. PICK b : b = BlockInLog(file.blocks[k])
  OBVIOUS
<1>5. b.entries = {EntryInBlock(s[i], i) : i \in 1 .. n}
  BY <1>1, <1>3, <1>4 DEF BlockInLog
<1>6. \A i \in 1 .. n : /\ EntryInBlock(s[i], i).at = 2 + (i - 1) * 8
                         /\ EntryInBlock(s[i], i).len = 8
  BY Sizes DEF EntryInBlock
<1>7. b.entries # {}
  <2>1. 1 \in 1 .. n
    BY <1>3
  <2> QED
    BY <1>5, <2>1
<1>8. \A e \in b.entries : e.at >= 2 /\ e.at + e.len <= 4096 - 4
  <2>1. ASSUME NEW e \in b.entries PROVE e.at >= 2 /\ e.at + e.len <= 4096 - 4
    <3>1. PICK i \in 1 .. n : e = EntryInBlock(s[i], i)
      BY <1>5, <2>1
    <3>2. e.at = 2 + (i - 1) * 8 /\ e.len = 8
      BY <1>6, <3>1
    <3> QED
      BY <1>3, <3>2
  <2> QED
    BY <2>1
<1>9. ASSUME NEW e \in b.entries, NEW f \in b.entries, e # f PROVE ~Wal!Overlap(e, f)
  <2>1. PICK i \in 1 .. n : e = EntryInBlock(s[i], i)
    BY <1>5, <1>9
  <2>2. PICK j \in 1 .. n : f = EntryInBlock(s[j], j)
    BY <1>5, <1>9
  <2>3. i # j
    BY <1>9, <2>1, <2>2
  <2>4. e.at = 2 + (i - 1) * 8 /\ e.len = 8 /\ f.at = 2 + (j - 1) * 8 /\ f.len = 8
    BY <1>6, <2>1, <2>2
  <2>5. i \in Int /\ j \in Int
    BY <1>3
  <2> QED
    BY <2>3, <2>4, <2>5 DEF Wal!Overlap
<1>10. Wal!WellFormed(b)
  BY <1>7, <1>8, <1>9, Sizes DEF Wal!WellFormed
<1> QED
  BY <1>4, <1>10

(* The log verifies unless a malformed block is followed by anything.       *)
LEMMA WhenItVerifies ==
    ASSUME file \in Files
    PROVE  Wal!Verifies(LogOfFile)
             <=> \A k \in DOMAIN file.blocks : Spoilt(k) => IsLast(k)
<1>1. PICK n : n = Len(file.blocks)
  OBVIOUS
<1>2. n \in Nat /\ DOMAIN file.blocks = 1 .. n /\ file.tail \in BOOLEAN
  BY <1>1, BlockFacts
<1>3. PICK log : log = LogOfFile
  OBVIOUS
<1>4. /\ DOMAIN log = 1 .. Len(log) /\ Len(log) = n + (IF file.tail THEN 1 ELSE 0)
      /\ \A k \in 1 .. n : log[k] = BlockInLog(file.blocks[k])
      /\ \A k \in DOMAIN log : k \notin 1 .. n => k = Len(log) /\ log[k].torn
  BY <1>1, <1>2, <1>3, LogFacts
<1>5. \A k \in 1 .. n : k \in DOMAIN log /\ (k = Len(log) <=> IsLast(k))
  <2>1. ASSUME NEW k \in 1 .. n PROVE k \in DOMAIN log /\ (k = Len(log) <=> IsLast(k))
    <3>1. CASE file.tail
      <4>1. Len(log) = n + 1
        BY <1>4, <3>1
      <4> QED
        BY <1>1, <1>2, <1>4, <3>1, <4>1 DEF IsLast
    <3>2. CASE ~file.tail
      <4>1. Len(log) = n
        BY <1>2, <1>4, <3>2
      <4> QED
        BY <1>1, <1>2, <1>4, <3>2, <4>1 DEF IsLast
    <3> QED
      BY <3>1, <3>2
  <2> QED
    BY <2>1
<1>6. ASSUME NEW k \in 1 .. n PROVE log[k].torn <=> Spoilt(k)
  <2>1. log[k] = BlockInLog(file.blocks[k])
    BY <1>4
  <2>2. BlockInLog(file.blocks[k]).torn <=> Spoilt(k)
    BY TornInLog DEF Spoilt
  <2> QED
    BY <2>1, <2>2
<1>7. \A k \in 1 .. n : ~Spoilt(k) => Wal!WellFormed(log[k])
  BY <1>2, <1>4, BlocksAreWellFormed DEF Spoilt
<1>8. Wal!Verifies(log) <=> \A k \in 1 .. n : Spoilt(k) => IsLast(k)
  BY <1>4, <1>5, <1>6, <1>7 DEF Wal!Verifies
<1> QED
  BY <1>2, <1>3, <1>8

LEMMA EntriesInLog ==
    ASSUME file \in Files
    PROVE  /\ Wal!CompletedIds(LogOfFile) = MarkedIds
           /\ {op.id : op \in Wal!Reported(LogOfFile)} = {IdAt(p) : p \in UnfinishedAt}
<1>1. PICK n : n = Len(file.blocks)
  OBVIOUS
<1>2. n \in Nat /\ DOMAIN file.blocks = 1 .. n
  BY <1>1, BlockFacts
<1>3. PICK log : log = LogOfFile
  OBVIOUS
<1>4. DOMAIN log = 1 .. Len(log) /\ 1 .. n \subseteq DOMAIN log
  <2>1. /\ DOMAIN log = 1 .. Len(log) /\ Len(log) = n + (IF file.tail THEN 1 ELSE 0)
    BY <1>1, <1>3, LogFacts
  <2>2. Len(log) \in Nat /\ n <= Len(log)
    BY <1>2, <2>1
  <2> QED
    BY <1>2, <2>1, <2>2
<1>5. /\ \A k \in 1 .. n : log[k] = BlockInLog(file.blocks[k])
      /\ \A k \in DOMAIN log : k \notin 1 .. n => log[k].torn
  BY <1>2, <1>3, LogFacts
<1>6. Wal!Readable(log) = BlocksOf("intact")
  <2>1. ASSUME NEW k \in 1 .. n PROVE log[k].torn <=> file.blocks[k].state # "intact"
    <3>1. log[k] = BlockInLog(file.blocks[k])
      BY <1>5
    <3>2. BlockInLog(file.blocks[k]).torn <=> file.blocks[k].state # "intact"
      BY TornInLog
    <3> QED
      BY <3>1, <3>2
  <2> QED
    BY <1>2, <1>4, <1>5, <2>1 DEF Wal!Readable, BlocksOf
<1>7. ASSUME NEW k \in BlocksOf("intact")
      PROVE  log[k].entries = {EntryInBlock(EntryAt(<<k, i>>), i) : i \in DOMAIN file.blocks[k].entries}
  <2>1. k \in 1 .. n
    BY <1>2, <1>7 DEF BlocksOf
  <2>2. PICK b : b = file.blocks[k]
    OBVIOUS
  <2>3. log[k].entries = {EntryInBlock(b.entries[i], i) : i \in DOMAIN b.entries}
    BY <1>5, <2>1, <2>2, TornInLog
  <2>4. \A i : EntryAt(<<k, i>>) = b.entries[i]
    BY <2>2 DEF EntryAt
  <2> QED
    BY <2>2, <2>3, <2>4
<1>8. ASSUME NEW kind
      PROVE  Wal!Entries(log, kind) =
               {e \in {EntryInBlock(EntryAt(p), p[2]) : p \in Positions} : e.kind = kind}
  <2>1. ASSUME NEW e \in Wal!Entries(log, kind)
        PROVE  e.kind = kind /\ \E p \in Positions : e = EntryInBlock(EntryAt(p), p[2])
    <3>1. PICK k \in BlocksOf("intact") : e \in log[k].entries /\ e.kind = kind
      BY <1>6, <2>1 DEF Wal!Entries
    <3>2. PICK i \in DOMAIN file.blocks[k].entries : e = EntryInBlock(EntryAt(<<k, i>>), i)
      BY <1>7, <3>1
    <3>3. <<k, i>> \in Positions
      BY PositionFacts DEF BlocksOf
    <3>4. PICK p \in Positions : p = <<k, i>>
      BY <3>3
    <3> QED
      BY <3>1, <3>2, <3>4
  <2>2. ASSUME NEW p \in Positions, NEW e, e = EntryInBlock(EntryAt(p), p[2]), e.kind = kind
        PROVE  e \in Wal!Entries(log, kind)
    <3>1. PICK k, i : k = p[1] /\ i = p[2]
      OBVIOUS
    <3>2. k \in BlocksOf("intact") /\ i \in DOMAIN file.blocks[k].entries /\ p = <<k, i>>
      BY <3>1, PositionFacts DEF BlocksOf
    <3>3. e \in log[k].entries
      BY <1>7, <2>2, <3>1, <3>2
    <3> QED
      BY <1>6, <2>2, <3>2, <3>3 DEF Wal!Entries
  <2> QED
    BY <2>1, <2>2
<1>9. \A p \in Positions : LET e == EntryInBlock(EntryAt(p), p[2])
                            IN  /\ e.op.id = IdAt(p)
                                /\ e.kind = "done" <=> EntryAt(p).marker
                                /\ e.kind = "op" <=> ~EntryAt(p).marker
  BY DEF EntryInBlock, IdAt
<1>10. Wal!CompletedIds(log) = MarkedIds
  <2>1. \A id : id \in Wal!CompletedIds(log) <=> \E e \in Wal!Entries(log, "done") : id = e.op.id
    BY DEF Wal!CompletedIds
  <2>2. \A id : id \in Wal!CompletedIds(log) <=> \E p \in Positions : EntryAt(p).marker /\ id = IdAt(p)
    BY <1>8, <1>9, <2>1
  <2>3. \A id : id \in MarkedIds <=> \E p \in Positions : EntryAt(p).marker /\ id = IdAt(p)
    BY DEF MarkedIds, AllEntries, IdAt
  <2> QED
    BY <2>2, <2>3
<1>11. {op.id : op \in Wal!Reported(log)} = {IdAt(p) : p \in UnfinishedAt}
  <2>1. \A id : id \in {op.id : op \in Wal!Reported(log)}
            <=> \E e \in Wal!Entries(log, "op") : e.op.id \notin MarkedIds /\ id = e.op.id
    BY <1>10 DEF Wal!Reported
  <2>2. \A id : id \in {op.id : op \in Wal!Reported(log)}
            <=> \E p \in Positions : ~EntryAt(p).marker /\ IdAt(p) \notin MarkedIds /\ id = IdAt(p)
    <3>1. \A e : e \in Wal!Entries(log, "op")
                    <=> \E p \in Positions : e = EntryInBlock(EntryAt(p), p[2]) /\ e.kind = "op"
      BY <1>8
    <3>2. ASSUME NEW id,
                 NEW p \in Positions, ~EntryAt(p).marker, IdAt(p) \notin MarkedIds, id = IdAt(p)
          PROVE  \E e \in Wal!Entries(log, "op") : e.op.id \notin MarkedIds /\ id = e.op.id
      <4>1. PICK e : e = EntryInBlock(EntryAt(p), p[2])
        OBVIOUS
      <4>2. e.op.id = IdAt(p) /\ e.kind = "op"
        BY <1>9, <3>2, <4>1
      <4> QED
        BY <3>1, <3>2, <4>1, <4>2
    <3>3. ASSUME NEW id,
                 NEW e \in Wal!Entries(log, "op"), e.op.id \notin MarkedIds, id = e.op.id
          PROVE  \E p \in Positions : ~EntryAt(p).marker /\ IdAt(p) \notin MarkedIds /\ id = IdAt(p)
      <4>1. PICK p \in Positions : e = EntryInBlock(EntryAt(p), p[2]) /\ e.kind = "op"
        BY <3>1, <3>3
      <4>2. e.op.id = IdAt(p) /\ ~EntryAt(p).marker
        BY <1>9, <4>1
      <4> QED
        BY <3>3, <4>2
    <3> QED
      BY <2>1, <3>2, <3>3
  <2>3. \A id : id \in {IdAt(p) : p \in UnfinishedAt}
            <=> \E p \in Positions : ~EntryAt(p).marker /\ IdAt(p) \notin MarkedIds /\ id = IdAt(p)
    BY DEF UnfinishedAt, IdAt
  <2> QED
    BY <2>2, <2>3
<1> QED
  BY <1>3, <1>10, <1>11

(* The loops of verifyLog() come to the verdict, and report the operations, *)
(* that the single step VerifyLog of DbWAL takes from the log.              *)
THEOREM LoopsAreOneStep == Spec => []AgreesWithDbWAL
<1>1. ASSUME VInv, result # "none" PROVE AgreesWithDbWAL
  <2> USE <1>1 DEF VInv
  <2>1. file \in Files
    BY DEF PlaceInv
  <2>2. (\A e \in AllEntries : e.id # 0) <=> (\A p \in Positions : IdAt(p) # 0)
    BY DEF AllEntries, IdAt
  <2>3. CASE result = "true"
    <3>1. pass = 2 /\ ToSet(reported) = {IdAt(p) : p \in UnfinishedAt}
      BY <2>3, WhatWasRead
    <3>2. \A k \in DOMAIN file.blocks : Spoilt(k) => IsLast(k)
      <4>1. \A k \in DOMAIN file.blocks :
              file.blocks[k].state # "bad" /\ (file.blocks[k].state = "torn" => IsLast(k))
        BY <2>3, <3>1 DEF ReadInv
      <4> QED
        BY <2>1, <4>1, BlockFacts DEF Spoilt
    <3>3. \A p \in Positions : IdAt(p) # 0
      BY <3>1 DEF ReadInv
    <3> QED
      BY <2>1, <2>2, <2>3, <3>1, <3>2, <3>3, WhenItVerifies, EntriesInLog DEF AgreesWithDbWAL
  <2>4. CASE result = "false"
    BY <2>2, <2>4 DEF ResultInv, AgreesWithDbWAL
  <2>5. CASE result = "fatal"
    BY <2>1, <2>5, WhenItVerifies DEF ResultInv, AgreesWithDbWAL
  <2> QED
    BY <1>1, <2>3, <2>4, <2>5 DEF PlaceInv
<1>2. VInv => AgreesWithDbWAL
  BY <1>1 DEF AgreesWithDbWAL
<1> QED
  BY <1>2, Invariance, PTL

-----------------------------------------------------------------------------
(* That it ends: a number that every turn of the loops makes smaller.  A    *)
(* turn is counted for each entry of the block that is loaded, more than    *)
(* enough of them for each block ahead, and both for the pass to come.      *)
EntriesLeft == IF item = -1 THEN 0 ELSE Len(Entries) - item

Turns(n, b, k, p, r) ==
    IF r # "none" THEN 0
    ELSE Wal!BlockSize * (n - b) + k + 1 + (IF p = 1 THEN Wal!BlockSize * n + 1 ELSE 0)

TurnsLeft == Turns(Len(file.blocks), blockPos, EntriesLeft, pass, result)

(* A turn that brings the loops nearer to their end.                        *)
GetsNearer == TurnsLeft \in Nat /\ TurnsLeft' < TurnsLeft

(* A block at the very end can be read, if only to find it torn.            *)
LastIsReadable ==
    \A f \in Files : f.blocks # <<>> /\ ~f.tail => f.blocks[Len(f.blocks)].state # "bad"

(* Turns that end it, reach the next block, or reach the next entry; and    *)
(* the one between the passes.                                              *)
LEMMA FewerTurns ==
    ASSUME NEW n \in Nat, NEW b \in Nat, b <= n, NEW k \in Nat, k <= 511, NEW p
    PROVE  /\ Turns(n, b, k, p, "none") \in Nat /\ Turns(n, b, k, p, "none") > 0
           /\ b < n => \A l \in Nat : l <= 511 =>
                         Turns(n, b + 1, l, p, "none") < Turns(n, b, k, p, "none")
           /\ \A l \in Nat : l < k =>
                         Turns(n, b, l, p, "none") < Turns(n, b, k, p, "none")
           /\ Turns(n, 0, 0, 2, "none") < Turns(n, n, 0, 1, "none")
<1>1. ASSUME NEW c \in Nat, NEW l
      PROVE  /\ Turns(n, c, l, 1, "none") = 4096 * (n - c) + l + 1 + (4096 * n + 1)
             /\ \A t : t # 1 => Turns(n, c, l, t, "none") = 4096 * (n - c) + l + 1 + 0
  BY Sizes DEF Turns
<1>2. PICK more : /\ more = IF p = 1 THEN 4096 * n + 1 ELSE 0
                  /\ more \in Nat
  <2>1. 4096 * n + 1 \in Nat
    OBVIOUS
  <2> QED
    BY <2>1
<1>3. ASSUME NEW c \in Nat, NEW l
      PROVE  Turns(n, c, l, p, "none") = 4096 * (n - c) + l + 1 + more
  BY <1>1, <1>2
<1>4. Turns(n, b, k, p, "none") \in Nat /\ Turns(n, b, k, p, "none") > 0
  <2>1. Turns(n, b, k, p, "none") = 4096 * (n - b) + k + 1 + more
    BY <1>3
  <2> QED
    BY <1>2, <2>1
<1>5. ASSUME b < n, NEW l \in Nat, l <= 511
      PROVE  Turns(n, b + 1, l, p, "none") < Turns(n, b, k, p, "none")
  <2>1. /\ Turns(n, b + 1, l, p, "none") = 4096 * (n - (b + 1)) + l + 1 + more
        /\ Turns(n, b, k, p, "none") = 4096 * (n - b) + k + 1 + more
    BY <1>3
  <2> QED
    BY <1>2, <1>5, <2>1
<1>6. ASSUME NEW l \in Nat, l < k
      PROVE  Turns(n, b, l, p, "none") < Turns(n, b, k, p, "none")
  <2>1. /\ Turns(n, b, l, p, "none") = 4096 * (n - b) + l + 1 + more
        /\ Turns(n, b, k, p, "none") = 4096 * (n - b) + k + 1 + more
    BY <1>3
  <2> QED
    BY <1>2, <1>6, <2>1
<1>7. Turns(n, 0, 0, 2, "none") < Turns(n, n, 0, 1, "none")
  <2>1. PICK none \in Nat : none = 0
    OBVIOUS
  <2>2. Turns(n, none, none, 2, "none") = 4096 * (n - none) + none + 1 + 0
    BY Sizes DEF Turns
  <2>3. Turns(n, n, none, 1, "none") = 4096 * (n - n) + none + 1 + (4096 * n + 1)
    BY <1>1
  <2> QED
    BY <2>1, <2>2, <2>3
<1> QED
  BY <1>4, <1>5, <1>6, <1>7

LEMMA TurnsGetFewer ==
    ASSUME LastIsReadable, VInv, Next
    PROVE  GetsNearer
<1> USE DEF GetsNearer
<1>1. /\ file \in Files /\ blockPos \in 0 .. Len(file.blocks)
      /\ item = -1 \/ (/\ blockPos > 0 /\ item \in Nat /\ item < Len(Entries)
                       /\ file.blocks[blockPos].state = "intact")
  BY DEF VInv, PlaceInv
<1>2. PICK n, b, k, p : n = Len(file.blocks) /\ b = blockPos /\ k = EntriesLeft /\ p = pass
  OBVIOUS
<1>3. n \in Nat /\ b \in Nat /\ b <= n
  <2>1. n \in Nat /\ b \in 0 .. n
    BY <1>1, <1>2, BlockFacts
  <2> QED
    BY <2>1
<1>4. \A m \in Nat : m > 0 /\ m <= n /\ file.blocks[m].state = "intact" =>
        /\ Len(file.blocks[m].entries) \in Nat
        /\ Len(file.blocks[m].entries) > 0 /\ Len(file.blocks[m].entries) <= 511
  <2>1. \A m \in Nat : m > 0 /\ m <= n => m \in DOMAIN file.blocks
    BY <1>1, <1>2, <1>3, BlockFacts
  <2> QED
    BY <1>1, <2>1, BlockFacts
<1>5. item # -1 => \E e \in Nat, i \in Nat :
         /\ e = Len(Entries) /\ i = item /\ i < e /\ e <= 511 /\ k = e - i
  <2> SUFFICES ASSUME item # -1
               PROVE  \E e \in Nat, i \in Nat :
                        /\ e = Len(Entries) /\ i = item /\ i < e /\ e <= 511 /\ k = e - i
    OBVIOUS
  <2>1. Len(Entries) \in Nat /\ Len(Entries) <= 511
    BY <1>1, <1>2, <1>3, <1>4 DEF Entries
  <2>2. item \in Nat /\ item < Len(Entries) /\ k = Len(Entries) - item
    BY <1>1, <1>2 DEF EntriesLeft
  <2> QED
    BY <2>1, <2>2
<1>6. k \in Nat /\ k <= 511
  <2>1. CASE item = -1
    BY <2>1, <1>2 DEF EntriesLeft
  <2>2. CASE item # -1
    BY <2>2, <1>5
  <2> QED
    BY <2>1, <2>2
<1>7. result = "none" /\ file' = file
  BY DEF Next, Reading, ReadFails, ChecksumFails, ReadBlock, ReadEntry, EndPass
<1>8. TurnsLeft = Turns(n, b, k, p, "none")
  BY <1>2, <1>7 DEF TurnsLeft
<1>9. TurnsLeft' = Turns(n, blockPos', EntriesLeft', pass', result')
  BY <1>2, <1>7 DEF TurnsLeft
<1>10. TurnsLeft \in Nat /\ TurnsLeft > 0
  BY <1>3, <1>6, <1>8, FewerTurns
<1>11. ASSUME result' # "none" PROVE TurnsLeft' < TurnsLeft
  BY <1>9, <1>10, <1>11 DEF Turns
<1>12. ASSUME result' = "none", pass' = pass, b < n, blockPos' = b + 1, EntriesLeft' \in Nat,
             EntriesLeft' <= 511
      PROVE  TurnsLeft' < TurnsLeft
  BY <1>2, <1>3, <1>6, <1>8, <1>9, <1>12, FewerTurns
<1>13. ASSUME result' = "none", pass' = pass, blockPos' = b, EntriesLeft' \in Nat,
              EntriesLeft' < k
       PROVE  TurnsLeft' < TurnsLeft
  BY <1>2, <1>3, <1>6, <1>8, <1>9, <1>13, FewerTurns
<1>14. CASE ReadFails
  <2>1. ~IsLastBlock
    <3>1. SUFFICES ASSUME IsLastBlock PROVE FALSE
      OBVIOUS
    <3>2. n = b + 1 /\ ~file.tail /\ file.blocks[n].state = "bad"
      <4>1. n - b = 1 /\ ~file.tail
        BY <1>2, <3>1 DEF IsLastBlock, Remaining
      <4>2. n = b + 1
        BY <1>3, <4>1
      <4> QED
        BY <1>2, <1>14, <4>1, <4>2 DEF ReadFails
    <3>3. file.blocks # <<>>
      <4>1. SUFFICES ASSUME file.blocks = <<>> PROVE FALSE
        OBVIOUS
      <4>2. n = 0
        BY <1>2, <4>1
      <4> QED
        BY <1>3, <3>2, <4>2
    <3> QED
      BY <1>1, <1>2, <3>2, <3>3 DEF LastIsReadable
  <2> QED
    BY <1>10, <1>11, <1>14, <2>1 DEF ReadFails
<1>15. CASE ChecksumFails
  <2>1. b < n /\ blockPos' = b + 1 /\ pass' = pass /\ item' = -1
    BY <1>2, <1>15 DEF ChecksumFails, Reading, BlockAhead
  <2>2. EntriesLeft' = 0
    BY <2>1 DEF EntriesLeft
  <2> QED
    BY <1>10, <1>11, <1>12, <2>1, <2>2
<1>16. CASE ReadBlock
  <2>1. b < n /\ blockPos' = b + 1 /\ pass' = pass /\ file.blocks[b + 1].state = "intact"
    BY <1>2, <1>16 DEF ReadBlock, BlockAhead
  <2>2. PICK e : e = Len(file.blocks[b + 1].entries)
    OBVIOUS
  <2>3. e \in Nat /\ e > 0 /\ e <= 511
    BY <1>3, <1>4, <2>1, <2>2
  <2>4. result' = "none" => item' = 0
    BY <1>2, <1>7, <1>16 DEF ReadBlock
  <2>5. result' = "none" => EntriesLeft' = e
    <3>1. Entries' = file.blocks[b + 1].entries
      BY <1>7, <2>1 DEF Entries
    <3>2. result' = "none" => EntriesLeft' = e - 0
      BY <2>2, <2>4, <3>1 DEF EntriesLeft
    <3> QED
      BY <2>3, <3>2
  <2> QED
    BY <1>10, <1>11, <1>12, <2>1, <2>3, <2>5
<1>17. CASE ReadEntry
  <2>1. result' = "none" => item' = NextItem
    BY <1>7, <1>17 DEF ReadEntry
  <2>2. pass' = pass /\ blockPos' = b /\ item >= 0
    BY <1>2, <1>17 DEF ReadEntry
  <2>3. item # -1
    BY <2>2
  <2>4. PICK e \in Nat, i \in Nat :
          e = Len(Entries) /\ i = item /\ i < e /\ e <= 511 /\ k = e - i
    BY <1>5, <2>3
  <2>5. Entries' = Entries
    BY <1>2, <1>7, <2>2 DEF Entries
  <2>6. result' = "none" => EntriesLeft' \in Nat /\ EntriesLeft' < k
    <3>1. CASE i + 1 = e
      <4>1. result' = "none" => EntriesLeft' = 0
        BY <2>1, <2>4, <3>1 DEF NextItem, EntriesLeft
      <4> QED
        BY <2>4, <4>1
    <3>2. CASE i + 1 # e
      <4>1. result' = "none" => EntriesLeft' = e - (i + 1)
        <5>1. result' = "none" => item' = i + 1 /\ i + 1 # -1
          BY <2>1, <2>4, <3>2 DEF NextItem
        <5> QED
          BY <2>4, <2>5, <5>1 DEF EntriesLeft
      <4> QED
        BY <2>4, <4>1
    <3> QED
      BY <3>1, <3>2
  <2> QED
    BY <1>10, <1>11, <1>13, <2>2, <2>6
<1>18. CASE EndPass
  <2>1. b = n /\ item = -1 /\ item' = -1
    BY <1>2, <1>3, <1>18 DEF EndPass, Reading, BlockAhead
  <2>2. k = 0 /\ EntriesLeft' = 0
    BY <1>2, <2>1 DEF EntriesLeft
  <2>3. CASE pass = 1
    <3>1. result' = "none" /\ pass' = 2 /\ blockPos' = 0
      BY <1>7, <1>18, <2>3 DEF EndPass
    <3> QED
      BY <1>2, <1>3, <1>6, <1>8, <1>9, <1>10, <2>1, <2>2, <2>3, <3>1, FewerTurns
  <2>4. CASE pass # 1
    BY <1>10, <1>11, <1>18, <2>4 DEF EndPass
  <2> QED
    BY <2>3, <2>4
<1> QED
  BY <1>10, <1>14, <1>15, <1>16, <1>17, <1>18 DEF Next

(* Whatever the log holds, every turn of verifyLog() brings it nearer to    *)
(* its end, unless the last block cannot be read: that one is read again.   *)
THEOREM EveryTurnCounts ==
    ASSUME LastIsReadable
    PROVE  Spec => [][GetsNearer]_vars
<1>1. VInv /\ [Next]_vars => [GetsNearer]_vars
  BY TurnsGetFewer
<1> QED
  BY <1>1, Invariance, PTL DEF Spec
=============================================================================
