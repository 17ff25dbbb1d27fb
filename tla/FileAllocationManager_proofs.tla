-------------------- MODULE FileAllocationManager_proofs --------------------
(***************************************************************************)
(* What FileAllocationManager promises, for files and gaps of any sizes and *)
(* any threshold: consolidateGaps() leaves one gap for each run of free     *)
(* units, and with it the free space stays what it is.                      *)
(***************************************************************************)
EXTENDS FileAllocationManager, Ordering_proofs

GapType == [location : 0 .. MaxEnd, length : 1 .. MaxEnd]

Disjoint(S) == \A g, h \in S :
    g # h => Extent(g.location, g.length) \cap Extent(h.location, h.length) = {}

(* The gaps that the multi-index set may hold.                              *)
GapSet(S) == S \subseteq GapType /\ Disjoint(S) /\ Units(S) \subseteq 0 .. MaxEnd - 1

-----------------------------------------------------------------------------
(* Numbers.                                                                 *)

(* Ranges without a common unit lie one behind the other.                   *)
LEMMA Apart ==
    ASSUME NEW a \in Int, NEW m \in Nat \ {0}, NEW b \in Int, NEW n \in Nat \ {0}
    PROVE  Extent(a, m) \cap Extent(b, n) = {} <=> (a + m <= b \/ b + n <= a)
<1>1. ASSUME Extent(a, m) \cap Extent(b, n) = {} PROVE a + m <= b \/ b + n <= a
  <2>1. a \notin Extent(b, n) \/ a \notin Extent(a, m)
    BY <1>1
  <2>2. b \notin Extent(a, m) \/ b \notin Extent(b, n)
    BY <1>1
  <2> QED
    BY <2>1, <2>2 DEF Extent
<1>2. ASSUME a + m <= b \/ b + n <= a PROVE Extent(a, m) \cap Extent(b, n) = {}
  BY <1>2 DEF Extent
<1> QED
  BY <1>1, <1>2

LEMMA GapFacts ==
    ASSUME NEW g \in GapType
    PROVE  /\ g.location \in Nat /\ g.length \in Nat \ {0}
           /\ g.location \in 0 .. MaxEnd /\ g.length \in 1 .. MaxEnd
           /\ EndOffset(g) = g.location + g.length /\ EndOffset(g) \in Nat
           /\ g.location \in Extent(g.location, g.length)
           /\ EndOffset(g) - 1 \in Extent(g.location, g.length)
BY BoundsAssumption DEF GapType, EndOffset, Extent

LEMMA UnitsFacts ==
    ASSUME NEW S \in SUBSET GapType
    PROVE  /\ \A u : u \in Units(S) <=> \E g \in S : u \in Extent(g.location, g.length)
           /\ \A u : u \in Units(S) <=>
                  u \in Int /\ \E g \in S : g.location <= u /\ u < EndOffset(g)
<1>1. \A u : u \in Units(S) <=> \E g \in S : u \in Extent(g.location, g.length)
  BY DEF Units
<1>2. ASSUME NEW g \in S, NEW u
      PROVE  u \in Extent(g.location, g.length)
                <=> u \in Int /\ g.location <= u /\ u < EndOffset(g)
  BY GapFacts DEF Extent
<1> QED
  BY <1>1, <1>2

(* Gaps that are disjoint have different locations: there are finitely many.*)
LEMMA GapsFinite ==
    ASSUME NEW S \in SUBSET GapType, Disjoint(S)
    PROVE  /\ \A g, h \in S : g.location = h.location => g = h
           /\ IsFiniteSet(S)
<1>1. \A g, h \in S : g.location = h.location => g = h
  BY GapFacts DEF Disjoint, Extent
<1> DEFINE location == [g \in S |-> g.location]
<1>2. location \in [S -> 0 .. MaxEnd]
  BY GapFacts
<1>3. location \in Injection(S, 0 .. MaxEnd)
  BY <1>1, <1>2, Fun_IsInj
<1>4. IsFiniteSet(0 .. MaxEnd)
  BY BoundsAssumption, FS_Interval
<1> QED
  BY <1>1, <1>3, <1>4, FS_Injection

-----------------------------------------------------------------------------
(* The gaps in their order.                                                 *)

Sorted(s, n, S) ==
    /\ n \in Nat /\ s \in [1 .. n -> S]
    /\ \A g \in S : \E i \in 1 .. n : s[i] = g
    /\ \A i, j \in 1 .. n : i < j => EndOffset(s[i]) <= s[j].location

LEMMA InOrderSorted ==
    ASSUME NEW S, GapSet(S)
    PROVE  Sorted(InOrder(S), Cardinality(S), S) /\ Len(InOrder(S)) = Cardinality(S)
<1>1. PICK key : key = [g \in S |-> g.location]
  OBVIOUS
<1>2. /\ S \in SUBSET GapType /\ IsFiniteSet(S)
      /\ \A g, h \in S : g.location = h.location => g = h
  BY GapsFinite DEF GapSet
<1>3. key \in [S -> Int]
  BY <1>1, <1>2, GapFacts
<1>4. \A d, e \in S : key[d] = key[e] => d = e
  BY <1>1, <1>2
<1>5. PICK s : s = InOrder(S)
  OBVIOUS
<1>6. PICK n : n = Cardinality(S)
  OBVIOUS
<1>7. /\ n \in Nat /\ s \in [1 .. n -> S]
      /\ \A g \in S : \E i \in 1 .. n : s[i] = g
      /\ \A i, j \in 1 .. n : i < j => key[s[i]] < key[s[j]]
  <2>1. s = Ascending(key)
    BY <1>1, <1>5 DEF InOrder
  <2>2. IsFiniteSet(S)
    BY <1>2
  <2> QED
    BY <2>1, <2>2, <1>3, <1>4, <1>6, AscendingEnumerates
<1>8. ASSUME NEW i \in 1 .. n, NEW j \in 1 .. n, i < j
      PROVE  EndOffset(s[i]) <= s[j].location
  <2>1. /\ s[i] \in S /\ s[j] \in S /\ s[i] \in GapType /\ s[j] \in GapType
        /\ s[i].location < s[j].location
    BY <1>1, <1>2, <1>7, <1>8
  <2>4. /\ s[i].location \in Int /\ s[i].length \in Nat \ {0}
        /\ s[j].location \in Int /\ s[j].length \in Nat \ {0}
        /\ s[i] # s[j]
    BY <2>1, GapFacts
  <2>2. Extent(s[i].location, s[i].length) \cap Extent(s[j].location, s[j].length) = {}
    BY <2>1, <2>4 DEF GapSet, Disjoint
  <2>3. \/ s[i].location + s[i].length <= s[j].location
        \/ s[j].location + s[j].length <= s[i].location
    BY <2>4, <2>2, Apart
  <2> QED
    BY <2>1, <2>3, GapFacts
<1>9. Len(s) = n
  BY <1>7
<1> QED
  BY <1>5, <1>6, <1>7, <1>8, <1>9 DEF Sorted

(* Which units are free, seen from the gaps in order.                       *)
LEMMA SortedUnits ==
    ASSUME NEW S, GapSet(S), NEW n, NEW s, Sorted(s, n, S)
    PROVE  /\ \A i \in 1 .. n : s[i] \in S /\ s[i] \in GapType
           /\ \A u : u \in Units(S) <=>
                  u \in Int /\ \E i \in 1 .. n : s[i].location <= u /\ u < EndOffset(s[i])
           /\ \A i \in 1 .. n : i + 1 \in 1 .. n =>
                  \A u \in Int : EndOffset(s[i]) <= u /\ u < s[i + 1].location => u \notin Units(S)
           /\ \A u \in Int : 1 \in 1 .. n /\ u < s[1].location => u \notin Units(S)
           /\ \A u \in Int : 1 \in 1 .. n /\ EndOffset(s[n]) <= u => u \notin Units(S)
<1>1. /\ n \in Nat /\ S \in SUBSET GapType
      /\ \A i \in 1 .. n : s[i] \in S /\ s[i] \in GapType
      /\ \A g \in S : \E i \in 1 .. n : s[i] = g
      /\ \A i, j \in 1 .. n : i < j => EndOffset(s[i]) <= s[j].location
  BY DEF Sorted, GapSet
<1>2. ASSUME NEW u
      PROVE  u \in Units(S) <=>
                u \in Int /\ \E i \in 1 .. n : s[i].location <= u /\ u < EndOffset(s[i])
  BY <1>1, UnitsFacts
<1>3. \A i \in 1 .. n : /\ s[i].location \in Nat /\ EndOffset(s[i]) \in Nat
                       /\ s[i].location < EndOffset(s[i])
  BY <1>1, GapFacts
<1>4. ASSUME NEW i \in 1 .. n, i + 1 \in 1 .. n, NEW u \in Int,
             EndOffset(s[i]) <= u, u < s[i + 1].location, u \in Units(S)
      PROVE  FALSE
  <2>1. PICK k \in 1 .. n : s[k].location <= u /\ u < EndOffset(s[k])
    BY <1>2, <1>4
  <2>2. k < i \/ k = i \/ k = i + 1 \/ i + 1 < k
    BY <1>1
  <2>3. k < i => EndOffset(s[k]) <= s[i].location
    BY <1>1
  <2>4. i + 1 < k => EndOffset(s[i + 1]) <= s[k].location
    BY <1>1, <1>4
  <2> QED
    BY <1>3, <1>4, <2>1, <2>2, <2>3, <2>4
<1>5. ASSUME NEW u \in Int, 1 \in 1 .. n, u < s[1].location, u \in Units(S)
      PROVE  FALSE
  <2>1. PICK k \in 1 .. n : s[k].location <= u /\ u < EndOffset(s[k])
    BY <1>2, <1>5
  <2>2. 1 < k => EndOffset(s[1]) <= s[k].location
    BY <1>1, <1>5
  <2>3. k = 1 \/ 1 < k
    BY <1>1
  <2> QED
    BY <1>3, <1>5, <2>1, <2>2, <2>3
<1>6. ASSUME NEW u \in Int, 1 \in 1 .. n, EndOffset(s[n]) <= u, u \in Units(S)
      PROVE  FALSE
  <2>1. PICK k \in 1 .. n : s[k].location <= u /\ u < EndOffset(s[k])
    BY <1>2, <1>6
  <2>2. n \in 1 .. n /\ (k = n \/ k < n)
    BY <1>1, <1>6
  <2>3. k < n => EndOffset(s[k]) <= s[n].location
    BY <1>1, <2>2
  <2> QED
    BY <1>3, <1>6, <2>1, <2>2, <2>3
<1> QED
  BY <1>1, <1>2, <1>4, <1>5, <1>6

-----------------------------------------------------------------------------
(* The runs of free units.                                                  *)

IsRun(g, U) == /\ Extent(g.location, g.length) \subseteq U
               /\ g.location - 1 \notin U /\ EndOffset(g) \notin U

LEMMA RunFacts ==
    ASSUME NEW U
    PROVE  /\ MaximalRuns(U) \subseteq GapType
           /\ \A g \in GapType : g \in MaximalRuns(U) <=> IsRun(g, U)
<1>1. MaximalRuns(U) \subseteq GapType
  BY DEF MaximalRuns, GapType
<1>2. ASSUME NEW g \in GapType, IsRun(g, U) PROVE g \in MaximalRuns(U)
  <2>1. g.location \in U
    BY <1>2, GapFacts DEF IsRun
  <2>2. g.length \in 1 .. MaxEnd /\ g = Gap(g.location, g.length)
    BY DEF GapType, Gap
  <2> QED
    BY <1>2, <2>1, <2>2 DEF MaximalRuns, IsRun, GapType
<1>3. \A g \in MaximalRuns(U) : IsRun(g, U)
  BY DEF MaximalRuns, IsRun
<1> QED
  BY <1>1, <1>2, <1>3

(* Two runs that share a unit are the same run.                             *)
LEMMA RunsUnique ==
    ASSUME NEW U, NEW g \in MaximalRuns(U), NEW h \in MaximalRuns(U),
           Extent(g.location, g.length) \cap Extent(h.location, h.length) # {}
    PROVE  g = h
<1>1. g \in GapType /\ h \in GapType /\ IsRun(g, U) /\ IsRun(h, U)
  BY RunFacts
<1>2. /\ g.location \in Nat /\ g.length \in Nat \ {0}
      /\ h.location \in Nat /\ h.length \in Nat \ {0}
      /\ EndOffset(g) = g.location + g.length /\ EndOffset(h) = h.location + h.length
  BY <1>1, GapFacts
<1>3. g.location < h.location + h.length /\ h.location < g.location + g.length
  BY <1>2, Apart
<1>4. /\ \A u \in Int : g.location <= u /\ u < g.location + g.length => u \in U
      /\ \A u \in Int : h.location <= u /\ u < h.location + h.length => u \in U
      /\ g.location - 1 \notin U /\ g.location + g.length \notin U
      /\ h.location - 1 \notin U /\ h.location + h.length \notin U
  BY <1>1, <1>2 DEF IsRun, Extent
<1>5. g.location = h.location
  BY <1>2, <1>3, <1>4
<1>6. g.length = h.length
  BY <1>2, <1>4, <1>5
<1> QED
  BY <1>1, <1>5, <1>6 DEF GapType

(* The runs are gaps as the set may hold them, and cover the free units.    *)
LEMMA RunsCover ==
    ASSUME NEW U \in SUBSET (0 .. MaxEnd - 1)
    PROVE  GapSet(MaximalRuns(U)) /\ Units(MaximalRuns(U)) = U
<1>1. Units(MaximalRuns(U)) \subseteq U
  BY RunFacts, UnitsFacts DEF IsRun
<1>2. Disjoint(MaximalRuns(U))
  BY RunsUnique DEF Disjoint
<1>3. ASSUME NEW u \in U PROVE u \in Units(MaximalRuns(U))
  <2>1. u \in Nat /\ u < MaxEnd /\ MaxEnd \in Nat
    BY BoundsAssumption
  <2>2. PICK m \in Nat : /\ m <= u /\ m .. u \subseteq U
                        /\ \A k \in Nat : k <= u /\ k .. u \subseteq U => m <= k
    <3> DEFINE T == {k \in Nat : k <= u /\ k .. u \subseteq U}
    <3>1. u \in T
      BY <2>1
    <3>2. PICK m \in T : \A k \in T : m <= k
      BY <3>1, Least
    <3> QED
      BY <3>2
  <2>3. m - 1 \notin U
    <3>1. SUFFICES ASSUME m - 1 \in U PROVE FALSE
      OBVIOUS
    <3>2. m - 1 \in Nat /\ m - 1 <= u
      BY <2>2, <3>1
    <3>3. (m - 1) .. u \subseteq U
      BY <2>1, <2>2, <3>1, <3>2
    <3> QED
      BY <2>2, <3>2, <3>3
  <2>4. PICK e \in Nat : /\ u < e /\ e \notin U
                        /\ \A k \in Nat : u < k /\ k \notin U => e <= k
    <3> DEFINE T == {k \in Nat : u < k /\ k \notin U}
    <3>1. MaxEnd \in T
      BY <2>1
    <3>2. PICK e \in T : \A k \in T : e <= k
      BY <3>1, Least
    <3> QED
      BY <3>2
  <2>5. e <= MaxEnd
    BY <2>1, <2>4
  <2>6. PICK g : g = Gap(m, e - m)
    OBVIOUS
  <2>7. /\ g \in GapType /\ g.location = m /\ g.length = e - m
        /\ EndOffset(g) = e
    BY <2>1, <2>2, <2>4, <2>5, <2>6 DEF Gap, GapType, EndOffset
  <2>8. Extent(g.location, g.length) = m .. e - 1
    BY <2>2, <2>4, <2>7 DEF Extent
  <2>9. ASSUME NEW k \in m .. e - 1 PROVE k \in U
    <3>1. CASE k <= u
      BY <3>1, <2>1, <2>2
    <3>2. CASE u < k
      BY <3>2, <2>1, <2>2, <2>4
    <3> QED
      BY <3>1, <3>2, <2>1, <2>2
  <2>10. g \in MaximalRuns(U)
    BY <2>3, <2>4, <2>7, <2>8, <2>9, RunFacts DEF IsRun
  <2>11. u \in Extent(g.location, g.length)
    BY <2>1, <2>2, <2>4, <2>8
  <2> QED
    BY <2>10, <2>11 DEF Units
<1> QED
  BY <1>1, <1>2, <1>3, RunFacts DEF GapSet

-----------------------------------------------------------------------------
(* The loop of consolidateGaps().                                           *)

FirstTurn(s) == [accumulated |-> s[1], merging |-> FALSE, erase |-> {}, merged |-> {}]

(* The recursion of Scan is well defined: a shortest sequence of turns that *)
(* cannot be computed would follow one that can.                            *)
LEMMA ScanTurns ==
    ASSUME NEW s, NEW n \in Nat, Len(s) = n
    PROVE  \A i \in 1 .. n :
              Scan(s)[i] = IF i = 1 THEN FirstTurn(s) ELSE NextGap(Scan(s)[i - 1], s[i - 1], s[i])
<1> DEFINE Turns(f, m) ==
        f = [i \in 1 .. m |-> IF i = 1 THEN FirstTurn(s) ELSE NextGap(f[i - 1], s[i - 1], s[i])]
<1> DEFINE Hopeless == {m \in Nat : \A f : ~ Turns(f, m)}
<1>1. Hopeless = {}
  <2>1. SUFFICES ASSUME Hopeless # {} PROVE FALSE
    OBVIOUS
  <2>2. PICK m \in Hopeless : \A k \in Hopeless : m <= k
    BY <2>1, Least
  <2>3. m # 0
    <3>1. Turns([i \in 1 .. 0 |-> 0], 0)
      OBVIOUS
    <3> QED
      BY <3>1, <2>2
  <2>4. m \in Nat /\ m - 1 \in Nat /\ m - 1 \notin Hopeless
    <3>1. m \in Nat /\ m - 1 \in Nat
      BY <2>2, <2>3
    <3> HIDE DEF Hopeless
    <3>2. m - 1 \in Hopeless => m <= m - 1
      BY <2>2
    <3> QED
      BY <3>1, <3>2
  <2>5. PICK f : Turns(f, m - 1)
    BY <2>4
  <2>6. PICK g : g = [i \in 1 .. m |->
                         IF i = m
                           THEN IF i = 1 THEN FirstTurn(s) ELSE NextGap(f[i - 1], s[i - 1], s[i])
                           ELSE f[i]]
    OBVIOUS
  <2>7. ASSUME NEW i \in 1 .. m
        PROVE  g[i] = IF i = 1 THEN FirstTurn(s) ELSE NextGap(g[i - 1], s[i - 1], s[i])
    <3>1. i # 1 => i - 1 \in 1 .. m /\ i - 1 # m
      BY <2>4
    <3>2. i # 1 => g[i - 1] = f[i - 1]
      BY <2>6, <3>1
    <3>3. CASE i = m
      <4>1. g[i] = IF i = 1 THEN FirstTurn(s) ELSE NextGap(f[i - 1], s[i - 1], s[i])
        BY <3>3, <2>6
      <4>2. CASE i = 1
        BY <4>1, <4>2
      <4>3. CASE i # 1
        BY <4>1, <4>3, <3>2
      <4> QED
        BY <4>2, <4>3
    <3>4. CASE i # m
      <4>1. i \in 1 .. m - 1
        BY <3>4, <2>4
      <4>2. f[i] = IF i = 1 THEN FirstTurn(s) ELSE NextGap(f[i - 1], s[i - 1], s[i])
        BY <4>1, <2>5
      <4> QED
        BY <4>2, <3>2, <3>4, <2>6
    <3> QED
      BY <3>3, <3>4
  <2>8. Turns(g, m)
    BY <2>6, <2>7
  <2> QED
    BY <2>2, <2>8
<1>2. \E f : Turns(f, n)
  <2>1. \A m \in Nat : \E f : Turns(f, m)
    <3>1. ASSUME NEW m \in Nat PROVE \E f : Turns(f, m)
      <4> HIDE DEF Turns
      <4> QED
        BY <1>1
    <3> QED
      BY <3>1
  <2> HIDE DEF Turns, Hopeless
  <2>2. n \in Nat
    OBVIOUS
  <2> QED
    BY <2>1, <2>2
<1>3. Scan(s) = CHOOSE f : Turns(f, n)
  BY DEF Scan, FirstTurn
<1>4. Turns(Scan(s), n)
  BY <1>2, <1>3
<1> QED
  BY <1>4

(* Does the i-th gap touch the one before or the one behind it?             *)
Touches(s, n, i) ==
    \/ i - 1 \in 1 .. n /\ EndOffset(s[i - 1]) = s[i].location
    \/ i + 1 \in 1 .. n /\ EndOffset(s[i]) = s[i + 1].location

(* What holds at the i-th turn: the runs that end before it are found, and  *)
(* the accumulated gap is the part of the next run that the scan has seen.  *)
Scanned(s, n, S, i, scan) ==
    /\ scan \in [accumulated : [location : Nat, length : Nat], merging : BOOLEAN,
                 erase : SUBSET S, merged : SUBSET GapType]
    /\ scan.accumulated.location \in Units(S)
    /\ scan.accumulated.location - 1 \notin Units(S)
    /\ EndOffset(scan.accumulated) = EndOffset(s[i])
    /\ Extent(scan.accumulated.location, scan.accumulated.length) \subseteq Units(S)
    /\ scan.merging = (i - 1 \in 1 .. n /\ EndOffset(s[i - 1]) = s[i].location)
    /\ ~scan.merging => scan.accumulated = s[i]
    /\ scan.erase = {s[j] : j \in {k \in 1 .. i - 1 : Touches(s, n, k)}}
    /\ scan.merged = {g \in MaximalRuns(Units(S)) : g.location < scan.accumulated.location}

ScanType(S) == [accumulated : [location : Nat, length : Nat], merging : BOOLEAN,
                erase : SUBSET S, merged : SUBSET GapType]

LEMMA ScanFirst ==
    ASSUME NEW S, GapSet(S), NEW n, NEW s, Sorted(s, n, S), 1 \in 1 .. n
    PROVE  Scanned(s, n, S, 1, FirstTurn(s))
<1>1. /\ s[1] \in S /\ s[1] \in GapType
      /\ s[1].location \in Nat /\ s[1].length \in Nat
      /\ s[1].location < EndOffset(s[1])
  BY SortedUnits, GapFacts
<1>2. s[1].location \in Units(S) /\ s[1].location - 1 \notin Units(S)
  BY <1>1, SortedUnits
<1>3. Extent(s[1].location, s[1].length) \subseteq Units(S)
  BY <1>1, UnitsFacts DEF GapSet
<1>4. ASSUME NEW g \in MaximalRuns(Units(S)), g.location < s[1].location PROVE FALSE
  <2>1. g.location \in Units(S) /\ g.location \in Nat
    BY RunFacts, GapFacts DEF IsRun
  <2> QED
    BY <2>1, <1>4, SortedUnits
<1>5. FirstTurn(s) \in ScanType(S)
  BY <1>1 DEF FirstTurn, ScanType, GapType
<1>6. ~(1 - 1 \in 1 .. n) /\ 1 .. 1 - 1 = {}
  OBVIOUS
<1>7. /\ FirstTurn(s).accumulated = s[1] /\ FirstTurn(s).merging = FALSE
      /\ FirstTurn(s).erase = {} /\ FirstTurn(s).merged = {}
  BY DEF FirstTurn
<1> QED
  BY <1>2, <1>3, <1>4, <1>5, <1>6, <1>7 DEF Scanned, ScanType

(* The gaps to erase, at the next turn.                                     *)
LEMMA EraseNext ==
    ASSUME NEW s, NEW n \in Nat, NEW i \in 1 .. n
    PROVE  {s[j] : j \in {k \in 1 .. (i + 1) - 1 : Touches(s, n, k)}}
              = {s[j] : j \in {k \in 1 .. i - 1 : Touches(s, n, k)}}
                   \cup (IF Touches(s, n, i) THEN {s[i]} ELSE {})
<1>1. \A k : k \in 1 .. (i + 1) - 1 <=> k \in 1 .. i - 1 \/ k = i
  OBVIOUS
<1> QED
  BY <1>1

(* The next gap touches: it is added to the accumulated one.                *)
LEMMA ScanTouching ==
    ASSUME NEW S, GapSet(S), NEW n, NEW s, Sorted(s, n, S),
           NEW i \in 1 .. n, i + 1 \in 1 .. n, NEW scan, Scanned(s, n, S, i, scan),
           EndOffset(s[i]) >= s[i + 1].location
    PROVE  Scanned(s, n, S, i + 1, NextGap(scan, s[i], s[i + 1]))
<1>1. PICK A : A = scan.accumulated
  OBVIOUS
<1>2. PICK next : next = NextGap(scan, s[i], s[i + 1])
  OBVIOUS
<1>3. scan \in ScanType(S) /\ A.location \in Nat /\ A.length \in Nat
  BY <1>1 DEF Scanned, ScanType
<1>4. /\ s[i] \in S /\ s[i] \in GapType /\ s[i + 1] \in S /\ s[i + 1] \in GapType
      /\ s[i].location \in Nat /\ EndOffset(s[i]) \in Nat
      /\ s[i + 1].location \in Nat /\ s[i + 1].length \in Nat
      /\ EndOffset(s[i + 1]) = s[i + 1].location + s[i + 1].length
  BY SortedUnits, GapFacts
<1>5. n \in Nat /\ EndOffset(s[i]) = s[i + 1].location
  BY <1>4 DEF Sorted
<1>6. /\ next.accumulated = Gap(A.location, A.length + s[i + 1].length)
      /\ next.merging = TRUE
      /\ next.erase = scan.erase \cup {s[i]} /\ next.merged = scan.merged
      /\ next \in ScanType(S)
  <2>1. PICK both : both = Gap(A.location, A.length + s[i + 1].length)
    OBVIOUS
  <2>2. both \in [location : Nat, length : Nat]
    BY <1>3, <1>4, <2>1 DEF Gap
  <2>3. next = [scan EXCEPT !.accumulated = both, !.merging = TRUE,
                            !.erase = scan.erase \cup {s[i]}]
    BY <1>1, <1>2, <2>1 DEF NextGap
  <2> QED
    BY <1>3, <1>4, <2>1, <2>2, <2>3 DEF ScanType
<1>7. PICK B : B = next.accumulated
  OBVIOUS
<1>8. /\ B.location = A.location /\ B.length = A.length + s[i + 1].length
      /\ EndOffset(A) = A.location + A.length /\ EndOffset(B) = B.location + B.length
  BY <1>6, <1>7 DEF Gap, EndOffset
<1>9. EndOffset(A) = EndOffset(s[i])
  BY <1>1 DEF Scanned
<1>10. EndOffset(B) = EndOffset(s[i + 1])
  BY <1>3, <1>4, <1>5, <1>8, <1>9
<1>11. Extent(B.location, B.length) \subseteq Units(S)
  <2>1. Extent(A.location, A.length) \subseteq Units(S)
    BY <1>1 DEF Scanned
  <2>2. Extent(s[i + 1].location, s[i + 1].length) \subseteq Units(S)
    BY <1>4, UnitsFacts DEF GapSet
  <2>3. A.location + A.length = s[i + 1].location
    BY <1>5, <1>8, <1>9
  <2>4. ASSUME NEW u \in Extent(B.location, B.length)
        PROVE  u \in Extent(A.location, A.length)
                 \/ u \in Extent(s[i + 1].location, s[i + 1].length)
    BY <1>3, <1>4, <1>8, <2>3 DEF Extent
  <2> QED
    BY <2>1, <2>2, <2>4
<1>12. Touches(s, n, i) /\ (i + 1) - 1 = i /\ (i + 1) - 1 \in 1 .. n
  BY <1>5 DEF Touches
<1>13. next.erase = {s[j] : j \in {k \in 1 .. (i + 1) - 1 : Touches(s, n, k)}}
  BY <1>5, <1>6, <1>12, EraseNext DEF Scanned
<1>14. /\ B.location \in Units(S) /\ B.location - 1 \notin Units(S)
       /\ next.merged = {g \in MaximalRuns(Units(S)) : g.location < B.location}
  BY <1>1, <1>6, <1>8 DEF Scanned
<1>15. next.merging = ((i + 1) - 1 \in 1 .. n /\ EndOffset(s[(i + 1) - 1]) = s[i + 1].location)
  BY <1>5, <1>6, <1>12
<1> QED
  BY <1>2, <1>6, <1>7, <1>10, <1>11, <1>13, <1>14, <1>15 DEF Scanned, ScanType

(* The accumulated gap, when none touches it behind, is a run.              *)
LEMMA AccumulatedRun ==
    ASSUME NEW S, GapSet(S), NEW n, NEW s, Sorted(s, n, S),
           NEW i \in 1 .. n, NEW scan, Scanned(s, n, S, i, scan),
           EndOffset(s[i]) \notin Units(S)
    PROVE  scan.accumulated \in MaximalRuns(Units(S))
<1>1. PICK A : A = scan.accumulated
  OBVIOUS
<1>2. /\ A \in [location : Nat, length : Nat] /\ EndOffset(A) = EndOffset(s[i])
      /\ A.location \in Units(S) /\ A.location - 1 \notin Units(S)
      /\ Extent(A.location, A.length) \subseteq Units(S)
  BY <1>1 DEF Scanned
<1>3. EndOffset(A) = A.location + A.length /\ A.location \in Nat /\ A.length \in Nat
  BY <1>2 DEF EndOffset
<1>4. A.length # 0
  BY <1>2, <1>3
<1>5. A.location \in 0 .. MaxEnd - 1
  BY <1>2 DEF GapSet
<1>6. A.location + A.length - 1 \in Extent(A.location, A.length)
  BY <1>3, <1>4 DEF Extent
<1>7. A.location + A.length - 1 \in 0 .. MaxEnd - 1
  BY <1>2, <1>6 DEF GapSet
<1>8. A \in GapType
  <2>1. A.location \in 0 .. MaxEnd /\ A.length \in 1 .. MaxEnd
    BY <1>3, <1>4, <1>5, <1>7, BoundsAssumption
  <2> QED
    BY <1>2, <2>1 DEF GapType
<1> QED
  BY <1>1, <1>2, <1>8, RunFacts DEF IsRun

(* The next gap does not touch: the accumulated one is a run, and the scan  *)
(* starts another.                                                          *)
LEMMA ScanApart ==
    ASSUME NEW S, GapSet(S), NEW n, NEW s, Sorted(s, n, S),
           NEW i \in 1 .. n, i + 1 \in 1 .. n, NEW scan, Scanned(s, n, S, i, scan),
           ~(EndOffset(s[i]) >= s[i + 1].location)
    PROVE  Scanned(s, n, S, i + 1, NextGap(scan, s[i], s[i + 1]))
<1>1. PICK A : A = scan.accumulated
  OBVIOUS
<1>2. PICK next : next = NextGap(scan, s[i], s[i + 1])
  OBVIOUS
<1>3. PICK new : new = s[i + 1]
  OBVIOUS
<1>4. /\ s[i] \in S /\ new \in S /\ new \in GapType
      /\ EndOffset(s[i]) \in Nat /\ EndOffset(s[i]) < new.location
      /\ new.location \in Nat /\ new.length \in Nat
  BY <1>3, SortedUnits, GapFacts
<1>5. n \in Nat /\ EndOffset(s[i]) \notin Units(S) /\ new.location - 1 \notin Units(S)
  <2>1. \A u \in Int : EndOffset(s[i]) <= u /\ u < new.location => u \notin Units(S)
    BY <1>3, SortedUnits
  <2>2. n \in Nat
    BY DEF Sorted
  <2> QED
    BY <1>4, <2>1, <2>2
<1>6. A \in MaximalRuns(Units(S)) /\ A \in GapType
  BY <1>1, <1>5, AccumulatedRun, RunFacts
<1>7. /\ next.accumulated = new /\ next.merging = FALSE
      /\ next.erase = (IF scan.merging THEN scan.erase \cup {s[i]} ELSE scan.erase)
      /\ next.merged = scan.merged \cup {A}
      /\ next \in ScanType(S)
  <2>1. PICK erase : erase = IF scan.merging THEN scan.erase \cup {s[i]} ELSE scan.erase
    OBVIOUS
  <2>2. scan \in ScanType(S)
    BY DEF Scanned, ScanType
  <2>3. erase \in SUBSET S
    BY <1>4, <2>1, <2>2 DEF ScanType
  <2>4. next = [scan EXCEPT !.accumulated = new, !.merging = FALSE,
                            !.erase = erase, !.merged = scan.merged \cup {A}]
    BY <1>1, <1>2, <1>3, <2>1 DEF NextGap
  <2>5. new \in [location : Nat, length : Nat]
    BY <1>4 DEF GapType
  <2> QED
    BY <1>6, <2>1, <2>2, <2>3, <2>4, <2>5 DEF ScanType
<1>8. new.location \in Units(S) /\ Extent(new.location, new.length) \subseteq Units(S)
  BY <1>4, UnitsFacts, GapFacts DEF GapSet
<1>9. /\ (i + 1) - 1 = i
      /\ ~((i + 1) - 1 \in 1 .. n /\ EndOffset(s[(i + 1) - 1]) = s[i + 1].location)
  BY <1>3, <1>4
<1>10. Touches(s, n, i) <=> scan.merging
  BY <1>3, <1>4 DEF Touches, Scanned
<1>11. next.erase = {s[j] : j \in {k \in 1 .. (i + 1) - 1 : Touches(s, n, k)}}
  <2>1. scan.erase = {s[j] : j \in {k \in 1 .. i - 1 : Touches(s, n, k)}}
    BY DEF Scanned
  <2> QED
    BY <1>5, <1>7, <1>10, <2>1, EraseNext
<1>12. next.merged = {g \in MaximalRuns(Units(S)) : g.location < new.location}
  <2>1. scan.merged = {g \in MaximalRuns(Units(S)) : g.location < A.location}
    BY <1>1 DEF Scanned
  <2>2. EndOffset(A) = EndOffset(s[i]) /\ A.location \in Nat /\ A.location < EndOffset(A)
    BY <1>1, <1>6, GapFacts DEF Scanned
  <2>3. ASSUME NEW g \in MaximalRuns(Units(S)), g.location < new.location,
               ~(g.location < A.location)
        PROVE  g = A
    <3>1. g \in GapType /\ g.location \in Nat /\ g.location \in Units(S)
      BY RunFacts, GapFacts DEF IsRun
    <3>2. g.location < EndOffset(A)
      BY <1>3, <1>4, <2>2, <2>3, <3>1, SortedUnits
    <3>3. g.location \in Extent(A.location, A.length)
      BY <1>6, <2>2, <2>3, <3>1, <3>2, GapFacts DEF Extent
    <3>4. g.location \in Extent(g.location, g.length)
      BY <3>1, GapFacts
    <3> QED
      BY <1>6, <3>3, <3>4, RunsUnique
  <2>4. \A g \in MaximalRuns(Units(S)) : g.location \in Nat
    BY RunFacts, GapFacts
  <2>5. A.location < new.location
    BY <1>4, <2>2
  <2>6. \A g \in MaximalRuns(Units(S)) : g.location < A.location => g.location < new.location
    BY <1>4, <2>2, <2>4, <2>5
  <2> QED
    BY <1>6, <1>7, <2>1, <2>3, <2>5, <2>6
<1>13. EndOffset(new) = EndOffset(s[i + 1])
  BY <1>3
<1> QED
  BY <1>2, <1>3, <1>5, <1>7, <1>8, <1>9, <1>11, <1>12, <1>13 DEF Scanned, ScanType

(* What holds at the first turn and is kept by each holds at every turn.    *)
LEMMA ScanKeeps ==
    ASSUME NEW S, GapSet(S), NEW n, NEW s, Sorted(s, n, S), Len(s) = n
    PROVE  \A i \in 1 .. n : Scanned(s, n, S, i, Scan(s)[i])
<1>1. n \in Nat
  BY DEF Sorted
<1> DEFINE Wrong == {i \in Nat : i \in 1 .. n /\ ~Scanned(s, n, S, i, Scan(s)[i])}
<1>2. Wrong = {}
  <2>1. SUFFICES ASSUME Wrong # {} PROVE FALSE
    OBVIOUS
  <2>2. PICK m \in Wrong : \A k \in Wrong : m <= k
    BY <2>1, Least
  <2>3. m \in 1 .. n /\ ~Scanned(s, n, S, m, Scan(s)[m])
    BY <2>2
  <2>4. CASE m = 1
    BY <1>1, <2>3, <2>4, ScanTurns, ScanFirst
  <2>5. CASE m # 1
    <3>1. m - 1 \in 1 .. n /\ m - 1 \in Nat /\ (m - 1) + 1 = m
      BY <1>1, <2>3, <2>5
    <3>2. m - 1 \notin Wrong
      <4> HIDE DEF Wrong
      <4>1. m - 1 \in Wrong => m <= m - 1
        BY <2>2
      <4> QED
        BY <3>1, <4>1
    <3>3. Scanned(s, n, S, m - 1, Scan(s)[m - 1])
      BY <3>1, <3>2
    <3>4. Scanned(s, n, S, (m - 1) + 1, NextGap(Scan(s)[m - 1], s[m - 1], s[(m - 1) + 1]))
      BY <2>3, <3>1, <3>3, ScanTouching, ScanApart
    <3>5. Scan(s)[m] = NextGap(Scan(s)[m - 1], s[m - 1], s[m])
      BY <1>1, <2>3, <2>5, ScanTurns
    <3> QED
      BY <2>3, <3>1, <3>4, <3>5
  <2> QED
    BY <2>4, <2>5
<1>3. \A i \in 1 .. n : i \in Nat
  BY <1>1
<1> QED
  BY <1>2, <1>3

-----------------------------------------------------------------------------
(* What consolidateGaps() makes of the gaps.                                *)

(* A gap that touches none of its neighbours is a run of free units.        *)
LEMMA UntouchedRun ==
    ASSUME NEW S, GapSet(S), NEW n, NEW s, Sorted(s, n, S), NEW i \in 1 .. n, ~Touches(s, n, i)
    PROVE  s[i] \in MaximalRuns(Units(S))
<1>1. /\ n \in Nat /\ s[i] \in S /\ s[i] \in GapType
      /\ s[i].location \in Nat /\ EndOffset(s[i]) \in Nat
      /\ \A j \in 1 .. n : s[j].location \in Nat /\ EndOffset(s[j]) \in Nat
      /\ \A j, k \in 1 .. n : j < k => EndOffset(s[j]) <= s[k].location
  BY SortedUnits, GapFacts DEF Sorted
<1>2. s[i].location - 1 \notin Units(S)
  <2>1. CASE i = 1
    BY <2>1, <1>1, SortedUnits
  <2>2. CASE i # 1
    <3>1. i - 1 \in 1 .. n /\ i - 1 < i /\ (i - 1) + 1 = i
      BY <1>1, <2>2
    <3>2. \A u \in Int : EndOffset(s[i - 1]) <= u /\ u < s[i].location => u \notin Units(S)
      BY <3>1, SortedUnits
    <3>3. EndOffset(s[i - 1]) <= s[i].location /\ EndOffset(s[i - 1]) # s[i].location
      BY <1>1, <3>1 DEF Touches
    <3> QED
      BY <1>1, <3>1, <3>2, <3>3
  <2> QED
    BY <2>1, <2>2
<1>3. EndOffset(s[i]) \notin Units(S)
  <2>1. CASE i = n
    BY <2>1, <1>1, SortedUnits
  <2>2. CASE i # n
    <3>1. i + 1 \in 1 .. n /\ i < i + 1
      BY <1>1, <2>2
    <3>2. \A u \in Int : EndOffset(s[i]) <= u /\ u < s[i + 1].location => u \notin Units(S)
      BY <3>1, SortedUnits
    <3>3. EndOffset(s[i]) <= s[i + 1].location /\ EndOffset(s[i]) # s[i + 1].location
      BY <1>1, <3>1 DEF Touches
    <3> QED
      BY <1>1, <3>1, <3>2, <3>3
  <2> QED
    BY <2>1, <2>2
<1>4. Extent(s[i].location, s[i].length) \subseteq Units(S)
  BY <1>1 DEF Units
<1> QED
  BY <1>1, <1>2, <1>3, <1>4, RunFacts DEF IsRun

(* Runs of the same location are the same, and so is one run inside another.*)
LEMMA SameRun ==
    ASSUME NEW U, NEW g \in MaximalRuns(U), NEW h \in MaximalRuns(U),
           h.location <= g.location, g.location < EndOffset(h)
    PROVE  g = h
<1>1. /\ g.location \in Nat /\ g.location \in Extent(g.location, g.length)
      /\ h.location \in Nat /\ h.length \in Nat /\ EndOffset(h) = h.location + h.length
  BY RunFacts, GapFacts
<1>2. g.location \in Extent(h.location, h.length)
  BY <1>1 DEF Extent
<1> QED
  BY <1>1, <1>2, RunsUnique

(* consolidateGaps() leaves one gap for each run of free units.             *)
THEOREM ConsolidatedIsRuns ==
    ASSUME NEW S, GapSet(S)
    PROVE  Consolidated(S) = MaximalRuns(Units(S))
<1>1. PICK s : s = InOrder(S)
  OBVIOUS
<1>2. PICK n : n = Cardinality(S)
  OBVIOUS
<1>3. Sorted(s, n, S) /\ Len(s) = n /\ n \in Nat
  BY <1>1, <1>2, InOrderSorted DEF Sorted
<1>4. PICK runs : runs = MaximalRuns(Units(S))
  OBVIOUS
<1>5. /\ S \subseteq GapType /\ runs \subseteq GapType
      /\ \A g \in S : \E i \in 1 .. n : s[i] = g
      /\ \A i \in 1 .. n : ~Touches(s, n, i) => s[i] \in runs
      /\ \A g \in runs : g.location \in Nat /\ g.location \in Units(S)
      /\ \A g \in runs : g.location < EndOffset(g)
  <2>1. /\ S \subseteq GapType /\ \A g \in S : \E i \in 1 .. n : s[i] = g
    BY <1>3 DEF GapSet, Sorted
  <2>2. runs \subseteq GapType
    BY <1>4, RunFacts
  <2>3. \A i \in 1 .. n : ~Touches(s, n, i) => s[i] \in runs
    BY <1>3, <1>4, UntouchedRun
  <2>4. ASSUME NEW g \in runs
        PROVE  g.location \in Nat /\ g.location \in Units(S) /\ g.location < EndOffset(g)
    BY <1>4, RunFacts, GapFacts DEF IsRun
  <2> QED
    BY <2>1, <2>2, <2>3, <2>4
<1>6. CASE n < 2
  <2>1. \A i \in 1 .. n : ~Touches(s, n, i)
    BY <1>3, <1>6 DEF Touches
  <2>2. S \subseteq runs
    BY <1>5, <2>1
  <2>3. ASSUME NEW g \in runs PROVE g \in S
    <3>1. PICK h \in S : h.location <= g.location /\ g.location < EndOffset(h)
      BY <1>5, UnitsFacts
    <3> QED
      BY <1>4, <2>2, <3>1, SameRun
  <2>4. Consolidated(S) = S
    BY <1>2, <1>6 DEF Consolidated
  <2> QED
    BY <1>4, <2>2, <2>3, <2>4
<1>7. CASE ~(n < 2)
  <2>1. n \in 1 .. n /\ ~(n + 1 \in 1 .. n)
    BY <1>3, <1>7
  <2>2. PICK last : last = Scan(s)[n]
    OBVIOUS
  <2>3. Scanned(s, n, S, n, last)
    BY <1>3, <2>1, <2>2, ScanKeeps
  <2>4. PICK A : A = last.accumulated
    OBVIOUS
  <2>5. A \in runs /\ EndOffset(A) = EndOffset(s[n])
    <3>1. EndOffset(s[n]) \in Int /\ EndOffset(s[n]) \notin Units(S)
      BY <1>3, <2>1, SortedUnits, GapFacts
    <3> QED
      BY <1>3, <1>4, <2>1, <2>3, <2>4, <3>1, AccumulatedRun DEF Scanned
  <2>6. last.merging <=> Touches(s, n, n)
    BY <2>1, <2>3 DEF Touches, Scanned
  <2>7. PICK erase : erase = last.erase \cup (IF last.merging THEN {s[n]} ELSE {})
    OBVIOUS
  <2>8. PICK merged : merged = last.merged \cup (IF last.merging THEN {A} ELSE {})
    OBVIOUS
  <2>9. Consolidated(S) = Emplace(S \ erase, merged)
    BY <1>1, <1>2, <1>3, <1>7, <2>2, <2>4, <2>7, <2>8 DEF Consolidated
  <2>10. erase = {s[j] : j \in {k \in 1 .. n : Touches(s, n, k)}}
    <3>1. erase = {s[j] : j \in {k \in 1 .. (n + 1) - 1 : Touches(s, n, k)}}
      BY <1>3, <2>1, <2>3, <2>6, <2>7, EraseNext DEF Scanned
    <3>2. (n + 1) - 1 = n
      BY <1>3
    <3> QED
      BY <3>1, <3>2
  <2>11. last.merged = {g \in runs : g.location < A.location}
    BY <1>4, <2>3, <2>4 DEF Scanned
  <2>12. \A g \in S \ erase : g \in runs
    BY <1>5, <2>10
  <2>13. ~last.merging => A \in S \ erase
    <3>1. SUFFICES ASSUME ~last.merging PROVE s[n] \in S /\ s[n] \notin erase
      BY <2>3, <2>4 DEF Scanned
    <3>2. s[n] \in S
      BY <1>3, <2>1 DEF Sorted
    <3>3. ASSUME NEW j \in 1 .. n, Touches(s, n, j), s[j] = s[n] PROVE FALSE
      <4>1. j # n /\ j < n
        BY <1>3, <2>6, <3>1, <3>3
      <4>2. EndOffset(s[j]) <= s[n].location
        BY <1>3, <2>1, <4>1 DEF Sorted
      <4>3. s[n].location \in Nat /\ EndOffset(s[n]) \in Nat /\ s[n].location < EndOffset(s[n])
        BY <1>5, <3>2, GapFacts
      <4> QED
        BY <3>3, <4>2, <4>3
    <3> QED
      BY <3>2, <3>3, <2>10
  <2>14. ASSUME NEW g \in runs PROVE g \in Emplace(S \ erase, merged)
    <3>1. CASE \E h \in S \ erase : h.location = g.location
      <4>1. PICK h \in S \ erase : h.location = g.location
        BY <3>1
      <4>2. h \in runs /\ h.location <= g.location /\ g.location < EndOffset(h)
        BY <1>5, <2>12, <4>1
      <4>3. g = h
        BY <1>4, <4>2, SameRun
      <4> QED
        BY <4>3 DEF Emplace
    <3>2. CASE \A h \in S \ erase : h.location # g.location
      <4>1. CASE g.location < A.location
        BY <3>2, <4>1, <2>8, <2>11 DEF Emplace
      <4>2. CASE ~(g.location < A.location)
        <5>1. g.location < EndOffset(A) /\ A.location <= g.location
          <6>1. /\ g.location \in Nat /\ g.location \in Units(S)
                /\ A.location \in Nat /\ EndOffset(A) \in Nat
            BY <1>5, <2>5, GapFacts
          <6> QED
            BY <1>3, <2>1, <2>5, <4>2, <6>1, SortedUnits
        <5>2. g = A
          BY <1>4, <2>5, <5>1, SameRun
        <5>3. last.merging
          BY <2>13, <3>2, <5>2
        <5> QED
          BY <3>2, <5>2, <5>3, <2>8 DEF Emplace
      <4> QED
        BY <4>1, <4>2
    <3> QED
      BY <3>1, <3>2
  <2>15. Emplace(S \ erase, merged) \subseteq runs
    BY <2>5, <2>8, <2>11, <2>12 DEF Emplace
  <2> QED
    BY <1>4, <2>9, <2>14, <2>15
<1> QED
  BY <1>6, <1>7

(* Consolidation keeps the free units and the shape of the set.             *)
LEMMA ConsolidatedKeeps ==
    ASSUME NEW S, GapSet(S)
    PROVE  GapSet(Consolidated(S)) /\ Units(Consolidated(S)) = Units(S)
BY ConsolidatedIsRuns, RunsCover DEF GapSet

-----------------------------------------------------------------------------
(* What the other operations make of the gaps.                              *)

LEMMA SubsetKeeps ==
    ASSUME NEW S, GapSet(S), NEW T \in SUBSET S
    PROVE  GapSet(T) /\ Units(T) \subseteq Units(S)
BY DEF GapSet, Disjoint, Units

LEMMA NoGaps == GapSet({}) /\ Units({}) = {}
BY DEF GapSet, Disjoint, Units

LEMMA GapIsGap ==
    ASSUME NEW a \in Int, NEW m \in Int
    PROVE  /\ Gap(a, m).location = a /\ Gap(a, m).length = m /\ EndOffset(Gap(a, m)) = a + m
           /\ a \in 0 .. MaxEnd /\ m \in 1 .. MaxEnd => Gap(a, m) \in GapType
BY DEF Gap, EndOffset, GapType

(* A gap of units that were not free is put in, next to the others.         *)
LEMMA EmplaceAdds ==
    ASSUME NEW S, GapSet(S), NEW new \in GapType,
           Extent(new.location, new.length) \cap Units(S) = {},
           Extent(new.location, new.length) \subseteq 0 .. MaxEnd - 1
    PROVE  /\ GapSet(Emplace(S, {new}))
           /\ Units(Emplace(S, {new})) = Units(S) \cup Extent(new.location, new.length)
<1>1. \A h \in S : Extent(new.location, new.length) \cap Extent(h.location, h.length) = {}
  BY DEF Units
<1>2. \A h \in S : h.location # new.location
  <2>1. \A h \in S : h.location \in Extent(h.location, h.length)
    BY GapFacts DEF GapSet
  <2>2. new.location \in Extent(new.location, new.length)
    BY GapFacts
  <2> QED
    BY <1>1, <2>1, <2>2
<1>3. Emplace(S, {new}) = S \cup {new}
  BY <1>2 DEF Emplace
<1>4. Units(S \cup {new}) = Units(S) \cup Extent(new.location, new.length)
  BY DEF Units
<1>5. Disjoint(S \cup {new})
  BY <1>1 DEF GapSet, Disjoint
<1> QED
  BY <1>3, <1>4, <1>5 DEF GapSet

LEMMA RemovalTakes ==
    ASSUME NEW S, GapSet(S), NEW gap \in S
    PROVE  /\ GapSet(S \ {gap})
           /\ Units(S \ {gap}) = Units(S) \ Extent(gap.location, gap.length)
           /\ Extent(gap.location, gap.length) \subseteq Units(S)
<1>1. GapSet(S \ {gap})
  BY SubsetKeeps
<1>2. Units(S \ {gap}) = Units(S) \ Extent(gap.location, gap.length)
  BY DEF GapSet, Disjoint, Units
<1> QED
  BY <1>1, <1>2 DEF Units

(* takeSuitableGap() takes the first units of the gap from the free ones,   *)
(* and no others.                                                           *)
LEMMA WithoutTakes ==
    ASSUME NEW S, GapSet(S), NEW gap \in S, NEW length \in Nat \ {0}, gap.length >= length
    PROVE  /\ GapSet(Without(S, gap, length))
           /\ Units(Without(S, gap, length)) = Units(S) \ Extent(gap.location, length)
           /\ Extent(gap.location, length) \subseteq Units(S)
<1>1. /\ gap \in GapType
      /\ gap.location \in Nat /\ gap.length \in Nat \ {0}
      /\ gap.location \in 0 .. MaxEnd /\ gap.length \in 1 .. MaxEnd
  BY GapFacts DEF GapSet
<1>2. /\ GapSet(S \ {gap})
      /\ Units(S \ {gap}) = Units(S) \ Extent(gap.location, gap.length)
      /\ Extent(gap.location, gap.length) \subseteq Units(S)
  BY RemovalTakes
<1>3. CASE gap.length = length
  BY <1>2, <1>3 DEF Without
<1>4. CASE gap.length # length
  <2>1. PICK rest : rest = Gap(gap.location + length, gap.length - length)
    OBVIOUS
  <2>2. /\ Extent(gap.location, gap.length)
              = Extent(gap.location, length)
                   \cup Extent(gap.location + length, gap.length - length)
        /\ Extent(gap.location, length)
              \cap Extent(gap.location + length, gap.length - length) = {}
    BY <1>1, <1>4 DEF Extent
  <2>3. Units(S) \subseteq 0 .. MaxEnd - 1
    BY DEF GapSet
  <2>4. gap.location + length \in 0 .. MaxEnd /\ gap.length - length \in 1 .. MaxEnd
    <3>1. gap.location + length \in Extent(gap.location, gap.length)
      BY <1>1, <1>4 DEF Extent
    <3>2. gap.location + length \in 0 .. MaxEnd - 1
      BY <1>2, <2>3, <3>1
    <3> QED
      BY <1>1, <1>4, <3>2, BoundsAssumption
  <2>5. /\ rest \in GapType
        /\ rest.location = gap.location + length /\ rest.length = gap.length - length
    <3>1. PICK a, m : a = gap.location + length /\ m = gap.length - length
      OBVIOUS
    <3>2. a \in Int /\ m \in Int /\ a \in 0 .. MaxEnd /\ m \in 1 .. MaxEnd
      BY <1>1, <2>4, <3>1
    <3>3. rest = Gap(a, m)
      BY <2>1, <3>1
    <3>4. rest \in GapType /\ rest.location = a /\ rest.length = m
      BY <3>2, <3>3, GapIsGap
    <3> QED
      BY <3>1, <3>4
  <2>6. /\ Extent(rest.location, rest.length) \cap Units(S \ {gap}) = {}
        /\ Extent(rest.location, rest.length) \subseteq 0 .. MaxEnd - 1
    BY <1>2, <2>2, <2>3, <2>5
  <2>7. /\ GapSet(Emplace(S \ {gap}, {rest}))
        /\ Units(Emplace(S \ {gap}, {rest}))
              = Units(S \ {gap}) \cup Extent(rest.location, rest.length)
    BY <1>2, <2>5, <2>6, EmplaceAdds
  <2>8. Without(S, gap, length) = Emplace(S \ {gap}, {rest})
    BY <1>4, <2>1 DEF Without
  <2> QED
    BY <1>2, <2>2, <2>5, <2>7, <2>8
<1> QED
  BY <1>3, <1>4

(* A search, with or without consolidation, looks at the same free units,   *)
(* and at whole runs of them when there were enough insertions.             *)
LEMMA SearchFacts ==
    ASSUME GapSet(gaps), insertions \in 0 .. MaxInsertions, NEW length \in Nat
    PROVE  LET found == Searched(length)
           IN  /\ GapSet(found.gaps) /\ Units(found.gaps) = Units(gaps)
               /\ found.suitable = Suitable(found.gaps, length)
               /\ found.insertions \in 0 .. MaxInsertions
               /\ found.suitable = {} =>
                     \A g \in IF insertions < ConsolidationThreshold
                                 THEN gaps ELSE MaximalRuns(Units(gaps)) : g.length < length
<1>1. CASE Suitable(gaps, length) # {} \/ insertions < ConsolidationThreshold
  <2>1. Searched(length)
          = [gaps |-> gaps, insertions |-> insertions, suitable |-> Suitable(gaps, length)]
    BY <1>1 DEF Searched
  <2>2. Suitable(gaps, length) = {} => \A g \in gaps : g.length < length
    BY GapFacts DEF Suitable, GapSet
  <2> QED
    BY <1>1, <2>1, <2>2
<1>2. CASE ~(Suitable(gaps, length) # {} \/ insertions < ConsolidationThreshold)
  <2>1. Searched(length)
          = [gaps |-> Consolidated(gaps), insertions |-> 0,
             suitable |-> Suitable(Consolidated(gaps), length)]
    BY <1>2 DEF Searched
  <2>2. /\ GapSet(Consolidated(gaps)) /\ Units(Consolidated(gaps)) = Units(gaps)
        /\ Consolidated(gaps) = MaximalRuns(Units(gaps))
    BY ConsolidatedKeeps, ConsolidatedIsRuns
  <2>3. Suitable(Consolidated(gaps), length) = {} =>
            \A g \in Consolidated(gaps) : g.length < length
    BY <2>2, GapFacts DEF Suitable, GapSet
  <2>4. 0 \in 0 .. MaxInsertions
    BY BoundsAssumption
  <2> QED
    BY <1>2, <2>1, <2>2, <2>3, <2>4
<1> QED
  BY <1>1, <1>2

(* What saveToFile() writes, and loadFromFile() reads.                      *)
LEMMA FileOfGaps ==
    ASSUME NEW S, GapSet(S)
    PROVE  /\ InOrder(S) \in Seq(GapType) /\ Loaded(InOrder(S)) = S
           /\ \A n \in 0 .. Cardinality(S) :
                  /\ SubSeq(InOrder(S), 1, n) \in Seq(GapType)
                  /\ Loaded(SubSeq(InOrder(S), 1, n)) \subseteq S
<1>1. PICK s : s = InOrder(S)
  OBVIOUS
<1>2. PICK c : c = Cardinality(S)
  OBVIOUS
<1>3. /\ c \in Nat /\ s \in [1 .. c -> S] /\ S \subseteq GapType /\ Len(s) = c
      /\ \A g \in S : \E i \in 1 .. c : s[i] = g
  BY <1>1, <1>2, InOrderSorted DEF Sorted, GapSet
<1>4. s \in Seq(S) /\ s \in Seq(GapType) /\ DOMAIN s = 1 .. c
  BY <1>3
<1>5. Loaded(s) = S
  BY <1>3, <1>4 DEF Loaded
<1>6. ASSUME NEW n \in 0 .. c
      PROVE  SubSeq(s, 1, n) \in Seq(GapType) /\ Loaded(SubSeq(s, 1, n)) \subseteq S
  <2>1. PICK part : part = SubSeq(s, 1, n)
    OBVIOUS
  <2>2. part \in Seq(S)
    BY <1>3, <1>4, <2>1
  <2>3. \A i \in DOMAIN part : part[i] \in S
    BY <2>2
  <2> QED
    BY <1>3, <2>1, <2>2, <2>3 DEF Loaded
<1> QED
  BY <1>1, <1>2, <1>4, <1>5, <1>6

(***************************************************************************)
(* The inductive invariant.  FreeIsFree must hold of the gaps in a file     *)
(* too, that the next object will load; and what a complete file restores   *)
(* is known only because the units in use, free and lost are apart.         *)
(***************************************************************************)

FileUnits == 0 .. fileEnd - 1

Numbers ==
    /\ insertions \in 0 .. MaxInsertions
    /\ fileEnd \in 0 .. MaxEnd
    /\ running \in BOOLEAN

(* Every unit is in use, free or lost, and never two of these.              *)
Space ==
    /\ GapSet(gaps)
    /\ live \subseteq FileUnits /\ Units(gaps) \subseteq FileUnits /\ lost \subseteq FileUnits
    /\ Units(gaps) \cap live = {} /\ lost \cap live = {} /\ lost \cap Units(gaps) = {}
    /\ running => FileUnits = live \cup Units(gaps) \cup lost

(* The file that saveToFile() wrote, if it is still there.                  *)
SavedSpace ==
    /\ saved \in [items : Seq(GapType), complete : BOOLEAN]
    /\ GapSet(Loaded(saved.items))
    /\ Units(Loaded(saved.items)) \subseteq FileUnits
    /\ Units(Loaded(saved.items)) \cap live = {}
    /\ saved.complete => Units(Loaded(saved.items)) = FileUnits \ (live \cup lost)

GInv == Numbers /\ Space /\ SavedSpace

(* The storage that owns the file of gaps removes it when gaps change.      *)
FileIsRemoved == KeepsOldFile = FALSE

LEMMA FileUnitsFacts ==
    ASSUME Numbers
    PROVE  FileUnits \subseteq 0 .. MaxEnd - 1 /\ FileUnits \subseteq Int
BY BoundsAssumption DEF Numbers, FileUnits

LEMMA NoFileFacts ==
    /\ NoFile \in [items : Seq(GapType), complete : BOOLEAN] /\ NoFile.complete = FALSE
    /\ Loaded(NoFile.items) = {}
<1>1. NoFile.items = <<>> /\ NoFile.complete = FALSE
  BY DEF NoFile
<1>2. <<>> \in Seq(GapType) /\ Loaded(<<>>) = {}
  BY DEF Loaded
<1> QED
  BY <1>1, <1>2 DEF NoFile

(* When the file is gone nothing needs to be said of it.                    *)
LEMMA FileGone == ASSUME saved' = NoFile PROVE SavedSpace'
<1>1. Loaded(saved'.items) = {} /\ saved'.complete = FALSE
  BY NoFileFacts
<1>2. GapSet(Loaded(saved'.items)) /\ Units(Loaded(saved'.items)) = {}
  BY <1>1, NoGaps
<1> QED
  BY <1>1, <1>2, NoFileFacts DEF SavedSpace

LEMMA GapsChangeLemma == ASSUME FileIsRemoved, GapsChange PROVE SavedSpace'
BY FileGone DEF FileIsRemoved, GapsChange

LEMMA InitGInv == ASSUME Init PROVE GInv
<1>1. Numbers /\ FileUnits = {}
  BY BoundsAssumption DEF Init, Numbers, FileUnits
<1>2. Space
  BY <1>1, NoGaps DEF Init, Space
<1>3. SavedSpace
  BY <1>1, NoFileFacts, NoGaps DEF Init, SavedSpace
<1> QED
  BY <1>1, <1>2, <1>3 DEF GInv

-----------------------------------------------------------------------------
(* One lemma for each operation.                                            *)

LEMMA RegisterPreserves ==
    ASSUME GInv, FileIsRemoved, NEW length \in 1 .. MaxLength, NEW offset \in live,
           RegisterGap(offset, length)
    PROVE  GInv'
<1>1. PICK freed : freed = Extent(offset, length)
  OBVIOUS
<1>2. /\ freed \subseteq live /\ live' = live \ freed
      /\ gaps' = Emplace(gaps, {Gap(offset, length)})
      /\ insertions < MaxInsertions /\ insertions' = insertions + 1
      /\ GapsChange /\ fileEnd' = fileEnd /\ lost' = lost /\ running' = running
  BY <1>1 DEF RegisterGap
<1>3. /\ live \subseteq FileUnits /\ FileUnits \subseteq 0 .. MaxEnd - 1
      /\ FileUnits' = FileUnits
  BY <1>2, FileUnitsFacts DEF GInv, Space, FileUnits
<1>4. length \in Nat \ {0} /\ offset \in Nat /\ MaxEnd \in Nat
  BY <1>3, BoundsAssumption
<1>5. offset \in 0 .. MaxEnd /\ length \in 1 .. MaxEnd
  <2>1. offset + length - 1 \in freed /\ offset \in freed
    BY <1>1, <1>4 DEF Extent
  <2>2. offset + length - 1 \in 0 .. MaxEnd - 1 /\ offset \in 0 .. MaxEnd - 1
    BY <1>2, <1>3, <2>1
  <2> QED
    BY <1>4, <2>2
<1>6. PICK new : new = Gap(offset, length)
  OBVIOUS
<1>7. new \in GapType /\ Extent(new.location, new.length) = freed
  <2>1. offset \in Int /\ length \in Int
    BY <1>4
  <2>2. new.location = offset /\ new.length = length /\ new \in GapType
    BY <1>5, <1>6, <2>1, GapIsGap
  <2> QED
    BY <1>1, <2>2
<1>8. Units(gaps) \cap live = {} /\ GapSet(gaps)
  BY DEF GInv, Space
<1>9. GapSet(gaps') /\ Units(gaps') = Units(gaps) \cup freed
  <2>1. freed \cap Units(gaps) = {} /\ freed \subseteq 0 .. MaxEnd - 1
    BY <1>2, <1>3, <1>8
  <2> QED
    BY <1>2, <1>6, <1>7, <1>8, <2>1, EmplaceAdds
<1>10. Numbers'
  BY <1>2, BoundsAssumption DEF GInv, Numbers
<1>11. Space'
  BY <1>2, <1>3, <1>9 DEF GInv, Space
<1>12. SavedSpace'
  BY <1>2, GapsChangeLemma
<1> QED
  BY <1>10, <1>11, <1>12 DEF GInv

(* What takeSuitableGap() gives away was free, or lies behind the end of    *)
(* the file.                                                                *)
LEMMA TakePreserves ==
    ASSUME GInv, FileIsRemoved, NEW length \in 1 .. MaxLength, TakeSuitableGap(length)
    PROVE  GInv'
<1>1. PICK found : found = Searched(length)
  OBVIOUS
<1>2. length \in Nat \ {0} /\ GapSet(gaps) /\ insertions \in 0 .. MaxInsertions
  BY BoundsAssumption DEF GInv, Numbers, Space
<1>3. /\ GapSet(found.gaps) /\ Units(found.gaps) = Units(gaps)
      /\ found.suitable = Suitable(found.gaps, length)
      /\ found.insertions \in 0 .. MaxInsertions
  BY <1>1, <1>2, SearchFacts
<1>4. /\ running /\ running' = running /\ lost' = lost /\ GapsChange
      /\ insertions' = found.insertions
  BY <1>1 DEF TakeSuitableGap
<1>5. SavedSpace'
  BY <1>4, GapsChangeLemma
<1>6. ASSUME NEW gap \in Shortest(found.suitable),
             gaps' = Without(found.gaps, gap, length),
             live' = live \cup Extent(gap.location, length), fileEnd' = fileEnd
      PROVE  Numbers' /\ Space'
  <2>1. gap \in found.gaps /\ gap.length >= length
    BY <1>3 DEF Shortest, Suitable
  <2>2. /\ GapSet(gaps') /\ Units(gaps') = Units(gaps) \ Extent(gap.location, length)
        /\ Extent(gap.location, length) \subseteq Units(gaps)
    BY <1>2, <1>3, <1>6, <2>1, WithoutTakes
  <2>3. Numbers' /\ FileUnits' = FileUnits
    BY <1>3, <1>4, <1>6 DEF GInv, Numbers, FileUnits
  <2> QED
    BY <1>4, <1>6, <2>2, <2>3 DEF GInv, Space
<1>7. ASSUME fileEnd + length <= MaxEnd, gaps' = found.gaps,
             live' = live \cup Extent(fileEnd, length), fileEnd' = fileEnd + length
      PROVE  Numbers' /\ Space'
  <2>1. fileEnd \in Nat /\ fileEnd' \in 0 .. MaxEnd
    BY <1>2, <1>7, BoundsAssumption DEF GInv, Numbers
  <2>2. /\ FileUnits' = FileUnits \cup Extent(fileEnd, length)
        /\ FileUnits \cap Extent(fileEnd, length) = {}
    BY <1>2, <1>7, <2>1 DEF FileUnits, Extent
  <2>3. Numbers'
    BY <1>3, <1>4, <2>1 DEF GInv, Numbers
  <2>4. GapSet(gaps') /\ Units(gaps') = Units(gaps)
    BY <1>3, <1>7
  <2> QED
    BY <1>4, <1>7, <2>2, <2>3, <2>4 DEF GInv, Space
<1> QED
  BY <1>1, <1>5, <1>6, <1>7 DEF TakeSuitableGap, GInv

LEMMA ConsolidatePreserves == ASSUME GInv, ConsolidateGaps PROVE GInv'
<1>1. /\ gaps' = Consolidated(gaps) /\ insertions' = 0
      /\ UNCHANGED <<live, fileEnd, lost, saved, running>>
  BY DEF ConsolidateGaps
<1>2. GapSet(gaps') /\ Units(gaps') = Units(gaps)
  BY <1>1, ConsolidatedKeeps DEF GInv, Space
<1>3. Numbers' /\ FileUnits' = FileUnits
  BY <1>1, BoundsAssumption DEF GInv, Numbers, FileUnits
<1>4. Space'
  BY <1>1, <1>2, <1>3 DEF GInv, Space
<1>5. SavedSpace'
  BY <1>1, <1>3 DEF GInv, SavedSpace
<1> QED
  BY <1>3, <1>4, <1>5 DEF GInv

LEMMA ClearPreserves == ASSUME GInv, FileIsRemoved, Clear PROVE GInv'
<1>1. /\ gaps' = {} /\ insertions' = 0 /\ lost' = lost \cup Units(gaps)
      /\ GapsChange /\ UNCHANGED <<live, fileEnd, running>>
  BY DEF Clear
<1>2. Numbers' /\ FileUnits' = FileUnits
  BY <1>1, BoundsAssumption DEF GInv, Numbers, FileUnits
<1>3. Space'
  BY <1>1, <1>2, NoGaps DEF GInv, Space
<1> QED
  BY <1>1, <1>2, <1>3, GapsChangeLemma DEF GInv

LEMMA SavePreserves == ASSUME GInv, SaveToFile PROVE GInv'
<1>1. running /\ UNCHANGED <<gaps, insertions, live, fileEnd, lost, running>>
  BY DEF SaveToFile
<1>2. Numbers' /\ Space' /\ FileUnits' = FileUnits
  BY <1>1 DEF GInv, Numbers, Space, FileUnits
<1>3. GapSet(gaps)
  BY DEF GInv, Space
<1>4. CASE saved' = [items |-> InOrder(gaps), complete |-> TRUE]
  <2>1. saved'.items = InOrder(gaps) /\ saved'.complete = TRUE
    BY <1>4
  <2>2. /\ saved' \in [items : Seq(GapType), complete : BOOLEAN]
        /\ Loaded(saved'.items) = gaps
    BY <1>3, <1>4, <2>1, FileOfGaps
  <2> QED
    BY <1>1, <1>2, <2>1, <2>2 DEF GInv, Space, SavedSpace
<1>5. ASSUME NEW n \in 0 .. Cardinality(gaps),
             saved' = [items |-> SubSeq(InOrder(gaps), 1, n), complete |-> FALSE]
      PROVE  GInv'
  <2>1. saved'.items = SubSeq(InOrder(gaps), 1, n) /\ saved'.complete = FALSE
    BY <1>5
  <2>2. /\ saved' \in [items : Seq(GapType), complete : BOOLEAN]
        /\ Loaded(saved'.items) \subseteq gaps
    BY <1>3, <1>5, <2>1, FileOfGaps
  <2>3. GapSet(Loaded(saved'.items)) /\ Units(Loaded(saved'.items)) \subseteq Units(gaps)
    BY <1>3, <2>2, SubsetKeeps
  <2> QED
    BY <1>1, <1>2, <2>1, <2>2, <2>3 DEF GInv, Space, SavedSpace
<1> QED
  BY <1>4, <1>5 DEF SaveToFile

LEMMA StopPreserves == ASSUME GInv, Stop PROVE GInv'
<1>1. /\ running' = FALSE /\ gaps' = {} /\ insertions' = 0
      /\ UNCHANGED <<live, fileEnd, lost, saved>>
  BY DEF Stop
<1>2. Numbers' /\ FileUnits' = FileUnits
  <2>1. FileUnits' = FileUnits
    BY <1>1 DEF FileUnits
  <2>2. insertions' \in 0 .. MaxInsertions /\ running' \in BOOLEAN
    <3>1. 0 \in 0 .. MaxInsertions
      BY BoundsAssumption
    <3> QED
      BY <1>1, <3>1
  <2>3. fileEnd' \in 0 .. MaxEnd
    BY <1>1 DEF GInv, Numbers
  <2> QED
    BY <2>1, <2>2, <2>3 DEF Numbers
<1>3. Space'
  BY <1>1, <1>2, NoGaps DEF GInv, Space
<1>4. SavedSpace'
  BY <1>1, <1>2 DEF GInv, SavedSpace
<1> QED
  BY <1>2, <1>3, <1>4 DEF GInv

LEMMA LoadPreserves == ASSUME GInv, LoadFromFile PROVE GInv'
<1>1. PICK known : known = Loaded(saved.items)
  OBVIOUS
<1>2. /\ running' = TRUE /\ gaps' = known /\ insertions' = 0
      /\ lost' = FileUnits \ (live \cup Units(known))
      /\ UNCHANGED <<live, fileEnd, saved>>
  BY <1>1 DEF LoadFromFile, UnknownUnits, FileUnits
<1>3. Numbers' /\ FileUnits' = FileUnits
  <2>1. 0 \in 0 .. MaxInsertions
    BY BoundsAssumption
  <2>2. FileUnits' = FileUnits
    BY <1>2 DEF FileUnits
  <2>3. insertions' \in 0 .. MaxInsertions /\ running' \in BOOLEAN
    BY <1>2, <2>1
  <2>4. fileEnd' \in 0 .. MaxEnd
    BY <1>2 DEF GInv, Numbers
  <2> QED
    BY <2>2, <2>3, <2>4 DEF Numbers
<1>4. GapSet(known) /\ Units(known) \subseteq FileUnits /\ Units(known) \cap live = {}
  BY <1>1 DEF GInv, SavedSpace
<1>5. Space'
  BY <1>2, <1>3, <1>4 DEF GInv, Space
<1>6. SavedSpace'
  BY <1>1, <1>2, <1>3, <1>4 DEF GInv, SavedSpace
<1> QED
  BY <1>3, <1>5, <1>6 DEF GInv

-----------------------------------------------------------------------------
(* The theorems.                                                            *)

(* GInv holds in every reachable state.                                     *)
THEOREM Invariance ==
    ASSUME FileIsRemoved
    PROVE  Spec => []GInv
<1>1. GInv /\ [Next]_vars => GInv'
  <2> SUFFICES ASSUME GInv, [Next]_vars PROVE GInv'
    OBVIOUS
  <2>1. CASE UNCHANGED vars
    BY <2>1 DEF vars, GInv, Numbers, Space, SavedSpace, FileUnits
  <2> QED
    BY <2>1, RegisterPreserves, TakePreserves, ConsolidatePreserves, ClearPreserves,
       SavePreserves, StopPreserves, LoadPreserves DEF Next
<1> QED
  BY <1>1, InitGInv, PTL DEF Spec

(* The gaps and the file of gaps have the types of the source, in every     *)
(* reachable state.                                                         *)
THEOREM GapTypes ==
    ASSUME FileIsRemoved
    PROVE  Spec => []TypeOK
<1>1. GInv => TypeOK
  BY DEF GInv, Numbers, Space, SavedSpace, FileUnits, GapSet, GapType, TypeOK
<1> QED
  BY <1>1, Invariance, PTL

(* takeSuitableGap() never gives away a unit that is in use, or the same    *)
(* unit twice, also after consolidation and after loading.                  *)
THEOREM FreeSpaceIsFree ==
    ASSUME FileIsRemoved
    PROVE  Spec => []FreeIsFree
<1>1. GInv => FreeIsFree
  BY DEF GInv, Space, GapSet, Disjoint, FreeIsFree
<1> QED
  BY <1>1, Invariance, PTL

(* No operation forgets a free unit but clear() and a file that is missing  *)
(* or incomplete.                                                           *)
THEOREM NoUnitIsForgotten ==
    ASSUME FileIsRemoved
    PROVE  Spec => []NothingForgotten
<1>1. GInv => NothingForgotten
  BY DEF GInv, Space, FileUnits, NothingForgotten
<1> QED
  BY <1>1, Invariance, PTL

(* In every reachable state consolidateGaps() would leave one gap for each  *)
(* run of free units.                                                       *)
THEOREM ConsolidatesRuns ==
    ASSUME FileIsRemoved
    PROVE  Spec => []ConsolidationMerges
<1>1. GInv => ConsolidationMerges
  BY ConsolidatedIsRuns DEF GInv, Space, ConsolidationMerges
<1> QED
  BY <1>1, Invariance, PTL

(* takeSuitableGap() says that there is no gap, and the file grows, only    *)
(* when there is none, or no run of gaps after enough insertions.           *)
THEOREM GrowsWhenFull ==
    ASSUME FileIsRemoved
    PROVE  Spec => GrowsOnlyWithoutRoom
<1>1. ASSUME GInv, NEW length \in 1 .. MaxLength, TakeSuitableGap(length)
      PROVE  GrowthWithoutRoom
  <2>1. PICK found : found = Searched(length)
    OBVIOUS
  <2>2. /\ length \in Nat /\ GapSet(gaps) /\ insertions \in 0 .. MaxInsertions
        /\ fileEnd \in Int
    <3>1. length \in Nat
      BY BoundsAssumption
    <3>2. fileEnd \in Int
      BY <1>1, BoundsAssumption DEF GInv, Numbers
    <3> QED
      BY <1>1, <3>1, <3>2 DEF GInv, Numbers, Space
  <2>3. CASE fileEnd' = fileEnd
    BY <2>2, <2>3 DEF GrowthWithoutRoom
  <2>4. CASE found.suitable = {} /\ fileEnd' = fileEnd + length
    <3>1. \A g \in IF insertions < ConsolidationThreshold
                     THEN gaps ELSE MaximalRuns(Units(gaps)) : g.length < length
      BY <2>1, <2>2, <2>4, SearchFacts
    <3>2. fileEnd' - fileEnd = length
      BY <2>2, <2>4
    <3> QED
      BY <3>1, <3>2 DEF GrowthWithoutRoom
  <2> QED
    BY <1>1, <2>1, <2>3, <2>4 DEF TakeSuitableGap
<1>2. GInv /\ [Next]_vars => [GrowthWithoutRoom]_vars
  <2> SUFFICES ASSUME GInv, Next PROVE GrowthWithoutRoom
    OBVIOUS
  <2>1. fileEnd \in Int
    BY BoundsAssumption DEF GInv, Numbers
  <2>2. fileEnd' = fileEnd => GrowthWithoutRoom
    BY <2>1 DEF GrowthWithoutRoom
  <2> QED
    BY <1>1, <2>2 DEF Next, RegisterGap, ConsolidateGaps, Clear, SaveToFile, Stop, LoadFromFile
<1> QED
  BY <1>2, Invariance, PTL DEF Spec, GrowsOnlyWithoutRoom

(* A complete file that is still there brings back every unit that is not   *)
(* in use and was not lost before.                                          *)
THEOREM CompleteFileBringsAll ==
    ASSUME FileIsRemoved
    PROVE  Spec => CompleteFileRestores
<1>1. GInv /\ [Next]_vars => [RestoresGaps]_vars
  <2> SUFFICES ASSUME GInv, Next, ~running, running', saved.complete
               PROVE  Units(gaps') = (0 .. fileEnd - 1) \ (live \cup lost)
    BY DEF RestoresGaps
  <2>1. LoadFromFile
    BY DEF Next, TakeSuitableGap, RegisterGap, ConsolidateGaps, Clear, SaveToFile, Stop
  <2> QED
    BY <2>1 DEF LoadFromFile, GInv, SavedSpace, FileUnits
<1> QED
  BY <1>1, Invariance, PTL DEF Spec, CompleteFileRestores
=============================================================================
