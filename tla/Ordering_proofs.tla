--------------------------- MODULE Ordering_proofs ---------------------------
(***************************************************************************)
(* Ascending enumerates the elements, each once and by ascending keys.      *)
(* First, what stands for induction in these proofs: the prover cannot use   *)
(* the library's theorems about it, whose parameter is an operator.          *)
(***************************************************************************)
EXTENDS Ordering, FiniteSetTheorems, FunctionTheorems, TLAPS

(* Among numbers there is a least one.                                      *)
LEMMA Least ==
    ASSUME NEW T \in SUBSET Nat, T # {}
    PROVE  \E m \in T : \A k \in T : m <= k
<1>1. PICK m \in T : \A k \in T : ~ (<<k, m>> \in OpToRel(<, Nat))
  BY NatLessThanWellFounded, WFMin, Zenon
<1>2. \A k \in T : ~ (k < m)
  BY <1>1 DEF OpToRel
<1> QED
  BY <1>2

(* What holds of a, and of j + 1 where it holds of j, holds up to b.        *)
LEMMA Climb ==
    ASSUME NEW a \in Nat, NEW b \in Nat, NEW G, a \in G,
           \A j \in a .. b - 1 : j \in G => j + 1 \in G
    PROVE  \A j \in a .. b : j \in G
<1> DEFINE Bad == {j \in a .. b : j \notin G}
<1>1. SUFFICES ASSUME Bad # {} PROVE FALSE
  OBVIOUS
<1>2. PICK m \in Bad : \A k \in Bad : m <= k
  <2>1. Bad \in SUBSET Nat
    OBVIOUS
  <2> QED
    BY <1>1, <2>1, Least
<1>3. m \in a .. b /\ m \notin G /\ m # a
  BY <1>2
<1>4. m - 1 \in a .. b - 1 /\ m - 1 + 1 = m
  BY <1>3
<1>5. m - 1 \in G
  <2>1. m - 1 \notin Bad
    BY <1>2, <1>4
  <2> QED
    BY <1>4, <2>1
<1> QED
  BY <1>3, <1>4, <1>5

(* The elements of a finite set, whose keys differ, have different numbers  *)
(* of elements before them: all the numbers below the size of the set.      *)
LEMMA Ranks ==
    ASSUME NEW S, IsFiniteSet(S), NEW key \in [S -> Int],
           \A d, e \in S : key[d] = key[e] => d = e
    PROVE  /\ \A e \in S : Cardinality(Before(key, e)) \in 0 .. Cardinality(S) - 1
           /\ \A d, e \in S : key[d] < key[e]
                                => Cardinality(Before(key, d)) < Cardinality(Before(key, e))
           /\ \A n \in 0 .. Cardinality(S) - 1 :
                  \E e \in S : Cardinality(Before(key, e)) = n
<1> DEFINE n == Cardinality(S)
<1> DEFINE rank == [e \in S |-> Cardinality(Before(key, e))]
<1>1. DOMAIN key = S /\ n \in Nat
  BY FS_CardinalityType
<1>2. ASSUME NEW e \in S
      PROVE  /\ IsFiniteSet(Before(key, e))
             /\ Cardinality(Before(key, e)) \in Nat
             /\ Cardinality(Before(key, e)) \in 0 .. n - 1
  <2>1. Before(key, e) \in SUBSET (S \ {e}) /\ key[e] \in Int
    BY <1>1, <1>2 DEF Before
  <2>2. IsFiniteSet(S \ {e}) /\ Cardinality(S \ {e}) = n - 1
    BY <1>2, FS_RemoveElement
  <2>3. IsFiniteSet(Before(key, e)) /\ Cardinality(Before(key, e)) <= n - 1
    BY <2>1, <2>2, FS_Subset
  <2>4. Cardinality(Before(key, e)) \in Nat
    BY <2>3, FS_CardinalityType
  <2> QED
    BY <2>3, <2>4, <1>1
<1>3. ASSUME NEW d \in S, NEW e \in S, key[d] < key[e]
      PROVE  Cardinality(Before(key, d)) < Cardinality(Before(key, e))
  <2>1. /\ Before(key, d) \cup {d} \in SUBSET Before(key, e)
        /\ d \notin Before(key, d)
    BY <1>1, <1>3 DEF Before
  <2>2. Cardinality(Before(key, d) \cup {d}) = Cardinality(Before(key, d)) + 1
    BY <2>1, <1>2, FS_AddElement
  <2>3. Cardinality(Before(key, d) \cup {d}) <= Cardinality(Before(key, e))
    BY <2>1, <1>2, FS_Subset
  <2>4. Cardinality(Before(key, d)) \in Nat /\ Cardinality(Before(key, e)) \in Nat
    BY <1>2
  <2> QED
    BY <2>2, <2>3, <2>4
<1>4. rank \in Injection(S, 0 .. n - 1)
  <2>1. rank \in [S -> 0 .. n - 1]
    BY <1>2
  <2>2. ASSUME NEW d \in S, NEW e \in S, rank[d] = rank[e] PROVE d = e
    <3>1. ~(key[d] < key[e]) /\ ~(key[e] < key[d])
      BY <2>2, <1>3, <1>2
    <3> QED
      BY <3>1
  <2> QED
    BY <2>1, <2>2, Fun_IsInj
<1>5. IsFiniteSet(0 .. n - 1) /\ Cardinality(0 .. n - 1) = n
  <2>1. PICK c \in Int, d \in Int : c = 0 /\ d = n - 1
    BY <1>1
  <2>2. IsFiniteSet(c .. d) /\ Cardinality(c .. d) = IF c <= d THEN d - c + 1 ELSE 0
    BY FS_Interval
  <2> QED
    BY <1>1, <2>1, <2>2
<1>6. rank \in Surjection(S, 0 .. n - 1)
  BY <1>4, <1>5, FS_Injection
<1>7. ASSUME NEW m \in 0 .. n - 1 PROVE \E e \in S : Cardinality(Before(key, e)) = m
  <2>1. PICK e \in S : rank[e] = m
    BY <1>6 DEF Surjection
  <2> QED
    BY <2>1
<1> QED
  BY <1>2, <1>3, <1>7

(* The i-th element has i - 1 elements before it.                           *)
LEMMA AscendingRank ==
    ASSUME NEW S, IsFiniteSet(S), NEW key \in [S -> Int],
           \A d, e \in S : key[d] = key[e] => d = e,
           NEW i \in 1 .. Cardinality(S)
    PROVE  Ascending(key)[i] \in S /\ Cardinality(Before(key, Ascending(key)[i])) = i - 1
<1>1. Cardinality(S) \in Nat /\ DOMAIN key = S
  BY FS_CardinalityType
<1>2. i - 1 \in 0 .. Cardinality(S) - 1
  BY <1>1
<1>3. \E e \in S : Cardinality(Before(key, e)) = i - 1
  BY <1>2, Ranks
<1>4. Ascending(key)[i] = CHOOSE e \in S : Cardinality(Before(key, e)) = i - 1
  BY <1>1 DEF Ascending
<1> QED
  BY <1>3, <1>4

(* std::map and the multi-index set iterate over all their elements, over   *)
(* each once, and by ascending keys.                                        *)
THEOREM AscendingEnumerates ==
    ASSUME NEW S, IsFiniteSet(S), NEW key \in [S -> Int],
           \A d, e \in S : key[d] = key[e] => d = e
    PROVE  /\ Cardinality(S) \in Nat
           /\ Ascending(key) \in [1 .. Cardinality(S) -> S]
           /\ \A e \in S : \E i \in 1 .. Cardinality(S) : Ascending(key)[i] = e
           /\ \A i, j \in 1 .. Cardinality(S) :
                  i < j => key[Ascending(key)[i]] < key[Ascending(key)[j]]
<1> DEFINE n == Cardinality(S)
<1> DEFINE s == Ascending(key)
<1>1. n \in Nat /\ DOMAIN key = S
  BY FS_CardinalityType
<1>2. \A i \in 1 .. n : s[i] \in S /\ Cardinality(Before(key, s[i])) = i - 1
  BY AscendingRank
<1>3. s \in [1 .. n -> S]
  BY <1>1, <1>2 DEF Ascending
<1>4. ASSUME NEW e \in S PROVE \E i \in 1 .. n : s[i] = e
  <2>1. PICK r \in 0 .. n - 1 : Cardinality(Before(key, e)) = r
    BY Ranks
  <2>2. r + 1 \in 1 .. n /\ (r + 1) - 1 = r
    BY <1>1
  <2>3. s[r + 1] \in S /\ Cardinality(Before(key, s[r + 1])) = r
    BY <1>2, <2>2
  <2>4. ~(key[s[r + 1]] < key[e]) /\ ~(key[e] < key[s[r + 1]])
    BY <2>1, <2>3, Ranks
  <2>5. s[r + 1] = e
    BY <2>3, <2>4
  <2> QED
    BY <2>2, <2>5
<1>5. ASSUME NEW i \in 1 .. n, NEW j \in 1 .. n, i < j
      PROVE  key[s[i]] < key[s[j]]
  <2>1. /\ s[i] \in S /\ Cardinality(Before(key, s[i])) = i - 1
        /\ s[j] \in S /\ Cardinality(Before(key, s[j])) = j - 1
    BY <1>2
  <2>2. ~(key[s[j]] < key[s[i]])
    BY <2>1, Ranks, <1>5
  <2>3. s[i] # s[j]
    BY <2>1, <1>5
  <2> QED
    BY <2>1, <2>2, <2>3
<1> QED
  BY <1>1, <1>3, <1>4, <1>5

(* An element that comes after all the others is the last, and the others   *)
(* keep their places.                                                       *)
Grown(key, more, S, p) ==
    /\ Cardinality(S) \in Nat
    /\ Ascending(more) \in [1 .. Cardinality(S) + 1 -> S \cup {p}]
    /\ \A i \in 1 .. Cardinality(S) : Ascending(more)[i] = Ascending(key)[i]
    /\ Ascending(more)[Cardinality(S) + 1] = p

LEMMA AscendingGrows ==
    ASSUME NEW S, IsFiniteSet(S), NEW key \in [S -> Int],
           \A d, e \in S : key[d] = key[e] => d = e,
           NEW p, p \notin S, NEW more \in [S \cup {p} -> Int],
           \A e \in S : more[e] = key[e] /\ key[e] < more[p]
    PROVE  Grown(key, more, S, p)
<1> DEFINE n == Cardinality(S)
<1>1. n \in Nat /\ DOMAIN key = S /\ DOMAIN more = S \cup {p}
  BY FS_CardinalityType
<1>2. IsFiniteSet(S \cup {p}) /\ Cardinality(S \cup {p}) = n + 1
  BY FS_AddElement
<1>3. \A d, e \in S \cup {p} : more[d] = more[e] => d = e
  <2>1. \A e \in S : more[e] \in Int /\ more[e] < more[p]
    OBVIOUS
  <2>2. more[p] \in Int
    OBVIOUS
  <2>3. \A e \in S : more[e] # more[p]
    BY <2>1, <2>2
  <2> QED
    BY <2>3
<1>4. Before(more, p) = S
  BY <1>1 DEF Before
<1>5. ASSUME NEW e \in S PROVE Before(more, e) = Before(key, e)
  <2>1. ~(more[p] < more[e])
    <3>1. more[p] \in Int /\ more[e] \in Int /\ more[e] < more[p]
      OBVIOUS
    <3> QED
      BY <3>1
  <2> QED
    BY <1>1, <2>1 DEF Before
<1>6. ASSUME NEW i \in 1 .. n + 1
      PROVE  /\ Ascending(more)[i] \in S \cup {p}
             /\ Cardinality(Before(more, Ascending(more)[i])) = i - 1
  BY <1>2, <1>3, AscendingRank
<1>7. Ascending(more) \in [1 .. n + 1 -> S \cup {p}]
  BY <1>1, <1>2, <1>6 DEF Ascending
<1>8. ASSUME NEW i \in 1 .. n PROVE Ascending(more)[i] = Ascending(key)[i]
  <2>1. PICK x : x = Ascending(more)[i]
    OBVIOUS
  <2>2. PICK y : y = Ascending(key)[i]
    OBVIOUS
  <2>3. x \in S \cup {p} /\ Cardinality(Before(more, x)) = i - 1
    BY <1>1, <1>6, <2>1
  <2>4. x \in S
    BY <1>1, <1>4, <2>3
  <2>5. y \in S /\ Cardinality(Before(key, y)) = i - 1
    BY <2>2, AscendingRank
  <2>6. Cardinality(Before(key, x)) = i - 1
    BY <1>5, <2>3, <2>4
  <2>7. ~(key[x] < key[y]) /\ ~(key[y] < key[x])
    BY <2>4, <2>5, <2>6, Ranks
  <2>8. x = y
    BY <2>4, <2>5, <2>7
  <2> QED
    BY <2>1, <2>2, <2>8
<1>9. Ascending(more)[n + 1] = p
  <2>1. PICK x : x = Ascending(more)[n + 1]
    OBVIOUS
  <2>2. n + 1 \in 1 .. n + 1 /\ (n + 1) - 1 = n
    BY <1>1
  <2>3. x \in S \cup {p} /\ Cardinality(Before(more, x)) = n
    BY <1>6, <2>1, <2>2
  <2>4. ASSUME x \in S PROVE FALSE
    <3>1. Cardinality(Before(key, x)) \in 0 .. n - 1
      BY <2>4, Ranks
    <3> QED
      BY <1>1, <1>5, <2>3, <2>4, <3>1
  <2> QED
    BY <2>1, <2>3, <2>4
<1> QED
  BY <1>1, <1>7, <1>8, <1>9 DEF Grown

(* What comes after all the others in the order of the keys becomes the     *)
(* last of the elements in that order, and moves none of them.              *)
THEOREM AscendingAppends ==
    ASSUME NEW S, IsFiniteSet(S), NEW key \in [S -> Int],
           \A d, e \in S : key[d] = key[e] => d = e,
           NEW p, p \notin S, NEW more \in [S \cup {p} -> Int],
           \A e \in S : more[e] = key[e] /\ key[e] < more[p]
    PROVE  /\ Cardinality(S) \in Nat
           /\ Ascending(more) \in [1 .. Cardinality(S) + 1 -> S \cup {p}]
           /\ \A i \in 1 .. Cardinality(S) : Ascending(more)[i] = Ascending(key)[i]
           /\ Ascending(more)[Cardinality(S) + 1] = p
<1>1. Grown(key, more, S, p)
  BY AscendingGrows
<1> QED
  BY <1>1 DEF Grown
=============================================================================
