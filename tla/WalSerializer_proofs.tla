------------------------- MODULE WalSerializer_proofs -------------------------
(***************************************************************************)
(* Whatever the record's fields are, and whatever a block holds: deserialize *)
(* gives back what serialize wrote and stops where it ended, so that a block *)
(* is read in step to its end.                                              *)
(***************************************************************************)
EXTENDS WalSerializer, Ordering_proofs, SequenceTheorems

FieldCount == Len(Schema)
DynamicCount == FieldCount - StaticFieldsCount

-----------------------------------------------------------------------------
(* The fields of a record.                                                  *)

LEMMA CountedUpTo ==
    ASSUME NEW a \in Nat, NEW b \in Nat
    PROVE  /\ IsFiniteSet(a + 1 .. b)
           /\ Cardinality(a + 1 .. b) = IF a <= b THEN b - a ELSE 0
<1>1. PICK c \in Int, d \in Int : c = a + 1 /\ d = b
  OBVIOUS
<1>2. IsFiniteSet(c .. d) /\ Cardinality(c .. d) = IF c <= d THEN d - c + 1 ELSE 0
  BY FS_Interval
<1> QED
  BY <1>1, <1>2

(* The fields of fixed size are the first ones, as many as are counted.     *)
LEMMA SchemaFacts ==
    /\ FieldCount \in Nat \ {0} /\ DOMAIN Schema = 1 .. FieldCount
    /\ StaticFieldsCount \in 0 .. FieldCount
    /\ \A i \in 1 .. FieldCount : Schema[i].static \in BOOLEAN
    /\ \A i \in 1 .. FieldCount : Schema[i].type \in STRING
    /\ \A i \in 1 .. FieldCount : Schema[i].static <=> i <= StaticFieldsCount
<1> DEFINE Static == {i \in DOMAIN Schema : Schema[i].static}
           Behind == {m \in 0 .. FieldCount :
                        \A i \in 1 .. FieldCount : i > m => ~Schema[i].static}
<1>1. /\ FieldCount \in Nat \ {0} /\ DOMAIN Schema = 1 .. FieldCount
      /\ \A i \in 1 .. FieldCount : Schema[i].static \in BOOLEAN
      /\ \A i \in 1 .. FieldCount : Schema[i].type \in STRING
  <2>1. /\ FieldCount \in Nat \ {0} /\ DOMAIN Schema = 1 .. FieldCount
        /\ \A i \in 1 .. FieldCount :
              Schema[i] \in [id : 0 .. 255, type : STRING, static : BOOLEAN, array : BOOLEAN]
    <3>1. PICK F : F = [id : 0 .. 255, type : STRING, static : BOOLEAN, array : BOOLEAN]
      OBVIOUS
    <3>2. Schema \in Seq(F) /\ Schema # <<>>
      BY <3>1, SchemaAssumption
    <3>3. Len(Schema) \in Nat /\ DOMAIN Schema = 1 .. Len(Schema) /\ Len(Schema) # 0
      BY <3>2, EmptySeq, LenProperties
    <3>4. \A i \in 1 .. Len(Schema) : Schema[i] \in F
      BY <3>2, ElementOfSeq
    <3> QED
      BY <3>1, <3>3, <3>4 DEF FieldCount
  <2> QED
    BY <2>1
<1>2. PICK m \in Behind : \A k \in Behind : m <= k
  <2>1. FieldCount \in Behind /\ Behind \in SUBSET Nat
    BY <1>1
  <2> QED
    BY <2>1, Least
<1>3. ASSUME NEW i \in 1 .. m PROVE Schema[i].static
  <2>1. Schema[m].static
    <3>1. m \in 1 .. FieldCount /\ m - 1 \in 0 .. FieldCount
      BY <1>1, <1>2
    <3>2. PICK k : k = m - 1
      OBVIOUS
    <3>3. PICK j \in 1 .. FieldCount : j > k /\ Schema[j].static
      <4>1. k \in 0 .. FieldCount /\ k \notin Behind
        BY <1>1, <1>2, <3>1, <3>2
      <4> QED
        BY <4>1, Zenon
    <3>4. j <= m
      BY <1>1, <1>2, <3>3
    <3>5. j = m
      BY <3>1, <3>2, <3>3, <3>4
    <3> QED
      BY <3>3, <3>5
  <2>2. i = m \/ i < m
    BY <1>2
  <2>3. i \in DOMAIN Schema /\ m \in DOMAIN Schema
    BY <1>1, <1>2
  <2> QED
    BY <2>1, <2>2, <2>3, SchemaAssumption
<1>4. \A i \in 1 .. FieldCount : Schema[i].static <=> i <= m
  BY <1>1, <1>2, <1>3
<1>5. Static = 1 .. m /\ m \in Nat
  BY <1>1, <1>2, <1>4
<1>6. StaticFieldsCount = m
  <2>1. Cardinality(0 + 1 .. m) = m
    BY <1>5, CountedUpTo
  <2>2. 0 + 1 = 1
    OBVIOUS
  <2> QED
    BY <1>5, <2>1, <2>2 DEF StaticFieldsCount
<1> QED
  BY <1>1, <1>2, <1>4, <1>6

LEMMA DynamicFacts ==
    /\ DynamicCount \in Nat /\ DynamicCount + StaticFieldsCount = FieldCount
    /\ DynamicFields = StaticFieldsCount + 1 .. FieldCount
    /\ Cardinality(DynamicFields) = DynamicCount
<1>1. DynamicCount \in Nat /\ DynamicCount + StaticFieldsCount = FieldCount
  BY SchemaFacts DEF DynamicCount
<1>2. DynamicFields = StaticFieldsCount + 1 .. FieldCount
  BY SchemaFacts DEF DynamicFields
<1>3. Cardinality(DynamicFields) = DynamicCount
  <2>1. StaticFieldsCount \in Nat /\ FieldCount \in Nat /\ StaticFieldsCount <= FieldCount
    BY SchemaFacts
  <2> QED
    BY <1>2, <2>1, CountedUpTo DEF DynamicCount
<1> QED
  BY <1>1, <1>2, <1>3

LEMMA RankFacts ==
    /\ \A i \in 1 .. StaticFieldsCount : Rank(i) = i
    /\ \A i \in StaticFieldsCount + 1 .. FieldCount : Rank(i) = i - StaticFieldsCount
<1>1. ASSUME NEW i \in 1 .. StaticFieldsCount PROVE Rank(i) = i
  <2>1. i \in Nat /\ i \in 1 .. FieldCount /\ 0 + 1 = 1
    BY SchemaFacts
  <2>2. {j \in 1 .. i : Schema[j].static = Schema[i].static} = 0 + 1 .. i
    <3>1. ASSUME NEW j \in 1 .. i PROVE Schema[j].static = Schema[i].static
      <4>1. j \in 1 .. FieldCount /\ j <= StaticFieldsCount /\ i <= StaticFieldsCount
        BY <2>1, SchemaFacts
      <4> QED
        BY <2>1, <4>1, SchemaFacts
    <3> QED
      BY <2>1, <3>1
  <2>3. Cardinality(0 + 1 .. i) = i
    BY <2>1, CountedUpTo
  <2> QED
    BY <2>2, <2>3 DEF Rank
<1>2. ASSUME NEW i \in StaticFieldsCount + 1 .. FieldCount PROVE Rank(i) = i - StaticFieldsCount
  <2>1. i \in Nat /\ i \in 1 .. FieldCount /\ StaticFieldsCount \in Nat /\ StaticFieldsCount <= i
    BY SchemaFacts
  <2>2. {j \in 1 .. i : Schema[j].static = Schema[i].static} = StaticFieldsCount + 1 .. i
    <3>1. ASSUME NEW j \in 1 .. i
          PROVE  Schema[j].static = Schema[i].static <=> StaticFieldsCount < j
      <4>1. j \in 1 .. FieldCount /\ ~(i <= StaticFieldsCount)
        BY <2>1, SchemaFacts
      <4> QED
        BY <2>1, <4>1, SchemaFacts
    <3> QED
      BY <2>1, <3>1
  <2>3. Cardinality(StaticFieldsCount + 1 .. i) = i - StaticFieldsCount
    BY <2>1, CountedUpTo
  <2> QED
    BY <2>2, <2>3 DEF Rank
<1> QED
  BY <1>1, <1>2

-----------------------------------------------------------------------------
(* Sequences, whatever they are of.                                         *)

IsSeq(s) == \E S : s \in Seq(S)

LEMMA SeqFacts ==
    ASSUME NEW s, IsSeq(s)
    PROVE  Len(s) \in Nat /\ DOMAIN s = 1 .. Len(s) /\ s = [i \in 1 .. Len(s) |-> s[i]]
<1>1. PICK S : s \in Seq(S)
  BY DEF IsSeq
<1> QED
  BY <1>1, LenProperties

-----------------------------------------------------------------------------
(* The record in the bytes.                                                 *)

LEMMA TokenFacts ==
    ASSUME NEW type, NEW v
    PROVE  Token(type, v).type = type /\ Token(type, v).v = v
BY DEF Token

LEMMA RecordBytes ==
    ASSUME NEW record \in Records
    PROVE  /\ IsSeq(SerializedRecord(record))
           /\ Len(SerializedRecord(record)) = 1 + DynamicCount
           /\ SerializedRecord(record)[1] = Token("static", SubSeq(record, 1, StaticFieldsCount))
           /\ \A k \in 1 .. DynamicCount : SerializedRecord(record)[1 + k]
                 = Token(Schema[StaticFieldsCount + k].type, record[StaticFieldsCount + k])
<1>1. PICK piece : piece = Token("static", SubSeq(record, 1, StaticFieldsCount))
  OBVIOUS
<1>2. PICK others : others = [i \in 1 .. DynamicCount |->
          Token(Schema[StaticFieldsCount + i].type, record[StaticFieldsCount + i])]
  OBVIOUS
<1>3. PICK S : others \in Seq(S)
  <2>1. DynamicCount \in Nat
    BY DynamicFacts
  <2>2. PICK S : S = {others[i] : i \in 1 .. DynamicCount}
    OBVIOUS
  <2>3. others \in [1 .. DynamicCount -> S]
    BY <1>2, <2>2
  <2>4. others \in Seq(S)
    BY <2>1, <2>3
  <2> QED
    BY <2>4
<1>4. Len(others) = DynamicCount
  BY <1>2, DynamicFacts
<1>5. PICK bytes : bytes = <<piece>> \o others
  OBVIOUS
<1>6. bytes = SerializedRecord(record)
  BY <1>1, <1>2, <1>5 DEF SerializedRecord, DynamicCount, FieldCount
<1>7. /\ bytes \in Seq(S \cup {piece}) /\ Len(bytes) = 1 + DynamicCount /\ bytes[1] = piece
      /\ \A k \in 1 .. DynamicCount : bytes[1 + k] = others[k]
  BY <1>3, <1>4, <1>5
<1>8. \A k \in 1 .. DynamicCount :
        others[k] = Token(Schema[StaticFieldsCount + k].type, record[StaticFieldsCount + k])
  BY <1>2
<1> QED
  BY <1>1, <1>6, <1>7, <1>8 DEF IsSeq

LEMMA RecordTypesFacts ==
    /\ IsSeq(RecordTypes) /\ Len(RecordTypes) = 1 + DynamicCount
    /\ RecordTypes[1] = "static"
    /\ \A k \in 1 .. DynamicCount : RecordTypes[1 + k] = Schema[StaticFieldsCount + k].type
<1>1. PICK others : others = [k \in 1 .. DynamicCount |->
          Schema[CHOOSE i \in DynamicFields : Rank(i) = k].type]
  OBVIOUS
<1>2. PICK S : others \in Seq(S)
  <2>1. DynamicCount \in Nat
    BY DynamicFacts
  <2>2. PICK S : S = {others[i] : i \in 1 .. DynamicCount}
    OBVIOUS
  <2>3. others \in [1 .. DynamicCount -> S]
    BY <1>1, <2>2
  <2>4. others \in Seq(S)
    BY <2>1, <2>3
  <2> QED
    BY <2>4
<1>3. Len(others) = DynamicCount
  BY <1>1, DynamicFacts
<1>4. RecordTypes = <<"static">> \o others
  BY <1>1, DynamicFacts DEF RecordTypes
<1>5. ASSUME NEW k \in 1 .. DynamicCount PROVE others[k] = Schema[StaticFieldsCount + k].type
  <2>1. PICK f : f = StaticFieldsCount + k
    OBVIOUS
  <2>2. /\ f \in DynamicFields /\ Rank(f) = k
        /\ \A i \in DynamicFields : Rank(i) = k => i = f
    <3>1. /\ StaticFieldsCount \in Nat /\ FieldCount \in Nat
          /\ DynamicCount + StaticFieldsCount = FieldCount /\ DynamicCount \in Nat
          /\ DynamicFields = StaticFieldsCount + 1 .. FieldCount
      BY SchemaFacts, DynamicFacts
    <3>2. f \in DynamicFields /\ f - StaticFieldsCount = k
      BY <2>1, <3>1
    <3>3. \A i \in DynamicFields : Rank(i) = i - StaticFieldsCount
      BY <3>1, RankFacts
    <3>4. \A i \in DynamicFields : i - StaticFieldsCount = k => i = f
      BY <2>1, <3>1
    <3> QED
      BY <3>2, <3>3, <3>4
  <2>3. (CHOOSE i \in DynamicFields : Rank(i) = k) = f
    BY <2>2
  <2> QED
    BY <1>1, <2>1, <2>3
<1>6. /\ <<"static">> \o others \in Seq(S \cup {"static"})
      /\ Len(<<"static">> \o others) = 1 + DynamicCount
      /\ (<<"static">> \o others)[1] = "static"
      /\ \A k \in 1 .. DynamicCount : (<<"static">> \o others)[1 + k] = others[k]
  BY <1>2, <1>3
<1> QED
  BY <1>4, <1>5, <1>6 DEF IsSeq

(* What is written is what is asked for, and the fields come back each at   *)
(* its place: the count of the writer and the kinds that the reader looks   *)
(* at agree because the fields of fixed size are first.                     *)
LEMMA RecordIsRead ==
    ASSUME NEW record \in Records, NEW s, NEW n \in Nat,
           \A k \in 1 .. 1 + DynamicCount : s[n + k] = SerializedRecord(record)[k]
    PROVE  /\ RecordAt(s, n + 1) = record
           /\ \A k \in 1 .. 1 + DynamicCount : s[n + k].type = RecordTypes[k]
<1>0. /\ DynamicCount \in Nat /\ StaticFieldsCount \in Nat /\ FieldCount \in Nat
      /\ DynamicCount + StaticFieldsCount = FieldCount /\ DOMAIN Schema = 1 .. FieldCount
  BY DynamicFacts, SchemaFacts
<1>1. s[n + 1] = Token("static", SubSeq(record, 1, StaticFieldsCount))
  BY <1>0, RecordBytes
<1>2. ASSUME NEW k \in 1 .. DynamicCount
      PROVE  s[n + 1 + k] = Token(Schema[StaticFieldsCount + k].type, record[StaticFieldsCount + k])
  <2>1. 1 + k \in 1 .. 1 + DynamicCount /\ n + (1 + k) = n + 1 + k
    BY <1>0
  <2>2. s[n + (1 + k)] = SerializedRecord(record)[1 + k]
    BY <2>1
  <2> QED
    BY <2>1, <2>2, RecordBytes
<1>3. ASSUME NEW i \in 1 .. StaticFieldsCount PROVE s[n + 1].v[Rank(i)] = record[i]
  <2>1. Rank(i) = i
    BY RankFacts
  <2>2. SubSeq(record, 1, StaticFieldsCount)[i] = record[i]
    BY <1>0
  <2>3. s[n + 1].v = SubSeq(record, 1, StaticFieldsCount)
    <3>1. PICK front : front = SubSeq(record, 1, StaticFieldsCount)
      OBVIOUS
    <3>2. s[n + 1] = Token("static", front)
      BY <1>1, <3>1
    <3>3. s[n + 1].v = front
      BY <3>2 DEF Token
    <3> QED
      BY <3>1, <3>3, Zenon
  <2> QED
    BY <2>1, <2>2, <2>3
<1>4. ASSUME NEW i \in StaticFieldsCount + 1 .. FieldCount PROVE s[n + 1 + Rank(i)].v = record[i]
  <2>1. PICK k : k = i - StaticFieldsCount
    OBVIOUS
  <2>2. k \in 1 .. DynamicCount /\ StaticFieldsCount + k = i
    BY <1>0, <2>1
  <2>3. Rank(i) = k
    BY <2>1, RankFacts
  <2>4. s[n + 1 + k] = Token(Schema[i].type, record[i])
    BY <1>2, <2>2
  <2> QED
    BY <2>3, <2>4, TokenFacts
<1>5. RecordAt(s, n + 1) = record
  <2>1. record \in [1 .. FieldCount -> Values]
    BY <1>0 DEF Records
  <2>2. ASSUME NEW i \in 1 .. FieldCount
        PROVE  record[i] = IF Schema[i].static THEN s[n + 1].v[Rank(i)] ELSE s[n + 1 + Rank(i)].v
    <3>1. CASE Schema[i].static
      <4>1. i \in 1 .. StaticFieldsCount
        BY <1>0, <3>1, SchemaFacts
      <4> QED
        BY <1>3, <3>1, <4>1
    <3>2. CASE ~Schema[i].static
      <4>1. i \in StaticFieldsCount + 1 .. FieldCount
        BY <1>0, <3>2, SchemaFacts
      <4> QED
        BY <1>4, <3>2, <4>1
    <3> QED
      BY <3>1, <3>2
  <2> QED
    BY <1>0, <2>1, <2>2 DEF RecordAt
<1>6. ASSUME NEW k \in 1 .. 1 + DynamicCount PROVE s[n + k].type = RecordTypes[k]
  <2>1. CASE k = 1
    BY <1>1, <2>1, RecordTypesFacts, TokenFacts
  <2>2. CASE k # 1
    <3>1. PICK j \in 1 .. DynamicCount : k = 1 + j
      <4>1. k - 1 \in 1 .. DynamicCount /\ k = 1 + (k - 1)
        BY <1>0, <2>2
      <4> QED
        BY <4>1
    <3>2. n + k = n + 1 + j
      BY <1>0, <3>1
    <3>3. s[n + k] = Token(Schema[StaticFieldsCount + j].type, record[StaticFieldsCount + j])
      BY <1>2, <3>2
    <3>4. RecordTypes[k] = Schema[StaticFieldsCount + j].type
      BY <3>1, RecordTypesFacts
    <3> QED
      BY <3>3, <3>4, TokenFacts
  <2> QED
    BY <2>1, <2>2
<1> QED
  BY <1>5, <1>6

-----------------------------------------------------------------------------
(* Pieces of the bytes.                                                     *)

(* What Deserialize() gives for an operation it has read in n tokens.       *)
Success(op, n) == [ok |-> TRUE, ops |-> <<op>>, consumed |-> n]

(* "piece" is found in s behind the first n elements; its types are.        *)
Holds(s, n, piece) == \A i \in 1 .. Len(piece) : s[n + i] = piece[i]
HasTypes(s, n, types) == \A i \in 1 .. Len(types) : s[n + i].type = types[i]

Joined(c, a, b) == c = a \o b

(* What it is for c to be a and b.                                          *)
TwoPieces(s, n, c, a, b) ==
    /\ IsSeq(c) /\ Len(c) = Len(a) + Len(b)
    /\ Holds(s, n, c) <=> Holds(s, n, a) /\ Holds(s, n + Len(a), b)
    /\ HasTypes(s, n, c) <=> HasTypes(s, n, a) /\ HasTypes(s, n + Len(a), b)

LEMMA JoinedFacts ==
    ASSUME NEW a, IsSeq(a), NEW b, IsSeq(b), NEW c, Joined(c, a, b), NEW s, NEW n \in Nat
    PROVE  TwoPieces(s, n, c, a, b)
<1>1. PICK S : a \in Seq(S)
  BY DEF IsSeq
<1>2. PICK T : b \in Seq(T)
  BY DEF IsSeq
<1>3. PICK la \in Nat, lb \in Nat : la = Len(a) /\ lb = Len(b)
  BY <1>1, <1>2
<1>4. /\ c \in Seq(S \cup T) /\ Len(c) = la + lb
      /\ \A i \in 1 .. la : c[i] = a[i]
      /\ \A i \in 1 .. lb : c[la + i] = b[i]
  BY <1>1, <1>2, <1>3 DEF Joined
<1>5. ASSUME NEW i \in 1 .. la + lb
      PROVE  i \in 1 .. la \/ \E j \in 1 .. lb : i = la + j
  <2>1. i <= la \/ (i - la \in 1 .. lb /\ i = la + (i - la))
    BY <1>3
  <2> QED
    BY <2>1
<1>6. /\ Holds(s, n, c) <=> Holds(s, n, a) /\ Holds(s, n + la, b)
      /\ HasTypes(s, n, c) <=> HasTypes(s, n, a) /\ HasTypes(s, n + la, b)
  <2>2. /\ \A i \in 1 .. la : i \in 1 .. la + lb
        /\ \A i \in 1 .. lb : la + i \in 1 .. la + lb /\ n + la + i = n + (la + i)
    BY <1>3
  <2>3. Holds(s, n, c) => Holds(s, n, a) /\ Holds(s, n + la, b)
    BY <1>3, <1>4, <2>2 DEF Holds
  <2>4. ASSUME Holds(s, n, a), Holds(s, n + la, b) PROVE Holds(s, n, c)
    <3>1. ASSUME NEW i \in 1 .. la + lb PROVE s[n + i] = c[i]
      <4>1. CASE i \in 1 .. la
        BY <1>3, <1>4, <2>4, <4>1 DEF Holds
      <4>2. ASSUME NEW j \in 1 .. lb, i = la + j PROVE s[n + i] = c[i]
        <5>1. n + la + j = n + i /\ c[i] = b[j]
          BY <1>3, <1>4, <4>2
        <5> QED
          BY <1>3, <2>4, <4>2, <5>1 DEF Holds
      <4> QED
        BY <1>5, <4>1, <4>2
    <3> QED
      BY <1>4, <3>1 DEF Holds
  <2>5. HasTypes(s, n, c) => HasTypes(s, n, a) /\ HasTypes(s, n + la, b)
    BY <1>3, <1>4, <2>2 DEF HasTypes
  <2>6. ASSUME HasTypes(s, n, a), HasTypes(s, n + la, b) PROVE HasTypes(s, n, c)
    <3>1. ASSUME NEW i \in 1 .. la + lb PROVE s[n + i].type = c[i]
      <4>1. CASE i \in 1 .. la
        BY <1>3, <1>4, <2>6, <4>1 DEF HasTypes
      <4>2. ASSUME NEW j \in 1 .. lb, i = la + j PROVE s[n + i].type = c[i]
        <5>1. n + la + j = n + i /\ c[i] = b[j]
          BY <1>3, <1>4, <4>2
        <5> QED
          BY <1>3, <2>6, <4>2, <5>1 DEF HasTypes
      <4> QED
        BY <1>5, <4>1, <4>2
    <3> QED
      BY <1>4, <3>1 DEF HasTypes
  <2> QED
    BY <2>3, <2>4, <2>5, <2>6
<1> QED
  BY <1>3, <1>4, <1>6 DEF IsSeq, TwoPieces

JoinedThree(c, a, b, d) == c = a \o b \o d

ThreePieces(s, c, a, b, d) ==
           /\ IsSeq(c) /\ Len(c) = Len(a) + Len(b) + Len(d)
           /\ Holds(s, 0, c)
                 <=> Holds(s, 0, a) /\ Holds(s, Len(a), b) /\ Holds(s, Len(a) + Len(b), d)
           /\ HasTypes(s, 0, c)
                 <=> HasTypes(s, 0, a) /\ HasTypes(s, Len(a), b) /\ HasTypes(s, Len(a) + Len(b), d)

(* The same of three pieces.                                                *)
LEMMA JoinedThreeFacts ==
    ASSUME NEW a, IsSeq(a), NEW b, IsSeq(b), NEW d, IsSeq(d), NEW c,
           JoinedThree(c, a, b, d), NEW s
    PROVE  ThreePieces(s, c, a, b, d)
<1>1. PICK front : Joined(front, a, b) /\ Joined(c, front, d)
  BY DEF Joined, JoinedThree
<1>2. TwoPieces(s, 0, front, a, b)
  BY <1>1, JoinedFacts
<1>3. TwoPieces(s, 0, c, front, d)
  BY <1>1, <1>2, JoinedFacts DEF TwoPieces
<1>4. /\ Len(a) \in Nat /\ Len(b) \in Nat
      /\ 0 + Len(a) = Len(a) /\ 0 + (Len(a) + Len(b)) = Len(a) + Len(b)
  BY SeqFacts
<1> QED
  BY <1>2, <1>3, <1>4 DEF TwoPieces, ThreePieces

(* Short pieces, token by token.                                            *)
LEMMA OneFacts ==
    ASSUME NEW t
    PROVE  /\ IsSeq(<<t>>) /\ Len(<<t>>) = 1
           /\ \A s : \A n \in Nat : /\ Holds(s, n, <<t>>) <=> s[n + 1] = t
                                    /\ HasTypes(s, n, <<t>>) <=> s[n + 1].type = t
<1>1. <<t>> \in Seq({t}) /\ Len(<<t>>) = 1 /\ <<t>>[1] = t
  OBVIOUS
<1>2. 1 .. 1 = {1}
  OBVIOUS
<1> QED
  BY <1>1, <1>2 DEF IsSeq, Holds, HasTypes

(* A reader that asks for the types that are there gets its operation.      *)
LEMMA TypesMatch ==
    ASSUME NEW s, IsSeq(s), NEW types, IsSeq(types), Len(types) <= Len(s),
           HasTypes(s, 0, types), NEW op
    PROVE  Matches(s, types) /\ Reads(s, types, op) = Success(op, Len(types))
<1>1. DOMAIN types = 1 .. Len(types)
  BY SeqFacts
<1>2. \A i \in 1 .. Len(types) : 0 + i = i
  BY SeqFacts
<1>3. Matches(s, types)
  BY <1>1, <1>2 DEF Matches, HasTypes
<1> QED
  BY <1>3 DEF Reads, Success

(* A record found anywhere in the tokens is read from there.                *)
LEMMA RecordPiece ==
    ASSUME NEW record \in Records
    PROVE  /\ IsSeq(SerializedRecord(record)) /\ Len(SerializedRecord(record)) = Len(RecordTypes)
           /\ \A s : \A n \in Nat : Holds(s, n, SerializedRecord(record))
                 => RecordAt(s, n + 1) = record /\ HasTypes(s, n, RecordTypes)
<1>1. PICK d \in Nat : d = 1 + DynamicCount
  BY DynamicFacts
<1>2. /\ IsSeq(SerializedRecord(record)) /\ Len(SerializedRecord(record)) = d
      /\ Len(RecordTypes) = d
  BY <1>1, RecordBytes, RecordTypesFacts
<1>3. ASSUME NEW s, NEW n \in Nat, Holds(s, n, SerializedRecord(record))
      PROVE  RecordAt(s, n + 1) = record /\ HasTypes(s, n, RecordTypes)
  <2>1. \A k \in 1 .. 1 + DynamicCount : s[n + k] = SerializedRecord(record)[k]
    BY <1>1, <1>2, <1>3 DEF Holds
  <2>2. /\ RecordAt(s, n + 1) = record
        /\ \A k \in 1 .. 1 + DynamicCount : s[n + k].type = RecordTypes[k]
    BY <2>1, RecordIsRead
  <2> QED
    BY <1>1, <1>2, <2>2 DEF HasTypes
<1> QED
  BY <1>2, <1>3

(* "bytes" come first in s.                                                 *)
Starts(s, bytes) == IsSeq(s) /\ Len(bytes) <= Len(s) /\ Holds(s, 0, bytes)

IsRead(s, op) == Deserialize(s) = Success(op, Len(Serialized(op)))

IsTwo(s, t, a, b) ==
           /\ IsSeq(t) /\ Len(t) = 2
           /\ Holds(s, 0, t) <=> s[1] = a /\ s[2] = b
           /\ HasTypes(s, 0, t) <=> s[1].type = a /\ s[2].type = b

LEMMA HeadOfTwo ==
    ASSUME NEW a, NEW b, NEW t, t = <<a, b>>, NEW s
    PROVE  IsTwo(s, t, a, b)
<1>1. t \in Seq({a, b}) /\ Len(t) = 2 /\ t[1] = a /\ t[2] = b
  OBVIOUS
<1>2. 1 .. 2 = {1, 2} /\ 0 + 1 = 1 /\ 0 + 2 = 2
  OBVIOUS
<1> QED
  BY <1>1, <1>2 DEF IsTwo, IsSeq, Holds, HasTypes

IsThree(s, t, a, b, c) ==
           /\ IsSeq(t) /\ Len(t) = 3
           /\ Holds(s, 0, t) <=> s[1] = a /\ s[2] = b /\ s[3] = c
           /\ HasTypes(s, 0, t) <=> s[1].type = a /\ s[2].type = b /\ s[3].type = c

LEMMA HeadOfThree ==
    ASSUME NEW a, NEW b, NEW c, NEW t, t = <<a, b, c>>, NEW s
    PROVE  IsThree(s, t, a, b, c)
<1>1. t \in Seq({a, b, c}) /\ Len(t) = 3 /\ t[1] = a /\ t[2] = b /\ t[3] = c
  OBVIOUS
<1>2. 1 .. 3 = {1, 2, 3} /\ 0 + 1 = 1 /\ 0 + 2 = 2 /\ 0 + 3 = 3
  OBVIOUS
<1> QED
  BY <1>1, <1>2 DEF IsThree, IsSeq, Holds, HasTypes

IsFive(s, t, a, b, c, d, e) ==
           /\ IsSeq(t) /\ Len(t) = 5
           /\ Holds(s, 0, t) <=> s[1] = a /\ s[2] = b /\ s[3] = c /\ s[4] = d /\ s[5] = e
           /\ HasTypes(s, 0, t) <=> /\ s[1].type = a /\ s[2].type = b /\ s[3].type = c
                                    /\ s[4].type = d /\ s[5].type = e

LEMMA HeadOfFive ==
    ASSUME NEW a, NEW b, NEW c, NEW d, NEW e, NEW t, t = <<a, b, c, d, e>>, NEW s
    PROVE  IsFive(s, t, a, b, c, d, e)
<1>1. /\ t \in Seq({a, b, c, d, e}) /\ Len(t) = 5
      /\ t[1] = a /\ t[2] = b /\ t[3] = c /\ t[4] = d /\ t[5] = e
  OBVIOUS
<1>2. 1 .. 5 = {1, 2, 3, 4, 5} /\ 0 + 1 = 1 /\ 0 + 2 = 2 /\ 0 + 3 = 3 /\ 0 + 4 = 4 /\ 0 + 5 = 5
  OBVIOUS
<1>3. IsSeq(t)
  BY <1>1 DEF IsSeq
<1>4. Holds(s, 0, t) <=> s[1] = a /\ s[2] = b /\ s[3] = c /\ s[4] = d /\ s[5] = e
  BY <1>1, <1>2 DEF Holds
<1>5. HasTypes(s, 0, t) <=> /\ s[1].type = a /\ s[2].type = b /\ s[3].type = c
                            /\ s[4].type = d /\ s[5].type = e
  BY <1>1, <1>2 DEF HasTypes
<1> QED
  BY <1>1, <1>3, <1>4, <1>5 DEF IsFive

(* Each kind of operation: when its bytes come first, its reader gives it   *)
(* back and reads no further.                                               *)
LEMMA InsertIsRead ==
    ASSUME NEW op \in [kind : {"Insert"}, record : Records], NEW s
    PROVE  /\ IsSeq(Serialized(op))
           /\ Starts(s, Serialized(op)) => s[1].v = Op.Insert /\ IsRead(s, op)
<1>1. op.record \in Records /\ op = [kind |-> "Insert", record |-> op.record]
  OBVIOUS
<1>2. PICK bytes, head, body :
        bytes = Serialized(op) /\ head = <<Token("u8", 0)>> /\ body = SerializedRecord(op.record)
  OBVIOUS
<1>3. PICK types, first : Joined(types, first, RecordTypes) /\ first = <<"u8">>
  BY DEF Joined
<1>4. Joined(bytes, head, body)
  BY <1>1, <1>2 DEF Serialized, Joined, Op
<1>5. /\ IsSeq(body) /\ Len(body) = Len(RecordTypes) /\ Len(body) \in Nat
      /\ Holds(s, 1, body) => RecordAt(s, 2) = op.record /\ HasTypes(s, 1, RecordTypes)
  BY <1>1, <1>2, RecordPiece, SeqFacts
<1>6. /\ IsSeq(bytes) /\ Len(bytes) = 1 + Len(RecordTypes)
      /\ Holds(s, 0, bytes) => s[1] = Token("u8", 0) /\ Holds(s, 1, body)
  <2>1. IsSeq(head) /\ Len(head) = 1 /\ (Holds(s, 0, head) => s[1] = Token("u8", 0))
    BY <1>2, OneFacts
  <2>2. TwoPieces(s, 0, bytes, head, body)
    BY <1>4, <1>5, <2>1, JoinedFacts
  <2> QED
    BY <1>5, <2>1, <2>2 DEF TwoPieces
<1>7. /\ IsSeq(types) /\ Len(types) = 1 + Len(RecordTypes)
      /\ s[1].type = "u8" /\ HasTypes(s, 1, RecordTypes) => HasTypes(s, 0, types)
  <2>1. IsSeq(first) /\ Len(first) = 1 /\ (s[1].type = "u8" => HasTypes(s, 0, first))
    BY <1>3, OneFacts
  <2>2. TwoPieces(s, 0, types, first, RecordTypes)
    BY <1>3, <2>1, RecordTypesFacts, JoinedFacts
  <2> QED
    BY <1>5, <2>1, <2>2 DEF TwoPieces
<1>8. ASSUME Starts(s, bytes) PROVE s[1].v = Op.Insert /\ IsRead(s, op)
  <2>1. /\ s[1].type = "u8" /\ s[1].v = 0
        /\ RecordAt(s, 2) = op.record /\ HasTypes(s, 1, RecordTypes)
    BY <1>5, <1>6, <1>8, TokenFacts DEF Starts
  <2>2. Reads(s, types, op) = Success(op, Len(types))
    BY <1>6, <1>7, <1>8, <2>1, TypesMatch DEF Starts
  <2>3. Deserialize(s) = Reads(s, types, op)
    BY <1>1, <1>3, <2>1 DEF Deserialize, DeserializeInsert, Op, Joined
  <2> QED
    BY <1>2, <1>6, <1>7, <2>1, <2>2, <2>3 DEF IsRead, Op
<1> QED
  BY <1>2, <1>6, <1>8

LEMMA UpdateFullIsRead ==
    ASSUME NEW op \in [kind : {"UpdateFull"}, key : FieldIds, insert : BOOLEAN,
                       record : Records, keyValue : Values],
           NEW s
    PROVE  /\ IsSeq(Serialized(op))
           /\ Starts(s, Serialized(op)) => s[1].v = Op.UpdateFull /\ IsRead(s, op)
<1>1. /\ op.kind = "UpdateFull" /\ op.key \in FieldIds /\ op.record \in Records
      /\ op = [kind |-> "UpdateFull", key |-> op.key, insert |-> op.insert,
               record |-> op.record, keyValue |-> op.keyValue]
  OBVIOUS
<1>2. PICK bytes, head, body, tail :
        /\ bytes = Serialized(op) /\ body = SerializedRecord(op.record)
        /\ head = <<Token("u8", 2), Token("u8", op.key), Token("bool", op.insert)>>
        /\ tail = <<Token(TypeOf(op.key), op.keyValue)>>
  OBVIOUS
<1>3. PICK types, first, last :
        /\ JoinedThree(types, first, RecordTypes, last)
        /\ first = <<"u8", "u8", "bool">> /\ last = <<TypeOf(op.key)>>
  BY DEF JoinedThree
<1>4. JoinedThree(bytes, head, body, tail)
  BY <1>1, <1>2 DEF Serialized, Op, JoinedThree
<1>5. /\ IsSeq(body) /\ Len(body) = Len(RecordTypes) /\ Len(body) \in Nat
      /\ Holds(s, 3, body) => RecordAt(s, 4) = op.record /\ HasTypes(s, 3, RecordTypes)
  BY <1>1, <1>2, RecordPiece, SeqFacts
<1>6. /\ IsSeq(bytes) /\ Len(bytes) = 4 + Len(RecordTypes)
      /\ Holds(s, 0, bytes) =>
            /\ s[1] = Token("u8", 2) /\ s[2] = Token("u8", op.key) /\ s[3] = Token("bool", op.insert)
            /\ Holds(s, 3, body) /\ s[4 + Len(RecordTypes)] = Token(TypeOf(op.key), op.keyValue)
  <2>1. /\ IsSeq(head) /\ Len(head) = 3
        /\ Holds(s, 0, head) <=>
              s[1] = Token("u8", 2) /\ s[2] = Token("u8", op.key) /\ s[3] = Token("bool", op.insert)
    <3>1. IsThree(s, head, Token("u8", 2), Token("u8", op.key), Token("bool", op.insert))
      BY <1>2, HeadOfThree
    <3> QED
      BY <3>1 DEF IsThree
  <2>2. /\ IsSeq(tail) /\ Len(tail) = 1
        /\ Holds(s, 3 + Len(body), tail)
              => s[3 + Len(body) + 1] = Token(TypeOf(op.key), op.keyValue)
    BY <1>2, <1>5, OneFacts
  <2>3. /\ IsSeq(bytes) /\ Len(bytes) = Len(head) + Len(body) + Len(tail)
        /\ Holds(s, 0, bytes) <=> /\ Holds(s, 0, head) /\ Holds(s, Len(head), body)
                                 /\ Holds(s, Len(head) + Len(body), tail)
    <3>1. ThreePieces(s, bytes, head, body, tail)
      BY <1>4, <1>5, <2>1, <2>2, JoinedThreeFacts
    <3> QED
      BY <3>1 DEF ThreePieces
  <2>4. 3 + Len(body) + 1 = 4 + Len(RecordTypes)
    BY <1>5
  <2> QED
    BY <1>5, <2>1, <2>2, <2>3, <2>4
<1>7. /\ IsSeq(types) /\ Len(types) = 4 + Len(RecordTypes)
      /\ /\ s[1].type = "u8" /\ s[2].type = "u8" /\ s[3].type = "bool"
         /\ HasTypes(s, 3, RecordTypes) /\ s[4 + Len(RecordTypes)].type = TypeOf(op.key)
         => HasTypes(s, 0, types)
  <2>1. /\ IsSeq(first) /\ Len(first) = 3
        /\ s[1].type = "u8" /\ s[2].type = "u8" /\ s[3].type = "bool" <=> HasTypes(s, 0, first)
    <3>1. IsThree(s, first, "u8", "u8", "bool")
      BY <1>3, HeadOfThree
    <3> QED
      BY <3>1 DEF IsThree
  <2>2. /\ IsSeq(last) /\ Len(last) = 1
        /\ s[3 + Len(RecordTypes) + 1].type = TypeOf(op.key) => HasTypes(s, 3 + Len(RecordTypes), last)
    BY <1>3, <1>5, OneFacts
  <2>3. /\ IsSeq(types) /\ Len(types) = Len(first) + Len(RecordTypes) + Len(last)
        /\ /\ HasTypes(s, 0, first) /\ HasTypes(s, Len(first), RecordTypes)
           /\ HasTypes(s, Len(first) + Len(RecordTypes), last)
           <=> HasTypes(s, 0, types)
    <3>1. ThreePieces(s, types, first, RecordTypes, last)
      BY <1>3, <2>1, <2>2, RecordTypesFacts, JoinedThreeFacts
    <3> QED
      BY <3>1 DEF ThreePieces
  <2>4. 3 + Len(RecordTypes) + 1 = 4 + Len(RecordTypes)
    BY <1>5
  <2> QED
    BY <1>5, <2>1, <2>2, <2>3, <2>4
<1>8. ASSUME Starts(s, bytes) PROVE s[1].v = Op.UpdateFull /\ IsRead(s, op)
  <2>1. /\ s[1].type = "u8" /\ s[2].type = "u8" /\ s[3].type = "bool"
        /\ s[1].v = 2 /\ s[2].v = op.key /\ s[3].v = op.insert
        /\ RecordAt(s, 4) = op.record /\ HasTypes(s, 3, RecordTypes)
        /\ s[4 + Len(RecordTypes)].type = TypeOf(op.key)
        /\ s[4 + Len(RecordTypes)].v = op.keyValue
    BY <1>5, <1>6, <1>8, TokenFacts DEF Starts
  <2>2. Reads(s, types, op) = Success(op, Len(types))
    BY <1>6, <1>7, <1>8, <2>1, TypesMatch DEF Starts
  <2>3. Deserialize(s) = DeserializeUpdateFull(s)
    BY <2>1 DEF Deserialize, Op
  <2>4. DeserializeUpdateFull(s) = Reads(s, types, op)
    BY <1>1, <1>3, <2>1 DEF DeserializeUpdateFull, IsField, JoinedThree
  <2> QED
    BY <1>2, <1>6, <1>7, <2>1, <2>2, <2>3, <2>4 DEF IsRead, Op
<1> QED
  BY <1>2, <1>6, <1>8

LEMMA AppendToArrayIsRead ==
    ASSUME NEW op \in [kind : {"AppendToArray"}, key : FieldIds, array : ArrayIds,
                       insert : BOOLEAN, keyValue : Values, data : Records \cup Values],
           op.insert => op.data \in Records,
           NEW s
    PROVE  /\ IsSeq(Serialized(op))
           /\ Starts(s, Serialized(op)) => s[1].v = Op.AppendToArray /\ IsRead(s, op)
<1>1. /\ op.kind = "AppendToArray" /\ op.key \in FieldIds /\ op.array \in ArrayIds
      /\ op.insert \in BOOLEAN /\ (op.insert => op.data \in Records)
      /\ op = [kind |-> "AppendToArray", key |-> op.key, array |-> op.array,
               insert |-> op.insert, keyValue |-> op.keyValue, data |-> op.data]
  OBVIOUS
<1>2. PICK bytes, head, body :
        /\ bytes = Serialized(op) /\ body = (IF op.insert THEN SerializedRecord(op.data)
                                                        ELSE <<Token(TypeOf(op.array), op.data)>>)
        /\ head = <<Token("u8", 3), Token("u8", op.key), Token("u8", op.array),
                    Token("bool", op.insert), Token(TypeOf(op.key), op.keyValue)>>
  OBVIOUS
<1>3. PICK types, first, more :
        /\ Joined(types, first, more)
        /\ more = (IF op.insert THEN RecordTypes ELSE <<TypeOf(op.array)>>)
        /\ first = <<"u8", "u8", "u8", "bool", TypeOf(op.key)>>
  BY DEF Joined
<1>4. Joined(bytes, head, body)
  BY <1>1, <1>2 DEF Serialized, Joined, Op
<1>5. /\ IsSeq(body) /\ Len(body) = Len(more) /\ Len(body) \in Nat /\ IsSeq(more)
      /\ Holds(s, 5, body) => /\ (IF op.insert THEN RecordAt(s, 6) ELSE s[6].v) = op.data
                              /\ HasTypes(s, 5, more)
  <2>1. CASE op.insert
    <3>1. body = SerializedRecord(op.data) /\ more = RecordTypes
      BY <1>2, <1>3, <2>1
    <3> QED
      BY <1>1, <2>1, <3>1, RecordPiece, RecordTypesFacts, SeqFacts
  <2>2. CASE ~op.insert
    <3>1. body = <<Token(TypeOf(op.array), op.data)>> /\ more = <<TypeOf(op.array)>>
      BY <1>2, <1>3, <2>2
    <3> QED
      BY <2>2, <3>1, OneFacts, TokenFacts
  <2> QED
    BY <2>1, <2>2
<1>6. /\ IsSeq(bytes) /\ Len(bytes) = 5 + Len(body)
      /\ Holds(s, 0, bytes) =>
            /\ s[1] = Token("u8", 3) /\ s[2] = Token("u8", op.key) /\ s[3] = Token("u8", op.array)
            /\ s[4] = Token("bool", op.insert) /\ s[5] = Token(TypeOf(op.key), op.keyValue)
            /\ Holds(s, 5, body)
  <2>1. IsFive(s, head, Token("u8", 3), Token("u8", op.key), Token("u8", op.array),
               Token("bool", op.insert), Token(TypeOf(op.key), op.keyValue))
    BY <1>2, HeadOfFive
  <2>2. IsSeq(head) /\ Len(head) = 5
    BY <2>1 DEF IsFive
  <2>3. TwoPieces(s, 0, bytes, head, body)
    BY <1>4, <1>5, <2>2, JoinedFacts
  <2> QED
    BY <1>5, <2>1, <2>2, <2>3 DEF IsFive, TwoPieces
<1>7. /\ IsSeq(types) /\ Len(types) = 5 + Len(body)
      /\ /\ s[1].type = "u8" /\ s[2].type = "u8" /\ s[3].type = "u8" /\ s[4].type = "bool"
         /\ s[5].type = TypeOf(op.key) /\ HasTypes(s, 5, more)
         => HasTypes(s, 0, types)
  <2>1. IsFive(s, first, "u8", "u8", "u8", "bool", TypeOf(op.key))
    BY <1>3, HeadOfFive
  <2>2. IsSeq(first) /\ Len(first) = 5
    BY <2>1 DEF IsFive
  <2>3. TwoPieces(s, 0, types, first, more)
    BY <1>3, <1>5, <2>2, JoinedFacts
  <2> QED
    BY <1>5, <2>1, <2>2, <2>3 DEF IsFive, TwoPieces
<1>8. ASSUME Starts(s, bytes) PROVE s[1].v = Op.AppendToArray /\ IsRead(s, op)
  <2>1. /\ s[1].type = "u8" /\ s[2].type = "u8" /\ s[3].type = "u8" /\ s[4].type = "bool"
        /\ s[5].type = TypeOf(op.key) /\ HasTypes(s, 5, more)
        /\ s[1].v = 3 /\ s[2].v = op.key /\ s[3].v = op.array /\ s[4].v = op.insert
        /\ s[5].v = op.keyValue 
        /\ (IF op.insert THEN RecordAt(s, 6) ELSE s[6].v) = op.data
    BY <1>5, <1>6, <1>8, TokenFacts DEF Starts
  <2>2. Reads(s, types, op) = Success(op, Len(types))
    BY <1>6, <1>7, <1>8, <2>1, TypesMatch DEF Starts
  <2>3. Deserialize(s) = DeserializeAppendToArray(s)
    BY <2>1 DEF Deserialize, Op
  <2>4. IsField(s[2].v) /\ IsField(s[3].v) /\ IsArray(s[3].v)
    BY <1>1, <2>1 DEF IsField, ArrayIds
  <2>5. DeserializeAppendToArray(s) = Reads(s, types, op)
    BY <1>1, <1>3, <2>1, <2>4 DEF DeserializeAppendToArray, Joined
  <2> QED
    BY <1>2, <1>6, <1>7, <2>1, <2>2, <2>3, <2>5 DEF IsRead, Op
<1> QED
  BY <1>2, <1>6, <1>8

LEMMA DeleteIsRead ==
    ASSUME NEW op \in [kind : {"Delete"}, key : FieldIds, keyValue : Values], NEW s
    PROVE  /\ IsSeq(Serialized(op))
           /\ Starts(s, Serialized(op)) => s[1].v = Op.Delete /\ IsRead(s, op)
<1>1. /\ op.kind = "Delete" /\ op.key \in FieldIds
      /\ op = [kind |-> "Delete", key |-> op.key, keyValue |-> op.keyValue]
  OBVIOUS
<1>2. PICK bytes :
        bytes = <<Token("u8", 4), Token("u8", op.key), Token(TypeOf(op.key), op.keyValue)>>
  OBVIOUS
<1>3. bytes = Serialized(op)
  BY <1>1, <1>2 DEF Serialized, Op
<1>4. PICK types : types = <<"u8", "u8", TypeOf(op.key)>>
  OBVIOUS
<1>5. IsThree(s, bytes, Token("u8", 4), Token("u8", op.key), Token(TypeOf(op.key), op.keyValue))
  BY <1>2, HeadOfThree
<1>6. IsThree(s, types, "u8", "u8", TypeOf(op.key))
  BY <1>4, HeadOfThree
<1>7. ASSUME Starts(s, bytes) PROVE s[1].v = Op.Delete /\ IsRead(s, op)
  <2>1. /\ s[1].type = "u8" /\ s[2].type = "u8" /\ s[3].type = TypeOf(op.key)
        /\ s[1].v = 4 /\ s[2].v = op.key /\ s[3].v = op.keyValue
    BY <1>5, <1>7, TokenFacts DEF Starts, IsThree
  <2>2. IsSeq(s) /\ IsSeq(types) /\ Len(types) = Len(bytes) /\ Len(types) <= Len(s)
        /\ HasTypes(s, 0, types)
    BY <1>5, <1>6, <1>7, <2>1 DEF Starts, IsThree
  <2>3. Reads(s, types, op) = Success(op, Len(types))
    BY <2>2, TypesMatch
  <2>4. Deserialize(s) = DeserializeDelete(s)
    BY <2>1 DEF Deserialize, Op
  <2>5. DeserializeDelete(s) = Reads(s, types, op)
    BY <1>1, <1>4, <2>1 DEF DeserializeDelete, IsField
  <2> QED
    BY <1>3, <2>1, <2>2, <2>3, <2>4, <2>5 DEF IsRead, Op
<1> QED
  BY <1>3, <1>5, <1>7 DEF IsThree

(* A marker begins with an ID that no operation begins with.                *)
LEMMA MarkerIsTold ==
    ASSUME NEW op \in Markers, NEW s
    PROVE  /\ IsSeq(Serialized(op))
           /\ Starts(s, Serialized(op)) => s[1].v = MarkerID
<1>1. PICK bytes : bytes = <<Token("u8", 221), Token("status", op.status)>>
  OBVIOUS
<1>2. bytes = Serialized(op)
  BY <1>1 DEF Serialized, Markers, MarkerID
<1>3. IsTwo(s, bytes, Token("u8", 221), Token("status", op.status))
  BY <1>1, HeadOfTwo
<1> QED
  BY <1>2, <1>3, TokenFacts DEF IsTwo, Starts, MarkerID

(* The fields of a Find, from its third token on.                           *)
LEMMA FindFields ==
    ASSUME NEW n \in 1 .. MaxFieldCount, NEW fields \in [1 .. n -> FieldValues]
    PROVE  /\ fields = [i \in 1 .. n |-> [id |-> fields[i].id, type |-> TypeOf(fields[i].id),
                                          v |-> fields[i].v]]
           /\ \A i \in 1 .. n : /\ fields[i].id \in FieldIds
                                /\ fields[i].type = TypeOf(fields[i].id)
           /\ DOMAIN fields = 1 .. n /\ Len(fields) = n
<1>1. ASSUME NEW i \in 1 .. n
      PROVE  /\ fields[i].id \in FieldIds /\ fields[i].type = TypeOf(fields[i].id)
             /\ fields[i] = [id |-> fields[i].id, type |-> TypeOf(fields[i].id), v |-> fields[i].v]
  <2>1. fields[i] \in FieldValues
    OBVIOUS
  <2>2. PICK id \in FieldIds : fields[i] \in [id : {id}, type : {TypeOf(id)}, v : Values]
    BY <2>1 DEF FieldValues
  <2> QED
    BY <2>2
<1>2. n \in Nat
  BY DEF MaxFieldCount
<1>3. fields \in Seq(FieldValues) /\ Len(fields) = n
  BY <1>2
<1> QED
  BY <1>1, <1>3

(* A function on 1 .. n is a sequence of n elements.                        *)
LEMMA Mapped ==
    ASSUME NEW n \in Nat, NEW c, DOMAIN c = 1 .. n, c = [i \in 1 .. n |-> c[i]]
    PROVE  IsSeq(c) /\ Len(c) = n
<1>1. PICK S : S = {c[i] : i \in 1 .. n}
  OBVIOUS
<1>2. c \in [1 .. n -> S]
  BY <1>1
<1>3. c \in Seq(S) /\ Len(c) = n
  BY <1>2
<1> QED
  BY <1>3 DEF IsSeq

LEMMA FindIsRead ==
    ASSUME NEW n \in 1 .. MaxFieldCount,
           NEW op \in [kind : {"Find"}, fields : [1 .. n -> FieldValues]], NEW s
    PROVE  /\ IsSeq(Serialized(op))
           /\ Starts(s, Serialized(op)) => s[1].v = Op.Find /\ IsRead(s, op)
<1>1. /\ op.kind = "Find" /\ op.fields \in [1 .. n -> FieldValues]
      /\ op = [kind |-> "Find", fields |-> op.fields]
  OBVIOUS
<1>2. PICK fields : fields = op.fields
  OBVIOUS
<1>0. n \in Nat
  BY DEF MaxFieldCount
<1>3. /\ fields = [i \in 1 .. n |-> [id |-> fields[i].id, type |-> TypeOf(fields[i].id),
                                     v |-> fields[i].v]]
      /\ \A i \in 1 .. n : fields[i].id \in FieldIds /\ fields[i].type = TypeOf(fields[i].id)
      /\ DOMAIN fields = 1 .. n /\ Len(fields) = n
  BY <1>1, <1>2, FindFields
<1>4. PICK bytes, head, body, ids, values :
        /\ bytes = Serialized(op) /\ Joined(body, ids, values)
        /\ head = <<Token("u8", 1), Token("u8", n)>>
        /\ ids = [i \in 1 .. n |-> Token("u8", fields[i].id)]
        /\ values = [i \in 1 .. n |-> Token(fields[i].type, fields[i].v)]
  BY DEF Joined
<1>5. Joined(bytes, head, body)
  BY <1>1, <1>2, <1>3, <1>4 DEF Serialized, SerializedFields, Joined, Op
<1>6. /\ IsSeq(ids) /\ Len(ids) = n /\ IsSeq(values) /\ Len(values) = n
      /\ \A i \in 1 .. n : /\ ids[i] = Token("u8", fields[i].id)
                           /\ values[i] = Token(fields[i].type, fields[i].v)
  BY <1>0, <1>4, Mapped
<1>7. IsTwo(s, head, Token("u8", 1), Token("u8", n))
  BY <1>4, HeadOfTwo
<1>8. TwoPieces(s, 2, body, ids, values)
  BY <1>4, <1>6, JoinedFacts
<1>9. TwoPieces(s, 0, bytes, head, body)
  BY <1>5, <1>7, <1>8, JoinedFacts DEF IsTwo, TwoPieces
<1>10. /\ IsSeq(bytes) /\ Len(bytes) = 2 + n + n
       /\ Holds(s, 0, bytes) => /\ s[1] = Token("u8", 1) /\ s[2] = Token("u8", n)
                                /\ Holds(s, 2, ids) /\ Holds(s, 2 + n, values)
  BY <1>0, <1>6, <1>7, <1>8, <1>9 DEF IsTwo, TwoPieces
<1>11. PICK front, all, first, more, types :
          /\ Joined(front, first, more) /\ Joined(all, front, types) /\ first = <<"u8", "u8">>
          /\ more = [i \in 1 .. n |-> "u8"] /\ types = [i \in 1 .. n |-> TypeOf(fields[i].id)]
  BY DEF Joined
<1>12. /\ IsSeq(more) /\ Len(more) = n /\ IsSeq(types) /\ Len(types) = n
       /\ \A i \in 1 .. n : more[i] = "u8" /\ types[i] = TypeOf(fields[i].id)
  BY <1>0, <1>11, Mapped
<1>13. IsTwo(s, first, "u8", "u8")
  BY <1>11, HeadOfTwo
<1>14. TwoPieces(s, 0, front, first, more)
  BY <1>11, <1>12, <1>13, JoinedFacts DEF IsTwo
<1>15. TwoPieces(s, 0, all, front, types)
  BY <1>11, <1>12, <1>14, JoinedFacts DEF TwoPieces
<1>16. /\ IsSeq(front) /\ Len(front) = 2 + n /\ IsSeq(all) /\ Len(all) = 2 + n + n
       /\ s[1].type = "u8" /\ s[2].type = "u8" /\ HasTypes(s, 2, more) => HasTypes(s, 0, front)
       /\ HasTypes(s, 0, front) /\ HasTypes(s, 2 + n, types) => HasTypes(s, 0, all)
  BY <1>0, <1>12, <1>13, <1>14, <1>15 DEF IsTwo, TwoPieces
<1>17. ASSUME Starts(s, bytes) PROVE s[1].v = Op.Find /\ IsRead(s, op)
  <2>1. /\ s[1] = Token("u8", 1) /\ s[2] = Token("u8", n)
        /\ Holds(s, 2, ids) /\ Holds(s, 2 + n, values) /\ IsSeq(s) /\ 2 + n + n <= Len(s)
    BY <1>10, <1>17 DEF Starts
  <2>2. ASSUME NEW i \in 1 .. n
        PROVE  /\ s[2 + i].type = "u8" /\ s[2 + i].v = fields[i].id
               /\ s[2 + n + i].type = TypeOf(fields[i].id) /\ s[2 + n + i].v = fields[i].v
    BY <1>3, <1>6, <2>1, TokenFacts DEF Holds
  <2>3. s[1].type = "u8" /\ s[1].v = 1 /\ s[2].type = "u8" /\ s[2].v = n
    BY <2>1, TokenFacts
  <2>4. HasTypes(s, 2, more) /\ HasTypes(s, 2 + n, types)
    BY <1>12, <2>2 DEF HasTypes
  <2>5. /\ IsSeq(s) /\ Len(front) <= Len(s) /\ Len(all) <= Len(s)
        /\ HasTypes(s, 0, front) /\ HasTypes(s, 0, all)
    BY <1>0, <1>16, <2>1, <2>3, <2>4, SeqFacts
  <2>6. Matches(s, front) /\ Reads(s, all, op) = Success(op, Len(all))
    BY <1>16, <2>5, TypesMatch
  <2>7. Deserialize(s) = DeserializeFind(s)
    BY <2>3 DEF Deserialize, Op
  <2>8. PICK idsRead : idsRead = [i \in 1 .. n |-> s[2 + i].v]
    OBVIOUS
  <2>9. idsRead = [i \in 1 .. n |-> fields[i].id]
    BY <2>2, <2>8
  <2>10. types = [i \in 1 .. n |-> TypeOf(idsRead[i])] /\ \A i \in 1 .. n : IsField(idsRead[i])
    BY <1>3, <1>11, <2>9 DEF IsField
  <2>11. op = [kind |-> "Find", fields |->
                 [i \in 1 .. n |-> [id |-> idsRead[i], type |-> types[i], v |-> s[2 + n + i].v]]]
    <3>1. fields = [i \in 1 .. n |-> [id |-> idsRead[i], type |-> types[i], v |-> s[2 + n + i].v]]
      BY <1>3, <1>12, <2>2, <2>9
    <3> QED
      BY <1>1, <1>2, <3>1
  <2>12. DeserializeFind(s) = Reads(s, all, op)
    <3>1. /\ front = <<"u8", "u8">> \o [i \in 1 .. n |-> "u8"]
          /\ all = <<"u8", "u8">> \o [i \in 1 .. n |-> "u8"] \o types
      BY <1>11 DEF Joined
    <3> QED
      BY <2>3, <2>6, <2>8, <2>10, <2>11, <3>1 DEF DeserializeFind
  <2> QED
    BY <1>4, <1>10, <1>16, <2>3, <2>6, <2>7, <2>12 DEF IsRead, Op
<1> QED
  BY <1>4, <1>10, <1>17

(* Whatever was registered is read back, and no further.                    *)
LEMMA OperationIsRead ==
    ASSUME NEW op \in Operations, NEW s
    PROVE  /\ IsSeq(Serialized(op))
           /\ Starts(s, Serialized(op)) => s[1].v \in 0 .. 4 /\ IsRead(s, op)
<1>1. CASE op \in [kind : {"Insert"}, record : Records]
  BY <1>1, InsertIsRead DEF Op
<1>2. CASE op \in [kind : {"Find"},
                   fields : UNION {[1 .. n -> FieldValues] : n \in 1 .. MaxFieldCount}]
  <2>1. PICK n \in 1 .. MaxFieldCount : op.fields \in [1 .. n -> FieldValues]
    BY <1>2
  <2>2. op \in [kind : {"Find"}, fields : [1 .. n -> FieldValues]]
    BY <1>2, <2>1
  <2> QED
    BY <2>2, FindIsRead DEF Op
<1>3. CASE op \in [kind : {"UpdateFull"}, key : FieldIds, insert : BOOLEAN, record : Records,
                   keyValue : Values]
  BY <1>3, UpdateFullIsRead DEF Op
<1>4. CASE op \in [kind : {"AppendToArray"}, key : FieldIds, array : ArrayIds, insert : {TRUE},
                   keyValue : Values, data : Records]
  <2>1. /\ op \in [kind : {"AppendToArray"}, key : FieldIds, array : ArrayIds, insert : BOOLEAN,
                  keyValue : Values, data : Records \cup Values]
        /\ op.insert => op.data \in Records
    BY <1>4
  <2> QED
    BY <2>1, AppendToArrayIsRead DEF Op
<1>5. CASE op \in [kind : {"AppendToArray"}, key : FieldIds, array : ArrayIds, insert : {FALSE},
                   keyValue : Values, data : Values]
  <2>1. /\ op \in [kind : {"AppendToArray"}, key : FieldIds, array : ArrayIds, insert : BOOLEAN,
                  keyValue : Values, data : Records \cup Values]
        /\ op.insert => op.data \in Records
    BY <1>5
  <2> QED
    BY <2>1, AppendToArrayIsRead DEF Op
<1>6. CASE op \in [kind : {"Delete"}, key : FieldIds, keyValue : Values]
  BY <1>6, DeleteIsRead DEF Op
<1> QED
  BY <1>1, <1>2, <1>3, <1>4, <1>5, <1>6 DEF Operations

(* What serialize writes, whatever follows it, deserialize reads back as    *)
(* the same operation, and it stops where serialize stopped: for each of    *)
(* the kinds of operations, every schema and all values.                    *)
THEOREM DeserializeInverts ==
    ASSUME NEW op \in Operations, NEW behind, IsSeq(behind)
    PROVE  Deserialize(Serialized(op) \o behind)
              = [ok |-> TRUE, ops |-> <<op>>, consumed |-> Len(Serialized(op))]
<1>1. PICK bytes, s : bytes = Serialized(op) /\ Joined(s, bytes, behind)
  BY DEF Joined
<1>2. IsSeq(bytes) /\ (Starts(s, bytes) => IsRead(s, op))
  BY <1>1, OperationIsRead
<1>3. \A t : TwoPieces(t, 0, s, bytes, behind)
  BY <1>1, <1>2, JoinedFacts
<1>4. /\ IsSeq(s) /\ Len(s) = Len(bytes) + Len(behind)
      /\ Holds(s, 0, s) <=> Holds(s, 0, bytes) /\ Holds(s, 0 + Len(bytes), behind)
  BY <1>3 DEF TwoPieces
<1>5. Len(s) \in Nat /\ Len(bytes) \in Nat /\ Len(behind) \in Nat
  BY <1>2, <1>4, SeqFacts
<1>6. Holds(s, 0, s)
  BY <1>5 DEF Holds
<1>7. Starts(s, bytes)
  BY <1>4, <1>5, <1>6 DEF Starts
<1>8. Deserialize(s) = Success(op, Len(bytes))
  BY <1>1, <1>2, <1>7 DEF IsRead
<1> QED
  BY <1>1, <1>8 DEF Joined, Success

-----------------------------------------------------------------------------
(* One entry behind the other.                                              *)

(* The turns in which FlattenSeq() puts m sequences together.               *)
Cat(a, b) == a \o b

Turns(f, ss, m) == f = [i \in 1 .. m |-> IF i = 1 THEN ss[i] ELSE Cat(f[i - 1], ss[i])]

(* Recursive functions exist by Climb, which stands in for induction.       *)
LEMMA TurnsExist ==
    ASSUME NEW ss, NEW n \in Nat
    PROVE  \E f : Turns(f, ss, n)
<1> DEFINE Reached == {m \in Nat : \E f : Turns(f, ss, m)}
<1>1. 0 \in Reached
  <2>1. Turns([i \in 1 .. 0 |-> 0], ss, 0)
    BY DEF Turns
  <2> QED
    BY <2>1
<1>2. ASSUME NEW m \in 0 .. n - 1, m \in Reached PROVE m + 1 \in Reached
  <2>1. PICK f : Turns(f, ss, m)
    BY <1>2
  <2>2. PICK g : g = [i \in 1 .. m + 1 |->
                         IF i = m + 1 THEN IF i = 1 THEN ss[i] ELSE Cat(f[i - 1], ss[i]) ELSE f[i]]
    OBVIOUS
  <2>3. ASSUME NEW i \in 1 .. m + 1
        PROVE  g[i] = IF i = 1 THEN ss[i] ELSE Cat(g[i - 1], ss[i])
    <3>1. i # 1 => i - 1 \in 1 .. m + 1 /\ i - 1 # m + 1
      BY <1>2
    <3>2. i # 1 => g[i - 1] = f[i - 1]
      BY <2>2, <3>1
    <3>3. CASE i = m + 1
      BY <2>2, <3>2, <3>3
    <3>4. CASE i # m + 1
      <4>1. i \in 1 .. m
        BY <1>2, <3>4
      <4>2. f[i] = IF i = 1 THEN ss[i] ELSE Cat(f[i - 1], ss[i])
        BY <2>1, <4>1 DEF Turns
      <4> QED
        BY <2>2, <3>2, <3>4, <4>2
    <3> QED
      BY <3>3, <3>4
  <2>4. g = [i \in 1 .. m + 1 |-> IF i = 1 THEN ss[i] ELSE Cat(g[i - 1], ss[i])]
    BY <2>2, <2>3
  <2>5. Turns(g, ss, m + 1) /\ m + 1 \in Nat
    BY <1>2, <2>4 DEF Turns
  <2> QED
    BY <2>5
<1>3. n \in 0 .. n
  OBVIOUS
<1> HIDE DEF Reached
<1>4. n \in Reached
  <2>1. \A j \in 0 .. n - 1 : j \in Reached => j + 1 \in Reached
    BY <1>2
  <2>2. \A j \in 0 .. n : j \in Reached
    BY <1>1, <2>1, Climb
  <2> QED
    BY <1>3, <2>2
<1> QED
  BY <1>4 DEF Reached

(* As far as the sequences agree, so do the turns.                          *)
LEMMA TurnsAgree ==
    ASSUME NEW k \in Nat \ {0}, NEW m \in Nat, NEW n \in Nat, k <= m, k <= n,
           NEW ss, NEW tt, \A i \in 1 .. k : ss[i] = tt[i],
           NEW f, NEW g, Turns(f, ss, m), Turns(g, tt, n)
    PROVE  f[k] = g[k]
<1> DEFINE Same == {i \in Nat : f[i] = g[i]}
<1>1. 1 \in Same
  BY DEF Turns
<1>2. ASSUME NEW j \in 1 .. k - 1, j \in Same PROVE j + 1 \in Same
  <2>1. /\ j + 1 \in 1 .. m /\ j + 1 \in 1 .. n /\ j + 1 \in 1 .. k /\ j + 1 # 1
        /\ (j + 1) - 1 = j /\ j + 1 \in Nat
    OBVIOUS
  <2>2. f[j + 1] = Cat(f[j], ss[j + 1]) /\ g[j + 1] = Cat(g[j], tt[j + 1])
    BY <2>1 DEF Turns
  <2> QED
    BY <1>2, <2>1, <2>2
<1>3. k \in 1 .. k /\ k \in Nat /\ 1 \in Nat
  OBVIOUS
<1> HIDE DEF Same
<1>4. k \in Same
  <2>1. \A j \in 1 .. k - 1 : j \in Same => j + 1 \in Same
    BY <1>2
  <2>2. \A j \in 1 .. k : j \in Same
    BY <1>1, <1>3, <2>1, Climb
  <2> QED
    BY <1>3, <2>2
<1> QED
  BY <1>4 DEF Same

(* FlattenSeq() is the last of its turns.                                   *)
LEMMA FlattenTurns ==
    ASSUME NEW n \in Nat \ {0}, NEW ss, Len(ss) = n
    PROVE  \E f : Turns(f, ss, n) /\ FlattenSeq(ss) = f[n]
<1>1. PICK f : f = CHOOSE g : Turns(g, ss, n)
  OBVIOUS
<1>2. Turns(f, ss, n)
  BY <1>1, TurnsExist
<1>3. FlattenSeq(ss) = f[n]
  BY <1>1 DEF FlattenSeq, Turns, Cat
<1> QED
  BY <1>2, <1>3

(* The first k of the sequences, one behind the other.                      *)
Flat(ss, k) == FlattenSeq([i \in 1 .. k |-> ss[i]])

LEMMA FlatOfNone == ASSUME NEW ss PROVE Flat(ss, 0) = <<>>
<1>1. PICK e : e = [i \in 1 .. 0 |-> ss[i]]
  OBVIOUS
<1>2. e = <<>> /\ Len(e) = 0
  BY <1>1
<1> QED
  BY <1>1, <1>2 DEF Flat, FlattenSeq

(* Each sequence is put behind those before it.                             *)
LEMMA FlatGrows ==
    ASSUME NEW ss, NEW k \in Nat, IsSeq(ss[k + 1])
    PROVE  Joined(Flat(ss, k + 1), Flat(ss, k), ss[k + 1])
<1>1. PICK m \in Nat : m = k + 1
  OBVIOUS
<1>2. PICK tt : tt = [i \in 1 .. m |-> ss[i]]
  OBVIOUS
<1>3. Len(tt) = m /\ \A i \in 1 .. m : tt[i] = ss[i]
  BY <1>2, Mapped
<1>4. m \in Nat \ {0} /\ m \in 1 .. m /\ m - 1 = k
  BY <1>1
<1>5. PICK f : Turns(f, tt, m) /\ Flat(ss, m) = f[m]
  BY <1>2, <1>3, <1>4, FlattenTurns DEF Flat
<1>6. CASE k = 0
  <2>1. f[m] = ss[m]
    BY <1>1, <1>3, <1>4, <1>5, <1>6 DEF Turns
  <2>2. PICK S : ss[m] \in Seq(S)
    BY <1>1 DEF IsSeq
  <2>3. <<>> \o ss[m] = ss[m]
    BY <2>2
  <2> QED
    BY <1>1, <1>5, <1>6, <2>1, <2>3, FlatOfNone DEF Joined
<1>7. CASE k # 0
  <2>1. PICK uu : uu = [i \in 1 .. k |-> ss[i]]
    OBVIOUS
  <2>2. Len(uu) = k /\ \A i \in 1 .. k : uu[i] = ss[i]
    BY <2>1, Mapped
  <2>3. k \in Nat \ {0} /\ k <= m /\ k <= k /\ \A i \in 1 .. k : i \in 1 .. m
    BY <1>1, <1>7
  <2>4. PICK g : Turns(g, uu, k) /\ Flat(ss, k) = g[k]
    BY <2>1, <2>2, <2>3, FlattenTurns DEF Flat
  <2>5. \A i \in 1 .. k : uu[i] = tt[i]
    BY <1>3, <2>2, <2>3
  <2>6. g[k] = f[k]
    BY <1>5, <2>3, <2>4, <2>5, TurnsAgree
  <2>7. f[m] = Cat(f[k], ss[m])
    <3>1. m # 1
      BY <1>1, <1>7
    <3> QED
      BY <1>3, <1>4, <1>5, <3>1 DEF Turns
  <2> QED
    BY <1>1, <1>5, <2>4, <2>6, <2>7 DEF Joined, Cat
<1> QED
  BY <1>6, <1>7

LEMMA FlatIsSeq ==
    ASSUME NEW n \in Nat, NEW ss, \A i \in 1 .. n : IsSeq(ss[i])
    PROVE  \A k \in 0 .. n : IsSeq(Flat(ss, k))
<1> DEFINE Good == {k \in Nat : IsSeq(Flat(ss, k))}
<1>1. 0 \in Good
  <2>1. <<>> \in Seq({})
    OBVIOUS
  <2> QED
    BY <2>1, FlatOfNone DEF IsSeq
<1>2. ASSUME NEW k \in 0 .. n - 1, k \in Good PROVE k + 1 \in Good
  <2>1. k \in Nat /\ k + 1 \in 1 .. n /\ k + 1 \in Nat
    OBVIOUS
  <2>2. Joined(Flat(ss, k + 1), Flat(ss, k), ss[k + 1])
    BY <2>1, FlatGrows
  <2>3. \A s : TwoPieces(s, 0, Flat(ss, k + 1), Flat(ss, k), ss[k + 1])
    BY <1>2, <2>1, <2>2, JoinedFacts
  <2> QED
    BY <2>1, <2>3 DEF TwoPieces
<1> HIDE DEF Good
<1>3. \A k \in 0 .. n : k \in Good
  <2>1. \A k \in 0 .. n - 1 : k \in Good => k + 1 \in Good
    BY <1>2
  <2> QED
    BY <1>1, <2>1, Climb
<1> QED
  BY <1>3 DEF Good

(* What is in the first k is in all of them, at the same place.             *)
LEMMA FlatHolds ==
    ASSUME NEW n \in Nat, NEW ss, \A i \in 1 .. n : IsSeq(ss[i]), NEW k \in 0 .. n
    PROVE  Len(Flat(ss, k)) <= Len(Flat(ss, n)) /\ Holds(Flat(ss, n), 0, Flat(ss, k))
<1> DEFINE Good == {j \in Nat : /\ Len(Flat(ss, k)) <= Len(Flat(ss, j))
                                /\ Holds(Flat(ss, j), 0, Flat(ss, k))}
<1>1. \A j \in 0 .. n : IsSeq(Flat(ss, j)) /\ Len(Flat(ss, j)) \in Nat
  BY FlatIsSeq, SeqFacts
<1>2. k \in Good
  BY <1>1 DEF Holds
<1>3. ASSUME NEW j \in k .. n - 1, j \in Good PROVE j + 1 \in Good
  <2>1. j \in Nat /\ j \in 0 .. n /\ j + 1 \in 1 .. n /\ j + 1 \in 0 .. n
    OBVIOUS
  <2>2. Joined(Flat(ss, j + 1), Flat(ss, j), ss[j + 1])
    BY <2>1, FlatGrows
  <2>3. TwoPieces(Flat(ss, j + 1), 0, Flat(ss, j + 1), Flat(ss, j), ss[j + 1])
    BY <1>1, <2>1, <2>2, JoinedFacts
  <2>4. Len(ss[j + 1]) \in Nat
    BY <2>1, SeqFacts
  <2>5. PICK whole, part, first :
          whole = Flat(ss, j + 1) /\ part = Flat(ss, j) /\ first = Flat(ss, k)
    OBVIOUS
  <2>6. /\ Len(whole) \in Nat /\ Len(part) \in Nat /\ Len(first) \in Nat
        /\ Len(first) <= Len(part) /\ Len(part) <= Len(whole)
        /\ Holds(whole, 0, part) /\ Holds(part, 0, first)
    <3>1. Holds(whole, 0, whole)
      BY <1>1, <2>1, <2>5 DEF Holds
    <3> QED
      BY <1>1, <1>3, <2>1, <2>3, <2>4, <2>5, <3>1 DEF TwoPieces
  <2>7. Len(first) <= Len(whole) /\ Holds(whole, 0, first)
    BY <2>6 DEF Holds
  <2> QED
    BY <2>1, <2>5, <2>7
<1> HIDE DEF Good
<1>4. n \in Good
  <2>1. \A j \in k .. n - 1 : j \in Good => j + 1 \in Good
    BY <1>3
  <2>2. \A j \in k .. n : j \in Good
    BY <1>2, <2>1, Climb
  <2> QED
    BY <2>2
<1> QED
  BY <1>4 DEF Good

(* What is behind the first k begins with the next one.                     *)
RestBegins(ss, n, k) ==
           /\ Len(Flat(ss, k)) \in 0 .. Len(Flat(ss, n)) /\ Len(ss[k + 1]) \in Nat
           /\ Len(Flat(ss, n)) \in Nat
           /\ Len(Flat(ss, k + 1)) = Len(Flat(ss, k)) + Len(ss[k + 1])
           /\ Len(Flat(ss, k + 1)) <= Len(Flat(ss, n))
           /\ Starts(Rest(Flat(ss, n), Len(Flat(ss, k)) + 1), ss[k + 1])

LEMMA FlatRest ==
    ASSUME NEW n \in Nat, NEW ss, \A i \in 1 .. n : IsSeq(ss[i]), NEW k \in Nat, k < n
    PROVE  RestBegins(ss, n, k)
<1>1. k \in Nat /\ k \in 0 .. n /\ k + 1 \in 1 .. n /\ k + 1 \in 0 .. n /\ n \in 0 .. n
  OBVIOUS
<1>2. PICK all, first, next, more :
        all = Flat(ss, n) /\ first = Flat(ss, k) /\ next = ss[k + 1] /\ more = Flat(ss, k + 1)
  OBVIOUS
<1>3. IsSeq(all) /\ IsSeq(first) /\ IsSeq(next) /\ IsSeq(more)
  BY <1>1, <1>2, FlatIsSeq
<1>4. Len(all) \in Nat /\ Len(first) \in Nat /\ Len(next) \in Nat /\ Len(more) \in Nat
  BY <1>3, SeqFacts
<1>5. Joined(more, first, next)
  BY <1>1, <1>2, <1>3, FlatGrows
<1>6. TwoPieces(all, 0, more, first, next)
  BY <1>3, <1>5, JoinedFacts
<1>7. Len(more) <= Len(all) /\ Holds(all, 0, more)
  BY <1>1, <1>2, FlatHolds
<1>8. Len(more) = Len(first) + Len(next) /\ Holds(all, Len(first), next)
  BY <1>4, <1>6, <1>7 DEF TwoPieces
<1>9. PICK rest : rest = Rest(all, Len(first) + 1)
  OBVIOUS
<1>10. Starts(rest, next)
  <2>1. PICK S : all \in Seq(S)
    BY <1>3 DEF IsSeq
  <2>2. PICK p \in Nat, q \in Nat, l \in Nat : p = Len(first) /\ q = Len(all) /\ l = Len(next)
    BY <1>4
  <2>3. p + l <= q
    BY <1>4, <1>7, <1>8, <2>2
  <2>4. rest = SubSeq(all, p + 1, q)
    BY <1>9, <2>2 DEF Rest
  <2>5. rest \in Seq(S) /\ Len(rest) = q - p /\ \A i \in 1 .. q - p : rest[i] = all[p + i]
    BY <2>1, <2>2, <2>3, <2>4
  <2>6. \A i \in 1 .. l : rest[0 + i] = next[i]
    BY <1>8, <2>2, <2>3, <2>5 DEF Holds
  <2> QED
    BY <2>2, <2>3, <2>5, <2>6 DEF Starts, Holds, IsSeq
<1> QED
  BY <1>2, <1>4, <1>7, <1>8, <1>9, <1>10 DEF RestBegins

-----------------------------------------------------------------------------
(* The block being read.                                                    *)

(* The bytes of each entry, and how many tokens the first k entries take.   *)
Written(b) == [i \in 1 .. Len(b) |-> Serialized(b[i].op)]
PrefixLen(b, k) == Len(BytesOf(SubSeq(b, 1, k)))

LEMMA EntryFacts ==
    ASSUME NEW e \in Entries
    PROVE  /\ e.skip \in BOOLEAN /\ (~e.skip => e.op \in Operations)
           /\ \/ e.op \in Operations /\ e.op.kind # "marker"
              \/ e.op \in Markers /\ e.op.kind = "marker"
<1>1. \A op \in Operations : op.kind # "marker"
  BY DEF Operations
<1>2. \A op \in Markers : op.kind = "marker"
  BY DEF Markers
<1> QED
  BY <1>1, <1>2 DEF Entries

(* A block is its entries, one behind the other.                            *)
LEMMA BlockFacts ==
    ASSUME NEW b \in Blocks
    PROVE  /\ Len(b) \in Nat /\ \A i \in 1 .. Len(b) : b[i] \in Entries
           /\ \A i \in 1 .. Len(b) : /\ IsSeq(Written(b)[i])
                                     /\ Written(b)[i] = Serialized(b[i].op)
           /\ BytesOf(b) = Flat(Written(b), Len(b))
           /\ \A k \in 0 .. Len(b) : PrefixLen(b, k) = Len(Flat(Written(b), k))
<1>1. b \in Seq(Entries)
  BY BlocksAssumption
<1>2. Len(b) \in Nat /\ DOMAIN b = 1 .. Len(b) /\ \A i \in 1 .. Len(b) : b[i] \in Entries
  BY <1>1, LenProperties, ElementOfSeq
<1>3. \A i \in 1 .. Len(b) : Written(b)[i] = Serialized(b[i].op)
  BY DEF Written
<1>4. ASSUME NEW i \in 1 .. Len(b) PROVE IsSeq(Written(b)[i])
  BY <1>2, <1>3, EntryFacts, OperationIsRead, MarkerIsTold
<1>5. ASSUME NEW k \in 0 .. Len(b), NEW front, front \in Seq(Entries), Len(front) = k,
             \A i \in 1 .. k : front[i] = b[i]
      PROVE  BytesOf(front) = Flat(Written(b), k)
  <2>1. DOMAIN front = 1 .. k
    BY <1>5
  <2>2. \A i \in 1 .. k : i \in 1 .. Len(b)
    BY <1>2
  <2>3. [i \in 1 .. k |-> Serialized(front[i].op)] = [i \in 1 .. k |-> Written(b)[i]]
    BY <1>3, <1>5, <2>2
  <2> QED
    BY <2>1, <2>3 DEF BytesOf, Flat
<1>6. BytesOf(b) = Flat(Written(b), Len(b))
  BY <1>1, <1>2, <1>5
<1>7. ASSUME NEW k \in 0 .. Len(b) PROVE PrefixLen(b, k) = Len(Flat(Written(b), k))
  <2>1. PICK front : front = SubSeq(b, 1, k)
    OBVIOUS
  <2>2. front \in Seq(Entries) /\ Len(front) = k /\ \A i \in 1 .. k : front[i] = b[i]
    BY <1>1, <1>2, <2>1
  <2>3. BytesOf(front) = Flat(Written(b), k)
    BY <1>5, <2>2
  <2> QED
    BY <2>1, <2>3, Zenon DEF PrefixLen
<1> QED
  BY <1>2, <1>3, <1>4, <1>6, <1>7

(* The operations among the first k entries that are not skipped.           *)
Reported(b, k) == {j \in 1 .. k : ~b[j].skip}
ReadUpTo(b, k) == Ascending([i \in Reported(b, k) |-> i])
OpsUpTo(b, k) == [i \in DOMAIN ReadUpTo(b, k) |-> b[ReadUpTo(b, k)[i]].op]

LEMMA ReadUpToFacts ==
    ASSUME NEW b, NEW k \in Nat
    PROVE  /\ IsFiniteSet(Reported(b, k)) /\ Cardinality(Reported(b, k)) \in 0 .. k
           /\ ReadUpTo(b, k) \in [1 .. Cardinality(Reported(b, k)) -> Reported(b, k)]
           /\ IsSeq(OpsUpTo(b, k)) /\ Len(OpsUpTo(b, k)) = Cardinality(Reported(b, k))
           /\ DOMAIN OpsUpTo(b, k) = 1 .. Cardinality(Reported(b, k))
<1> DEFINE S == Reported(b, k)
<1>1. IsFiniteSet(S) /\ Cardinality(S) \in 0 .. k
  <2>1. PICK all : all = 0 + 1 .. k
    OBVIOUS
  <2>2. IsFiniteSet(all) /\ Cardinality(all) = k
    BY <2>1, CountedUpTo
  <2>3. S \subseteq all
    BY <2>1 DEF Reported
  <2>4. IsFiniteSet(S) /\ Cardinality(S) <= Cardinality(all)
    BY <2>2, <2>3, FS_Subset
  <2>5. Cardinality(S) \in Nat
    BY <2>4, FS_CardinalityType
  <2> QED
    BY <2>2, <2>4, <2>5
<1>2. PICK key : key = [i \in S |-> i]
  OBVIOUS
<1>3. key \in [S -> Int] /\ \A d, e \in S : key[d] = key[e] => d = e
  BY <1>2 DEF Reported
<1>4. ReadUpTo(b, k) \in [1 .. Cardinality(S) -> S]
  BY <1>1, <1>2, <1>3, AscendingEnumerates DEF ReadUpTo
<1>5. DOMAIN OpsUpTo(b, k) = 1 .. Cardinality(S) /\ Cardinality(S) \in Nat
  BY <1>1, <1>4 DEF OpsUpTo
<1>6. OpsUpTo(b, k) = [i \in 1 .. Cardinality(S) |-> OpsUpTo(b, k)[i]]
  BY <1>4 DEF OpsUpTo
<1>7. IsSeq(OpsUpTo(b, k)) /\ Len(OpsUpTo(b, k)) = Cardinality(S)
  BY <1>5, <1>6, Mapped
<1> QED
  BY <1>1, <1>4, <1>5, <1>7

(* An entry that is skipped adds nothing, another one adds its operation.   *)
LEMMA SkippedUpTo ==
    ASSUME NEW b, NEW k \in Nat, b[k + 1].skip
    PROVE  OpsUpTo(b, k + 1) = OpsUpTo(b, k)
<1>1. Reported(b, k + 1) = Reported(b, k)
  BY DEF Reported
<1> QED
  BY <1>1 DEF OpsUpTo, ReadUpTo

LEMMA ReportedUpTo ==
    ASSUME NEW b, NEW k \in Nat, ~b[k + 1].skip, NEW last, last = <<b[k + 1].op>>
    PROVE  Joined(OpsUpTo(b, k + 1), OpsUpTo(b, k), last)
<1>1. PICK S, p : S = Reported(b, k) /\ p = k + 1
  OBVIOUS
<1>2. PICK n : n = Cardinality(S)
  OBVIOUS
<1>3. /\ Reported(b, p) = S \cup {p} /\ p \notin S
      /\ S \in SUBSET Int /\ p \in Int /\ \A e \in S : e < p
  BY <1>1 DEF Reported
<1>4. PICK key, more : key = [i \in S |-> i] /\ more = [i \in S \cup {p} |-> i]
  OBVIOUS
<1>5. /\ IsFiniteSet(S) /\ n \in Nat
      /\ key \in [S -> Int] /\ more \in [S \cup {p} -> Int]
      /\ \A d, e \in S : key[d] = key[e] => d = e
      /\ \A e \in S : more[e] = key[e] /\ key[e] < more[p]
  BY <1>1, <1>2, <1>3, <1>4, ReadUpToFacts
<1>6. /\ Ascending(more) \in [1 .. n + 1 -> S \cup {p}]
      /\ \A i \in 1 .. n : Ascending(more)[i] = Ascending(key)[i]
      /\ Ascending(more)[n + 1] = p
  <2>1. Grown(key, more, S, p)
    BY <1>3, <1>5, AscendingGrows
  <2> QED
    BY <1>2, <2>1 DEF Grown
<1>7. ReadUpTo(b, k) = Ascending(key) /\ ReadUpTo(b, p) = Ascending(more)
  BY <1>1, <1>3, <1>4 DEF ReadUpTo
<1>8. PICK before, after : before = OpsUpTo(b, k) /\ after = OpsUpTo(b, p)
  OBVIOUS
<1>9. /\ IsSeq(before) /\ Len(before) = n /\ DOMAIN Ascending(key) = 1 .. n
      /\ before = [i \in 1 .. n |-> b[Ascending(key)[i]].op]
      /\ after = [i \in 1 .. n + 1 |-> b[Ascending(more)[i]].op]
  BY <1>1, <1>2, <1>6, <1>7, <1>8, ReadUpToFacts DEF OpsUpTo
<1>10. \A i \in 1 .. n + 1 : after[i] = IF i <= n THEN before[i] ELSE b[p].op
  BY <1>5, <1>6, <1>9
<1>11. PICK T : before \in Seq(T)
  BY <1>9 DEF IsSeq
<1>12. PICK whole : whole = before \o last
  OBVIOUS
<1>13. /\ whole = [i \in 1 .. n + 1 |-> whole[i]]
       /\ \A i \in 1 .. n + 1 : whole[i] = IF i <= n THEN before[i] ELSE b[p].op
  <2>1. last \in Seq({b[p].op}) /\ Len(last) = 1 /\ last[1] = b[p].op
    BY <1>1
  <2>2. /\ whole \in Seq(T \cup {b[p].op}) /\ Len(whole) = n + 1
        /\ \A i \in 1 .. n + 1 : whole[i] = IF i <= n THEN before[i] ELSE last[i - n]
    BY <1>5, <1>9, <1>11, <1>12, <2>1
  <2>3. \A i \in 1 .. n + 1 : i <= n \/ i - n = 1
    BY <1>5
  <2>4. DOMAIN whole = 1 .. n + 1
    BY <1>5, <2>2
  <2>5. \A i \in 1 .. n + 1 : whole[i] = IF i <= n THEN before[i] ELSE b[p].op
    BY <2>1, <2>2, <2>3
  <2>6. whole = [i \in 1 .. n + 1 |-> whole[i]]
    BY <2>2, <2>4
  <2> QED
    BY <2>5, <2>6
<1>14. after = whole
  <2>1. after = [i \in 1 .. n + 1 |-> after[i]]
    BY <1>9
  <2> QED
    BY <1>10, <1>13, <2>1
<1> QED
  BY <1>1, <1>8, <1>12, <1>14 DEF Joined

(* The invariant: the reader stands where an entry begins, nothing has      *)
(* failed, and what was given to the receiver and taken for markers is      *)
(* right so far.                                                            *)
SerInv ==
    /\ block \in Blocks /\ entry \in 0 .. Len(block)
    /\ InStep /\ RoundTrip /\ failed = FALSE
    /\ marked \in Seq(BOOLEAN) /\ Len(marked) = entry /\ MarkersTold

LEMMA SerInvInit == Init => SerInv
<1> SUFFICES ASSUME Init PROVE SerInv
  OBVIOUS
<1>1. /\ block \in Blocks /\ pos = 0 /\ entry = 0 /\ received = <<>> /\ marked = <<>>
      /\ failed = FALSE /\ Len(block) \in Nat
  BY BlockFacts DEF Init
<1>2. InStep
  <2>1. PrefixLen(block, 0) = Len(Flat(Written(block), 0))
    BY <1>1, BlockFacts
  <2>2. PrefixLen(block, 0) = 0
    BY <2>1, FlatOfNone
  <2> QED
    BY <1>1, <2>2 DEF InStep, PrefixLen
<1>3. RoundTrip
  <2>1. PICK k \in Nat : k = 0
    OBVIOUS
  <2>2. Reported(block, k) = {}
    BY <2>1 DEF Reported
  <2>3. Cardinality(Reported(block, k)) = 0
    BY <2>2, FS_EmptySet
  <2>4. DOMAIN OpsUpTo(block, k) = 1 .. 0 /\ Len(OpsUpTo(block, k)) = 0
    BY <2>1, <2>3, ReadUpToFacts
  <2>5. PICK S : OpsUpTo(block, k) \in Seq(S)
    BY <2>1, ReadUpToFacts DEF IsSeq
  <2>6. OpsUpTo(block, k) = <<>>
    BY <2>4, <2>5, EmptySeq
  <2> QED
    BY <1>1, <2>1, <2>6 DEF RoundTrip, EntriesRead, OpsUpTo, ReadUpTo, Reported
<1>4. marked \in Seq(BOOLEAN) /\ Len(marked) = entry /\ MarkersTold
  BY <1>1 DEF MarkersTold
<1>5. entry \in 0 .. Len(block)
  BY <1>1
<1> QED
  BY <1>1, <1>2, <1>3, <1>4, <1>5 DEF SerInv

(* Where the next entry is read.                                            *)
LEMMA NextIsThere ==
    ASSUME SerInv, entry < Len(block)
    PROVE  /\ entry \in Nat /\ entry + 1 \in 1 .. Len(block) /\ block[entry + 1] \in Entries
           /\ pos \in Nat /\ EntrySize(entry + 1) \in Nat
           /\ Starts(Unread, Serialized(block[entry + 1].op))
           /\ PrefixLen(block, entry + 1) = pos + EntrySize(entry + 1)
<1>1. PICK n, k, ss : n = Len(block) /\ k = entry /\ ss = Written(block)
  OBVIOUS
<1>2. n \in Nat /\ k \in 0 .. n - 1 /\ k \in 0 .. n /\ k + 1 \in 1 .. n /\ k + 1 \in 0 .. n
  BY <1>1, BlockFacts DEF SerInv
<1>3. /\ \A i \in 1 .. n : block[i] \in Entries /\ IsSeq(ss[i]) /\ ss[i] = Serialized(block[i].op)
      /\ Bytes = Flat(ss, n) /\ \A i \in 0 .. n : PrefixLen(block, i) = Len(Flat(ss, i))
  BY <1>1, BlockFacts DEF SerInv, Bytes
<1>4. pos = PrefixLen(block, k)
  BY <1>1 DEF SerInv, InStep, PrefixLen
<1>5. pos = Len(Flat(ss, k))
  BY <1>2, <1>3, <1>4
<1>6. /\ Len(Flat(ss, k)) \in Nat /\ Len(ss[k + 1]) \in Nat
      /\ Len(Flat(ss, k + 1)) = Len(Flat(ss, k)) + Len(ss[k + 1])
      /\ Starts(Rest(Flat(ss, n), Len(Flat(ss, k)) + 1), ss[k + 1])
  <2>1. \A i \in 1 .. n : IsSeq(ss[i])
    BY <1>3
  <2>2. RestBegins(ss, n, k)
    BY <1>2, <2>1, FlatRest
  <2> QED
    BY <1>2, <2>2 DEF RestBegins
<1>7. EntrySize(k + 1) = Len(ss[k + 1])
  BY <1>1, <1>2, <1>3 DEF EntrySize
<1>8. Starts(Unread, ss[k + 1])
  BY <1>3, <1>5, <1>6 DEF Unread
<1>9. PrefixLen(block, k + 1) = pos + EntrySize(k + 1)
  BY <1>2, <1>3, <1>5, <1>6, <1>7
<1>10. /\ k + 1 \in 1 .. Len(block) /\ block[k + 1] \in Entries /\ pos \in Nat /\ k \in Nat
       /\ EntrySize(k + 1) \in Nat /\ ss[k + 1] = Serialized(block[k + 1].op)
  BY <1>1, <1>2, <1>3, <1>5, <1>6, <1>7
<1> QED
  BY <1>1, <1>8, <1>9, <1>10

(* What every entry does, skipped or not: the markers are told from the     *)
(* operations by the first token.                                           *)
LEMMA EveryNext ==
    ASSUME SerInv, NextEntry
    PROVE  /\ block' \in Blocks /\ entry' \in 0 .. Len(block')
           /\ marked' \in Seq(BOOLEAN) /\ Len(marked') = entry' /\ MarkersTold'
<1>1. entry < Len(block) /\ entry' = entry + 1 /\ block' = block
      /\ marked' = Append(marked, IsOperationCompletionMarker(Unread))
  BY DEF NextEntry
<1>2. /\ entry \in Nat /\ entry + 1 \in 1 .. Len(block) /\ block[entry + 1] \in Entries
      /\ Starts(Unread, Serialized(block[entry + 1].op))
  BY <1>1, NextIsThere
<1>3. PICK mark \in BOOLEAN : mark = IsOperationCompletionMarker(Unread)
  BY DEF IsOperationCompletionMarker
<1>4. mark = (block[entry + 1].op.kind = "marker")
  <2>1. Unread[1].v = MarkerID <=> block[entry + 1].op.kind = "marker"
    <3>1. PICK e, bytes : e = block[entry + 1] /\ bytes = Unread
      OBVIOUS
    <3>2. e \in Entries /\ Starts(bytes, Serialized(e.op))
      BY <1>2, <3>1
    <3>3. CASE e.op \in Operations /\ e.op.kind # "marker"
      <4>1. bytes[1].v \in 0 .. 4
        BY <3>2, <3>3, OperationIsRead
      <4> QED
        BY <3>1, <3>3, <4>1 DEF MarkerID
    <3>4. CASE e.op \in Markers /\ e.op.kind = "marker"
      BY <3>1, <3>2, <3>4, MarkerIsTold
    <3> QED
      BY <3>2, <3>3, <3>4, EntryFacts
  <2> QED
    BY <1>3, <2>1 DEF IsOperationCompletionMarker
<1>5. /\ marked' \in Seq(BOOLEAN) /\ Len(marked') = entry + 1
      /\ \A i \in 1 .. entry : marked'[i] = marked[i]
      /\ marked'[entry + 1] = mark
  BY <1>1, <1>2, <1>3 DEF SerInv
<1>6. DOMAIN marked = 1 .. entry /\ DOMAIN marked' = 1 .. entry + 1
  BY <1>2, <1>5 DEF SerInv
<1>7. ASSUME NEW i \in 1 .. entry + 1 PROVE marked'[i] = (block[i].op.kind = "marker")
  <2>1. CASE i \in 1 .. entry
    BY <1>5, <1>6, <2>1 DEF SerInv, MarkersTold
  <2>2. CASE i = entry + 1
    BY <1>4, <1>5, <2>2
  <2> QED
    BY <1>2, <2>1, <2>2
<1>8. MarkersTold'
  BY <1>1, <1>6, <1>7 DEF MarkersTold
<1>9. block' \in Blocks /\ entry' \in 0 .. Len(block') /\ Len(block) \in Nat
  BY <1>1, <1>2, BlockFacts DEF SerInv
<1> QED
  BY <1>1, <1>5, <1>8, <1>9

LEMMA SerInvSkip == SerInv /\ SkipEntry => SerInv'
<1> SUFFICES ASSUME SerInv, SkipEntry PROVE SerInv'
  OBVIOUS
<1>1. /\ NextEntry /\ entry < Len(block) /\ entry' = entry + 1 /\ block' = block
      /\ block[entry + 1].skip /\ pos' = pos + EntrySize(entry + 1)
      /\ received' = received /\ failed' = failed
  BY DEF SkipEntry, NextEntry
<1>2. InStep'
  <2>1. pos' = PrefixLen(block', entry')
    BY <1>1, NextIsThere
  <2> QED
    BY <2>1 DEF InStep, PrefixLen
<1>3. RoundTrip'
  <2>1. entry \in Nat
    BY <1>1, NextIsThere
  <2>2. OpsUpTo(block', entry') = OpsUpTo(block, entry)
    BY <1>1, <2>1, SkippedUpTo
  <2>3. received = OpsUpTo(block, entry)
    BY DEF SerInv, RoundTrip, EntriesRead, OpsUpTo, ReadUpTo, Reported
  <2>4. received' = OpsUpTo(block', entry')
    BY <1>1, <2>2, <2>3
  <2> QED
    BY <2>4 DEF RoundTrip, EntriesRead, OpsUpTo, ReadUpTo, Reported
<1> QED
  BY <1>1, <1>2, <1>3, EveryNext DEF SerInv

LEMMA SerInvReport == SerInv /\ ReportEntry => SerInv'
<1> SUFFICES ASSUME SerInv, ReportEntry PROVE SerInv'
  OBVIOUS
<1>1. /\ NextEntry /\ entry < Len(block) /\ entry' = entry + 1 /\ block' = block
      /\ ~block[entry + 1].skip
      /\ received' = received \o Deserialize(Unread).ops
      /\ pos' = pos + Deserialize(Unread).consumed
      /\ failed' = ~Deserialize(Unread).ok
  BY DEF ReportEntry, NextEntry
<1>2. PICK op : op = block[entry + 1].op
  OBVIOUS
<1>3. Deserialize(Unread) = Success(op, Len(Serialized(op)))
  BY <1>1, <1>2, NextIsThere, EntryFacts, OperationIsRead DEF IsRead
<1>4. PICK last : last = <<op>>
  OBVIOUS
<1>5. received' = received \o last /\ pos' = pos + EntrySize(entry + 1) /\ failed' = FALSE
  <2>1. /\ Deserialize(Unread).ops = last /\ Deserialize(Unread).ok = TRUE
        /\ Deserialize(Unread).consumed = Len(Serialized(op))
    BY <1>3, <1>4 DEF Success
  <2> QED
    BY <1>1, <1>2, <2>1 DEF EntrySize
<1>6. InStep'
  <2>1. pos' = PrefixLen(block', entry')
    BY <1>1, <1>5, NextIsThere
  <2> QED
    BY <2>1 DEF InStep, PrefixLen
<1>7. RoundTrip'
  <2>1. entry \in Nat
    BY <1>1, NextIsThere
  <2>2. Joined(OpsUpTo(block, entry + 1), OpsUpTo(block, entry), last)
    BY <1>1, <1>2, <1>4, <2>1, ReportedUpTo
  <2>3. received = OpsUpTo(block, entry)
    BY DEF SerInv, RoundTrip, EntriesRead, OpsUpTo, ReadUpTo, Reported
  <2>4. received' = OpsUpTo(block', entry')
    BY <1>1, <1>5, <2>2, <2>3 DEF Joined
  <2> QED
    BY <2>4 DEF RoundTrip, EntriesRead, OpsUpTo, ReadUpTo, Reported
<1> QED
  BY <1>1, <1>5, <1>6, <1>7, EveryNext DEF SerInv

(* The reader is in step in every state it reaches.                         *)
THEOREM SerInvHolds == Spec => []SerInv
<1>1. SerInv /\ [Next]_vars => SerInv'
  <2>1. SerInv /\ UNCHANGED vars => SerInv'
    BY DEF SerInv, vars, InStep, RoundTrip, EntriesRead, MarkersTold
  <2> QED
    BY <2>1, SerInvSkip, SerInvReport DEF Next
<1> QED
  BY <1>1, SerInvInit, PTL DEF Spec

LEMMA SerInvTypeOK == SerInv => TypeOK
<1> SUFFICES ASSUME SerInv PROVE TypeOK
  OBVIOUS
<1>1. PICK n, k, ss : n = Len(block) /\ k = entry /\ ss = Written(block)
  OBVIOUS
<1>2. n \in Nat /\ k \in 0 .. n /\ k \in Nat /\ n \in 0 .. n
  BY <1>1, BlockFacts DEF SerInv
<1>3. /\ \A i \in 1 .. n : IsSeq(ss[i])
      /\ Bytes = Flat(ss, n) /\ PrefixLen(block, k) = Len(Flat(ss, k))
  BY <1>1, <1>2, BlockFacts DEF SerInv, Bytes
<1>4. pos = PrefixLen(block, k)
  BY <1>1 DEF SerInv, InStep, PrefixLen
<1>5. pos \in 0 .. Len(Bytes)
  <2>1. Len(Flat(ss, k)) <= Len(Flat(ss, n))
    BY <1>2, <1>3, FlatHolds
  <2>2. Len(Flat(ss, k)) \in Nat /\ Len(Flat(ss, n)) \in Nat
    BY <1>2, <1>3, FlatIsSeq, SeqFacts
  <2> QED
    BY <1>3, <1>4, <2>1, <2>2
<1>6. Len(received) <= entry
  <2>1. received = OpsUpTo(block, entry)
    BY DEF SerInv, RoundTrip, EntriesRead, OpsUpTo, ReadUpTo, Reported
  <2> QED
    BY <1>1, <1>2, <2>1, ReadUpToFacts
<1> QED
  BY <1>5, <1>6 DEF SerInv, TypeOK

(* The reader never leaves the block, nor gives more than one operation for *)
(* an entry.                                                                *)
THEOREM SerializerTypeOK == Spec => []TypeOK
BY SerInvHolds, SerInvTypeOK, PTL

(* The receiver of verifyLog() gets exactly the registered operations of    *)
(* the entries that were not skipped, in their order, with every field as   *)
(* it was.                                                                  *)
THEOREM SerializerRoundTrip == Spec => []RoundTrip
<1>1. SerInv => RoundTrip
  BY DEF SerInv
<1> QED
  BY <1>1, SerInvHolds, PTL

(* After each entry, skipped by its size or read field by field, the        *)
(* position is where the entry ends.                                        *)
THEOREM SerializerInStep == Spec => []InStep
<1>1. SerInv => InStep
  BY DEF SerInv
<1> QED
  BY <1>1, SerInvHolds, PTL

(* isOperationCompletionMarker() is true of the completion markers and of   *)
(* nothing else.                                                            *)
THEOREM SerializerMarkersTold == Spec => []MarkersTold
<1>1. SerInv => MarkersTold
  BY DEF SerInv
<1> QED
  BY <1>1, SerInvHolds, PTL

(* No operation that serialize writes makes deserialize return FALSE or     *)
(* abort, wherever in a block it is.                                        *)
THEOREM SerializerNeverFails == Spec => [](failed = FALSE)
<1>1. SerInv => failed = FALSE
  BY DEF SerInv
<1> QED
  BY <1>1, SerInvHolds, PTL
=============================================================================
