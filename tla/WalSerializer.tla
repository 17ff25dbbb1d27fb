---------------------------- MODULE WalSerializer ----------------------------
(***************************************************************************)
(* How operations are written into the entries of the log and read back:    *)
(* src/src/WAL/wal_serializer.hpp with the record serializer it uses.  The  *)
(* bytes are a sequence of tokens, one for each io.write() of the source,   *)
(* each with the type of what was written; a read of another type than was  *)
(* written is a failure.                                                    *)
(*                                                                          *)
(* The entries of a block follow each other.  verifyLog() trusts            *)
(* deserialize() to stop at the end of its entry, and seeks only past the   *)
(* entries it skips.                                                        *)
(***************************************************************************)
EXTENDS Integers, FiniteSets, Sequences, SequencesExt, Ordering

CONSTANTS
    Schema,     \* the record's fields: [id, type, static, array]
    Values,     \* the values of fields
    Blocks      \* the entries of a block: sequences of [op, skip]

Op == [Insert |-> 0, Find |-> 1, UpdateFull |-> 2, AppendToArray |-> 3, Delete |-> 4]
MarkerID == 221
MaxFieldCount == 2      \* Operation::Find::maxFieldCount

(* DbRecord::checkAssertions() makes sure that there are fields, and those  *)
(* of fixed size first.  Of the IDs it says that all must differ, and       *)
(* compares those of neighbours: the third line asks more than it checks.   *)
ASSUME SchemaAssumption ==
    /\ Schema \in Seq([id : 0 .. 255, type : STRING, static : BOOLEAN, array : BOOLEAN])
    /\ Schema # <<>>
    /\ \A i, j \in DOMAIN Schema : Schema[i].id = Schema[j].id => i = j
    /\ \A i, j \in DOMAIN Schema : i < j /\ Schema[j].static => Schema[i].static

Token(type, v) == [type |-> type, v |-> v]

Position(id) == CHOOSE i \in DOMAIN Schema : Schema[i].id = id
FieldIds == {Schema[i].id : i \in DOMAIN Schema}
IsField(id) == id \in FieldIds
TypeOf(id) == Schema[Position(id)].type
IsArray(id) == Schema[Position(id)].array

(* The operations about fields that the record has, at least one of them in *)
(* a Find, and the markers of completed operations.                         *)
ArrayIds == {id \in FieldIds : IsArray(id)}
Records == [DOMAIN Schema -> Values]

FieldValues ==
    UNION {[id : {id}, type : {TypeOf(id)}, v : Values] : id \in FieldIds \ ArrayIds}

Operations ==
    [kind : {"Insert"}, record : Records]
    \cup [kind : {"Find"}, fields : UNION {[1 .. n -> FieldValues] : n \in 1 .. MaxFieldCount}]
    \cup [kind : {"UpdateFull"}, key : FieldIds, insert : BOOLEAN, record : Records,
          keyValue : Values]
    \cup [kind : {"AppendToArray"}, key : FieldIds, array : ArrayIds, insert : {TRUE},
          keyValue : Values, data : Records]
    \cup [kind : {"AppendToArray"}, key : FieldIds, array : ArrayIds, insert : {FALSE},
          keyValue : Values, data : Values]
    \cup [kind : {"Delete"}, key : FieldIds, keyValue : Values]

Markers == [kind : {"marker"}, status : {"Successful", "Failed"}]

(* verifyLog() skips every marker.                                          *)
Entries == [op : Operations, skip : BOOLEAN] \cup [op : Markers, skip : {TRUE}]

ASSUME BlocksAssumption == Blocks \subseteq Seq(Entries)

-----------------------------------------------------------------------------
(* Writing.                                                                 *)

StaticFieldsCount == Cardinality({i \in DOMAIN Schema : Schema[i].static})

(* A record: as many fields in one piece as have a fixed size, then the     *)
(* others one by one.                                                       *)
SerializedRecord(record) ==
    <<Token("static", SubSeq(record, 1, StaticFieldsCount))>> \o
    [i \in 1 .. Len(Schema) - StaticFieldsCount |->
        Token(Schema[StaticFieldsCount + i].type, record[StaticFieldsCount + i])]

(* Planted bug: each ID is followed by its value.                           *)
SerializedPairwise(fields) == FlattenSeq([i \in DOMAIN fields |->
    <<Token("u8", fields[i].id), Token(fields[i].type, fields[i].v)>>])

(* Find: the IDs of the fields, then their values.                          *)
SerializedFields(fields) ==
    [i \in DOMAIN fields |-> Token("u8", fields[i].id)] \o
    [i \in DOMAIN fields |-> Token(fields[i].type, fields[i].v)]

Serialized(op) ==
    CASE op.kind = "Insert" ->
            <<Token("u8", Op.Insert)>> \o SerializedRecord(op.record)
      [] op.kind = "Find" ->
            <<Token("u8", Op.Find), Token("u8", Len(op.fields))>> \o SerializedFields(op.fields)
      [] op.kind = "UpdateFull" ->
            <<Token("u8", Op.UpdateFull), Token("u8", op.key), Token("bool", op.insert)>>
            \o SerializedRecord(op.record) \o <<Token(TypeOf(op.key), op.keyValue)>>
      [] op.kind = "AppendToArray" ->
            <<Token("u8", Op.AppendToArray), Token("u8", op.key), Token("u8", op.array),
              Token("bool", op.insert), Token(TypeOf(op.key), op.keyValue)>>
            \o IF op.insert THEN SerializedRecord(op.data)
                            ELSE <<Token(TypeOf(op.array), op.data)>>
      [] op.kind = "Delete" ->
            <<Token("u8", Op.Delete), Token("u8", op.key), Token(TypeOf(op.key), op.keyValue)>>
      [] op.kind = "marker" ->
            <<Token("u8", MarkerID), Token("status", op.status)>>

-----------------------------------------------------------------------------
(* Reading: the types asked for one after the other, as far as the IDs and  *)
(* flags read so far say; and the operation made of what was read.          *)

(* How many fields of its kind, fixed size or not, a field is the last of.  *)
Rank(i) == Cardinality({j \in 1 .. i : Schema[j].static = Schema[i].static})

DynamicFields == {i \in DOMAIN Schema : ~Schema[i].static}

RecordTypes ==
    <<"static">> \o
    [k \in 1 .. Cardinality(DynamicFields) |->
        Schema[CHOOSE i \in DynamicFields : Rank(i) = k].type]

(* The record read from the tokens that begin with the n-th: each field of  *)
(* fixed size from the piece, each other one from the next token.           *)
RecordAt(s, n) ==
    [i \in DOMAIN Schema |->
        IF Schema[i].static THEN s[n].v[Rank(i)] ELSE s[n + Rank(i)].v]

Matches(s, types) == /\ Len(types) <= Len(s)
                     /\ \A i \in DOMAIN types : s[i].type = types[i]

(* What the reader does not take: FALSE is returned.                        *)
Failure == [ok |-> FALSE, ops |-> <<>>, consumed |-> 0]

Reads(s, types, op) ==
    IF Matches(s, types) THEN [ok |-> TRUE, ops |-> <<op>>, consumed |-> Len(types)]
                         ELSE Failure

Rest(s, n) == SubSeq(s, n, Len(s))

DeserializeInsert(s) ==
    Reads(s, <<"u8">> \o RecordTypes, [kind |-> "Insert", record |-> RecordAt(s, 2)])

(* Fields that the record does not have: the receiver is not called.        *)
DeserializeFind(s) ==
    LET n == s[2].v
        ids == [i \in 1 .. n |-> s[2 + i].v]
        types == [i \in 1 .. n |-> TypeOf(ids[i])]
    IN  IF n \notin 1 .. MaxFieldCount
          THEN Failure
        ELSE IF ~Matches(s, <<"u8", "u8">> \o [i \in 1 .. n |-> "u8"])
          THEN Failure
        ELSE IF \E i \in 1 .. n : ~IsField(ids[i])
          THEN [ok |-> TRUE, ops |-> <<>>, consumed |-> 2 + n]
        ELSE Reads(s, <<"u8", "u8">> \o [i \in 1 .. n |-> "u8"] \o types,
                   [kind |-> "Find", fields |->
                      [i \in 1 .. n |-> [id |-> ids[i], type |-> types[i], v |-> s[2 + n + i].v]]])

DeserializeUpdateFull(s) ==
    IF ~IsField(s[2].v)
      THEN Failure
      ELSE Reads(s, <<"u8", "u8", "bool">> \o RecordTypes \o <<TypeOf(s[2].v)>>,
                 [kind |-> "UpdateFull", key |-> s[2].v, insert |-> s[3].v,
                  record |-> RecordAt(s, 4), keyValue |-> s[4 + Len(RecordTypes)].v])

(* Planted bug: the array is appended to the field of the key.              *)
DeserializeAppendSwapped(s) ==
    Reads(s, <<"u8", "u8", "u8", "bool", TypeOf(s[2].v)>> \o
              (IF s[4].v THEN RecordTypes ELSE <<TypeOf(s[3].v)>>),
          [kind |-> "AppendToArray", key |-> s[3].v, array |-> s[2].v, insert |-> s[4].v,
           keyValue |-> s[5].v, data |-> IF s[4].v THEN RecordAt(s, 6) ELSE s[6].v])

DeserializeAppendToArray(s) ==
    IF ~IsField(s[2].v) \/ ~IsField(s[3].v) \/ ~IsArray(s[3].v)
      THEN Failure
      ELSE Reads(s, <<"u8", "u8", "u8", "bool", TypeOf(s[2].v)>> \o
                     (IF s[4].v THEN RecordTypes ELSE <<TypeOf(s[3].v)>>),
                 [kind |-> "AppendToArray", key |-> s[2].v, array |-> s[3].v,
                  insert |-> s[4].v, keyValue |-> s[5].v,
                  data |-> IF s[4].v THEN RecordAt(s, 6) ELSE s[6].v])

DeserializeDelete(s) ==
    IF ~IsField(s[2].v)
      THEN Failure
      ELSE Reads(s, <<"u8", "u8", TypeOf(s[2].v)>>,
                 [kind |-> "Delete", key |-> s[2].v, keyValue |-> s[3].v])

(* An unknown type of entry, and a marker too, ends in fatalAbort(); it is  *)
(* a Failure here, as when deserialize() returns FALSE: neither is reached  *)
(* with the entries that are written.                                       *)
Deserialize(s) ==
    CASE s[1].v = Op.Insert        -> DeserializeInsert(s)
      [] s[1].v = Op.Find          -> DeserializeFind(s)
      [] s[1].v = Op.UpdateFull    -> DeserializeUpdateFull(s)
      [] s[1].v = Op.AppendToArray -> DeserializeAppendToArray(s)
      [] s[1].v = Op.Delete        -> DeserializeDelete(s)
      [] OTHER                     -> Failure

(* Planted bug: a marker is told by its status.                             *)
MarkerByStatus(s) == Len(s) > 1 /\ s[2].type = "status" /\ s[2].v = "Successful"

IsOperationCompletionMarker(s) == s[1].v = MarkerID

-----------------------------------------------------------------------------
(* The block being read, entry after entry.                                 *)

VARIABLES
    block,      \* what was written; skip: the entry's ID is a completed one
    pos,        \* tokens of the block read
    entry,      \* entries of the block read
    received,   \* the operations handed to the receiver
    marked,     \* for each entry read, was it taken for a marker?
    failed      \* deserialize() returned FALSE, or gave up

vars == <<block, pos, entry, received, marked, failed>>

(* The entries one behind the other.                                        *)
BytesOf(entries) == FlattenSeq([i \in DOMAIN entries |-> Serialized(entries[i].op)])
Bytes == BytesOf(block)

(* Planted bug: the size of the entry is wrong by one.                      *)
EntrySizeTooLarge(i) == Len(Serialized(block[i].op)) + 1

EntrySize(i) == Len(Serialized(block[i].op))

Init == /\ block \in Blocks
        /\ pos = 0 /\ entry = 0 /\ received = <<>> /\ marked = <<>> /\ failed = FALSE

Unread == Rest(Bytes, pos + 1)

NextEntry == /\ entry < Len(block) /\ ~failed
             /\ entry' = entry + 1
             /\ marked' = Append(marked, IsOperationCompletionMarker(Unread))
             /\ UNCHANGED block

(* The size in the entry's header says where the next one starts.           *)
SkipEntry ==
    /\ NextEntry
    /\ block[entry + 1].skip
    /\ pos' = pos + EntrySize(entry + 1)
    /\ UNCHANGED <<received, failed>>

ReportEntry ==
    /\ NextEntry
    /\ ~block[entry + 1].skip
    /\ LET read == Deserialize(Unread)
       IN  /\ received' = received \o read.ops
           /\ pos' = pos + read.consumed
           /\ failed' = ~read.ok

Next == SkipEntry \/ ReportEntry

Spec == Init /\ [][Next]_vars

-----------------------------------------------------------------------------
(* Properties.                                                              *)

(* The entries read that were not skipped, in their order.                  *)
EntriesRead == Ascending([i \in {j \in 1 .. entry : ~block[j].skip} |-> i])

(* The position stays in the block.                                         *)
TypeOK ==
    /\ pos \in 0 .. Len(Bytes) /\ entry \in 0 .. Len(block)
    /\ Len(received) <= entry /\ Len(marked) = entry
    /\ failed \in BOOLEAN

(* The receiver gets the operations that were registered, as they were.     *)
RoundTrip == received = [k \in DOMAIN EntriesRead |-> block[EntriesRead[k]].op]

(* Every entry is read to its end and no further, so that the next one is   *)
(* read from its start: nothing else puts the reader back in step.          *)
InStep == pos = Len(BytesOf(SubSeq(block, 1, entry)))

(* The entries taken for completion markers are the completion markers.     *)
MarkersTold == \A i \in DOMAIN marked : marked[i] = (block[i].op.kind = "marker")
=============================================================================
