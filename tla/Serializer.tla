------------------------------ MODULE Serializer ------------------------------
(***************************************************************************)
(* BinarySerializer (binaryserializer.h): a batch of operations as one     *)
(* buffer, as ZmqClient sends it and ZmqServer reads it.  A buffer is a    *)
(* sequence of cells.  A size_t takes SizeT cells, of which the first has  *)
(* its value; a number in text is its digits to the base Base.             *)
(***************************************************************************)
EXTENDS Integers, Sequences
LOCAL INSTANCE SequencesExt

CONSTANTS SizeT, Base,
          Text,       \* keys, fields and values: sequences of cells
          NameText,   \* names of databases and tables
          MaxFields,  \* bound: fields of an operation
          MaxOps,     \* bound: operations of a batch
          Slack       \* buffer sizes, relative to the size that is needed

VARIABLES
  dbName, tableName, kcos,   \* the batch
  size,                      \* of the buffer
  state,                     \* "given", "thrown", "serialized" or "deserialized"
  buffer, received

vars == <<dbName, tableName, kcos, size, state, buffer, received>>

Operation == [key : Text, op : {"SET", "DEL"}, fvs : BoundedSeq(Text \X Text, MaxFields)]
Nothing == [dbName |-> <<>>, tableName |-> <<>>, kcos |-> <<>>]

\* Every variable has its type.
TypeOK ==
  /\ dbName \in NameText /\ tableName \in NameText /\ \A i \in DOMAIN kcos : kcos[i] \in Operation
  /\ state \in {"given", "thrown", "serialized", "deserialized"}
  /\ Len(buffer) <= size
-------------------------------------------------------------------------------
to_string(n) == IF n < Base THEN <<n>> ELSE <<n \div Base, n % Base>>
stoi(s) == FoldLeft(LAMBDA n, d : n * Base + d, 0, s)

SumOf(ns) == FoldLeft(LAMBDA a, b : a + b, 0, ns)

\* The size that the buffer must have.
serializedSize(db, table, ops) ==
  SizeT + (Len(db) + SizeT) + (Len(table) + SizeT) + SumOf([i \in DOMAIN ops |->
    (Len(ops[i].key) + SizeT) + (Len(to_string(Len(ops[i].fvs))) + SizeT)
      + SumOf([j \in DOMAIN ops[i].fvs |-> Len(ops[i].fvs[j][1]) + SizeT + Len(ops[i].fvs[j][2]) + SizeT])])

Init ==
  /\ dbName \in NameText /\ tableName \in NameText /\ kcos \in BoundedSeq(Operation, MaxOps)
  /\ size \in {serializedSize(dbName, tableName, kcos) + d : d \in Slack}
  /\ state = "given" /\ buffer = <<>> /\ received = Nothing
-------------------------------------------------------------------------------
(***************************************************************************)
(* The serializer: what is written, m_kvp_count, and whether it threw.     *)
(***************************************************************************)
Size(n) == [i \in 1..SizeT |-> IF i = 1 THEN n ELSE 0]
resetSerializer == [written |-> Size(0), m_kvp_count |-> 0, thrown |-> FALSE]

setData(s, data) ==
  IF s.thrown \/ Len(s.written) + Len(data) + SizeT > size THEN [s EXCEPT !.thrown = TRUE]
  ELSE [s EXCEPT !.written = @ \o Size(Len(data)) \o data]

setKeyAndValue(s, pair) == [setData(setData(s, pair[1]), pair[2]) EXCEPT !.m_kvp_count = @ + 1]

finalize(s) == Size(s.m_kvp_count) \o SubSeq(s.written, SizeT + 1, Len(s.written))

\* The names, and for every operation its key with the number of its fields, and the fields.
Pairs == <<<<dbName, tableName>>>> \o FlattenSeq([i \in DOMAIN kcos |-> <<<<kcos[i].key, to_string(Len(kcos[i].fvs))>>>> \o kcos[i].fvs])

serializeBuffer ==
  /\ state = "given"
  /\ LET s == FoldLeft(setKeyAndValue, resetSerializer, Pairs)
     IN IF s.thrown THEN state' = "thrown" /\ UNCHANGED buffer
        ELSE state' = "serialized" /\ buffer' = finalize(s)
  /\ UNCHANGED <<dbName, tableName, kcos, size, received>>
-------------------------------------------------------------------------------
(***************************************************************************)
(* The reader: the pairs first, then the operations that they make up.     *)
(***************************************************************************)
\* A length and its data at a position, unless the buffer is too short for it.
readData(r) ==
  LET from == r.at + SizeT IN
  IF r.thrown \/ from + buffer[r.at + 1] > Len(buffer) THEN [r EXCEPT !.thrown = TRUE]
  ELSE [r EXCEPT !.at = from + buffer[r.at + 1], !.data = Append(@, SubSeq(buffer, from + 1, from + buffer[r.at + 1]))]

\* kvp_count pairs.
deserializePairs ==
  LET r == FoldLeft(LAMBDA s, i : readData(readData(s)), [at |-> SizeT, data |-> <<>>, thrown |-> FALSE], [i \in 1..buffer[1] |-> i])
  IN [i \in 1..(Len(r.data) \div 2) |-> <<r.data[2 * i - 1], r.data[2 * i]>>]

Kco(key, fvs_size) == [key |-> key, op |-> IF fvs_size = 0 THEN "DEL" ELSE "SET", fvs |-> <<>>]

\* Mutant: the fields of the last operation are not cleared.
nextPairNoClear(s, fv) ==
  LET first == s.fvs_size = 0
      n == IF first THEN stoi(fv[2]) ELSE s.fvs_size - 1
      kco == IF first THEN [Kco(fv[1], n) EXCEPT !.fvs = s.kco.fvs] ELSE [s.kco EXCEPT !.fvs = Append(@, fv)]
  IN IF s.fvs_size < 0 THEN [s EXCEPT !.dbName = fv[1], !.tableName = fv[2], !.fvs_size = 0]
     ELSE [s EXCEPT !.fvs_size = n, !.kco = kco, !.kcos = IF n = 0 THEN Append(@, kco) ELSE @]

\* A pair is the names (fvs_size < 0), the start of an operation (= 0) or a field of it.
nextPair(s, fv) ==
  LET first == s.fvs_size = 0
      n == IF first THEN stoi(fv[2]) ELSE s.fvs_size - 1
      kco == IF first THEN Kco(fv[1], n) ELSE [s.kco EXCEPT !.fvs = Append(@, fv)]
  IN IF s.fvs_size < 0 THEN [s EXCEPT !.dbName = fv[1], !.tableName = fv[2], !.fvs_size = 0]
     ELSE [s EXCEPT !.fvs_size = n, !.kco = kco, !.kcos = IF n = 0 THEN Append(@, kco) ELSE @]

deserializeBuffer ==
  /\ state = "serialized" /\ state' = "deserialized"
  /\ LET start == [dbName |-> <<>>, tableName |-> <<>>, kcos |-> <<>>, fvs_size |-> -1, kco |-> Kco(<<>>, 0)]
         s == FoldLeft(nextPair, start, deserializePairs)
     IN received' = [dbName |-> s.dbName, tableName |-> s.tableName, kcos |-> s.kcos]
  /\ UNCHANGED <<dbName, tableName, kcos, size, buffer>>
-------------------------------------------------------------------------------
Next == serializeBuffer \/ deserializeBuffer

Spec == Init /\ [][Next]_vars
-------------------------------------------------------------------------------
\* A batch that was sent is received as it was, operation by operation and field by field.
\* The operation itself is not sent: "when there is no attribute, it is a DEL request".
RoundTrip ==
  state = "deserialized" =>
    received = [dbName |-> dbName, tableName |-> tableName,
                kcos |-> [i \in DOMAIN kcos |-> [kcos[i] EXCEPT !.op = IF kcos[i].fvs = <<>> THEN "DEL" ELSE "SET"]]]

\* serializeBuffer() throws if and only if the buffer is smaller than
\* serializedSize() says, and writes no more and no less than that.
SizeExact ==
  /\ state = "thrown" => size < serializedSize(dbName, tableName, kcos)
  /\ state \in {"serialized", "deserialized"} => Len(buffer) = serializedSize(dbName, tableName, kcos)
===============================================================================
