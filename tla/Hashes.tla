-------------------------------- MODULE Hashes --------------------------------
(***************************************************************************)
(* Redis hashes as the library uses them: every table entry is a hash of   *)
(* field-value pairs.  A hash is a total function on Field in which a      *)
(* missing field has the value NoValue, and Redis does not keep empty      *)
(* hashes, so "the key does not exist" and "the hash is EmptyHash" are the *)
(* same thing (EXISTS, KEYS and HGETALL cannot tell them apart).           *)
(***************************************************************************)
CONSTANTS Field,    \* field names
          Value,    \* field values
          NoValue   \* marks a field that a hash does not have

ASSUME NoValueAssumption == NoValue \notin Value

Hash == [Field -> Value \cup {NoValue}]

\* DEL key.
EmptyHash == [f \in Field |-> NoValue]

\* HSET h with every field-value pair of u.
HSet(h, u) == [f \in Field |-> IF u[f] = NoValue THEN h[f] ELSE u[f]]

\* The fields a hash has.
FieldsOf(h) == {f \in Field : h[f] # NoValue}
===============================================================================
