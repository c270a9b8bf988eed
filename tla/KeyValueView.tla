----------------------------- MODULE KeyValueView -----------------------------
(***************************************************************************)
(* What a state table promises.  Producers see one hash per key (view), on *)
(* which their set and del calls take effect at once and one after the     *)
(* other.  Readers see the table, a replica that lags behind: when it      *)
(* moves it takes over whole entries of the present view, and it never     *)
(* shows a mixture of an old and a new entry.  clear() gives up the calls  *)
(* that the table has not taken over.                                      *)
(***************************************************************************)
EXTENDS Hashes

CONSTANT Key
VARIABLES view, table

Init ==
  /\ view = [k \in Key |-> EmptyHash]
  /\ table = view

\* set() of one key or of a batch: b gives every key of the batch its pairs.
Set(b) ==
  /\ view' = [k \in Key |-> IF k \in DOMAIN b THEN HSet(view[k], b[k]) ELSE view[k]]
  /\ UNCHANGED table

\* del() of one key or of a batch.
Del(S) ==
  /\ view' = [k \in Key |-> IF k \in S THEN EmptyHash ELSE view[k]]
  /\ UNCHANGED table

Clear ==
  /\ view' = table
  /\ UNCHANGED table

Sync(S) ==
  /\ table' = [k \in Key |-> IF k \in S THEN view[k] ELSE table[k]]
  /\ UNCHANGED view

Next ==
  \/ \E S \in SUBSET Key : \E b \in [S -> Hash] : Set(b)
  \/ \E S \in SUBSET Key : Del(S) \/ Sync(S)
  \/ Clear

Spec == Init /\ [][Next]_<<view, table>>
===============================================================================
