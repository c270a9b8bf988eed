------------------------------- MODULE TempView -------------------------------
(***************************************************************************)
(* create_temp_view() and apply_temp_view() of ProducerStateTable, with    *)
(* the consumer of StateTable running all the while.  While a temp view is *)
(* active the calls of the producer change m_tempViewState only.  Applying *)
(* it drops the pending operations, dumps the table, computes which keys   *)
(* must be deleted or set, and stages them with one script: three round    *)
(* trips to Redis, between which the consumer may take steps.  The table   *)
(* has one producer process; it may stop at any point.                     *)
(***************************************************************************)
EXTENDS StateTable

CONSTANTS NullField,     \* the field "NULL", which Table::dump() skips
          ColonDatabase  \* the table name separator of the database is ":"

ASSUME TempViewAssumption == ColonDatabase \in BOOLEAN

VARIABLES
  m_tempViewActive,
  m_tempViewState,   \* a key that it does not have is one without fields
  apply,             \* "no", or the step of apply_temp_view() just done
  currentState,      \* what Table::dump() returned: the keys ...
  currentFields,     \* ... and their fields
  \* history
  overfull           \* see Account

tempVars == <<m_tempViewActive, m_tempViewState, apply, currentState, currentFields>>
allVars == <<vars, tempVars, overfull>>

NoHashes == [k \in Key |-> EmptyHash]

\* Types, with the temp view and the places of apply_temp_view().
TempTypeOK ==
  /\ TypeOK
  /\ m_tempViewActive \in BOOLEAN
  /\ m_tempViewState \in [Key -> Hash]
  /\ apply \in {"no", "cleared", "dumped"}
  /\ currentState \subseteq Key
  /\ currentFields \in [Key -> Hash]
  /\ apply # "no" => m_tempViewActive
  /\ overfull \in BOOLEAN

TempInit ==
  /\ Init
  /\ m_tempViewActive = FALSE
  /\ m_tempViewState = NoHashes
  /\ apply = "no"
  /\ currentState = {}
  /\ currentFields = NoHashes
  /\ overfull = FALSE

\* Without a temp view the calls act on Redis as in StateTable.
DirectCall ==
  /\ ~m_tempViewActive
  /\ \E S \in Batch : Set(S) \/ Del(S)
  /\ UNCHANGED tempVars

TempSet(S) ==
  /\ m_tempViewActive
  /\ apply = "no"
  /\ \E b \in [S -> Update] :
       m_tempViewState' = [k \in Key |-> IF k \in S THEN HSet(m_tempViewState[k], b[k])
                                                    ELSE m_tempViewState[k]]
  /\ UNCHANGED <<vars, m_tempViewActive, apply, currentState, currentFields>>

TempDel(S) ==
  /\ m_tempViewActive
  /\ apply = "no"
  /\ m_tempViewState' = [k \in Key |-> IF k \in S THEN EmptyHash ELSE m_tempViewState[k]]
  /\ UNCHANGED <<vars, m_tempViewActive, apply, currentState, currentFields>>

\* clear() is the same with and without a temp view.
ClearCall ==
  /\ apply = "no"
  /\ Clear
  /\ UNCHANGED tempVars

CreateTempView ==
  /\ apply = "no"
  /\ m_tempViewActive' = TRUE
  /\ m_tempViewState' = NoHashes
  /\ UNCHANGED <<vars, apply, currentState, currentFields>>
-------------------------------------------------------------------------------
(***************************************************************************)
(* apply_temp_view()                                                       *)
(***************************************************************************)
\* It throws without a temp view; otherwise it begins with clear().
ApplyClear ==
  /\ m_tempViewActive
  /\ apply = "no"
  /\ Clear
  /\ apply' = "cleared"
  /\ UNCHANGED <<m_tempViewActive, m_tempViewState, currentState, currentFields>>

\* Table::dump(): table_dump.lua looks for the keys "T:*", whatever separator
\* the database has, and the field "NULL" is skipped.
ApplyDump ==
  /\ apply = "cleared"
  /\ apply' = "dumped"
  /\ currentState' = {k \in Key : ColonDatabase /\ table[k] # EmptyHash}
  /\ currentFields' = [k \in Key |-> [f \in Field |->
                         IF k \in currentState' /\ f # NullField THEN table[k][f] ELSE NoValue]]
  /\ UNCHANGED <<vars, m_tempViewActive, m_tempViewState>>

\* Mutant: only keys that are gone are deleted, not keys that lost a field.
NeedDelMissingOnly(k) == k \in currentState /\ m_tempViewState[k] = EmptyHash

\* "DEL is needed if object does not exist in new state, or any field is not
\* presented in new state"
NeedDel(k) ==
  /\ k \in currentState
  /\ \/ m_tempViewState[k] = EmptyHash
     \/ \E f \in Field : currentFields[k][f] # NoValue /\ m_tempViewState[k][f] = NoValue

\* Mutant: every key of the temp view is set.
NeedSetAlways(k) == NeedDel(k) \/ m_tempViewState[k] # EmptyHash

\* "SET is almost always needed, unless old state and new state exactly match"
NeedSet(k) ==
  IF k \in currentState
  THEN \/ NeedDel(k)
       \/ \E f \in Field : /\ currentFields[k][f] # NoValue
                           /\ m_tempViewState[k][f] # currentFields[k][f]
       \/ Cardinality(FieldsOf(m_tempViewState[k])) > Cardinality(FieldsOf(currentFields[k]))
  ELSE m_tempViewState[k] # EmptyHash

\* Mutant: the script skips PUBLISH when it has nothing to delete.
ApplyScriptQuiet ==
  /\ apply = "dumped"
  /\ Room
  /\ LET toSet == {k \in Key : NeedSet(k)}
         toDel == {k \in Key : NeedDel(k)}
     IN /\ keySet' = keySet \cup toSet
        /\ delSet' = delSet \cup toDel
        /\ stateHash' = [k \in Key |-> IF k \in toSet THEN HSet(stateHash[k], m_tempViewState[k])
                                                      ELSE stateHash[k]]
        /\ Publish(toDel # {})
  /\ TouchKeySet
  /\ expected' = m_tempViewState
  /\ m_tempViewState' = NoHashes
  /\ m_tempViewActive' = FALSE
  /\ apply' = "no"
  /\ currentState' = {}
  /\ currentFields' = NoHashes
  /\ UNCHANGED <<table, consumerVars>>

\* producer_state_table_apply_view.lua; keys that match exactly were erased from
\* the temp view, and its PUBLISH is unconditional.
ApplyScript ==
  /\ apply = "dumped"
  /\ Room
  /\ LET toSet == {k \in Key : NeedSet(k)}
         toDel == {k \in Key : NeedDel(k)}
     IN /\ keySet' = keySet \cup toSet
        /\ delSet' = delSet \cup toDel
        /\ stateHash' = [k \in Key |-> IF k \in toSet THEN HSet(stateHash[k], m_tempViewState[k])
                                                      ELSE stateHash[k]]
        /\ Publish(TRUE)
  /\ TouchKeySet
  /\ expected' = m_tempViewState
  /\ m_tempViewState' = NoHashes
  /\ m_tempViewActive' = FALSE
  /\ apply' = "no"
  /\ currentState' = {}
  /\ currentFields' = NoHashes
  /\ UNCHANGED <<table, consumerVars>>

\* The producer process stops; what was not sent to Redis is gone.
ProducerExit ==
  /\ m_tempViewActive' = FALSE
  /\ m_tempViewState' = NoHashes
  /\ apply' = "no"
  /\ currentState' = {}
  /\ currentFields' = NoHashes
  /\ UNCHANGED vars
-------------------------------------------------------------------------------
ProduceTemp == \/ DirectCall \/ ClearCall \/ CreateTempView
               \/ \E S \in Batch : TempSet(S) \/ TempDel(S)
               \/ ApplyClear \/ ApplyDump \/ ApplyScript
               \/ ProducerExit

ConsumeTemp == (Consume \/ Exit) /\ UNCHANGED tempVars

\* Since a consumer in its loop had nothing to take last, a script has brought more keys than one
\* return of select() lets it take.
Account ==
  overfull' = /\ consumer' \in {"idle", "popping"}
              /\ keySet' # {} \/ m_buffer' # {}
              /\ overfull \/ Cardinality(keySet' \ keySet) > Capacity

TempNext == (ProduceTemp \/ ConsumeTemp) /\ Account

TempSpec == TempInit /\ [][TempNext]_allVars
-------------------------------------------------------------------------------
\* View switch: once apply_temp_view() has staged its differences, table plus
\* staged data are exactly the temp view, whatever the consumer took or left
\* while the view was built, dropped the pending calls or read the dump.
ViewSwitched == NoCallLost

\* "State Queue should be empty" when select() times out: with no notification left,
\* neither T_KEY_SET nor m_buffer holds anything, also after the one publish of a view
\* switch, unless a script has brought more keys than one return of select() takes.
QueueEmptyOnTimeout ==
  consumer = "idle" /\ channel = 0 /\ m_queueLength = 0 /\ ~overfull => keySet = {} /\ m_buffer = {}

\* "minimal amount of SET operation should be created": a view switch stages no
\* key whose entry already is what the temp view asks for.
StagesDifferences ==
  ApplyScript => \A k \in keySet' : table[k] # expected'[k]
\* Every run of the script of apply_temp_view() stages only differences.
MinimalSwitch == [][StagesDifferences]_allVars
===============================================================================
