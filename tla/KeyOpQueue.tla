------------------------------ MODULE KeyOpQueue ------------------------------
(***************************************************************************)
(* ProducerTable and ConsumerTable (producertable.cpp, consumertable.cpp,  *)
(* consumer_table_pops.lua): every set() or del() is a triple pushed on    *)
(* the list T_KEY_VALUE_OP_QUEUE and published; the consumer's script pops *)
(* up to POP_BATCH_SIZE triples from the other end and applies those that  *)
(* change the database to the table.                                       *)
(***************************************************************************)
EXTENDS Integers, Sequences, FiniteSetsExt, Hashes

CONSTANTS Key,
          POP_BATCH_SIZE,
          MaxQueue,      \* bound: operations in the list and notifications unread
          m_modifyRedis, \* setModifyRedis()
          Unsupported    \* the application may use an operation the script does not know

ASSUME KeyOpQueueAssumption ==
  /\ POP_BATCH_SIZE \in Nat \ {0}
  /\ MaxQueue \in Nat \ {0}
  /\ {m_modifyRedis, Unsupported} \subseteq BOOLEAN

VARIABLES
  queue,          \* T_KEY_VALUE_OP_QUEUE, the oldest operation first
  table,
  watchDirty,     \* the list has changed since the WATCH
  channel,        \* messages not read by the subscribed consumer
  consumer,       \* "down", "watched", "subscribed", "idle" or "popping"
  m_queueLength,
  m_buffer,
  api,            \* which of pop() and pops() the consumer program calls
  expected,       \* history: what the operations amount to
  refused         \* history: a script has met an operation it does not know

vars == <<queue, table, watchDirty, channel, consumer, m_queueLength, m_buffer,
          api, expected, refused>>

\* "set" and "del" stand for set, SET, create, remove and DEL with the prefix S of
\* set() or D of del(); "bulkset" for bulkset and bulkcreate; a bulk operation's
\* fields name the entries; "get" stands for the queries, responses and
\* notifications, which change nothing.
OpName == {"set", "del", "bulkset", "bulkremove", "get"} \cup (IF Unsupported THEN {"other"} ELSE {})

Op == [op : OpName, keys : SUBSET Key \ {{}}, fvs : Hash \ {EmptyHash}]

\* A bulk operation names any number of entries, the others one.
Operations == {o \in Op : o.op \notin {"bulkset", "bulkremove"} => Cardinality(o.keys) = 1}

\* Types; the counter m_queueLength never falls below -1.
TypeOK ==
  /\ queue \in Seq(Op)
  /\ table \in [Key -> Hash]
  /\ watchDirty \in BOOLEAN
  /\ channel \in Nat
  /\ consumer \in {"down", "watched", "subscribed", "idle", "popping"}
  /\ m_queueLength \in Nat \cup {-1}
  /\ m_buffer \in Seq(Op)
  /\ api \in {"pop", "pops"}
  /\ expected \in [Key -> Hash]
  /\ refused \in BOOLEAN

Init ==
  /\ queue = <<>>
  /\ table = [k \in Key |-> EmptyHash]
  /\ watchDirty = FALSE
  /\ channel = 0
  /\ consumer = "down"
  /\ m_queueLength = -1
  /\ m_buffer = <<>>
  /\ api = "pop"
  /\ expected = table
  /\ refused = FALSE

\* What the script does to the table for one operation.
Effect(t, o) ==
  [k \in Key |-> IF k \notin o.keys \/ o.op \in {"get", "other"} THEN t[k]
                 ELSE IF o.op \in {"del", "bulkremove"} THEN EmptyHash ELSE HSet(t[k], o.fvs)]

\* What it does for one operation after the other.
Effects(t, ops) ==
  LET after[i \in 0..Len(ops)] == IF i = 0 THEN t ELSE Effect(after[i - 1], ops[i])
  IN  after[Len(ops)]
-------------------------------------------------------------------------------
Subscribed == consumer \in {"subscribed", "idle", "popping"}

\* luaEnque: LPUSH and PUBLISH
Enqueue(o) ==
  /\ Len(queue) < MaxQueue /\ channel + m_queueLength < MaxQueue
  /\ queue' = Append(queue, o)
  /\ channel' = IF Subscribed THEN channel + 1 ELSE channel
  /\ watchDirty' = TRUE
  /\ expected' = Effect(expected, o)
  /\ UNCHANGED <<table, consumer, m_queueLength, m_buffer, api, refused>>

Watch ==
  /\ consumer = "down"
  /\ consumer' = "watched"
  /\ watchDirty' = FALSE
  /\ api' \in {"pop", "pops"}
  /\ UNCHANGED <<queue, table, channel, m_queueLength, m_buffer, expected, refused>>

Subscribe ==
  /\ consumer = "watched"
  /\ consumer' = "subscribed"
  /\ channel' = 0
  /\ UNCHANGED <<queue, table, watchDirty, m_queueLength, m_buffer, api, expected, refused>>

\* Mutant: a failed EXEC is not noticed, and the length is the one before it.
ExecUnchecked ==
  /\ consumer = "subscribed"
  /\ consumer' = "idle"
  /\ m_queueLength' = IF watchDirty THEN 0 ELSE Len(queue)
  /\ UNCHANGED <<queue, table, watchDirty, channel, m_buffer, api, expected, refused>>

\* EXEC; the constructor starts again if the list was changed. LLEN counts the
\* elements of the list, three per operation.
Exec ==
  /\ consumer = "subscribed"
  /\ IF watchDirty
     THEN consumer' = "down" /\ UNCHANGED m_queueLength
     ELSE consumer' = "idle" /\ m_queueLength' = (3 * Len(queue)) \div 3
  /\ UNCHANGED <<queue, table, watchDirty, channel, m_buffer, api, expected, refused>>

Select ==
  /\ consumer = "idle"
  /\ \E n \in 0..channel :
       /\ channel > 0 => n > 0
       /\ m_queueLength + n > 0
       /\ channel' = channel - n
       /\ m_queueLength' = m_queueLength + n - 1
  /\ consumer' = "popping"
  /\ UNCHANGED <<queue, table, watchDirty, m_buffer, api, expected, refused>>

\* Mutant: the newest operations are taken.
TakenNewest == SubSeq(queue, Max({1, Len(queue) - POP_BATCH_SIZE + 1}), Len(queue))

\* LRANGE -popsize -1
Taken == SubSeq(queue, 1, Min({POP_BATCH_SIZE, Len(queue)}))

ScriptFails == m_modifyRedis /\ \E i \in DOMAIN Taken : Taken[i].op = "other"

\* Mutant: the reply of LRANGE is gone through from its first element, the newest.
PopsScriptNewestFirst ==
  /\ queue' = SubSeq(queue, Len(Taken) + 1, Len(queue))
  /\ table' = IF m_modifyRedis /\ ~ScriptFails
              THEN Effects(table, [i \in DOMAIN Taken |-> Taken[Len(Taken) + 1 - i]]) ELSE table
  /\ watchDirty' = (watchDirty \/ queue' # queue)
  /\ refused' = (refused \/ ScriptFails)

\* The script: LTRIM first, then one operation after the other; one it does not
\* know ends it with an error after the earlier ones were applied.
PopsScript ==
  LET bad == {i \in DOMAIN Taken : Taken[i].op = "other"}
      done == IF ScriptFails THEN SubSeq(Taken, 1, Min(bad) - 1) ELSE Taken
  IN /\ queue' = SubSeq(queue, Len(Taken) + 1, Len(queue))
     /\ table' = IF m_modifyRedis THEN Effects(table, done) ELSE table
     /\ watchDirty' = (watchDirty \/ queue' # queue)
     /\ refused' = (refused \/ ScriptFails)

Pops ==
  /\ consumer = "popping"
  /\ api = "pops"
  /\ PopsScript
  /\ consumer' = "idle"
  /\ UNCHANGED <<channel, m_queueLength, m_buffer, api, expected>>

\* pop(): an error reply makes pops() throw before m_buffer is filled.
Pop ==
  /\ consumer = "popping"
  /\ api = "pop"
  /\ IF m_buffer # <<>>
     THEN m_buffer' = Tail(m_buffer) /\ UNCHANGED <<queue, table, watchDirty, refused>>
     ELSE /\ PopsScript
          /\ m_buffer' = IF ScriptFails \/ Taken = <<>> THEN <<>> ELSE Tail(Taken)
  /\ consumer' = "idle"
  /\ UNCHANGED <<channel, m_queueLength, api, expected>>

Exit ==
  /\ consumer # "down"
  /\ consumer' = "down"
  /\ m_queueLength' = -1
  /\ m_buffer' = <<>>
  /\ channel' = 0
  /\ UNCHANGED <<queue, table, watchDirty, api, expected, refused>>
-------------------------------------------------------------------------------
Next == \/ \E o \in Operations : Enqueue(o)
        \/ Watch \/ Subscribe \/ Exec \/ Select \/ Pops \/ Pop \/ Exit

Spec == Init /\ [][Next]_vars
-------------------------------------------------------------------------------
\* The operations that wait, the oldest first.
Waiting == m_buffer \o queue

Abstract == INSTANCE Fifo WITH Item <- Op, items <- Waiting

\* Whatever batches the script takes and pop() puts aside, and however often the
\* consumer restarts, operations leave in the order of the calls.
ImplementsFifo == Abstract!Spec

\* The table with the operations of the list applied to it is what all the calls
\* amount to, unless the script has met an operation it does not know, which
\* takes the rest of its batch with it.
TableFollowsQueue == m_modifyRedis /\ ~refused => Effects(table, queue) = expected

Pending == channel + m_queueLength + (IF consumer = "popping" THEN 1 ELSE 0)

\* A running consumer has at least one notification for every operation that
\* waits in the list and in m_buffer.
OperationsAnnounced == consumer \in {"idle", "popping"} => Len(Waiting) <= Pending
===============================================================================
