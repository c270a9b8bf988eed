------------------------------ MODULE StateTable ------------------------------
(***************************************************************************)
(* ProducerStateTable and ConsumerStateTable over one table T of a Redis   *)
(* database (producerstatetable.cpp, consumerstatetable.cpp, the pops      *)
(* script, redisselect.cpp).  A producer call is one Lua script, which     *)
(* Redis runs atomically: it stages the new fields in the hash "_T:key",   *)
(* remembers the key in T_KEY_SET (and in T_DEL_SET for a del), and        *)
(* publishes on T_CHANNEL if the key set grew.  The consumer is woken by   *)
(* the messages, which it only counts; it then takes up to POP_BATCH_SIZE  *)
(* keys with the pops script, which moves the staged fields to the table.  *)
(***************************************************************************)
EXTENDS Integers, FiniteSets, Hashes

CONSTANTS Key,
          POP_BATCH_SIZE,  \* keys one run of the pops script takes at most
          MaxBatch,        \* bound: keys of one batched set() or del()
          MaxPending,      \* bound: notifications not yet consumed
          Api,             \* the calls with which applications take entries
          EmptySets        \* the application may call set(key, {})

ASSUME StateTableAssumption ==
  /\ IsFiniteSet(Key)
  /\ POP_BATCH_SIZE \in Nat \ {0}
  /\ MaxBatch \in Nat \ {0}
  /\ MaxPending \in Nat \ {0}
  /\ Api \subseteq {"pop", "pops"} /\ Api # {}
  /\ EmptySets \in BOOLEAN

VARIABLES
  \* Redis
  keySet,         \* T_KEY_SET
  delSet,         \* T_DEL_SET
  stateHash,      \* the hashes _T:key
  table,          \* the hashes T:key
  watchDirty,     \* the WATCHed T_KEY_SET has been touched since the WATCH
  channel,        \* messages sent to the consumer's subscription, not yet read
  \* the consumer process
  consumer,       \* where it is: see ConsumerPc
  m_queueLength,
  m_buffer,       \* entries popped from Redis that pop() has not handed out
  api,            \* what this application calls when select() has returned
  \* history
  expected        \* what the producers' calls so far amount to

redisVars == <<keySet, delSet, stateHash, table>>
consumerVars == <<consumer, m_queueLength, m_buffer, api>>
vars == <<keySet, delSet, stateHash, table, watchDirty, channel,
          consumer, m_queueLength, m_buffer, api, expected>>

\* "down": no object, or before WATCH; "watched": after WATCH and MULTI;
\* "subscribed": after SUBSCRIBE, before EXEC; "idle": in the application loop
\* before select(); "popping": select() has returned the object.
ConsumerPc == {"down", "watched", "subscribed", "idle", "popping"}

\* KeyOpFieldsValuesTuple
Kco == [key : Key, op : {"SET", "DEL"}, fvs : Hash]

\* The field-value vectors that a set() call can carry.
Update == IF EmptySets THEN Hash ELSE Hash \ {EmptyHash}

\* Types; the counter m_queueLength never falls below -1.
TypeOK ==
  /\ keySet \subseteq Key
  /\ delSet \subseteq Key
  /\ stateHash \in [Key -> Hash]
  /\ table \in [Key -> Hash]
  /\ watchDirty \in BOOLEAN
  /\ channel \in Nat
  /\ consumer \in ConsumerPc
  /\ m_queueLength \in Nat \cup {-1}
  /\ m_buffer \subseteq Kco
  /\ api \in Api
  /\ expected \in [Key -> Hash]

Init ==
  /\ keySet = {}
  /\ delSet = {}
  /\ stateHash = [k \in Key |-> EmptyHash]
  /\ table = [k \in Key |-> EmptyHash]
  /\ watchDirty = FALSE
  /\ channel = 0
  /\ consumer = "down"
  /\ m_queueLength = -1
  /\ m_buffer = {}
  /\ api \in Api
  /\ expected = table
-------------------------------------------------------------------------------
(***************************************************************************)
(* Redis: WATCH and PUBLISH.                                               *)
(***************************************************************************)
Subscribed == consumer \in {"subscribed", "idle", "popping"}

\* A script that changes T_KEY_SET makes a pending EXEC fail.
TouchKeySet == watchDirty' = (watchDirty \/ keySet' # keySet)

\* Mutant: no message is sent while one is still unread.
PublishIfNonePending(cond) ==
  channel' = IF cond /\ Subscribed /\ channel = 0 THEN channel + 1 ELSE channel

\* PUBLISH if cond: the message reaches a subscribed consumer only.
Publish(cond) == channel' = IF cond /\ Subscribed THEN channel + 1 ELSE channel

\* The bound on notifications that are not yet consumed.
Room == channel + m_queueLength < MaxPending

(***************************************************************************)
(* Producer calls.  The batch b maps each key of the call to its pairs; a  *)
(* repeated key of a batch is one entry, its HSETs being merged.           *)
(***************************************************************************)
\* luaSet and luaBatchedSet; pub says whether the script ends with luaPub.
SetScript(b, pub) ==
  /\ keySet' = keySet \cup DOMAIN b
  /\ stateHash' = [k \in Key |-> IF k \in DOMAIN b THEN HSet(stateHash[k], b[k])
                                                   ELSE stateHash[k]]
  /\ TouchKeySet
  /\ Publish(pub /\ keySet' # keySet)
  /\ expected' = [k \in Key |-> IF k \in DOMAIN b THEN HSet(expected[k], b[k])
                                                  ELSE expected[k]]
  /\ UNCHANGED <<delSet, table>>

\* Mutant: the fields staged by earlier set() calls survive the del().
DelScriptKeepsStaged(S, pub) ==
  /\ keySet' = keySet \cup S
  /\ delSet' = delSet \cup S
  /\ TouchKeySet
  /\ Publish(pub /\ keySet' # keySet)
  /\ expected' = [k \in Key |-> IF k \in S THEN EmptyHash ELSE expected[k]]
  /\ UNCHANGED <<table, stateHash>>

\* luaDel and luaBatchedDel
DelScript(S, pub) ==
  /\ keySet' = keySet \cup S
  /\ delSet' = delSet \cup S
  /\ stateHash' = [k \in Key |-> IF k \in S THEN EmptyHash ELSE stateHash[k]]
  /\ TouchKeySet
  /\ Publish(pub /\ keySet' # keySet)
  /\ expected' = [k \in Key |-> IF k \in S THEN EmptyHash ELSE expected[k]]
  /\ UNCHANGED table

\* luaClear
ClearScript ==
  /\ keySet' = {}
  /\ delSet' = {}
  /\ stateHash' = [k \in Key |-> EmptyHash]
  /\ TouchKeySet
  /\ expected' = table
  /\ UNCHANGED <<table, channel>>

Batch == {S \in SUBSET Key : S # {} /\ Cardinality(S) <= MaxBatch}

\* set(key, values) is the batch of one key.
Set(S) ==
  /\ Room
  /\ \E b \in [S -> Update] : SetScript(b, TRUE)
  /\ UNCHANGED consumerVars

Del(S) ==
  /\ Room
  /\ DelScript(S, TRUE)
  /\ UNCHANGED consumerVars

Clear ==
  /\ ClearScript
  /\ UNCHANGED consumerVars
-------------------------------------------------------------------------------
(***************************************************************************)
(* The consumer.  The constructor loops over WATCH, MULTI, SCARD,          *)
(* SUBSCRIBE on a new connection and EXEC until EXEC succeeds.             *)
(***************************************************************************)
Watch ==
  /\ consumer = "down"
  /\ consumer' = "watched"
  /\ watchDirty' = FALSE
  /\ api' \in Api
  /\ UNCHANGED <<redisVars, channel, m_queueLength, m_buffer, expected>>

Subscribe ==
  /\ consumer = "watched"
  /\ consumer' = "subscribed"
  /\ channel' = 0
  /\ UNCHANGED <<redisVars, watchDirty, m_queueLength, m_buffer, api, expected>>

ExecRetry ==
  /\ consumer = "subscribed"
  /\ watchDirty
  /\ consumer' = "down"
  /\ UNCHANGED <<redisVars, watchDirty, channel, m_queueLength, m_buffer, api, expected>>

\* Mutant: the subscription's own reply is taken for a notification.
ExecOffByOne ==
  /\ consumer = "subscribed"
  /\ ~watchDirty
  /\ consumer' = "idle"
  /\ m_queueLength' = Cardinality(keySet) - 1
  /\ UNCHANGED <<redisVars, watchDirty, channel, m_buffer, api, expected>>

Exec ==
  /\ consumer = "subscribed"
  /\ ~watchDirty
  /\ consumer' = "idle"
  /\ m_queueLength' = Cardinality(keySet)
  /\ UNCHANGED <<redisVars, watchDirty, channel, m_buffer, api, expected>>

\* Select::select() on this object: readData() takes at least one message if
\* there is one (how many depends on what the socket has delivered), and the
\* object is returned if hasData(), after updateAfterRead().
Select ==
  /\ consumer = "idle"
  /\ \E n \in 0..channel :
       /\ channel > 0 => n > 0
       /\ m_queueLength + n > 0
       /\ channel' = channel - n
       /\ m_queueLength' = m_queueLength + n - 1
  /\ consumer' = "popping"
  /\ UNCHANGED <<redisVars, watchDirty, m_buffer, api, expected>>

\* Mutant: the old entry is not deleted before the staged fields are written.
PopsScriptMerges(S) ==
  /\ keySet' = keySet \ S
  /\ delSet' = delSet \ S
  /\ table' = [k \in Key |-> IF k \notin S THEN table[k] ELSE HSet(table[k], stateHash[k])]
  /\ stateHash' = [k \in Key |-> IF k \in S THEN EmptyHash ELSE stateHash[k]]
  /\ TouchKeySet
  /\ UNCHANGED <<channel, expected>>

\* consumer_state_table_pops.lua, having drawn the keys S with SPOP
PopsScript(S) ==
  /\ keySet' = keySet \ S
  /\ delSet' = delSet \ S
  /\ table' = [k \in Key |->
                 IF k \notin S THEN table[k]
                 ELSE HSet(IF k \in delSet THEN EmptyHash ELSE table[k], stateHash[k])]
  /\ stateHash' = [k \in Key |-> IF k \in S THEN EmptyHash ELSE stateHash[k]]
  /\ TouchKeySet
  /\ UNCHANGED <<channel, expected>>

\* SPOP T_KEY_SET POP_BATCH_SIZE draws that many keys at random, or all of them.
Spop == {S \in SUBSET keySet : /\ Cardinality(S) <= POP_BATCH_SIZE
                               /\ Cardinality(S) < POP_BATCH_SIZE => S = keySet}

\* Mutant: the operation is taken from the T_DEL_SET mark.
KcoOfMark(k) ==
  [key |-> k, op |-> IF k \in delSet THEN "DEL" ELSE "SET", fvs |-> stateHash[k]]

\* What pops() makes of one element of the script's reply.
KcoOf(k) ==
  [key |-> k, op |-> IF stateHash[k] = EmptyHash THEN "DEL" ELSE "SET", fvs |-> stateHash[k]]

\* pops(): all the entries go to the caller.
Pops ==
  /\ consumer = "popping"
  /\ api = "pops"
  /\ \E S \in Spop : PopsScript(S)
  /\ consumer' = "idle"
  /\ UNCHANGED <<m_queueLength, m_buffer, api>>

\* pop() with something in m_buffer
PopBuffered ==
  /\ consumer = "popping"
  /\ api = "pop"
  /\ \E x \in m_buffer : m_buffer' = m_buffer \ {x}
  /\ consumer' = "idle"
  /\ UNCHANGED <<redisVars, watchDirty, channel, m_queueLength, api, expected>>

\* pop() with an empty m_buffer refills it; with no key either it returns nothing.
PopRefill ==
  /\ consumer = "popping"
  /\ api = "pop"
  /\ m_buffer = {}
  /\ \E S \in Spop :
       /\ PopsScript(S)
       /\ IF S = {} THEN m_buffer' = {}
          ELSE \E k \in S : m_buffer' = {KcoOf(j) : j \in S \ {k}}
  /\ consumer' = "idle"
  /\ UNCHANGED <<m_queueLength, api>>

\* The consumer process stops at any point; a new one starts from nothing.
Exit ==
  /\ consumer # "down"
  /\ consumer' = "down"
  /\ m_queueLength' = -1
  /\ m_buffer' = {}
  /\ channel' = 0
  /\ UNCHANGED <<redisVars, watchDirty, api, expected>>
-------------------------------------------------------------------------------
Produce == \/ \E S \in Batch : Set(S) \/ Del(S)
           \/ Clear

Consume == Watch \/ Subscribe \/ ExecRetry \/ Exec \/ Select \/ Pops \/ PopBuffered \/ PopRefill

Next == Produce \/ Consume \/ Exit

Spec == Init /\ [][Next]_vars

\* The application's loop does not stop by itself, and Redis answers it.
FairSpec == Spec /\ WF_vars(Consume)
-------------------------------------------------------------------------------
(***************************************************************************)
(* Properties.                                                             *)
(***************************************************************************)
\* A key that is not in T_KEY_SET has nothing staged: every script that takes a
\* key out of the set also removes its T_DEL_SET mark and its "_T:key" hash, so
\* no later set() is merged with the leftovers of an earlier one.
NothingStagedOutsideKeySet ==
  \A k \in Key \ keySet : k \notin delSet /\ stateHash[k] = EmptyHash

\* The entry a key has once its staged calls are applied.
View == [k \in Key |-> HSet(IF k \in delSet THEN EmptyHash ELSE table[k], stateHash[k])]

\* Staging and popping neither lose nor reorder calls, nor do they bring a
\* deleted field back: at every moment the table with the staged data applied to
\* it is exactly what the set(), del() and clear() calls so far amount to, however
\* calls on a key were merged before the consumer took it.
NoCallLost == View = expected

\* Notifications that will still make select() return this object.
Pending == channel + m_queueLength + (IF consumer = "popping" THEN 1 ELSE 0)

\* What one return of select() lets the application take.
CapacityOf(a) == IF a = "pop" THEN 1 ELSE POP_BATCH_SIZE

Capacity == CapacityOf(api)

\* No call brings more keys than one return of select() lets the application take.
CallsFitInOnePop == \A a \in Api : MaxBatch <= CapacityOf(a)

\* No key is stranded: although the publish is skipped for a key that is already
\* in T_KEY_SET, the notifications that remain are enough to take all that
\* T_KEY_SET and m_buffer hold.  It rests on SCARD being read after SUBSCRIBE
\* under WATCH, and on no call bringing more keys than one pop takes.
NoKeyStranded ==
  consumer \in {"idle", "popping"} =>
    Cardinality(keySet) + Cardinality(m_buffer) <= Capacity * Pending

\* "if there is no field-value pair, the key is already deleted": an entry that
\* waits in m_buffer tells the truth about the table, whatever the producers do
\* in the meantime.  DEL: the key is gone; SET: the key has the entry's fields.
BufferMatchesTable ==
  \A x \in m_buffer :
    IF x.op = "DEL" THEN table[x.key] = EmptyHash ELSE HSet(table[x.key], x.fvs) = table[x.key]

\* What the calls amount to is the view that the table follows.
Abstract == INSTANCE KeyValueView WITH view <- expected

\* The pair of producer and consumer implements the lagging replica.
ImplementsKeyValueView == Abstract!Spec

\* Once producers are quiet and the consumer keeps running, the table catches up.
EventuallyInSync ==
  []<><<Produce \/ Exit>>_vars \/ <>[](keySet = {} /\ m_buffer = {} /\ table = expected)
===============================================================================
