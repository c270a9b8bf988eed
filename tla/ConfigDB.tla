------------------------------- MODULE ConfigDB -------------------------------
(***************************************************************************)
(* One table of the configuration database (configdb.cpp, configdb.h):     *)
(* ConfigDBConnector sends its commands one by one, ConfigDBPipeConnector  *)
(* collects those of set_entry() and mod_config() in a transaction, and a  *)
(* reader takes the whole table with get_config() or follows it with       *)
(* listen().                                                               *)
(***************************************************************************)
EXTENDS Integers, Sequences, FiniteSets

CONSTANTS Writer, Row, Field, Value, NoValue,
          Pipe,        \* the writers that are ConfigDBPipeConnectors
          NullField,   \* the column "NULL" that stands for an entry without columns
          Batch,       \* REDIS_SCAN_BATCH_SIZE
          MaxCalls     \* bound: calls that write

Hash == [Field -> Value \cup {NoValue}]
EmptyHash == [f \in Field |-> NoValue]
HSet(h, u) == [f \in Field |-> IF u[f] = NoValue THEN h[f] ELSE u[f]]
FieldsOf(h) == {f \in Field : h[f] # NoValue}

VARIABLES
  db,          \* the rows in Redis
  call,        \* of a writer: its call, [op |-> "none", ...] between calls
  scan,        \* of a writer: rows that SCAN has still to visit
  todo,        \* of a writer: the commands of its call that Redis has not run
  disturbed,   \* of a writer: another one has changed the row of its call
  calls,
  reader,      \* "start", "subscribed", "read", "batch", "listen" or "done"
  kind,        \* what the reader is: "get_config", "pipe" or "listen"
  keys,        \* rows that the reader knows of and has not read
  batch,       \* rows of the last SCAN whose HGETALLs are in the transaction
  data,        \* what it has read
  changed,     \* rows changed since it began
  events,      \* keyspace events at the connection of its PubSub
  m_keyspace_event_buffer,
  init_data,   \* the cache of listen()
  fire_init_data, \* subscribe()'s argument, or an init_data_handler is given
  told         \* what the handler was told of a row last

writerVars == <<call, scan, todo, disturbed, calls>>
readerVars == <<reader, kind, keys, batch, data, init_data, fire_init_data, told>>
vars == <<db, call, scan, todo, disturbed, calls, reader, kind, keys, batch, data, changed, events,
          m_keyspace_event_buffer, init_data, fire_init_data, told>>

\* A row or its absence: a set of at most one hash.
NoRow == {}
NoCall == [op |-> "none", row |-> "none", data |-> EmptyHash, original |-> EmptyHash, piped |-> FALSE]

\* What the applications write: None, an entry without columns, and all others.
None == {}
Typed == {None} \cup {{h} : h \in {g \in Hash : g[NullField] = NoValue}}

typed_to_raw(d) ==
  IF d = None THEN EmptyHash
  ELSE IF d = {EmptyHash} THEN [EmptyHash EXCEPT ![NullField] = CHOOSE v \in Value : TRUE]
  ELSE CHOOSE h \in d : TRUE

raw_to_typed(h) == [h EXCEPT ![NullField] = NoValue]

Command == [cmd : {"HSET", "HDEL", "DEL"}, row : Row, arg : Hash]
Event == [row : Row, data : {"hset", "hdel", "del"}]

\* Every variable has its type.
TypeOK ==
  /\ db \in [Row -> Hash] /\ changed \subseteq Row
  /\ \A w \in Writer : todo[w] \in Seq(Command) /\ scan[w] \subseteq Row /\ disturbed[w] \in BOOLEAN
  /\ kind \in {"get_config", "pipe", "listen"}
  /\ reader \in {"start", "subscribed", "read", "batch", "listen", "done"} /\ keys \subseteq Row /\ batch \subseteq Row
  /\ \A r \in Row : \A x \in {data[r], init_data[r], told[r]} : x \subseteq Hash /\ Cardinality(x) <= 1
  /\ events \in Seq(Event) /\ m_keyspace_event_buffer \in Seq(Event)

Init ==
  /\ db \in [Row -> Hash] /\ \A r \in Row : db[r][NullField] # NoValue => FieldsOf(db[r]) = {NullField}
  /\ call = [w \in Writer |-> NoCall] /\ scan = [w \in Writer |-> {}]
  /\ todo = [w \in Writer |-> <<>>] /\ disturbed = [w \in Writer |-> FALSE] /\ calls = 0
  /\ reader = "start" /\ kind \in {"get_config", "pipe", "listen"} /\ keys = {} /\ batch = {}
  /\ data = [r \in Row |-> NoRow] /\ changed = {}
  /\ events = <<>> /\ m_keyspace_event_buffer = <<>>
  /\ init_data = [r \in Row |-> NoRow] /\ fire_init_data \in BOOLEAN
  /\ kind # "listen" => fire_init_data = FALSE
  /\ told = [r \in Row |-> NoRow]
-------------------------------------------------------------------------------
(***************************************************************************)
(* Redis: a command changes a row and is announced.                        *)
(***************************************************************************)
After(h, c) ==
  CASE c.cmd = "HSET" -> HSet(h, c.arg)
    [] c.cmd = "HDEL" -> [f \in Field |-> IF c.arg[f] = NoValue THEN h[f] ELSE NoValue]
    [] c.cmd = "DEL"  -> EmptyHash

Announced(h, c) ==
  LET e(op) == [row |-> c.row, data |-> op] IN
  CASE c.cmd = "HSET" -> <<e("hset")>>
    [] c.cmd = "HDEL" -> IF After(h, c) = h THEN <<>>
                         ELSE IF After(h, c) = EmptyHash THEN <<e("hdel"), e("del")>> ELSE <<e("hdel")>>
    [] c.cmd = "DEL"  -> IF h = EmptyHash THEN <<>> ELSE <<e("del")>>

\* The database and the events after a command, and after a sequence of commands.
RunOne(s, c) == [db |-> [s.db EXCEPT ![c.row] = After(@, c)], events |-> s.events \o Announced(s.db[c.row], c)]
Run(cs) ==
  LET s[i \in 0..Len(cs)] == IF i = 0 THEN [db |-> db, events |-> <<>>] ELSE RunOne(s[i - 1], cs[i])
  IN  s[Len(cs)]

Redis(w, cs) ==
  LET run == Run(cs)
      touched == {run.events[i].row : i \in DOMAIN run.events} IN
  /\ db' = run.db
  /\ events' = IF kind = "listen" /\ reader # "start" THEN events \o run.events ELSE events
  /\ changed' = IF reader = "start" THEN {} ELSE changed \cup touched
  /\ disturbed' = [v \in Writer |-> disturbed[v] \/ (v # w /\ call[v].row \in touched)]
-------------------------------------------------------------------------------
(***************************************************************************)
(* Writers.                                                                *)
(***************************************************************************)
\* The elements of a set in some order, as KEYS or a map returns them.
InOrder(S) == CHOOSE s \in [1..Cardinality(S) -> S] : \A x \in S : \E i \in DOMAIN s : s[i] = x

Cmd(c, r, h) == [cmd |-> c, row |-> r, arg |-> h]

Call(w, op, r, u, piped) ==
  /\ calls' = calls + 1
  /\ call' = [call EXCEPT ![w] = [op |-> op, row |-> r, data |-> u,
                                  original |-> IF r \in Row THEN db[r] ELSE EmptyHash, piped |-> piped]]
  /\ disturbed' = [disturbed EXCEPT ![w] = FALSE]
  /\ UNCHANGED <<db, changed, events, m_keyspace_event_buffer, readerVars>>

ModCommand(r, u) == IF u = EmptyHash THEN Cmd("DEL", r, EmptyHash) ELSE Cmd("HSET", r, u)

\* The HDELs of set_entry() for the fields of get_entry() that are not in the data.
Extra(r, u) ==
  LET fs == FieldsOf(db[r]) \ FieldsOf(u)
  IN  [i \in 1..Cardinality(fs) |-> Cmd("HDEL", r, [f \in Field |-> IF f = InOrder(fs)[i] THEN db[r][f] ELSE NoValue])]

\* Mutant: the extra fields go first.
set_entryDelFirst(w, r, d) ==
  LET u == typed_to_raw(d) IN
  /\ Call(w, "set_entry", r, u, w \in Pipe)
  /\ todo' = [todo EXCEPT ![w] = IF u = EmptyHash THEN <<ModCommand(r, u)>> ELSE Extra(r, u) \o <<ModCommand(r, u)>>]
  /\ UNCHANGED scan

\* The data that decide what is removed are read here, outside of the transaction.
set_entry(w, r, d) ==
  LET u == typed_to_raw(d) IN
  /\ Call(w, "set_entry", r, u, w \in Pipe)
  /\ todo' = [todo EXCEPT ![w] = <<ModCommand(r, u)>> \o (IF u = EmptyHash THEN <<>> ELSE Extra(r, u))]
  /\ UNCHANGED scan

\* Not overridden by ConfigDBPipeConnector.
mod_entry(w, r, d) ==
  /\ Call(w, "mod_entry", r, typed_to_raw(d), FALSE)
  /\ todo' = [todo EXCEPT ![w] = <<ModCommand(r, typed_to_raw(d))>>]
  /\ UNCHANGED scan

Present == {r \in Row : db[r] # EmptyHash}

\* KEYS, then a DEL for each; not overridden either.
delete_table(w) ==
  /\ Call(w, "delete_table", "none", EmptyHash, FALSE)
  /\ todo' = [todo EXCEPT ![w] = [i \in DOMAIN InOrder(Present) |-> Cmd("DEL", InOrder(Present)[i], EmptyHash)]]
  /\ UNCHANGED scan

\* mod_config() with a table that is None: it is deleted, by the pipe with SCAN.
mod_configNone(w) ==
  IF w \notin Pipe THEN delete_table(w)
  ELSE /\ Call(w, "mod_config", "none", EmptyHash, TRUE)
       /\ scan' = [scan EXCEPT ![w] = Row]
       /\ UNCHANGED todo

\* mod_config() with rows; a table {} is left out.
mod_config(w, rs, d) ==
  /\ rs # {} /\ Call(w, "mod_config", "none", EmptyHash, w \in Pipe)
  /\ todo' = [todo EXCEPT ![w] = [i \in DOMAIN InOrder(rs) |-> ModCommand(InOrder(rs)[i], typed_to_raw(d))]]
  /\ UNCHANGED scan

\* One SCAN of _delete_table(): the rows it passes that are there are enqueued.
_delete_entries(w) ==
  /\ scan[w] # {}
  /\ \E rs \in SUBSET scan[w] :
       /\ rs # {} /\ Cardinality(rs) <= Batch
       /\ scan' = [scan EXCEPT ![w] = @ \ rs]
       /\ todo' = [todo EXCEPT ![w] = @ \o [i \in DOMAIN InOrder(rs \cap Present) |->
                                              Cmd("DEL", InOrder(rs \cap Present)[i], EmptyHash)]]
  /\ UNCHANGED <<db, call, disturbed, calls, changed, events, m_keyspace_event_buffer, readerVars>>

Busy(w) == call[w].op # "none" /\ scan[w] = {}

\* EXEC.
exec(w) ==
  /\ Busy(w) /\ call[w].piped
  /\ Redis(w, todo[w])
  /\ todo' = [todo EXCEPT ![w] = <<>>] /\ call' = [call EXCEPT ![w] = NoCall]
  /\ UNCHANGED <<scan, calls, m_keyspace_event_buffer, readerVars>>

\* The next command of a plain connector; the call returns after the last one.
command(w) ==
  /\ Busy(w) /\ ~call[w].piped
  /\ LET n == IF todo[w] = <<>> THEN 0 ELSE 1 IN
     /\ Redis(w, SubSeq(todo[w], 1, n))
     /\ todo' = [todo EXCEPT ![w] = SubSeq(@, n + 1, Len(@))]
  /\ call' = IF todo'[w] = <<>> THEN [call EXCEPT ![w] = NoCall] ELSE call
  /\ UNCHANGED <<scan, calls, m_keyspace_event_buffer, readerVars>>
-------------------------------------------------------------------------------
(***************************************************************************)
(* The reader.                                                             *)
(***************************************************************************)
dbVars == <<db, call, scan, todo, disturbed, calls>>
queueVars == <<events, m_keyspace_event_buffer>>

\* get_config() of ConfigDBConnector: KEYS.
get_config ==
  /\ reader = "start" /\ kind = "get_config"
  /\ reader' = "read" /\ keys' = Present
  /\ UNCHANGED <<dbVars, queueVars, kind, batch, data, changed, init_data, fire_init_data, told>>

\* getall(): the HGETALL of a key; an entry that is gone by then is skipped.
getall(r) ==
  /\ reader = "read" /\ kind = "get_config" /\ r \in keys
  /\ keys' = keys \ {r}
  /\ data' = IF db[r] = EmptyHash THEN data ELSE [data EXCEPT ![r] = {db[r]}]
  /\ UNCHANGED <<dbVars, queueVars, reader, kind, batch, changed, init_data, fire_init_data, told>>

\* get_config() of ConfigDBPipeConnector: the cursor is 0.
get_configPipe ==
  /\ reader = "start" /\ kind = "pipe"
  /\ reader' = "read" /\ keys' = Row
  /\ UNCHANGED <<dbVars, queueVars, kind, batch, data, changed, init_data, fire_init_data, told>>

\* SCAN: rows the cursor passes, and rows that it may return again.
_get_config ==
  /\ reader = "read" /\ kind = "pipe"
  /\ \E rs \in SUBSET keys \ {{}}, again \in SUBSET (Row \ keys) :
       /\ Cardinality(rs \cup again) <= Batch
       /\ keys' = keys \ rs
       /\ batch' = (rs \cup again) \cap Present
  /\ reader' = "batch"
  /\ UNCHANGED <<dbVars, queueVars, kind, data, changed, init_data, fire_init_data, told>>

Finished(more) == reader' = IF more = {} THEN "done" ELSE "read"

\* EXEC of the HGETALLs; emplace() keeps the fields that are there already.
_get_configExec ==
  /\ reader = "batch"
  /\ data' = [r \in Row |-> IF r \notin batch THEN data[r]
                            ELSE {HSet(db[r], h) : h \in IF data[r] = NoRow THEN {EmptyHash} ELSE data[r]}]
  /\ Finished(keys) /\ batch' = {}
  /\ UNCHANGED <<dbVars, queueVars, kind, keys, changed, init_data, fire_init_data, told>>

getallEnd ==
  /\ reader = "read" /\ kind = "get_config" /\ keys = {}
  /\ reader' = "done"
  /\ UNCHANGED <<dbVars, queueVars, kind, keys, batch, data, changed, init_data, fire_init_data, told>>

\* listen() subscribes before it reads; without a use for the table it does not read.
psubscribe ==
  /\ reader = "start" /\ kind = "listen"
  /\ reader' = IF fire_init_data THEN "subscribed" ELSE "listen"
  /\ UNCHANGED <<dbVars, queueVars, kind, keys, batch, data, changed, init_data, fire_init_data, told>>

\* get_table(): KEYS.
get_table ==
  /\ reader = "subscribed"
  /\ reader' = "read" /\ keys' = Present
  /\ UNCHANGED <<dbVars, queueVars, kind, batch, data, changed, init_data, fire_init_data, told>>

\* get_table(): the HGETALL of a key, empty or not.
get_entry(r) ==
  /\ reader = "read" /\ kind = "listen" /\ r \in keys
  /\ keys' = keys \ {r}
  /\ data' = [data EXCEPT ![r] = {raw_to_typed(db[r])}]
  /\ UNCHANGED <<dbVars, queueVars, reader, kind, batch, changed, init_data, fire_init_data, told>>

\* The table goes to the handler, row by row or as a whole, and to the cache.
load_data ==
  /\ reader = "read" /\ kind = "listen" /\ keys = {}
  /\ init_data' = data
  /\ told' = [r \in Row |-> IF data[r] = NoRow THEN {EmptyHash} ELSE data[r]]
  /\ reader' = "listen"
  /\ UNCHANGED <<dbVars, queueVars, kind, keys, batch, data, changed, fire_init_data>>

\* What the connection has goes to the buffer.
readData ==
  /\ reader = "listen" /\ events # <<>>
  /\ m_keyspace_event_buffer' = m_keyspace_event_buffer \o events /\ events' = <<>>
  /\ UNCHANGED <<dbVars, readerVars, changed>>

\* Mutant: the cached row is never dropped.
listenKeepsCache ==
  /\ reader = "listen" /\ m_keyspace_event_buffer # <<>>
  /\ m_keyspace_event_buffer' = Tail(m_keyspace_event_buffer)
  /\ LET e == Head(m_keyspace_event_buffer)
         d == IF e.data = "del" THEN {EmptyHash} ELSE {raw_to_typed(db[e.row])}
     IN  told' = IF e.data # "del" /\ init_data[e.row] = d THEN told ELSE [told EXCEPT ![e.row] = d]
  /\ UNCHANGED <<dbVars, events, reader, kind, keys, batch, data, changed, init_data, fire_init_data>>

\* A message of listen_message(): the row is read now; the first event of a
\* row that shows what the initial data showed is not passed on.
listen ==
  /\ reader = "listen" /\ m_keyspace_event_buffer # <<>>
  /\ m_keyspace_event_buffer' = Tail(m_keyspace_event_buffer)
  /\ LET e == Head(m_keyspace_event_buffer)
         d == IF e.data = "del" THEN {EmptyHash} ELSE {raw_to_typed(db[e.row])}
         cache_hit == e.data # "del" /\ init_data[e.row] = d
     IN  /\ told' = IF cache_hit THEN told ELSE [told EXCEPT ![e.row] = d]
         /\ init_data' = [init_data EXCEPT ![e.row] = NoRow]
  /\ UNCHANGED <<dbVars, events, reader, kind, keys, batch, data, changed, fire_init_data>>
-------------------------------------------------------------------------------
Write(w) ==
  \/ /\ calls < MaxCalls /\ call[w].op = "none"
     /\ \/ delete_table(w) \/ mod_configNone(w)
        \/ \E d \in Typed : \/ \E r \in Row : set_entry(w, r, d) \/ mod_entry(w, r, d)
                           \/ \E rs \in SUBSET Row : mod_config(w, rs, d)
  \/ _delete_entries(w) \/ exec(w) \/ command(w)

Read ==
  \/ get_config \/ get_configPipe \/ _get_config \/ _get_configExec \/ getallEnd
  \/ psubscribe \/ get_table \/ load_data \/ readData \/ listen
  \/ \E r \in Row : getall(r) \/ get_entry(r)

Next == (\E w \in Writer : Write(w)) \/ Read

Spec == Init /\ [][Next]_vars
-------------------------------------------------------------------------------
\* set_entry() leaves exactly its data ("Remove extra fields in the db which are
\* not in the data"), unless another writer has changed the row meanwhile.
EntryExact ==
  \A w \in Writer : call[w].op = "set_entry" /\ call'[w] = NoCall /\ ~disturbed[w] => db'[call[w].row] = call[w].data
\* Every set_entry() that returns has left exactly its data in an undisturbed row.
SetEntryExact == [][EntryExact]_vars

\* A row that set_entry() or mod_entry() updates with data does not disappear on the way, for
\* anybody, unless two writers work on it at once.
RowKept ==
  \A w \in Writer : call[w].row \in Row /\ call[w].data # EmptyHash /\ todo'[w] # todo[w] /\ ~disturbed[w]
     /\ call[w].original # EmptyHash => db'[call[w].row] # EmptyHash
\* No command of an update with data makes an undisturbed row disappear.
UpdateKeepsRow == [][RowKept]_vars

\* Nobody sees a transaction half done: until its EXEC the row is as it was.
PipeAllOrNothing ==
  \A w \in Writer : call[w].piped /\ call[w].op = "set_entry" /\ ~disturbed[w] => db[call[w].row] = call[w].original

\* get_config() is complete: a row that nobody changed while it ran is in its
\* result as it is in the database, however SCAN went over the rows.
ReadComplete ==
  reader = "done" => \A r \in Row \ changed : data[r] = IF db[r] = EmptyHash THEN NoRow ELSE {db[r]}

\* The handler of listen() is up to date with every row that has no event under way: a
\* change between the subscription, the reads of the table and the first events is not lost.
ListenerFollows ==
  reader = "listen" => \A r \in Row :
    \/ \E i \in DOMAIN events : events[i].row = r
    \/ \E i \in DOMAIN m_keyspace_event_buffer : m_keyspace_event_buffer[i].row = r
    \/ told[r] = {raw_to_typed(db[r])}
    \/ told[r] = NoRow /\ r \notin changed
===============================================================================
