# TLA+ models of sonic-swss-common

sonic-swss-common is the library through which the processes of a SONiC switch
exchange state: producers and consumers of tables in Redis, notification
channels, an event loop over them, ZMQ transports, an event service, clients of
the configuration database, and the tools around them. This directory holds TLA+
models of its parts, the TLC configurations that check them on small instances,
and TLAPS proofs of the properties that matter most. `PROJECT.json` lists
components, runs, mutants, the source lines behind every definition, the hazards
of the code, and the theorems.

## The system's parts

A table `T` of a Redis database is a set of hashes `T:key`. The library offers
several ways to change a table and to follow the changes.

* **State tables.** `ProducerStateTable` stages changes (`_T:key`,
  `T_KEY_SET`, `T_DEL_SET`) with Lua scripts and publishes on `T_CHANNEL`.
  `ConsumerStateTable` is woken by the messages and takes a batch of keys with
  a script that moves the staged fields to the table. Only the last state of a
  key matters; calls on a key are merged. A producer may collect a complete new
  content of the table (`create_temp_view`) and switch to it
  (`apply_temp_view`), and may buffer its commands in a `RedisPipeline`.
* **Key-operation queue.** `ProducerTable` and `ConsumerTable` pass every
  operation through a list, in order.
* **Subscriber.** `SubscriberStateTable` follows a table through keyspace
  events and reads the entries itself. Waiters and the logger's thread use it.
* **Notifications.** Messages on a channel, with a queue on the consumer's side.
* **Event loop.** `Select` waits on all these objects, on timers and on netlink
  sockets with epoll and returns them by priority.
* **ZMQ.** State tables over a socket instead of Redis; a batch of operations is
  one message (`BinarySerializer`), and an `AsyncDBUpdater` thread on either
  side writes the operations to the database. In the one-to-one mode every
  request waits for a reply.
* **Events.** Publishers number structured events; a subscriber counts what it
  missed; `eventd` caches events while no subscriber is there.
* **Databases.** `SonicDBConfig` says where each database is. `DBInterface`
  and `ConfigDBConnector` read and write; default values, static profiles,
  counters, warm-restart knobs and log levels are tables with rules of their own.
* **sonic-db-cli** runs a command in one or in all databases.

The Redis server runs one command, script or transaction at a time, so each is
one step. Everything between two round trips of a client is a place where other
clients take steps, and, where the model has stops or failures, a place where
the client stops or the connection fails.

## Modules

| module | models | state and actions |
| --- | --- | --- |
| `Hashes` | Redis hashes | `HSet` is HSET of several fields; a key that does not exist is the empty hash |
| `KeyValueView` | abstract | a view on which calls act at once and a table that takes over whole entries later |
| `Fifo` | abstract | a queue from which elements leave in order, several at a time |
| `StateTable` | `ProducerStateTable`, `ConsumerStateTable` | one action per producer script, per round trip of the consumer's constructor, `Select`, `Pops`, `PopBuffered`, `PopRefill`, `Exit` |
| `TempView` | temp views, on `StateTable` | `TempSet`, `TempDel`, `CreateTempView` and the three round trips of `apply_temp_view()` |
| `PipelinedStateTable` | `RedisPipeline` under a producer, on `StateTable` | output buffer, commands on their way, replies; push, flush, `SetBuffered` and its reloading of the scripts after a flush, error replies, stops |
| `KeyOpQueue` | `ProducerTable`, `ConsumerTable` | `Enqueue`, the constructor, `Pops`, `Pop`, `Exit` |
| `SubscriberTable` | `SubscriberStateTable` with `Table` writers | writers; the constructor key by key; `Select`; `pops()` event by event |
| `Select` | `Select` and the kinds of `Selectable` | arrivals, failures, `poll_descriptors`, adding and removing objects, `Pop` |
| `Notifications` | `NotificationProducer`, `NotificationConsumer` | send, the subscription with retries, `readData` with the admission list, both queue policies, `peek`, `pop`, `pops`, messages that cannot be parsed, counters |
| `AsyncDBUpdater` | `AsyncDBUpdater` | the caller and the thread, one action per critical section, condition-variable call or command |
| `Zmq` | ZMQ client, server and tables | connect, send with retries, poll thread, handler registry, received queue, event, pops, restarts |
| `ZmqSync` | the one-to-one mode | request, reply, time-out, hand-over of the socket, destructor of the server |
| `Serializer` | `BinarySerializer` | a batch to cells and back, with the size computed beforehand |
| `Events` | event publishers and subscribers | numbers that roll over, loss, accounting, pruning, hand-over to and from the cache, destructor; `eventd` and the sockets are external |
| `DBConfig` | `SonicDBConfig` | initialisation, includes, look-ups and `reset()` by several threads |
| `DBInterface` | `DBInterface`, `SonicV2Connector` | connecting, blocking reads, reconnection against a failing server |
| `ConfigDB` | `ConfigDBConnector`, `ConfigDBPipeConnector` | writers command by command or in a transaction, readers with SCAN, `listen()` |
| `ConfigDBInit` | `db_connect(wait_for_init)` | flag, subscription, wait |
| `Defaults` | `DefaultValueProvider`, decorator tables | defaults built from a YANG model, and reads of rows merged with them; a loop that does not end and a read through `end()` are outcomes (`caller`) |
| `Profile` | `ProfileProvider` | reads, deletions and reversions of items, request by request |
| `Counters` | `CounterTable`, its cache, `LuaTable` | look-ups with and without the cache, changes of the name maps |
| `WarmRestart` | `WarmStart` | knobs, restarts, `restore_count`, states of applications |
| `RestartWaiter` | `RestartWaiter`, `RedisTableWaiter` | checks, subscription, loop with a time limit |
| `Logger` | log levels of a process | `linkToDb`, setting thread and its restart, `swssloglevel` |
| `Netlink` | `NetLink`, `NetDispatcher`, `LinkCache` | reading the socket, registering and dispatching, names of interfaces |
| `Timer` | `SelectableTimer` | start, stop, reset, expiry, read |
| `DbCli` | `sonic-db-cli` | one run of the tool, a thread per database |
| `IpPrefix` | `IpPrefix` | constructors and `getSubnet()`; masks and broadcast addresses of both families |
| `Databases` | | `DBConfig`, `Profile`, `WarmRestart` and `Counters` side by side, for the proofs and for `MCDatabases` |
| `...Proofs` | | theorems; see Proofs for which module holds what |
| `MC...` | | instances for TLC; `events` and the four runs that end with a violation use their modules as they are |

`TempView` and `PipelinedStateTable` extend `StateTable`: the consumer and the
scripts are those of `StateTable`, and the producer's side is replaced.
`StateTable`, `KeyOpQueue` and `SubscriberTable` contain the part of `Select`
that concerns their own object; `Select` looks at several objects at once.
`Zmq` shows that operations reach the updaters in order, `AsyncDBUpdater` what
becomes of them there.

History variables record what a property compares with:

* `expected`: what the calls so far amount to when each is applied at once;
* `overfull` (temp views): since the last time that nothing waited, a call or a switch
  has brought more keys than one return of `select()` takes;
* `cutShort` (pipeline): a producer stopped between its commands and their publish;
* `refused` (queue): the script met an unknown operation;
* `arrived`, `popped` (notifications): what the admission list let in, and what has been
  taken from the queue;
* `made`, `accepted`, `written`, `queued`, `updated`, `popped`, `lost` (ZMQ): how far each
  operation has come;
* `seen`, `accepted`, `gone` (events): what any subscriber received, what reached
  everyone who was connected, what a time-out or a stop lost; `mine` and `twice`: what the
  present subscriber received, once and again; `forgotten`: ids it no longer tracks;
  `account`: what was received and missed while an id is tracked;
* `seen`, `unseen` (profiles): what was true of an item at some time during the call;
* `sinceCall`, `sinceRefresh` (counters): what a name stood for since the call or the
  refresh;
* `disturbed` (CONFIG_DB): another writer came in between;
* `had`, `refilled` and those of the handlers (netlink): names and handlers meanwhile;
* `original` (prefixes): the prefix before `getSubnet()`.

A definition under a "Mutant:" comment is a wrong variant of the definition that
follows; no specification uses it. `PROJECT.json` says which property finds it.

Some modules hold several parts that share no state (`MCSelect`, `MCZmq`, `Databases`,
`MCDatabases`, `MCClients`). A variable `part`, chosen in the initial state, says
which of them moves; the others keep their initial state. `MCDatabases` extends
`Databases`: when no part of `Databases` moves, its variable `other` says which of the
further modules does. The properties of such a module speak of one or of several parts,
and their comments say what they demand of each.

## Runs

| run | instance | shows |
| --- | --- | --- |
| `state_table` | 2 keys, 2 fields, `POP_BATCH_SIZE` 2, 3 notifications, `pop()` and `pops()` | no call is lost or undone by merging (`NoCallLost`), no key waits without a notification (`NoKeyStranded`), entries in `m_buffer` agree with the table (`BufferMatchesTable`), the pair implements `KeyValueView` (`ImplementsKeyValueView`), and the table catches up (`EventuallyInSync`) |
| `temp_view` | 2 keys, 2 fields, `POP_BATCH_SIZE` 2, batches of 2, `set(key, {})`, `pop()` and `pops()` | after the switch, table plus staged data are the temp view (`ViewSwitched`); nothing is staged that is already right (`MinimalSwitch`); no key waits when `select()` times out, unless more keys came at once than one return of `select()` takes (`QueueEmptyOnTimeout`) |
| `key_op_queue` | 2 keys, queue of 3, batches of 2, unknown operations | the list is a FIFO over batches and restarts (`ImplementsFifo`), the table follows it (`TableFollowsQueue`), every waiting operation is announced (`OperationsAnnounced`) |
| `select` | one object of each kind, 2 messages each, a failing and a removable object; a notification consumer of each queue policy, 3 messages of 4 kinds, one that cannot be parsed, 2 failures | what was read is not forgotten (`ReadyWhenData`), the highest priority comes first (`HighestFirst`), equals are served in turn (`EventuallyServed`); consumers get what their policy promises, `pops()` leaves nothing behind (`QueueAsPromised`); types (`AllTypeOK`) |
| `events` | 2 sources, 3 ids, numbers of width 3 that start before the roll-over, 2 subscribers, 1 fault | received plus reported missed is what was published, as long as an id is tracked, and the table of ids is bounded (`TrackingExact`); at a hand-over nothing is lost or doubled (`HandoverExact`); types (`TypeOK`) |
| `zmq` | 1 client, 2 consumers, watermark 1, 1 retry, 3 operations, 1 fault; one-to-one mode with 3 requests, 2 time-outs, 2 servers; an updater with a queue of 2 | operations arrive once and in order at live consumers and at both updaters (`OperationsInOrder`), a reply belongs to its request (`OneToOne`), the server stops (`ServerStops`), what is queued is taken (`EventuallyTaken`); types (`AllTypeOK`) |
| `databases` | nine parts, see below | `SonicDBConfig` is consistent (`ConfigConsistent`), transactions and reads of CONFIG_DB are whole (`ConfigDBConsistent`), calls do exactly what they were asked for (`CallsExact`), derived values are true (`ReadsTrue`), warm starts are counted (`WarmStartsCounted`), conversions are exact (`ConversionsExact`), a pipeline leaves nothing unannounced (`QuietPipelineLeavesNothing`); types (`AllTypeOK`) |
| `clients` | eight parts, see below | a subscriber follows its table (`FollowsTable`) and catches up (`CatchesUp`), waits return only when true (`WaitersTruthful`) and always end (`WaitsEnd`), log levels follow the table (`LevelsFollow`), `sonic-db-cli` reports truthfully (`CliTruthful`), netlink messages and timer ticks are right (`KernelTruthful`); types (`PartsTypeOK`) |

`databases`: `DBConfig` with 2 threads, the default key and a namespace;
`ConfigDB` with a plain and a pipe writer, a reader and 2 rows; `Defaults` with
models of one or two lists or containers, leaves, leaf-lists and choices, one with a
default case that is no leaf; `Profile` with 2 clients and 2 items;
`WarmRestart` with 2 applications and 4 changes; `Counters` with one change of the
maps; `Serializer` with batches of up to 2 operations of 2 fields, in buffers that
are exact or one cell short; `IpPrefix` with all addresses of 2 and 3 bytes of 2
bits; `PipelinedStateTable` with 2 keys, `COMMAND_MAX` 2, and error replies to producers
without `m_flushPub`.

`clients`: `SubscriberTable` with 2 keys and 3 events; `ConfigDBInit` with 2
clients; `DBInterface` with 2 faults and 2 updates; `RestartWaiter` with 3
changes of the knobs; `Logger` with an ordinary and a SAI component; `DbCli` with 2
databases; `Netlink` with 2 interfaces and a queue of 2; `Timer` with 4 calls.

Four runs end with a violation, each of what a comment says. They check
`PipelinedStateTable`, `AsyncDBUpdater`, `Events` and `ConfigDBInit` themselves:

| run | what happens |
| --- | --- |
| `pipeline_error` | an error reply to the last command of a flush skips the publish of the whole flush, and the next `flush()` returns at once unless new commands were pushed (`QuietPipelineLeavesNothing` of `PipelinedStateTable`) |
| `async_lost_wakeup` | a notification sent between the test of the queue and `wait()` wakes nobody (`EveryUpdateWritten`) |
| `events_deinit` | a subscriber whose request to `eventd` gets no answer does not come back from its destructor (`DeinitReturns`) |
| `wait_for_init` | the flag set between its reading and the subscription is not seen, and `connect()` waits for ever (`ConnectReturns`) |

### Bounds

Two keys are the least with which one can be taken and the other left behind.
Two fields let a call replace one and keep the other. Batch sizes
(`POP_BATCH_SIZE`, 128 in practice) are 1 or 2, so that a batch can be full, partial
and empty; `COMMAND_MAX` 2 makes the automatic flush happen in the middle of a
sequence of calls. What is on its way (`MaxPending`, `MaxEvents`, `MaxQueue`,
`MaxData`, `MaxSent`) is bounded by more than a batch, so that work is left over
after one. `SeqWidth` 3 with `Before` 6 lets the sequence number roll over after two
events. `MAX_PUBLISHERS_COUNT` 1 makes pruning happen with the second id. `MaxCalls`,
`MaxChanges`, `MaxFaults` and the like bound the environment: a writer, an operator, the
kernel or a failing server stops acting; nobody who has begun a call is stopped by
a bound. Deadlock is checked for the runs whose processes go on for ever
(`state_table`, `temp_view`, `key_op_queue`); in the others a behaviour may come to
its end, as a tool exits or the bounded environment has done its part.

`MaxBatch` is 1 in `state_table` because an application that calls `pop()` gets one
entry per notification, while a batched call of two keys publishes once: the second
entry would wait for the next message. With `pops()` a call may bring up to
`POP_BATCH_SIZE` keys. The theorem `NoKeyIsStranded` has the condition in general
(`CallsFitInOnePop`). `temp_view` makes calls of two keys also to an application that uses
`pop()`: `QueueEmptyOnTimeout` then speaks of the states in which everything that came too
thick has been taken (`overfull`). A larger instance of it (3 keys, 1 field, batches of 1,
3 notifications, 152,473 states) was checked once.

### Fairness

Weak fairness stands for a thread that runs: one of its steps stays enabled until
it is taken. It is assumed of the side whose progress is claimed and never of its
environment; producers, writers, operators, faults, stops and spurious wake-ups are
not fair, and liveness properties say "or they go on for ever" where that matters.

* `StateTable`, `SubscriberTable`: the consumer's loop of `select()` and pops.
* `Select`, `Notifications`: the application's loop. After `pops()` of notifications has
  thrown, the next one is not fair until a message comes, as `select()` need not return
  the consumer before.
* `AsyncDBUpdater`: the thread, and the steps that finish a call already begun.
* `Zmq`: the poll thread, `select()` and `pops()` of each consumer. Receiving from a
  client is strongly fair: between two polls the step is disabled, but the thread
  polls again and again, and a PULL socket takes from its peers in turn.
* `Events` (`events_deinit`): the steps of the subscriber.
* `ConfigDBInit` (`wait_for_init`): the service that loads the configuration, and
  every client.
* `DBInterface`, `RestartWaiter`, `DbCli`: the steps of the call or the process,
  time limits included.
* `Logger`: the main thread and the setting thread. The thread's reaction to the stop
  event is strongly fair: `select()` returns other events in between, but equals are
  served in turn (`EventuallyServed`).
* `Netlink`, `Timer`: the reading thread, the calling threads, and the kernel's
  expiry of an armed timer.

## Proofs

Eight modules hold proofs. A theorem is about every value of the constants that
satisfies the assumptions of the component's module (finitely many keys where
cardinalities matter, positive sizes) and the condition that it states. Most leaves name
Zenon: the SMT translation of a whole invariant is slow, so arithmetic is kept to
steps of its own.

* **`StateTableProofs`** (about `StateTable` and `TempView`). `TypeCorrect`,
  `TempTypeCorrect`: the types; the counter never falls below -1.
  `NoCallIsLost`: `NoCallLost`, together with `NothingStagedOutsideKeySet`
  (`StagingInv`): a `set()` on a key outside `T_KEY_SET` must not meet leftovers. The
  lemma `HSetAssociative` is the reason why calls may be merged.
  `NoKeyIsStranded`, if no call brings more keys than one pop takes
  (`CallsFitInOnePop`): `LoopInv` says that the counter is not negative in the loop and
  that `m_buffer` is finite and used by `pop()` only; `WakeupInv` adds the property.
  `EmptyOnTimeout` (`QueueEmptyOnTimeout`) has no such condition: `TimeoutInv` is `LoopInv`
  with `NoKeyStranded` wherever `overfull` is FALSE. A script keeps the balance if its new
  keys fit in one pop, and with nothing left to take the balance is restored.
  `BufferIsTruthful`, without `set(key, {})`: `BufferInv` adds that a waiting key with an
  empty staged hash is in `T_DEL_SET`. `Refinement`: `StateTable` implements
  `KeyValueView`, with `expected` as the view; a pops script is the step in which the table
  takes over entries. `ViewIsSwitched` and `SwitchIsMinimal`, for finitely many fields
  of which none is "NULL" and a database with separator ":": `SwitchInv` says that from
  `clear()` to the script no key is staged, so that the consumer has nothing to take and
  the dump is still the table when the script decides.
* **`KeyOpQueueProofs`.** `EveryOperationAnnounced`: `QueueInv` adds the types of list
  and `m_buffer`, that the counter is not negative in the loop, and that `m_buffer` is
  empty outside it, which is why the constructor may count the list alone.
  `QueueIsFifo`: `KeyOpQueue` implements `Fifo`, with `m_buffer \o queue` as the items.
  `TableIsFollowed` (`TableFollowsQueue`): the effect of a batch is the last of the tables
  between its operations, and the effect of two sequences in a row is that of their
  concatenation, by induction over their length, as a least counterexample
  (`LeastNatural`).
* **`SelectProofs`.** `NothingForgotten` (`ReadyWhenData`) and `HighestServedFirst`
  (`HighestFirst`), if only consumer tables are removed and added again
  (`OnlyTablesRemoved`). `SelectInv` adds which object may hold data outside the ready
  set (the one just returned, with its last message), that only counters keep data while
  they are not in the Select, and that a plain object is ready exactly while it has data.
* **`SubscriberTableProofs`.** `SubscriberFollows` (`FollowsTable`). `FollowInv` adds what
  is empty in which phase, that the last event of a key agrees with the table
  (`LastTells`), and what the constructor has scanned (`ScanInv`). `AwakeInv` bounds what an
  object outside the ready set may hold. The effect of a sequence of entries is reduced to
  its last entry per key, so that no induction over the sequence is needed.
* **`DatabasesProofs`** (about `DBConfig`, `WarmRestart`, `Profile` and `Databases`).
  `ConfigIsConsistent`: `ConfigInv` adds that a thread reading the global file holds the
  mutex before `m_global_init` is set, and that the flag of a key is set while a thread
  uses a reference of that key. `CountIsRight`, `SystemEnabled`, `ToldOnlyAsSaid`, from
  `WarmInv`. `ReadsWhatWasThere`: `ProfileInv` says that during a call the histories
  contain what is true now, and that the items found so far have been there and the
  others not. `WarmStartsAreCounted` and `ReadsAreTrue` carry these, and the theorem on
  counters, over to the properties of the run `databases`: a step of one part leaves the
  others alone. Items of PROFILE_DB must be items (`ProfileAssumption`).
* **`CountersProofs`.** `CountersOfTheName`: `CountersInv` says that the histories have
  what the names stand for now (`Tracked`), that the cache has what they stood for since
  the refresh (`CacheRight`), and the same of the keys found so far in a call.
* **`EventsProofs`.** `EventsTyped`. `ExactWithinWindow` (`TrackingExact`) and
  `HandoverWithinWindow` (`HandoverExact`) hold as long as whatever is on its way is within
  half a cycle of numbers from what the subscriber received last (`WithinWindow`): the
  `int` that `event_receive()` computes is then the real difference. `TrackingIsExact` and
  `HandoverIsExact` have a condition on the constants only, that at most half a cycle of
  events is sent (`FewerThanHalf`). The invariant is `TypeInv`, `TrackInv`, `IdsInv` (a
  run-time id belongs to one source), `MineInv` (what was received is tracked) and
  `HandoverInv` (where an event that nobody has seen may be, and in which order). TLC
  checked it on two larger instances, 3 subscribers with 1 and with 2 faults (259,903 and
  23,693,199 states).
* **`ZmqProofs`** (about the parts of `MCZmq`). `ZmqTyped`, `OperationsAreInOrder`
  (`OperationsInOrder`) and `RepliesMatch` (`OneToOne`) from `SafeSpec`, the specification
  of the run without fairness, for positive bounds (`PartsAssumption`) and at least one
  consumer (`SomeConsumer`). `ZmqInv` ties registry, poll thread, consumers and updaters
  together; `OrderInv` says that every queue on the way of an operation is in the order of
  its client, that the queues follow one another, and that what was accepted is in one of
  them or lost. `SyncInv`: one token, the request or its reply, goes round. `UpdaterInv`:
  what the thread has written half is what the first change of its queue makes.

Only model-checked are: liveness and `ENABLED`; `ConfigDBConsistent` and `CallsExact`, whose
readers and writers work through sets of rows in any order; `QueueAsPromised`, whose
queues are folds over what arrived; `ConversionsExact`, as `RoundTrip` and
`SubnetIsInterval` need induction over bytes and digits; `QuietPipelineLeavesNothing`; the
properties of `clients` other than `FollowsTable`; and the types of the modules without
proofs.

## Limits of the code that the models show

Where these are parameters of the models, the passing runs use the values for which
the code makes its promise. They are read from the source; only those with a run
of their own are checked by one.

State tables and queues

* `set(key, {})` on an existing entry is reported as a deletion (`EmptySets`;
  `consumerstatetable.cpp:85`).
* One publish announces a batch or a view switch, however many keys it has. With more than
  `POP_BATCH_SIZE` of them, or more than one if the application uses `pop()`, `select()`
  times out with keys left, which wait for further messages (`overfull`). A test says "State
  Queue should be empty" after a time-out (`src/tests/redis_state_ut.cpp:777`), with calls of
  one key; another one switches to a view of 20000 keys (line 554).
* An error reply in the flush with which `setBuffered()` begins leaves the flag set and the
  old scripts loaded; under `m_flushPub` the channel is noted without a script to publish
  with, and no later call loads one (`redispipeline.h:183`).
* `apply_temp_view()` relies on the separator ":" (`ColonDatabase`; `table_dump.lua:1`)
  and does not see a field named "NULL" (`NullField`; `table.cpp:253`).
* An unknown operation in a `ProducerTable` queue takes the rest of its batch with it
  (`refused`). A consumer that stops loses what waits in its `m_buffer`.
* A subscriber does not report the expiry of an entry with a TTL.
* An object of another kind than a consumer table that is removed from a `Select` with
  data in its buffer, and added again, is not made ready (`Removable`).

Notifications, events, ZMQ

* `peekOp` cuts an operation at an escaped quote. `pop()` loses a message that it cannot
  parse; `pops()` loses with it what it had collected, and the rest of the queue waits for
  the next message (`Malformed`). An application that reads with `peek()` alone leaves the
  message in the queue until another one comes.
* `sendMsg()` serializes into `m_sendbuffer` before it takes `m_socketMutex`
  (`zmqclient.cpp:158` and `180`): threads that share a client may overwrite each other's
  batch. `Zmq` has one sending thread per client.
* The caller of `RedisSelect::punsubscribe` gets another PSUBSCRIBE
  (`redisselect.cpp:96`).
* A subscriber that stops before it has read the cache does not give the rest back;
  the source filter is not applied to cached events; an event may be delivered twice
  after its id was retired or pruned, and may reach two subscribers, one after the other.
* After `wait()` of a one-to-one client has timed out, its REQ socket refuses requests
  until the client connects again. In that mode the destructor of the server has a narrow
  race with the poll thread, as it sets `m_allowZmqPoll` before `m_runThread`.
* The destructor of `AsyncDBUpdater` may drop a change queued between the two reads of its
  exit test (`NothingLeftAtExit` fails with `Destroyed`), and may block in `join()` for
  the reason that `async_lost_wakeup` shows.

Databases and clients

* `getInstanceList()` of `SonicDBConfig` reads the maps without the mutex, and a
  reference does not survive `reset()` (`dangling`).
* Two plain `set_entry()` calls on a row may leave it deleted, or with the fields of
  both (`disturbed`). The comment at `configdb.cpp:101` says that `mod_entry({})` creates a
  row without columns; the code deletes it.
* `DBInterface` catches `RedisError`, but an unreachable server raises
  `std::system_error` (`dbconnector.cpp:588`), so the retry of `connect()` does not
  outlive it.
* The flags of `WarmStart` are not reset when `checkWarmStart()` runs again in one process.
  `waitUntilKeyDel()` misses a DEL between its check and the subscription.
* `linkToDb()` while the setting thread runs may leave an old level (`Relink`).
* Of two lists with as many keys, the first gives its defaults to the rows of both. If the
  default case of a choice has a node that is no leaf, `Initialize()` does not return
  (`defaultvalueprovider.cpp:226`). For a key without a mapping the pointer of `end()` is
  read before it is tested (lines 112 and 145), which is undefined.
* `start()` of a timer with an invalid interval throws with its mutex locked.
* Two look-ups of `NetDispatcher` are locked one by one; messages lost to an overflow of
  the netlink socket are not asked for again.

## What is not modelled

* Value types and parsers other than `IpPrefix` (addresses, MAC addresses, JSON,
  tokens, numbers, port maps, ACL schema): functions of their arguments, mostly on
  characters, which unit tests enumerate better than a model.
* The encoding of events, reply parsing and command formatting: data that no property
  tells apart. A command and its reply are one step unless the pipeline separates them.
* `NfNetlink` repeats the reading of `NetLink`; netlink messages themselves, libyang, ZMQ,
  hiredis and `eventd` are external and modelled from how the code uses them.
* C, Rust, Go and Python bindings: wrappers without state of their own.
* FDB flush scripts: one atomic script each, called by other repositories.
* Logging, wording of errors, statistics; loading of scripts other than by `setBuffered()`.

The components of `PROJECT.json` say for each part what is left out.
