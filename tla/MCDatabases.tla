------------------------------ MODULE MCDatabases ------------------------------
(***************************************************************************)
(* Instances, for TLC, of the modules of Databases, and of ConfigDB, the   *)
(* modules that compute something and pipelined producers: "other" says    *)
(* which one of the latter moves when no part of Databases does.  Whatever *)
(* moves, PartsSpec holds.                                                 *)
(***************************************************************************)
EXTENDS Databases, TLC

CONSTANTS
  k1, k2, f1, v1,
  \* ConfigDB
  Writer, Pipe, ConfigRow, ConfigField, ConfigValue, NoValue, NullField, BatchSize, MaxCalls

VARIABLES
  other,
  \* ConfigDB
  db, call, scan, todo, disturbed, calls, reader, kind, keys, batch, data, changed, events,
  m_keyspace_event_buffer, init_data, fire_init_data, told,
  \* Defaults
  libyang, model, m_context, mapping, rows, writes, got, caller,
  \* Serializer
  dbName, tableName, kcos, size, serializerState, buffer, received,
  \* IpPrefix
  m_ip, m_mask, prefixState, original,
  \* PipelinedStateTable
  keySet, delSet, stateHash, table, watchDirty, channel, consumer, m_queueLength, m_buffer, api, expected,
  m_flushPub, m_buffered, luaPub, m_channels, pubChannel, reload, obuf, wire, replies, flush, cutShort

configDBVars == <<db, call, scan, todo, disturbed, calls, reader, kind, keys, batch, data, changed, events,
                  m_keyspace_event_buffer, init_data, fire_init_data, told>>
defaultVars == <<libyang, model, m_context, mapping, rows, writes, got, caller>>
serializerVars == <<dbName, tableName, kcos, size, serializerState, buffer, received>>
prefixVars == <<m_ip, m_mask, prefixState, original>>
pipeVars == <<keySet, delSet, stateHash, table, watchDirty, channel, consumer, m_queueLength, m_buffer, api, expected,
              m_flushPub, m_buffered, luaPub, m_channels, pubChannel, reload, obuf, wire, replies, flush, cutShort>>
-------------------------------------------------------------------------------
ConfigDB == INSTANCE ConfigDB WITH
  Row <- ConfigRow, Field <- ConfigField, Value <- ConfigValue, Batch <- BatchSize

\* Tables of one or two children, lists of at most two keys and containers, with each kind of field.
Leaf(n, d) == [kind |-> "leaf", name |-> n, dflt |-> d]
Fields == {<<Leaf("f", {"d"})>>,
           <<Leaf("f", {}), [kind |-> "leaflist", name |-> "g", dflt |-> {"e"}]>>,
           <<[kind |-> "choice", name |-> "c", case |-> <<Leaf("f", {"d"}), Leaf("g", {})>>],
             [kind |-> "container", name |-> "h"]>>}
Looping == <<[kind |-> "choice", name |-> "c", case |-> <<[kind |-> "leaflist", name |-> "f", dflt |-> {"d"}]>>]>>
Children ==
  [type : {"list"}, name : {1, 2}, keys : {1, 2}, fields : Fields]
    \cup [type : {"container"}, name : {1, 2}, keys : {0}, fields : Fields]
    \cup [type : {"list"}, name : {1}, keys : {0}, fields : Fields]
    \cup [type : {"leaf"}, name : {1}, keys : {0}, fields : {<<>>}]
    \cup [type : {"list"}, name : {1}, keys : {1}, fields : {Looping}]
Defaults == INSTANCE Defaults WITH
  Child <- Children, Row <- [name : {1}, parts : {1, 2}], Field <- {"f", "g"}, Value <- {"v"}, MaxWrites <- 1

\* Numbers of one and of two digits; buffers that are just too small, and just large enough.
Serializer == INSTANCE Serializer WITH
  SizeT <- 2, Base <- 2, Text <- {<<>>, <<"x">>}, NameText <- {<<"x">>}, MaxFields <- 2, MaxOps <- 2,
  Slack <- {-1, 0}, state <- serializerState

\* Every address of two and of three bytes of two bits.
Prefix == INSTANCE IpPrefix WITH ByteBits <- 2, V4Bytes <- 2, V6Bytes <- 3, state <- prefixState

\* Two keys and a pipeline of two commands.
Pipeline == INSTANCE PipelinedStateTable WITH
  Key <- {k1, k2}, Field <- {f1}, Value <- {v1}, NoValue <- "", POP_BATCH_SIZE <- 2, MaxBatch <- 1, MaxPending <- 2,
  Api <- {"pops"}, EmptySets <- FALSE, COMMAND_MAX <- 2, FlushPubErrors <- FALSE

Symmetry == Permutations({k1, k2})
-------------------------------------------------------------------------------
\* The variables of a module that does not move have no value of interest.
NoConfigDB ==
  /\ db = 0 /\ call = 0 /\ scan = 0 /\ todo = 0 /\ disturbed = 0 /\ calls = 0 /\ reader = 0 /\ kind = 0
  /\ keys = 0 /\ batch = 0 /\ data = 0 /\ changed = 0 /\ events = 0 /\ m_keyspace_event_buffer = 0
  /\ init_data = 0 /\ fire_init_data = 0 /\ told = 0
NoDefaults ==
  /\ libyang = 0 /\ model = 0 /\ m_context = 0 /\ mapping = 0 /\ rows = 0 /\ writes = 0 /\ got = 0
  /\ caller = 0
NoSerializer ==
  /\ dbName = 0 /\ tableName = 0 /\ kcos = 0 /\ size = 0 /\ serializerState = 0 /\ buffer = 0 /\ received = 0
NoPrefix ==
  /\ m_ip = 0 /\ m_mask = 0 /\ prefixState = 0 /\ original = 0
NoPipeline ==
  /\ keySet = 0 /\ delSet = 0 /\ stateHash = 0 /\ table = 0 /\ watchDirty = 0 /\ channel = 0 /\ consumer = 0
  /\ m_queueLength = 0 /\ m_buffer = 0 /\ api = 0 /\ expected = 0
  /\ m_flushPub = 0 /\ m_buffered = 0 /\ luaPub = 0 /\ m_channels = 0 /\ pubChannel = 0 /\ reload = 0 /\ obuf = 0 /\ wire = 0 /\ replies = 0 /\ flush = 0
  /\ cutShort = 0

MCInit ==
  /\ PartsInit
  /\ other \in IF part = "none" THEN {"configDB", "defaults", "serializer", "prefix", "pipeline"} ELSE {"none"}
  /\ IF other = "configDB" THEN ConfigDB!Init ELSE NoConfigDB
  /\ IF other = "defaults" THEN Defaults!Init ELSE NoDefaults
  /\ IF other = "serializer" THEN Serializer!Init ELSE NoSerializer
  /\ IF other = "prefix" THEN Prefix!Init ELSE NoPrefix
  /\ IF other = "pipeline" THEN Pipeline!PipeInit ELSE NoPipeline

MCNext ==
  /\ \/ PartsNext /\ UNCHANGED <<configDBVars, defaultVars, serializerVars, prefixVars, pipeVars>>
     \/ other = "configDB" /\ ConfigDB!Next /\ UNCHANGED <<allVars, defaultVars, serializerVars, prefixVars, pipeVars>>
     \/ other = "defaults" /\ Defaults!Next /\ UNCHANGED <<allVars, configDBVars, serializerVars, prefixVars, pipeVars>>
     \/ other = "serializer" /\ Serializer!Next /\ UNCHANGED <<allVars, configDBVars, defaultVars, prefixVars, pipeVars>>
     \/ other = "prefix" /\ Prefix!Next /\ UNCHANGED <<allVars, configDBVars, defaultVars, serializerVars, pipeVars>>
     \/ other = "pipeline" /\ Pipeline!PipeNext /\ UNCHANGED <<allVars, configDBVars, defaultVars, serializerVars, prefixVars>>
  /\ UNCHANGED other

mcVars == <<allVars, other, configDBVars, defaultVars, serializerVars, prefixVars, pipeVars>>
MCSpec == MCInit /\ [][MCNext]_mcVars
-------------------------------------------------------------------------------
\* Every variable of the part or the other module that moves has its type.
AllTypeOK ==
  CASE other = "configDB" -> ConfigDB!TypeOK
    [] other = "defaults" -> Defaults!TypeOK
    [] other = "serializer" -> Serializer!TypeOK
    [] other = "prefix" -> Prefix!TypeOK
    [] other = "pipeline" -> Pipeline!PipeTypeOK
    [] OTHER -> PartsTypeOK

\* ConfigDB: nobody sees the transaction of a pipe connector half done, get_config() has every row
\* that nobody changed while it ran, and the handler of listen() knows every row that has no event
\* under way.
ConfigDBConsistent == other = "configDB" => ConfigDB!PipeAllOrNothing /\ ConfigDB!ReadComplete /\ ConfigDB!ListenerFollows

\* A call does what it was asked for and no more.  ConfigDB: set_entry() leaves exactly its data, and
\* a row that is updated does not disappear on the way.  WarmRestart: nobody is told "reconciled"
\* of an application that has not said so.
CallsExact ==
  [][/\ other = "configDB" => ConfigDB!EntryExact /\ ConfigDB!RowKept
     /\ part = "warm" => Warm!ToldAsSaid]_mcVars

\* Serializer: what is received is what was sent, and a buffer of serializedSize() is needed and
\* enough.  IpPrefix: a subnet is the interval from its address to its broadcast address.
\* Defaults: what is configured comes back as it is, and a row has exactly the defaults of the
\* list or container it belongs to.
ConversionsExact ==
  /\ other = "serializer" => Serializer!RoundTrip /\ Serializer!SizeExact
  /\ other = "prefix" => Prefix!SubnetIsInterval
  /\ other = "defaults" => Defaults!ConfiguredKept /\ Defaults!DefaultsOfOwner

\* PipelinedStateTable: one publish was enough for all the commands of a flush.
QuietPipelineLeavesNothing == other = "pipeline" => Pipeline!QuietPipelineLeavesNothing
===============================================================================
