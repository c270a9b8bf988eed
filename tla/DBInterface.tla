------------------------------ MODULE DBInterface ------------------------------
(***************************************************************************)
(* DBInterface (dbinterface.cpp), which SonicV2Connector forwards to, over *)
(* one database of a server that may go down and come back: connect() with *)
(* and without retry, and calls through blockable(), which waits for data  *)
(* that are not there yet and connects again when the connection is lost.  *)
(***************************************************************************)
EXTENDS Integers, Sequences

CONSTANTS MaxFaults,   \* bound: times the server goes down
          MaxUpdates   \* bound: updates by others

VARIABLES
  server,      \* "up", "loading" or "down"
  notify,      \* notify-keyspace-events is set; a restart forgets it
  present,     \* the data that the call asks for are in the database
  client,      \* the entry of m_redisClient: "none", "open" or "broken"
  channel,     \* the one of keyspace_notification_channels: "none", "open" or "broken"
  messages,    \* unread at the channel: "match" or "other"
  pc,          \* where the caller is
  retry,       \* connect() is to be persistent
  op,          \* the call: "connect", "get", "set" or "exists"
  blocking,    \* the argument of get()
  result,      \* how the last call ended
  faults, updates

envVars == <<server, notify, present, faults, updates>>
vars == <<server, notify, present, client, channel, messages, pc, retry, op, blocking, result, faults, updates>>

Errors == {"system_error", "RedisError", "out_of_range"}

\* Every variable has its type.
TypeOK ==
  /\ server \in {"up", "loading", "down"} /\ notify \in BOOLEAN /\ present \in BOOLEAN
  /\ client \in {"none", "open", "broken"} /\ channel \in {"none", "open", "broken"}
  /\ messages \in Seq({"match", "other"})
  /\ pc \in {"idle", "init", "select", "config", "read", "subscribe", "wait"}
  /\ retry \in BOOLEAN /\ op \in {"connect", "get", "set", "exists"} /\ blocking \in BOOLEAN
  /\ result \in Errors \cup {"none", "connected", "value", "empty", "unavailable"}

Init ==
  /\ server = "up" /\ notify = FALSE /\ present \in BOOLEAN /\ faults = 0 /\ updates = 0
  /\ client = "none" /\ channel = "none" /\ messages = <<>>
  /\ pc = "idle" /\ retry = FALSE /\ op = "connect" /\ blocking = FALSE /\ result = "none"

Broken(c) == IF c = "none" THEN "none" ELSE "broken"
-------------------------------------------------------------------------------
(***************************************************************************)
(* The server and its other clients.                                       *)
(***************************************************************************)
ServerDown ==
  /\ server # "down" /\ faults < MaxFaults
  /\ server' = "down" /\ faults' = faults + 1 /\ notify' = FALSE
  /\ client' = Broken(client) /\ channel' = Broken(channel)
  /\ UNCHANGED <<present, messages, pc, retry, op, blocking, result, updates>>

ServerUp ==
  /\ server # "up"
  /\ server' = IF server = "down" THEN "loading" ELSE "up"
  /\ UNCHANGED <<notify, present, client, channel, messages, pc, retry, op, blocking, result, faults, updates>>

\* Another client changes the data, or something else.
Update(m) ==
  /\ server = "up" /\ updates < MaxUpdates
  /\ updates' = updates + 1
  /\ present' = IF m = "match" THEN ~present ELSE present
  /\ messages' = IF channel = "open" /\ notify THEN Append(messages, m) ELSE messages
  /\ UNCHANGED <<server, notify, client, channel, pc, retry, op, blocking, result, faults>>
-------------------------------------------------------------------------------
(***************************************************************************)
(* The caller.                                                             *)
(***************************************************************************)
Return(r) == pc' = "idle" /\ result' = r

\* connect() has succeeded; inside blockable() the request is made again.
Connected == IF op # "connect" THEN pc' = "read" /\ UNCHANGED result ELSE Return("connected")

connect(r) ==
  /\ pc = "idle"
  /\ pc' = "init" /\ retry' = r /\ op' = "connect" /\ result' = "none"
  /\ UNCHANGED <<envVars, client, channel, messages, blocking>>

\* A failed connect() closes the client only if it is persistent, and tries again only after
\* a RedisError; another exception leaves it.
Caught == IF retry THEN pc' = "init" /\ client' = "none" /\ UNCHANGED result
                   ELSE Return("RedisError") /\ UNCHANGED client

\* RedisContext::initContext(): a server that cannot be reached is a system_error.
initContext ==
  /\ pc = "init"
  /\ IF server = "down" THEN Return("system_error") ELSE pc' = "select" /\ UNCHANGED result
  /\ UNCHANGED <<envVars, client, channel, messages, retry, op, blocking>>

\* DBConnector::select(), the rest of the constructor.  emplace() constructs
\* the connector before it looks whether there is one already, which it keeps.
select ==
  /\ pc = "select"
  /\ IF server = "down" THEN Caught
     ELSE IF client = "none" THEN client' = "open" /\ pc' = "config" /\ UNCHANGED result
     ELSE Connected /\ UNCHANGED client
  /\ UNCHANGED <<envVars, channel, messages, retry, op, blocking>>

\* CONFIG SET notify-keyspace-events.
config_set ==
  /\ pc = "config"
  /\ IF client = "broken" \/ server = "down" THEN Caught /\ UNCHANGED notify
     ELSE /\ notify' = TRUE
          /\ Connected /\ UNCHANGED client
  /\ UNCHANGED <<server, present, faults, updates, channel, messages, retry, op, blocking>>

close ==
  /\ pc = "idle"
  /\ client' = "none"
  /\ UNCHANGED <<envVars, channel, messages, pc, retry, op, blocking, result>>

\* get(), get_all() or keys(), through blockable().
get(b) ==
  /\ pc = "idle"
  /\ pc' = "read" /\ op' = "get" /\ blocking' = b /\ result' = "none"
  /\ UNCHANGED <<envVars, client, channel, messages, retry>>

\* set() and del() go through blockable() too, but are never short of data.
set ==
  /\ pc = "idle"
  /\ pc' = "read" /\ op' = "set" /\ blocking' = FALSE /\ result' = "none"
  /\ UNCHANGED <<envVars, client, channel, messages, retry>>

\* exists(), hexists(), scan(), publish() and hmset() do without.
exists ==
  /\ pc = "idle"
  /\ Return(IF client = "none" THEN "out_of_range" ELSE IF client = "broken" \/ server = "down" THEN "RedisError"
            ELSE IF server = "loading" THEN "system_error" ELSE "value")
  /\ op' = "exists"
  /\ UNCHANGED <<envVars, client, channel, messages, retry, blocking>>

\* The entry of _connection_error_handler(): the client is closed and connect() is called
\* with retry.
_connection_error_handler ==
  /\ client' = "none" /\ retry' = TRUE /\ pc' = "init"
  /\ UNCHANGED <<envVars, channel, messages, op, blocking, result>>

_unsubscribe_keyspace_notification == channel' = "none" /\ messages' = <<>>

\* One turn of blockable(): the request, and what is done with its outcome.
blockable ==
  /\ pc = "read"
  /\ IF client = "none"
     THEN Return("out_of_range") /\ UNCHANGED <<envVars, client, channel, messages, retry, op, blocking>>
     ELSE IF client = "broken" \/ server = "down" THEN _connection_error_handler
     ELSE /\ IF server = "loading" THEN Return("system_error") /\ UNCHANGED <<channel, messages>>
             ELSE IF present \/ op = "set" THEN Return("value") /\ _unsubscribe_keyspace_notification
             ELSE IF ~blocking THEN Return("empty") /\ UNCHANGED <<channel, messages>>
             ELSE /\ pc' = IF channel = "none" THEN "subscribe" ELSE "wait"
                  /\ UNCHANGED <<result, channel, messages>>
          /\ present' = (present \/ (op = "set" /\ server = "up"))
          /\ UNCHANGED <<server, notify, faults, updates, client, retry, op, blocking>>

\* Mutant: the data are not read again after the subscription.
subscribeThenWait ==
  /\ pc = "subscribe"
  /\ IF server = "down" THEN Return("system_error") /\ UNCHANGED channel
     ELSE channel' = "open" /\ pc' = "wait" /\ UNCHANGED result
  /\ UNCHANGED <<envVars, client, messages, retry, op, blocking>>

\* A new connection for the notifications, then the data are read again; an
\* exception here is thrown from a handler and leaves blockable().
_subscribe_keyspace_notification ==
  /\ pc = "subscribe"
  /\ IF server = "down" THEN Return("system_error") /\ UNCHANGED channel
     ELSE channel' = "open" /\ pc' = "read" /\ UNCHANGED result
  /\ UNCHANGED <<envVars, client, messages, retry, op, blocking>>

\* One message, or the loss of the channel, which is not forgotten.
_unavailable_data_handler ==
  /\ pc = "wait"
  /\ IF channel = "broken" THEN Return("RedisError") /\ UNCHANGED messages
     ELSE /\ messages # <<>>
          /\ messages' = Tail(messages)
          /\ pc' = IF Head(messages) = "match" THEN "read" ELSE "wait"
          /\ UNCHANGED result
  /\ UNCHANGED <<envVars, client, channel, retry, op, blocking>>

\* Mutant: the limit is looked at only when a message has come.
waitEndsOnMessage ==
  /\ pc = "wait" /\ channel = "open" /\ messages # <<>>
  /\ Return("unavailable")
  /\ _unsubscribe_keyspace_notification
  /\ UNCHANGED <<envVars, client, retry, op, blocking>>

\* PUB_SUB_MAXIMUM_DATA_WAIT is over; it is checked before each message.
waitEnds ==
  /\ pc = "wait" /\ channel = "open"
  /\ Return("unavailable")
  /\ _unsubscribe_keyspace_notification
  /\ UNCHANGED <<envVars, client, retry, op, blocking>>
-------------------------------------------------------------------------------
Steps == \/ initContext \/ select \/ config_set \/ blockable \/ _subscribe_keyspace_notification
         \/ _unavailable_data_handler \/ waitEnds

Next ==
  \/ ServerDown \/ ServerUp \/ \E m \in {"match", "other"} : Update(m)
  \/ \E b \in BOOLEAN : connect(b) \/ get(b)
  \/ set \/ exists \/ close \/ Steps

Spec == Init /\ [][Next]_vars
FairSpec == Spec /\ WF_vars(Steps)
-------------------------------------------------------------------------------
\* blockable() does not sleep through an update: while it waits, data that are
\* there have a notification that it has still to read ("avoiding race condition").
NoMissedUpdate == pc = "wait" /\ channel = "open" /\ notify /\ present => \E i \in DOMAIN messages : messages[i] = "match"

\* A call that ended with its data, or for want of them, leaves no subscription behind
\* that would fill up with notifications.
NothingSubscribed == pc = "idle" /\ op = "get" /\ result \in {"value", "unavailable"} => channel = "none"

\* Every call returns or throws: the wait for data has a limit, and a lost
\* connection does not keep the caller for ever.
CallsReturn == pc # "idle" ~> pc = "idle"

\* connect() with retry, and the reconnect of a blocking call, do not give up: "Keep
\* reconnecting to Database 'dbId' until success".
PersistentConnect == [][retry /\ pc \in {"init", "select", "config"} => result' \notin Errors]_vars
================================================================================
