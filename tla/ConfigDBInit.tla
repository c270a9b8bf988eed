----------------------------- MODULE ConfigDBInit -----------------------------
(***************************************************************************)
(* db_connect() of ConfigDBConnector with wait_for_init: applications wait *)
(* until the service that loads the configuration has set                  *)
(* CONFIG_DB_INITIALIZED.  The flag is read, then its keyspace events are  *)
(* subscribed to, and it is read again when one comes.                     *)
(***************************************************************************)
EXTENDS Integers, Sequences

CONSTANTS Client, MaxLoads   \* bound: times the configuration is loaded

VARIABLES
  indicator,   \* CONFIG_DB_INITIALIZED is there and not empty
  loads,
  pc,          \* of a client: "idle", "get", "psubscribe", "listen", "again", "punsubscribe", "done"
  subscribed,  \* of a client: its connection receives the events
  queue,       \* of a client: the number of messages not read
  wasSet       \* of a client: the flag has been set since it called

vars == <<indicator, loads, pc, subscribed, queue, wasSet>>

\* Every variable has its type.
TypeOK ==
  /\ indicator \in BOOLEAN /\ loads \in 0..MaxLoads
  /\ pc \in [Client -> {"idle", "get", "psubscribe", "listen", "again", "punsubscribe", "done"}]
  /\ subscribed \in [Client -> BOOLEAN] /\ queue \in [Client -> Nat] /\ wasSet \in [Client -> BOOLEAN]

Init ==
  /\ indicator \in BOOLEAN /\ loads = 0
  /\ pc = [c \in Client |-> "idle"] /\ subscribed = [c \in Client |-> FALSE]
  /\ queue = [c \in Client |-> 0] /\ wasSet = [c \in Client |-> FALSE]

\* The flag is written; its events go to the clients that are subscribed.
Flag(b) ==
  /\ indicator' = b
  /\ queue' = [c \in Client |-> IF subscribed[c] THEN queue[c] + 1 ELSE queue[c]]
  /\ wasSet' = [c \in Client |-> wasSet[c] \/ (b /\ pc[c] # "idle")]
  /\ UNCHANGED <<pc, subscribed>>

\* The configuration is (re)loaded: the flag is removed, and set at the end.
Load == indicator /\ loads < MaxLoads /\ loads' = loads + 1 /\ Flag(FALSE)
Loaded == ~indicator /\ Flag(TRUE) /\ UNCHANGED loads

Goes(c, from, to) == pc[c] = from /\ pc' = [pc EXCEPT ![c] = to]

\* connect(wait_for_init = TRUE), up to the request.
db_connect(c) ==
  /\ Goes(c, "idle", "get")
  /\ wasSet' = [wasSet EXCEPT ![c] = indicator]
  /\ UNCHANGED <<indicator, loads, subscribed, queue>>

\* client.get(INIT_INDICATOR)
get(c) ==
  /\ Goes(c, "get", IF indicator THEN "done" ELSE "psubscribe")
  /\ UNCHANGED <<indicator, loads, subscribed, queue, wasSet>>

\* The reply to PSUBSCRIBE is a message as well, of another type.
psubscribe(c) ==
  /\ Goes(c, "psubscribe", "listen")
  /\ subscribed' = [subscribed EXCEPT ![c] = TRUE]
  /\ UNCHANGED <<indicator, loads, queue, wasSet>>

\* listen_message() returns a pmessage.
listen_message(c) ==
  /\ queue[c] > 0 /\ Goes(c, "listen", "again")
  /\ queue' = [queue EXCEPT ![c] = @ - 1]
  /\ UNCHANGED <<indicator, loads, subscribed, wasSet>>

\* client.get(INIT_INDICATOR) in the loop.
get_again(c) ==
  /\ Goes(c, "again", IF indicator THEN "punsubscribe" ELSE "listen")
  /\ UNCHANGED <<indicator, loads, subscribed, queue, wasSet>>

\* RedisSelect::punsubscribe() sends PSUBSCRIBE; the connection ends with the PubSub.
punsubscribe(c) ==
  /\ Goes(c, "punsubscribe", "done")
  /\ subscribed' = [subscribed EXCEPT ![c] = FALSE] /\ queue' = [queue EXCEPT ![c] = 0]
  /\ UNCHANGED <<indicator, loads, wasSet>>

Step(c) == get(c) \/ psubscribe(c) \/ listen_message(c) \/ get_again(c) \/ punsubscribe(c)

Next == Load \/ Loaded \/ \E c \in Client : db_connect(c) \/ Step(c)

Spec == Init /\ [][Next]_vars
FairSpec == Spec /\ WF_vars(Loaded) /\ \A c \in Client : WF_vars(Step(c))
-------------------------------------------------------------------------------
\* connect() returns only after the flag was set at some time since the call.
NotBeforeInitialized == \A c \in Client : pc[c] = "done" => wasSet[c]

\* connect() waits for the flag, and returns when the configuration has been
\* loaded ("wait for CONFIG_DB_INITIALIZED flag if true").
ConnectReturns == \A c \in Client : pc[c] = "get" ~> pc[c] = "done"
===============================================================================
