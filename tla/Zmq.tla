---------------------------------- MODULE Zmq ----------------------------------
(***************************************************************************)
(* State tables over ZMQ (zmqclient.cpp, zmqserver.cpp,                    *)
(* zmqproducerstatetable.cpp, zmqconsumerstatetable.cpp) with PUSH and     *)
(* PULL sockets: producers send batches of operations, the poll thread of  *)
(* the server hands each one to the consumer registered for its table, and *)
(* the application takes them from the consumer's queue with Select and    *)
(* pops().  A change also goes to the AsyncDBUpdater of either side.       *)
(***************************************************************************)
EXTENDS Integers, Sequences

CONSTANTS Client, Consumer, NoHandler,
          MQ_WATERMARK,   \* messages that a socket queues
          MQ_MAX_RETRY,
          m_popBatchSize,
          MaxOps, MaxBatch, MaxFaults   \* bounds: operations of a client, per call, faults

ASSUME ZmqAssumption ==
  /\ {MQ_WATERMARK, m_popBatchSize, MaxOps, MaxBatch} \subseteq Nat \ {0}
  /\ {MQ_MAX_RETRY, MaxFaults} \subseteq Nat
  /\ NoHandler \notin Consumer

ASSUME SomeConsumer == Consumer # {}

VARIABLES
  m_sendbuffer,   \* a client's batch: <<>> when no call of sendMsg is under way
  tries,          \* attempts so far
  m_connected,
  unwritten,      \* a producer's operations that are sent and not yet with its updater
  pipe,           \* batches on the way from a client to the server
  server,         \* "none", "running" or "stopping" (m_runThread is FALSE)
  thread,         \* the poll thread: "none", "top", "poll", "dispatch", "call", "update"
  batch,          \* the operations it has received and not yet queued
  m_handlers,     \* the handler of the table
  callee,         \* the handler that is being called, under the registry's mutex
  consumer,       \* the consumers: "none", "live", "detached" or "destroyed"
  m_received,     \* a consumer's m_receivedOperationQueue
  fd,             \* its m_selectableEvent is signalled
  ready,          \* it is in m_ready of the application's Select
  app,            \* the application: at select(), or in pops() with counts
  faults,         \* bound: signals, broken connections and lost messages
  made,           \* history: operations of a client so far
  accepted,       \* history: operations of which sendMsg has returned
  written,        \* history: operations a producer's updater has got
  queued,         \* history: operations put into a consumer's queue
  updated,        \* history: operations a consumer's updater has got
  popped,         \* history: operations the application has got
  lost            \* history: accepted operations that were dropped

clientVars == <<m_sendbuffer, tries, m_connected, unwritten, made, accepted, written>>
serverVars == <<server, thread, batch, callee>>
appVars == <<ready, app, popped>>
vars == <<clientVars, pipe, serverVars, m_handlers, consumer, m_received, fd, appVars, faults, queued, updated, lost>>

Op == Client \X (1..MaxOps)
AtSelect == [count |-> 0, limit |-> 0]

\* Types; pops() never means to take more than was received or than its batch size.
TypeOK ==
  /\ m_sendbuffer \in [Client -> Seq(Op)] /\ unwritten \in [Client -> Seq(Op)]
  /\ tries \in [Client -> 0..MQ_MAX_RETRY]
  /\ m_connected \in [Client -> BOOLEAN]
  /\ pipe \in [Client -> Seq(Seq(Op))]
  /\ server \in {"none", "running", "stopping"}
  /\ thread \in {"none", "top", "poll", "dispatch", "call", "update"}
  /\ batch \in Seq(Op)
  /\ {m_handlers, callee} \subseteq Consumer \cup {NoHandler}
  /\ consumer \in [Consumer -> {"none", "live", "detached", "destroyed"}]
  /\ m_received \in [Consumer -> Seq(Op)]
  /\ {fd, ready} \subseteq [Consumer -> BOOLEAN]
  /\ app \in [Consumer -> [count : Nat, limit : 0..m_popBatchSize]]
  /\ \A k \in Consumer : app[k].limit <= Len(m_received[k])
  /\ faults \in 0..MaxFaults
  /\ made \in [Client -> 0..MaxOps]
  /\ {accepted, written} \subseteq [Client -> Seq(Op)]
  /\ {queued, updated, popped} \subseteq Seq(Op)
  /\ lost \subseteq Op

Init ==
  /\ m_sendbuffer = [c \in Client |-> <<>>] /\ unwritten = [c \in Client |-> <<>>]
  /\ tries = [c \in Client |-> 0]
  /\ m_connected = [c \in Client |-> TRUE]
  /\ pipe = [c \in Client |-> <<>>]
  /\ server = "none" /\ thread = "none" /\ batch = <<>>
  /\ m_handlers = NoHandler /\ callee = NoHandler
  /\ consumer = [k \in Consumer |-> "none"]
  /\ m_received = [k \in Consumer |-> <<>>]
  /\ fd = [k \in Consumer |-> FALSE] /\ ready = [k \in Consumer |-> FALSE]
  /\ app = [k \in Consumer |-> AtSelect]
  /\ faults = 0
  /\ made = [c \in Client |-> 0]
  /\ accepted = [c \in Client |-> <<>>] /\ written = [c \in Client |-> <<>>]
  /\ queued = <<>> /\ updated = <<>> /\ popped = <<>> /\ lost = {}

Elements(s) == {s[i] : i \in DOMAIN s}

\* The operations of a sequence of batches.
Carried(p) == UNION {Elements(p[b]) : b \in DOMAIN p}
-------------------------------------------------------------------------------
(***************************************************************************)
(* The client and the producer.                                            *)
(***************************************************************************)
\* set, del and their batched forms, and send: one message for the call.
SendMsg(c, n) ==
  /\ m_sendbuffer[c] = <<>> /\ unwritten[c] = <<>>
  /\ made[c] + n <= MaxOps
  /\ m_sendbuffer' = [m_sendbuffer EXCEPT ![c] = [i \in 1..n |-> <<c, made[c] + i>>]]
  /\ made' = [made EXCEPT ![c] = @ + n]
  /\ tries' = [tries EXCEPT ![c] = 0]
  /\ UNCHANGED <<m_connected, unwritten, accepted, written, pipe, serverVars, m_handlers, consumer, m_received,
                 fd, appVars, faults, queued, updated, lost>>

\* Mutant: a full socket drops the batch and the call returns.
SendSucceedsFull(c) ==
  /\ m_sendbuffer[c] # <<>> /\ m_connected[c]
  /\ pipe' = [pipe EXCEPT ![c] = IF Len(@) < MQ_WATERMARK THEN Append(@, m_sendbuffer[c]) ELSE @]
  /\ accepted' = [accepted EXCEPT ![c] = @ \o m_sendbuffer[c]]
  /\ unwritten' = [unwritten EXCEPT ![c] = m_sendbuffer[c]]
  /\ m_sendbuffer' = [m_sendbuffer EXCEPT ![c] = <<>>]
  /\ UNCHANGED <<tries, m_connected, made, written, serverVars, m_handlers, consumer, m_received, fd, appVars,
                 faults, queued, updated, lost>>

\* zmq_send succeeds: the call returns and the updater comes next.
SendSucceeds(c) ==
  /\ m_sendbuffer[c] # <<>> /\ m_connected[c]
  /\ Len(pipe[c]) < MQ_WATERMARK
  /\ pipe' = [pipe EXCEPT ![c] = Append(@, m_sendbuffer[c])]
  /\ accepted' = [accepted EXCEPT ![c] = @ \o m_sendbuffer[c]]
  /\ unwritten' = [unwritten EXCEPT ![c] = m_sendbuffer[c]]
  /\ m_sendbuffer' = [m_sendbuffer EXCEPT ![c] = <<>>]
  /\ UNCHANGED <<tries, m_connected, made, written, serverVars, m_handlers, consumer, m_received, fd, appVars,
                 faults, queued, updated, lost>>

\* EAGAIN, a signal (EINTR) and EFSM are tried again; after the last try, and at
\* ETERM and any other error at once, the call throws and the batch is dropped.
SendFails(c) ==
  /\ m_sendbuffer[c] # <<>>
  /\ \/ Len(pipe[c]) = MQ_WATERMARK /\ UNCHANGED faults
     \/ faults < MaxFaults /\ faults' = faults + 1
  /\ \E again \in BOOLEAN, broken \in BOOLEAN :
       /\ broken => ~again
       /\ faults' = faults => again
       /\ m_connected' = [m_connected EXCEPT ![c] = @ /\ ~broken]
       /\ IF again /\ tries[c] < MQ_MAX_RETRY
          THEN tries' = [tries EXCEPT ![c] = @ + 1] /\ UNCHANGED m_sendbuffer
          ELSE m_sendbuffer' = [m_sendbuffer EXCEPT ![c] = <<>>] /\ UNCHANGED tries
  /\ UNCHANGED <<unwritten, made, accepted, written, pipe, serverVars, m_handlers, consumer, m_received, fd,
                 appVars, queued, updated, lost>>

\* Operations go to the producer's updater one by one.
UpdateProducer(c) ==
  /\ unwritten[c] # <<>>
  /\ written' = [written EXCEPT ![c] = Append(@, Head(unwritten[c]))]
  /\ unwritten' = [unwritten EXCEPT ![c] = Tail(@)]
  /\ UNCHANGED <<m_sendbuffer, tries, m_connected, made, accepted, pipe, serverVars, m_handlers, consumer,
                 m_received, fd, appVars, faults, queued, updated, lost>>

\* connect() of a broken client: with linger 0 the old socket drops what it holds.
Connect(c) ==
  /\ ~m_connected[c] /\ m_sendbuffer[c] = <<>>
  /\ m_connected' = [m_connected EXCEPT ![c] = TRUE]
  /\ pipe' = [pipe EXCEPT ![c] = <<>>]
  /\ lost' = lost \cup Carried(pipe[c])
  /\ UNCHANGED <<m_sendbuffer, tries, unwritten, made, accepted, written, serverVars, m_handlers, consumer,
                 m_received, fd, appVars, faults, queued, updated>>
-------------------------------------------------------------------------------
(***************************************************************************)
(* The server and its registry of handlers.                                *)
(***************************************************************************)
StartMqPollThread == thread' = "top"

\* The constructor, or bind() of a server that binds late.
Bind ==
  /\ server = "none"
  /\ server' = "running"
  /\ StartMqPollThread
  /\ UNCHANGED <<clientVars, pipe, batch, callee, m_handlers, consumer, m_received, fd, appVars, faults,
                 queued, updated, lost>>

\* The destructor sets m_runThread and joins the thread.
DestroyServer ==
  /\ server = "running" /\ faults < MaxFaults
  /\ faults' = faults + 1
  /\ server' = "stopping"
  /\ UNCHANGED <<clientVars, pipe, thread, batch, callee, m_handlers, consumer, m_received, fd, appVars,
                 queued, updated, lost>>

\* Mutant: m_runThread is not looked at.
LoopTopForever ==
  /\ thread = "top"
  /\ thread' = "poll"
  /\ UNCHANGED <<clientVars, pipe, server, batch, callee, m_handlers, consumer, m_received, fd, appVars, faults,
                 queued, updated, lost>>

\* The top of the thread's loop.  When the thread has ended, the sockets are
\* closed: of every client, a prefix of its messages was with the server.
LoopTop ==
  /\ thread = "top"
  /\ IF server = "running" THEN thread' = "poll" /\ UNCHANGED <<server, pipe, lost>>
     ELSE /\ thread' = "none" /\ server' = "none"
          /\ \E n \in [Client -> 0..MQ_WATERMARK] :
               /\ \A c \in Client : n[c] <= Len(pipe[c])
               /\ pipe' = [c \in Client |-> SubSeq(pipe[c], n[c] + 1, Len(pipe[c]))]
               /\ lost' = lost \cup UNION {Carried(SubSeq(pipe[c], 1, n[c])) : c \in Client}
  /\ UNCHANGED <<clientVars, batch, callee, m_handlers, consumer, m_received, fd, appVars, faults, queued, updated>>

PollTimeout ==
  /\ thread = "poll"
  /\ thread' = "top"
  /\ UNCHANGED <<clientVars, pipe, server, batch, callee, m_handlers, consumer, m_received, fd, appVars, faults,
                 queued, updated, lost>>

Receive(c) ==
  /\ thread = "poll" /\ pipe[c] # <<>>
  /\ batch' = Head(pipe[c])
  /\ pipe' = [pipe EXCEPT ![c] = Tail(@)]
  /\ thread' = "dispatch"
  /\ UNCHANGED <<clientVars, server, callee, m_handlers, consumer, m_received, fd, appVars, faults, queued,
                 updated, lost>>

\* dispatch: the mutex of the registry is held until the handler returns.
Dispatch ==
  /\ thread = "dispatch"
  /\ callee' = m_handlers
  /\ IF m_handlers = NoHandler
     THEN thread' = "top" /\ lost' = lost \cup Elements(batch) /\ batch' = <<>>
     ELSE thread' = "call" /\ UNCHANGED <<lost, batch>>
  /\ UNCHANGED <<clientVars, pipe, server, m_handlers, consumer, m_received, fd, appVars, faults, queued, updated>>

\* handleReceivedData: the queue first, under its own mutex ...
PushReceived ==
  /\ thread = "call" /\ batch # <<>>
  /\ m_received' = [m_received EXCEPT ![callee] = Append(@, Head(batch))]
  /\ queued' = Append(queued, Head(batch))
  /\ thread' = "update"
  /\ UNCHANGED <<clientVars, pipe, server, batch, callee, m_handlers, consumer, fd, appVars, faults, updated, lost>>

\* ... then the updater ...
UpdateConsumer ==
  /\ thread = "update"
  /\ updated' = Append(updated, Head(batch))
  /\ batch' = Tail(batch)
  /\ thread' = "call"
  /\ UNCHANGED <<clientVars, pipe, server, callee, m_handlers, consumer, m_received, fd, appVars, faults, queued, lost>>

\* ... and the event at the end.
Notify ==
  /\ thread = "call" /\ batch = <<>>
  /\ fd' = [fd EXCEPT ![callee] = TRUE]
  /\ thread' = "top" /\ callee' = NoHandler
  /\ UNCHANGED <<clientVars, pipe, server, batch, m_handlers, consumer, m_received, appVars, faults,
                 queued, updated, lost>>

\* registerHandler keeps a handler that is there.
RegisterHandler(k) ==
  /\ callee = NoHandler
  /\ m_handlers' = IF m_handlers = NoHandler THEN k ELSE m_handlers

\* A consumer is constructed; in this model the consumers of the table live one
\* after the other.
NewConsumer(k) ==
  /\ consumer[k] = "none" /\ \A j \in Consumer : consumer[j] \in {"none", "destroyed"}
  /\ consumer' = [consumer EXCEPT ![k] = "live"]
  /\ RegisterHandler(k)
  /\ UNCHANGED <<clientVars, pipe, serverVars, m_received, fd, appVars, faults, queued, updated, lost>>

\* removeHandler waits for the mutex.
RemoveHandler(k) ==
  /\ callee = NoHandler
  /\ consumer[k] = "live" /\ app[k] = AtSelect
  /\ m_handlers' = NoHandler
  /\ consumer' = [consumer EXCEPT ![k] = "detached"]
  /\ UNCHANGED <<clientVars, pipe, serverVars, m_received, fd, appVars, faults, queued, updated, lost>>
-------------------------------------------------------------------------------
(***************************************************************************)
(* The consumer, used by one application thread.                           *)
(***************************************************************************)
\* The rest of the destructor.
DestroyConsumer(k) ==
  /\ consumer[k] = "detached"
  /\ consumer' = [consumer EXCEPT ![k] = "destroyed"]
  /\ lost' = lost \cup Elements(m_received[k])
  /\ m_received' = [m_received EXCEPT ![k] = <<>>]
  /\ UNCHANGED <<clientVars, pipe, serverVars, m_handlers, fd, appVars, faults, queued, updated>>

\* Mutant: hasData() is taken for FALSE, and the object stays in m_ready.
SelectReturnsNothing(k) ==
  /\ consumer[k] = "live" /\ app[k] = AtSelect
  /\ fd[k] \/ ready[k]
  /\ fd' = [fd EXCEPT ![k] = FALSE]
  /\ ready' = [ready EXCEPT ![k] = m_received[k] # <<>>]
  /\ UNCHANGED <<clientVars, pipe, serverVars, m_handlers, consumer, m_received, app, popped, faults, queued, updated, lost>>

\* select(): readData(), then the object is handed out if hasData(), and stays
\* ready if hasCachedData(); pops() takes the size of the queue.
SelectReturns(k) ==
  /\ consumer[k] = "live" /\ app[k] = AtSelect
  /\ fd[k] \/ ready[k]
  /\ fd' = [fd EXCEPT ![k] = FALSE]
  /\ ready' = [ready EXCEPT ![k] = m_received[k] # <<>>]
  /\ app' = [app EXCEPT ![k] = [count |-> Len(m_received[k]),
                                limit |-> IF Len(m_received[k]) < m_popBatchSize THEN Len(m_received[k]) ELSE m_popBatchSize]]
  /\ UNCHANGED <<clientVars, pipe, serverVars, m_handlers, consumer, m_received, popped, faults, queued, updated, lost>>

\* pops(): one operation after the other, and at the end the event again if
\* there were more.
Pop(k) ==
  /\ app[k].limit > 0
  /\ popped' = Append(popped, Head(m_received[k]))
  /\ m_received' = [m_received EXCEPT ![k] = Tail(@)]
  /\ app' = [app EXCEPT ![k] = IF @.limit = 1 THEN AtSelect ELSE [count |-> @.count, limit |-> @.limit - 1]]
  /\ fd' = [fd EXCEPT ![k] = @ \/ (app[k].limit = 1 /\ app[k].count > m_popBatchSize)]
  /\ UNCHANGED <<clientVars, pipe, serverVars, m_handlers, consumer, ready, faults, queued, updated, lost>>
-------------------------------------------------------------------------------
Thread == LoopTop \/ PollTimeout \/ (\E c \in Client : Receive(c)) \/ Dispatch \/ PushReceived \/ UpdateConsumer \/ Notify

Next ==
  \/ \E c \in Client : \/ \E n \in 1..MaxBatch : SendMsg(c, n)
                       \/ SendSucceeds(c) \/ SendFails(c) \/ UpdateProducer(c) \/ Connect(c)
  \/ Bind \/ DestroyServer \/ Thread
  \/ \E k \in Consumer : NewConsumer(k) \/ RemoveHandler(k) \/ DestroyConsumer(k) \/ SelectReturns(k) \/ Pop(k)

Spec == Init /\ [][Next]_vars

\* The threads run, and a poll finds a message that is there.
FairSpec == /\ Spec
            /\ WF_vars(Thread) /\ \A c \in Client : SF_vars(Receive(c))
            /\ \A k \in Consumer : WF_vars(SelectReturns(k)) /\ WF_vars(Pop(k))
-------------------------------------------------------------------------------
\* What the thread has received and not yet queued.
Rest == IF thread = "update" THEN Tail(batch) ELSE batch

\* The queues on the way from a client to a consumer's application, the end first.
Way(c, k) == <<popped, m_received[k], Rest>> \o pipe[c]

\* The operations a client was told are sent arrive once and in their order,
\* however batches, retries and pops() interleave, except those that a broken
\* connection, a stop or a missing handler dropped: they are all on the way, each
\* one behind those that the client sent before it.
InOrderOnce ==
  /\ \A c \in Client :
       {o \in UNION {Carried(Way(c, k)) : k \in Consumer} : o[1] = c} = Elements(accepted[c]) \ lost
  /\ \A c \in Client, k \in Consumer :
       \A a, b \in DOMAIN Way(c, k) :
         \A i \in DOMAIN Way(c, k)[a], j \in DOMAIN Way(c, k)[b] :
           LET o == Way(c, k)[a][i]  p == Way(c, k)[b][j]
           IN  (a < b \/ (a = b /\ i < j)) /\ o[1] = c /\ p[1] = c => o[2] < p[2]
  /\ \A j, k \in Consumer : j = k \/ m_received[j] = <<>> \/ m_received[k] = <<>>

\* While the application waits in select(), a queue that is not empty has its
\* event signalled, or a call that will signal it is on.
NoneStranded ==
  \A k \in Consumer :
    consumer[k] = "live" /\ app[k] = AtSelect /\ m_received[k] # <<>> => fd[k] \/ ready[k] \/ callee = k

\* A handler is called only while its consumer is whole.
HandlerAlive == callee # NoHandler => consumer[callee] = "live"

\* The updaters get the operations in the order of the queues, and nothing that
\* was not sent or queued: the tables they write follow the same history.
UpdatersFollow ==
  /\ updated = SubSeq(queued, 1, Len(updated)) /\ Len(queued) - Len(updated) <= 1
  /\ \A c \in Client : accepted[c] = written[c] \o unwritten[c]

\* A server that is destroyed comes to its end, whatever arrives meanwhile.
ServerStops == (server = "stopping") ~> (server = "none")

\* What is queued for a consumer that lives is handed out.
Delivered == \A k \in Consumer : (m_received[k] # <<>>) ~> (m_received[k] = <<>> \/ consumer[k] # "live")
===============================================================================
