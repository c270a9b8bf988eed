-------------------------------- MODULE ZmqSync --------------------------------
(***************************************************************************)
(* The one-to-one mode of ZmqClient and ZmqServer: REQ and REP sockets.    *)
(* After it has handed out a request, the poll thread waits until the      *)
(* application has sent the reply (m_allowZmqPoll); the client waits for   *)
(* the reply with a time-out.  The destructor of the server sets           *)
(* m_allowZmqPoll and m_runThread, and joins the thread.                   *)
(***************************************************************************)
EXTENDS Integers

CONSTANTS MaxRequests, MaxTimeouts, MaxServers   \* bounds

VARIABLES
  reqSocket,        \* the REQ socket: "ready" or "sent" (zmq_send gives EFSM)
  request, reply,   \* the message on the way, 0 if none
  asked,            \* number of the last request that was sent
  answered,         \* number of the reply that wait() returned last
  refused,          \* calls of sendMsg that threw since the last request
  timeouts,         \* calls of wait() that returned FALSE
  repSocket,        \* the REP socket: 0, or the request it has to reply to
  pollThread,       \* "top", "poll", "handle", "allow" or "end"
  m_allowZmqPoll,
  m_runThread,
  pending,          \* the request the application has to answer, 0 if none
  owner,            \* the server's owner: "run", "allow" (in the destructor) or "join"
  servers           \* bound: servers so far

clientSide == <<reqSocket, asked, answered, refused, timeouts>>
serverSide == <<repSocket, pollThread, m_allowZmqPoll, m_runThread, pending, owner, servers>>
vars == <<clientSide, request, reply, serverSide>>

\* Types, and the places of client, poll thread and destructor.
TypeOK ==
  /\ reqSocket \in {"ready", "sent"}
  /\ {request, reply, asked, answered, repSocket, pending} \subseteq 0..MaxRequests
  /\ refused \in 0..1
  /\ timeouts \in 0..MaxTimeouts
  /\ pollThread \in {"top", "poll", "handle", "allow", "end"}
  /\ {m_allowZmqPoll, m_runThread} \subseteq BOOLEAN
  /\ owner \in {"run", "allow", "join"}
  /\ servers \in 1..MaxServers

Init ==
  /\ reqSocket = "ready" /\ asked = 0 /\ answered = 0 /\ refused = 0 /\ timeouts = 0
  /\ request = 0 /\ reply = 0
  /\ repSocket = 0 /\ pollThread = "top" /\ m_allowZmqPoll = TRUE /\ m_runThread = TRUE
  /\ pending = 0 /\ owner = "run" /\ servers = 1
-------------------------------------------------------------------------------
\* sendMsg of the client; the REQ socket refuses a second request, and after
\* MQ_MAX_RETRY more tries the call throws.
SendMsg ==
  \/ /\ reqSocket = "ready" /\ asked < MaxRequests
     /\ reqSocket' = "sent"
     /\ asked' = asked + 1 /\ request' = asked + 1
     /\ refused' = 0
     /\ UNCHANGED <<answered, timeouts, reply, serverSide>>
  \/ /\ reqSocket = "sent" /\ refused = 0
     /\ refused' = 1
     /\ UNCHANGED <<reqSocket, asked, answered, timeouts, request, reply, serverSide>>

\* Mutant: a time-out makes the socket ready for the next request.
WaitTimeoutResets ==
  /\ reqSocket = "sent" /\ timeouts < MaxTimeouts
  /\ timeouts' = timeouts + 1
  /\ reqSocket' = "ready"
  /\ UNCHANGED <<asked, answered, refused, request, reply, serverSide>>

\* wait(): nothing came in m_waitTimeMs.
WaitTimeout ==
  /\ reqSocket = "sent" /\ timeouts < MaxTimeouts
  /\ timeouts' = timeouts + 1
  /\ UNCHANGED <<reqSocket, asked, answered, refused, request, reply, serverSide>>

\* wait(): the reply.
WaitReply ==
  /\ reqSocket = "sent" /\ reply # 0
  /\ answered' = reply /\ reply' = 0
  /\ reqSocket' = "ready"
  /\ UNCHANGED <<asked, refused, timeouts, request, serverSide>>
-------------------------------------------------------------------------------
\* The loop of mqPollThread.
PollTop ==
  /\ pollThread = "top"
  /\ IF m_runThread THEN pollThread' = "poll" /\ m_allowZmqPoll' = FALSE
     ELSE pollThread' = "end" /\ UNCHANGED m_allowZmqPoll
  /\ UNCHANGED <<clientSide, request, reply, repSocket, m_runThread, pending, owner, servers>>

\* A REP socket that owes a reply has nothing to read.
PollReceive ==
  /\ pollThread = "poll"
  /\ request # 0 /\ repSocket = 0
  /\ repSocket' = request /\ request' = 0
  /\ pollThread' = "handle"
  /\ UNCHANGED <<clientSide, reply, m_allowZmqPoll, m_runThread, pending, owner, servers>>

PollNothing ==
  /\ pollThread = "poll"
  /\ pollThread' = "top"
  /\ UNCHANGED <<clientSide, request, reply, repSocket, m_allowZmqPoll, m_runThread, pending, owner, servers>>

HandleRequest ==
  /\ pollThread = "handle"
  /\ pending' = repSocket
  /\ pollThread' = "allow"
  /\ UNCHANGED <<clientSide, request, reply, repSocket, m_allowZmqPoll, m_runThread, owner, servers>>

Allow ==
  /\ pollThread = "allow" /\ m_allowZmqPoll
  /\ pollThread' = "top"
  /\ UNCHANGED <<clientSide, request, reply, repSocket, m_allowZmqPoll, m_runThread, pending, owner, servers>>

\* sendMsg of the server, called by the application.
SendReply ==
  /\ pending # 0 /\ owner = "run"
  /\ reply' = repSocket /\ repSocket' = 0 /\ pending' = 0
  /\ m_allowZmqPoll' = TRUE
  /\ UNCHANGED <<clientSide, request, pollThread, m_runThread, owner, servers>>

\* The destructor.
DestroyAllow ==
  /\ owner = "run" /\ servers < MaxServers
  /\ owner' = "allow" /\ m_allowZmqPoll' = TRUE
  /\ UNCHANGED <<clientSide, request, reply, repSocket, pollThread, m_runThread, pending, servers>>

DestroyRun ==
  /\ owner = "allow"
  /\ owner' = "join" /\ m_runThread' = FALSE
  /\ UNCHANGED <<clientSide, request, reply, repSocket, pollThread, m_allowZmqPoll, pending, servers>>

\* join() returns; then the socket is closed, and a new server takes its place.
DestroyJoin ==
  /\ owner = "join" /\ pollThread = "end"
  /\ servers' = servers + 1
  /\ owner' = "run" /\ pollThread' = "top" /\ m_allowZmqPoll' = TRUE /\ m_runThread' = TRUE
  /\ repSocket' = 0 /\ pending' = 0
  /\ UNCHANGED <<clientSide, request, reply>>
-------------------------------------------------------------------------------
PollThread == PollTop \/ PollReceive \/ PollNothing \/ HandleRequest \/ Allow
Destructor == DestroyRun \/ DestroyJoin

Next == SendMsg \/ WaitTimeout \/ WaitReply \/ PollThread \/ SendReply \/ DestroyAllow \/ Destructor

Spec == Init /\ [][Next]_vars
-------------------------------------------------------------------------------
\* A reply that wait() returns belongs to the request sent last, also after
\* calls that timed out or were refused and after a restart of the server.
ReplyMatches == reqSocket = "ready" => answered = asked

\* While the application owes a reply and the server is not being destroyed, the
\* poll thread is off the socket, which the application's thread uses.
SocketHandedOver == pending # 0 /\ owner = "run" => pollThread = "allow"
===============================================================================
