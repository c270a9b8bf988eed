-------------------------------- MODULE MCZmq --------------------------------
(***************************************************************************)
(* Instances of Zmq, ZmqSync and AsyncDBUpdater for TLC.  The three have   *)
(* no state in common: "part" says which one moves in a behaviour, and the *)
(* others stay as they begin.                                              *)
(***************************************************************************)
EXTENDS Zmq, TLC

CONSTANTS Key, Field, Value, NoValue, MaxQueue,
          MaxRequests, MaxTimeouts, MaxServers

ASSUME PartsAssumption == {MaxQueue, MaxRequests, MaxTimeouts, MaxServers} \subseteq Nat \ {0}

VARIABLES part,
          reqSocket, request, reply, asked, answered, refused, timeouts, repSocket, pollThread,
          m_allowZmqPoll, m_runThread, pending, owner, servers,
          m_dbUpdateDataQueue, u_runThread, u_owner, worker, count, table, expected

Sync == INSTANCE ZmqSync
Updater == INSTANCE AsyncDBUpdater WITH m_runThread <- u_runThread, owner <- u_owner, Destroyed <- TRUE

syncVars == <<reqSocket, request, reply, asked, answered, refused, timeouts, repSocket, pollThread,
              m_allowZmqPoll, m_runThread, pending, owner, servers>>
updaterVars == <<m_dbUpdateDataQueue, u_runThread, u_owner, worker, count, table, expected>>
allVars == <<part, vars, syncVars, updaterVars>>

AllInit == part \in {"zmq", "sync", "updater"} /\ Init /\ Sync!Init /\ Updater!Init

ZmqPart(A) == part = "zmq" /\ A /\ UNCHANGED <<part, syncVars, updaterVars>>
SyncPart(A) == part = "sync" /\ A /\ UNCHANGED <<part, vars, updaterVars>>
UpdaterPart(A) == part = "updater" /\ A /\ UNCHANGED <<part, vars, syncVars>>

AllNext == ZmqPart(Next) \/ SyncPart(Sync!Next) \/ UpdaterPart(Updater!Next)

SafeSpec == AllInit /\ [][AllNext]_allVars

\* The fairness of each part.
AllSpec ==
  /\ SafeSpec
  /\ WF_allVars(ZmqPart(Thread)) /\ \A c \in Client : SF_allVars(ZmqPart(Receive(c)))
  /\ \A k \in Consumer : WF_allVars(ZmqPart(SelectReturns(k))) /\ WF_allVars(ZmqPart(Pop(k)))
  /\ WF_allVars(UpdaterPart(Updater!Worker)) /\ WF_allVars(UpdaterPart(Updater!UpdateNotify))
  /\ WF_allVars(UpdaterPart(Updater!StopNotify)) /\ WF_allVars(UpdaterPart(Updater!Join))

\* Every variable of the three parts has its type.
AllTypeOK == TypeOK /\ Sync!TypeOK /\ Updater!TypeOK

\* Operations sent over ZMQ arrive once and in order, at consumers that are alive and will be told,
\* and at the updaters of both sides; table and queue of an updater amount to its calls.
OperationsInOrder ==
  InOrderOnce /\ HandlerAlive /\ NoneStranded /\ UpdatersFollow /\ Updater!UpdatesInOrder

\* ZmqSync: a reply belongs to the request sent last, and the poll thread is off the socket while a
\* reply is due.
OneToOne == Sync!ReplyMatches /\ Sync!SocketHandedOver

\* What is queued for a consumer is handed out, and a change queued while the thread of an updater
\* waits is taken up.
EventuallyTaken == Delivered /\ Updater!WaitingThreadWrites
==============================================================================
