------------------------------- MODULE MCClients -------------------------------
(***************************************************************************)
(* Instances, for TLC, of SubscriberTable and of the other clients that    *)
(* wait for something: a database, an event, a thread, the kernel.  They   *)
(* have no state in common: "part" says which one moves in a behaviour,    *)
(* and the others stay in one of their initial states.                     *)
(***************************************************************************)
EXTENDS SubscriberTable, TLC

VARIABLES
  part,
  \* ConfigDBInit
  indicator, loads, connectPc, subscribed, connectQueue, wasSet,
  \* DBInterface
  server, notify, present, client, channel, messages, interfacePc, retry, op, blocking, interfaceResult, faults,
  updates,
  \* RestartWaiter
  system, fast, knobChanges, waiter, kind, waitEvents, waitBuffer, waitExpired, waitResult, over,
  \* Logger
  level, output, observers, m_currentPrios, told, link, logPc, native, prio, doUpdate, thread, stopEvent,
  logPending, koKey, koValue, sets, tool,
  \* DbCli
  options, configOk, up, refuses, downs, cliPc, worker, response, next, failed, performed, out, code,
  \* Netlink
  kernel, netQueue, member, overflow, parsed, raw, netPc, handled, everParsed, alwaysParsed, alwaysRaw, cache,
  asking, step, answer, had, refilled, netChanges,
  \* Timer
  m_interval, m_running, m_mutex, armed, ticks, timerPc, reader, reported, missed, fired, refused, calls

subscriberVars == <<table, socket, subscriber, scan, m_keyspace_event_buffer, m_buffer, m_ready, vkco, seen>>
connectVars == <<indicator, loads, connectPc, subscribed, connectQueue, wasSet>>
interfaceVars == <<server, notify, present, client, channel, messages, interfacePc, retry, op, blocking,
                   interfaceResult, faults, updates>>
waiterVars == <<system, fast, knobChanges, waiter, kind, waitEvents, waitBuffer, waitExpired, waitResult, over>>
loggerVars == <<level, output, observers, m_currentPrios, told, link, logPc, native, prio, doUpdate, thread,
                stopEvent, logPending, koKey, koValue, sets, tool>>
cliVars == <<options, configOk, up, refuses, downs, cliPc, worker, response, next, failed, performed, out,
             code>>
netlinkVars == <<kernel, netQueue, member, overflow, parsed, raw, netPc, handled, everParsed, alwaysParsed,
                 alwaysRaw, cache, asking, step, answer, had, refilled, netChanges>>
timerVars == <<m_interval, m_running, m_mutex, armed, ticks, timerPc, reader, reported, missed, fired, refused,
               calls>>
allVars == <<part, subscriberVars, connectVars, interfaceVars, waiterVars, loggerVars, cliVars, netlinkVars, timerVars>>
-------------------------------------------------------------------------------
\* Two clients of CONFIG_DB, and a configuration that is loaded and loaded again.
Connect == INSTANCE ConfigDBInit WITH
  Client <- {"c", "d"}, MaxLoads <- 2, pc <- connectPc, queue <- connectQueue

\* A server that fails twice.
Interface == INSTANCE DBInterface WITH
  MaxFaults <- 2, MaxUpdates <- 2, pc <- interfacePc, result <- interfaceResult

Waiter == INSTANCE RestartWaiter WITH
  MaxChanges <- 3, changes <- knobChanges, events <- waitEvents, buffer <- waitBuffer, expired <- waitExpired, result <- waitResult

\* An ordinary component and one of SAI.
Log == INSTANCE Logger WITH
  Component <- {"c", "s"}, SaiComponent <- {"s"}, Level <- {"N", "D"}, DefaultLevel <- "N", SaiDefaultLevel <-
  "N", Relink <- FALSE, MaxSets <- 2, pc <- logPc, pending <- logPending

\* Two instances.
Cli == INSTANCE DbCli WITH
  DbList <- <<"a", "b">>, Unknown <- "x", MaxDowns <- 2, pc <- cliPc

\* Two interfaces, of which either may have the name.
Net == INSTANCE Netlink WITH
  Index <- {1, 2}, Name <- {"x"}, QueueSize <- 2, MaxChanges <- 4, queue <- netQueue, pc <- netPc, changes <-
  netChanges

\* A disarming, a good and an invalid interval.
Timer == INSTANCE Timer WITH
  Interval <- {0, 1, 2}, Invalid <- 2, MaxCalls <- 4, expired <- ticks, pc <- timerPc

\* The part that moves begins in any of its initial states, the others in one.
PartsInit ==
  /\ part \in {"subscriber", "connect", "interface", "waiter", "logger", "cli", "netlink", "timer"}
  /\ part # "subscriber" => table = [k \in Key |-> EmptyHash]
  /\ Init
  /\ part # "connect" => indicator = FALSE
  /\ Connect!Init
  /\ part # "interface" => present = FALSE
  /\ Interface!Init
  /\ part # "waiter" => system = "none" /\ fast = "none"
  /\ Waiter!Init
  /\ part # "logger" => level = [c \in {"c", "s"} |-> "none"] /\ link = "c" /\ koKey = "c"
  /\ Log!Init
  /\ part # "cli" => options = [help |-> FALSE, namespace |-> FALSE, op |-> "", cmd |-> FALSE, error |-> TRUE] /\ configOk = TRUE
                    /\ up = [d \in {"a", "b"} |-> TRUE] /\ refuses = [d \in {"a", "b"} |-> FALSE]
  /\ Cli!Init
  /\ part # "netlink" => kernel = [i \in {1, 2} |-> "none"]
  /\ Net!Init
  /\ part # "timer" => m_interval = 0
  /\ Timer!Init

SubscriberPart(A) ==
  part = "subscriber" /\ A /\ UNCHANGED <<part, connectVars, interfaceVars, waiterVars, loggerVars, cliVars, netlinkVars, timerVars>>
ConnectPart(A) ==
  part = "connect" /\ A /\ UNCHANGED <<part, subscriberVars, interfaceVars, waiterVars, loggerVars, cliVars, netlinkVars, timerVars>>
InterfacePart(A) ==
  part = "interface" /\ A /\ UNCHANGED <<part, subscriberVars, connectVars, waiterVars, loggerVars, cliVars, netlinkVars, timerVars>>
WaiterPart(A) ==
  part = "waiter" /\ A /\ UNCHANGED <<part, subscriberVars, connectVars, interfaceVars, loggerVars, cliVars, netlinkVars, timerVars>>
LoggerPart(A) ==
  part = "logger" /\ A /\ UNCHANGED <<part, subscriberVars, connectVars, interfaceVars, waiterVars, cliVars, netlinkVars, timerVars>>
CliPart(A) ==
  part = "cli" /\ A /\ UNCHANGED <<part, subscriberVars, connectVars, interfaceVars, waiterVars, loggerVars, netlinkVars, timerVars>>
NetlinkPart(A) ==
  part = "netlink" /\ A /\ UNCHANGED <<part, subscriberVars, connectVars, interfaceVars, waiterVars, loggerVars, cliVars, timerVars>>
TimerPart(A) ==
  part = "timer" /\ A /\ UNCHANGED <<part, subscriberVars, connectVars, interfaceVars, waiterVars, loggerVars, cliVars, netlinkVars>>

PartsNext ==
  \/ SubscriberPart(Next) \/ ConnectPart(Connect!Next) \/ InterfacePart(Interface!Next) \/ WaiterPart(Waiter!Next)
  \/ LoggerPart(Log!Next) \/ CliPart(Cli!Next) \/ NetlinkPart(Net!Next) \/ TimerPart(Timer!Next)

PartsSpec == PartsInit /\ [][PartsNext]_allVars

\* The fairness of the modules.  Only one part moves, so an action that is a step of one part or
\* of another is as fair as each of them.
PartsFairSpec ==
  /\ PartsSpec
  /\ WF_allVars(\/ SubscriberPart(Follow) \/ InterfacePart(Interface!Steps) \/ WaiterPart(Waiter!WaiterStep)
                \/ LoggerPart(Log!Main) \/ CliPart(Cli!Process) \/ NetlinkPart(Net!Reader) \/ TimerPart(Timer!start))
  /\ WF_allVars(LoggerPart(Log!Thread) \/ NetlinkPart(Net!Asker) \/ TimerPart(Timer!stop))
  /\ SF_allVars(LoggerPart(Log!settingThreadStop))
  /\ WF_allVars(TimerPart(Timer!Expire)) /\ WF_allVars(TimerPart(Timer!Readable)) /\ WF_allVars(TimerPart(Timer!readData))
-------------------------------------------------------------------------------
\* Every variable of the parts has its type.
PartsTypeOK ==
  CASE part = "subscriber" -> TypeOK
    [] part = "connect" -> Connect!TypeOK
    [] part = "interface" -> Interface!TypeOK
    [] part = "waiter" -> Waiter!TypeOK
    [] part = "logger" -> Log!TypeOK
    [] part = "cli" -> Cli!TypeOK
    [] part = "netlink" -> Net!TypeOK
    [] part = "timer" -> Timer!TypeOK

\* Who waits is told the truth: connect() returns only after the flag was set, blockable() does not
\* sleep through an update and leaves no subscription behind, and a waiter returns TRUE only if the
\* reboot was over, or the key as wanted, at some time.
WaitersTruthful ==
  /\ part = "connect" => Connect!NotBeforeInitialized
  /\ part = "interface" => Interface!NoMissedUpdate /\ Interface!NothingSubscribed
  /\ part = "waiter" => Waiter!TrueMeansOver

\* Logger: at rest every linked component logs at the level of the table.
LevelsFollow == part = "logger" => Log!LevelsFollow

\* DbCli: "OK" and "PONG" are printed only if all did it, and no thread works when the process has
\* ended.
CliTruthful == part = "cli" => Cli!OkMeansAll /\ Cli!NothingAfterExit

\* Netlink: a message goes to the handler that was there all the time, and a name of the link cache
\* was that of the interface.  Timer: every expiration is counted once.
KernelTruthful ==
  /\ part = "netlink" => Net!RightHandler /\ Net!NameWasTrue
  /\ part = "timer" => Timer!CountsTicks

\* Every wait ends: calls of DBInterface return or throw, the end of a reboot wakes the waiter,
\* linkToDbNative() and restartLogger() return, sonic-db-cli exits, the netlink socket is read to
\* the end, calls of the timer return until an interval is refused, and expirations are reported.
WaitsEnd ==
  /\ Interface!CallsReturn
  /\ Waiter!WakesUp
  /\ Log!RestartReturns
  /\ <>(part # "cli" \/ cliPc = "exit")
  /\ Net!SocketDrained
  /\ Timer!TimerCallsReturn /\ Timer!TicksReported
===============================================================================
