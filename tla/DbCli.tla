--------------------------------- MODULE DbCli ---------------------------------
(***************************************************************************)
(* One run of sonic-db-cli (sonic-db-cli.cpp): a command for one database, *)
(* or an operation on all databases of a namespace, each in a thread of    *)
(* its own, while Redis instances come and go.  TCP and Unix sockets are alike.*)
(***************************************************************************)
EXTENDS Integers, FiniteSets, Sequences

CONSTANTS DbList,      \* databases of the configuration, in the order of getDbList()
          Unknown,     \* a database that is not configured
          MaxDowns     \* bound: how often an instance changes

VARIABLES
  options,   \* what parseCliArguments() gives: help, namespace, op, cmd; "error" if it throws
  configOk,  \* the configuration files can be read
  up,        \* per database: its instance takes connections
  refuses,   \* per database: its instance answers with an error (LOADING, a failed SAVE)
  downs,
  pc,        \* "start", "connect", "command", "get", "unwind" or "exit"
  worker,    \* per database: "none", "connect", "call" or "done"
  response,  \* per database: "" for success, "message" or "exception"
  next,      \* responses that the main thread has taken
  failed,    \* operation_failed
  performed, \* databases that answered the operation with success
  out, code  \* what is printed, the exit code

vars == <<options, configOk, up, refuses, downs, pc, worker, response, next, failed, performed, out, code>>

Db == {DbList[i] : i \in DOMAIN DbList}
Operation == {"PING", "SAVE", "FLUSHALL"}
Option == [help : BOOLEAN, namespace : BOOLEAN, op : Operation \cup Db \cup {Unknown, ""}, cmd : BOOLEAN, error : {FALSE}]
            \cup [help : {FALSE}, namespace : {FALSE}, op : {""}, cmd : {FALSE}, error : {TRUE}]

\* Every variable has its type.
TypeOK ==
  /\ options \in Option /\ configOk \in BOOLEAN /\ up \in [Db -> BOOLEAN] /\ refuses \in [Db -> BOOLEAN]
  /\ pc \in {"start", "connect", "command", "get", "unwind", "exit"}
  /\ worker \in [Db -> {"none", "connect", "call", "done"}] /\ response \in [Db -> {"", "message", "exception"}]
  /\ next \in 0..Len(DbList) /\ performed \subseteq Db /\ code \in {-1, 0, 1}
  /\ out \in {"", "usage", "OK", "PONG", "error", "reply"}

Init ==
  /\ options \in Option /\ configOk \in BOOLEAN /\ up \in [Db -> BOOLEAN] /\ refuses \in [Db -> BOOLEAN] /\ downs = 0
  /\ pc = "start"
  /\ worker = [d \in Db |-> "none"] /\ response = [d \in Db |-> ""] /\ next = 0 /\ failed = FALSE
  /\ performed = {} /\ out = "" /\ code = 0

Exit(o, c) == pc' = "exit" /\ out' = o /\ code' = c
Running == UNCHANGED <<out, code>>

\* An instance stops, starts, or changes between answering and refusing.
Change(d) ==
  /\ downs < MaxDowns /\ downs' = downs + 1
  /\ \/ up' = [up EXCEPT ![d] = ~@] /\ UNCHANGED refuses
     \/ refuses' = [refuses EXCEPT ![d] = ~@] /\ UNCHANGED up
  /\ UNCHANGED <<options, configOk, pc, worker, response, next, failed, performed, out, code>>

\* sonic_db_cli() up to the first connection; cli_exception_wrapper() and the handlers of
\* exceptions turn a configuration that cannot be read into exit code 1.
sonic_db_cli ==
  /\ pc = "start"
  /\ CASE options.error -> Exit("usage", -1) /\ UNCHANGED worker
       [] ~options.error /\ (options.help \/ options.op = "") -> Exit("usage", 0) /\ UNCHANGED worker
       [] ~options.error /\ ~options.help /\ options.op # "" /\ options.cmd ->
            (IF configOk THEN pc' = "connect" /\ Running ELSE Exit("error", 1)) /\ UNCHANGED worker
       [] ~options.error /\ ~options.help /\ ~options.cmd /\ options.op \in Operation ->
            IF configOk
            THEN pc' = "get" /\ worker' = [d \in Db |-> "connect"] /\ Running
            ELSE Exit("error", 1) /\ UNCHANGED worker
       [] OTHER -> UNCHANGED worker /\ IF options.namespace /\ ~configOk THEN Exit("error", 1) ELSE Exit("usage", 0)
  /\ UNCHANGED <<options, configOk, up, refuses, downs, response, next, failed, performed>>

\* executeCommands(): the connection, then the command.
executeConnect ==
  /\ pc = "connect"
  /\ IF options.op \in Db /\ up[options.op] THEN pc' = "command" /\ Running ELSE Exit("error", 1)
  /\ UNCHANGED <<options, configOk, up, refuses, downs, worker, response, next, failed, performed>>

executeCommands ==
  /\ pc = "command"
  /\ IF up[options.op] /\ ~refuses[options.op]
     THEN performed' = {options.op} /\ Exit("reply", 0)
     ELSE Exit("error", 1) /\ UNCHANGED performed
  /\ UNCHANGED <<options, configOk, up, refuses, downs, worker, response, next, failed>>
-------------------------------------------------------------------------------
(***************************************************************************)
(* handleAllInstances(): one thread per database, the responses in order.  *)
(***************************************************************************)
Worker(d, to, r) ==
  /\ worker' = [worker EXCEPT ![d] = to] /\ response' = [response EXCEPT ![d] = r]
  /\ UNCHANGED <<options, configOk, up, refuses, downs, pc, next, failed, out, code>>

handleSingleOperation(d) ==
  worker[d] = "connect" /\ Worker(d, IF up[d] THEN "call" ELSE "done", IF up[d] THEN "" ELSE "message") /\ UNCHANGED performed

\* RedisReply throws when the connection breaks and when the reply is an error.
RedisReply(d) ==
  /\ worker[d] = "call"
  /\ IF up[d] /\ ~refuses[d]
     THEN performed' = performed \cup {d} /\ Worker(d, "done", "")
     ELSE UNCHANGED performed /\ Worker(d, "done", "exception")

\* response.get(), in the order of the databases.
handleAllInstances ==
  /\ pc = "get" /\ next < Len(DbList)
  /\ LET d == DbList[next + 1]
     IN  /\ worker[d] = "done"
         /\ next' = next + 1
         /\ failed' = (failed \/ response[d] = "message")
         /\ pc' = IF response[d] = "exception" THEN "unwind" ELSE "get"
  /\ UNCHANGED <<options, configOk, up, refuses, downs, worker, response, performed, out, code>>

allDone ==
  /\ pc = "get" /\ next = Len(DbList)
  /\ IF failed THEN Exit("error", 1) ELSE Exit(IF options.op = "PING" THEN "PONG" ELSE "OK", 0)
  /\ UNCHANGED <<options, configOk, up, refuses, downs, worker, response, next, failed, performed>>

\* Mutant: the exception does not wait for the other threads.
unwindAtOnce ==
  /\ pc = "unwind"
  /\ Exit("error", 1)
  /\ UNCHANGED <<options, configOk, up, refuses, downs, worker, response, next, failed, performed>>

\* An exception of a thread leaves handleAllInstances(): the destructors of the futures of
\* std::async wait for the other threads.
unwind ==
  /\ pc = "unwind" /\ \A d \in Db : worker[d] = "done"
  /\ Exit("error", 1)
  /\ UNCHANGED <<options, configOk, up, refuses, downs, worker, response, next, failed, performed>>

Process ==
  \/ sonic_db_cli \/ executeConnect \/ executeCommands \/ handleAllInstances \/ allDone \/ unwind
  \/ \E d \in Db : handleSingleOperation(d) \/ RedisReply(d)

Next == Process \/ \E d \in Db : Change(d)

Spec == Init /\ [][Next]_vars
FairSpec == Spec /\ WF_vars(Process)
-------------------------------------------------------------------------------
\* "OK" and "PONG" are printed, with exit code 0, only if every database of the
\* namespace carried the operation out; a reply only if its database did.
OkMeansAll ==
  pc = "exit" => /\ (out \in {"OK", "PONG"} => performed = Db)
                 /\ (out = "reply" => performed = {options.op})
                 /\ (code = 0 <=> out \in {"OK", "PONG", "reply"} \/ (out = "usage" /\ ~options.error))

\* When the process has ended no thread is still at work in a database.
NothingAfterExit == pc = "exit" => \A d \in Db : worker[d] \in {"none", "done"}

\* The process ends, as long as every instance answers or refuses.
Exits == <>(pc = "exit")
===============================================================================
