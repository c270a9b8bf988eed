-------------------------------- MODULE Logger --------------------------------
(***************************************************************************)
(* The log levels of a process (logger.cpp): components are linked to the  *)
(* LOGGER table of CONFIG_DB, a thread follows the table and calls the     *)
(* components' handlers, and swssloglevel (loglevel.cpp) changes it.  The  *)
(* log output is handled like the level; only its presence is kept.        *)
(***************************************************************************)
EXTENDS Integers, FiniteSets

CONSTANTS Component,
          SaiComponent,  \* those whose name has the prefix SAI_API_
          Level,         \* log levels, DEFAULT_LOGLEVEL and SAI_DEFAULT_LOGLEVEL among them
          DefaultLevel, SaiDefaultLevel,
          Relink,        \* linkToDbNative() is called again while the thread runs
          MaxSets        \* bound: runs of swssloglevel and removals

None == "none"

VARIABLES
  level,       \* LOGLEVEL in the table, None if there is none
  output,      \* LOGOUTPUT is in the table
  observers,   \* m_settingChangeObservers
  m_currentPrios,
  told,        \* the level its handler was called with last
  link,        \* the component that is being linked
  pc,          \* of the main thread: "idle", "output", "set", "current", "notify", "stop", "join" or "start"
  native,      \* the call is linkToDbNative(), which starts the thread at its end
  prio, doUpdate,   \* variables of linkToDb()
  thread,      \* the setting thread: "none", "run", "pop", "changed"
  stopEvent,   \* m_stopEvent is notified
  pending,     \* components whose change the SubscriberStateTable has to hand out
  koKey, koValue,   \* what it handed out last
  sets,
  tool         \* what a run of swssloglevel has still to set

mainVars == <<link, pc, native, prio, doUpdate>>
threadVars == <<thread, stopEvent, pending, koKey, koValue>>
vars == <<level, output, observers, m_currentPrios, told, link, pc, native, prio, doUpdate, thread, stopEvent,
          pending, koKey, koValue, sets, tool>>

\* Every variable has its type.
TypeOK ==
  /\ level \in [Component -> Level \cup {None}] /\ output \subseteq Component /\ observers \subseteq Component
  /\ m_currentPrios \in [Component -> Level \cup {None}] /\ told \in [Component -> Level \cup {None}]
  /\ pc \in {"idle", "output", "set", "current", "notify", "stop", "join", "start"}
  /\ thread \in {"none", "run", "pop", "changed"} /\ stopEvent \in BOOLEAN /\ pending \subseteq Component
  /\ \A c \in DOMAIN tool : c \in Component /\ tool[c] \in Level

NoTool == [c \in {} |-> None]

Init ==
  /\ level \in [Component -> {None, DefaultLevel}] /\ output = {} /\ observers = {}
  /\ m_currentPrios = [c \in Component |-> None] /\ told = [c \in Component |-> None]
  /\ link \in Component /\ pc = "idle" /\ native = FALSE /\ prio = None /\ doUpdate = FALSE
  /\ thread = "none" /\ stopEvent = FALSE /\ pending = {} /\ koKey \in Component /\ koValue = None
  /\ sets = 0 /\ tool = NoTool
-------------------------------------------------------------------------------
(***************************************************************************)
(* swssloglevel.                                                           *)
(***************************************************************************)
Rows == {c \in Component : level[c] # None \/ c \in output}

\* A change goes to a SubscriberStateTable that is there.
Event(c) == pending' = IF thread = "none" THEN pending ELSE pending \cup {c}

ToolStart(m) ==
  /\ tool = NoTool /\ sets < MaxSets /\ sets' = sets + 1
  /\ tool' = m
  /\ UNCHANGED <<level, output, observers, m_currentPrios, told, mainVars, threadVars>>

\* -l, with -c: only a component that is in the table.
swssloglevel(c, l) == c \in Rows /\ ToolStart([d \in {c} |-> l])

\* -a, with -s or without.
swssloglevelAll(sai, l) ==
  LET cs == IF sai THEN Rows \cap SaiComponent ELSE Rows \ SaiComponent
  IN  cs # {} /\ ToolStart([d \in cs |-> l])

\* -d
swssloglevelDefault == ToolStart([d \in Rows |-> IF d \in SaiComponent THEN SaiDefaultLevel ELSE DefaultLevel])

\* setLoglevel() for one of the components found at the start.
setLoglevel(c) ==
  /\ c \in DOMAIN tool
  /\ level' = [level EXCEPT ![c] = tool[c]] /\ Event(c)
  /\ tool' = [d \in DOMAIN tool \ {c} |-> tool[d]]
  /\ UNCHANGED <<output, observers, m_currentPrios, told, mainVars, thread, stopEvent, koKey, koValue, sets>>

\* Somebody removes a component from the table.
Remove(c) ==
  /\ c \in Rows /\ sets < MaxSets /\ sets' = sets + 1
  /\ level' = [level EXCEPT ![c] = None] /\ output' = output \ {c} /\ Event(c)
  /\ UNCHANGED <<observers, m_currentPrios, told, mainVars, thread, stopEvent, koKey, koValue, tool>>
-------------------------------------------------------------------------------
(***************************************************************************)
(* The main thread.                                                        *)
(***************************************************************************)
\* linkToDbWithOutput(), through linkToDb() or linkToDbNative(), up to the first hget(): "Must
\* be called after all linkToDb to start select from DB".
linkToDb(c, n) ==
  /\ pc = "idle" /\ c \notin observers /\ (thread = "none" \/ (n /\ Relink))
  /\ observers' = observers \cup {c} /\ link' = c /\ native' = n
  /\ prio' = (IF level[c] = None THEN DefaultLevel ELSE level[c]) /\ doUpdate' = (level[c] = None)
  /\ pc' = "output"
  /\ UNCHANGED <<level, output, m_currentPrios, told, threadVars, sets, tool>>

\* The second hget().
linkOutput ==
  /\ pc = "output"
  /\ pc' = IF doUpdate \/ link \notin output THEN "set" ELSE "current"
  /\ UNCHANGED <<level, output, observers, m_currentPrios, told, link, native, prio, doUpdate, threadVars, sets, tool>>

\* table.set() writes both fields, what was read and what was missing.
linkSet ==
  /\ pc = "set"
  /\ level' = [level EXCEPT ![link] = prio] /\ output' = output \cup {link} /\ Event(link)
  /\ pc' = "current"
  /\ UNCHANGED <<observers, m_currentPrios, told, link, native, prio, doUpdate, thread, stopEvent, koKey, koValue, sets, tool>>

linkCurrent ==
  /\ pc = "current"
  /\ m_currentPrios' = [m_currentPrios EXCEPT ![link] = prio]
  /\ pc' = "notify"
  /\ UNCHANGED <<level, output, observers, told, link, native, prio, doUpdate, threadVars, sets, tool>>

linkNotify ==
  /\ pc = "notify"
  /\ told' = [told EXCEPT ![link] = prio]
  /\ pc' = IF native THEN "stop" ELSE "idle"
  /\ UNCHANGED <<level, output, observers, m_currentPrios, link, native, prio, doUpdate, threadVars, sets, tool>>

restartLogger ==
  /\ pc = "idle" /\ sets < MaxSets
  /\ pc' = "stop" /\ sets' = sets + 1
  /\ UNCHANGED <<level, output, observers, m_currentPrios, told, link, native, prio, doUpdate, threadVars, tool>>

\* terminateSettingThread(): notify(), if there is a thread.
terminateSettingThread ==
  /\ pc = "stop"
  /\ pc' = (IF thread = "none" THEN "start" ELSE "join") /\ stopEvent' = (thread # "none")
  /\ UNCHANGED <<level, output, observers, m_currentPrios, told, link, native, prio, doUpdate, thread,
                 pending, koKey, koValue, sets, tool>>

\* join(), and the event is destroyed.
join ==
  /\ pc = "join" /\ thread = "none"
  /\ pc' = "start" /\ stopEvent' = FALSE
  /\ UNCHANGED <<level, output, observers, m_currentPrios, told, link, native, prio, doUpdate, thread,
                 pending, koKey, koValue, sets, tool>>

\* Mutant: a new thread hears of what changes from now on only.
restartSettingThreadEmpty ==
  /\ pc = "start"
  /\ pc' = "idle" /\ thread' = "run" /\ pending' = {}
  /\ UNCHANGED <<level, output, observers, m_currentPrios, told, link, native, prio, doUpdate,
                 stopEvent, koKey, koValue, sets, tool>>

\* restartSettingThread(): the new thread starts with the contents of the table.
restartSettingThread ==
  /\ pc = "start"
  /\ pc' = "idle" /\ thread' = "run" /\ pending' = Rows
  /\ UNCHANGED <<level, output, observers, m_currentPrios, told, link, native, prio, doUpdate,
                 stopEvent, koKey, koValue, sets, tool>>
-------------------------------------------------------------------------------
(***************************************************************************)
(* The setting thread.                                                     *)
(***************************************************************************)
\* select() gives the stop event.
settingThreadStop ==
  /\ thread = "run" /\ stopEvent
  /\ thread' = "none" /\ pending' = {}
  /\ UNCHANGED <<level, output, observers, m_currentPrios, told, mainVars, stopEvent, koKey, koValue, sets, tool>>

\* select() gives the table; pop() reads the entry as it is now.
settingThreadPop(c) ==
  /\ thread = "run" /\ c \in pending
  /\ pending' = pending \ {c} /\ koKey' = c /\ koValue' = level[c]
  /\ thread' = IF c \in observers /\ level[c] # None THEN "pop" ELSE "run"
  /\ UNCHANGED <<level, output, observers, m_currentPrios, told, mainVars, stopEvent, sets, tool>>

\* A level other than the current one is kept,
settingThreadSet ==
  /\ thread = "pop"
  /\ IF koValue # m_currentPrios[koKey]
     THEN m_currentPrios' = [m_currentPrios EXCEPT ![koKey] = koValue] /\ thread' = "changed"
     ELSE UNCHANGED m_currentPrios /\ thread' = "run"
  /\ UNCHANGED <<level, output, observers, told, mainVars, stopEvent, pending, koKey, koValue, sets, tool>>

\* and the handler is called.
settingThreadNotify ==
  /\ thread = "changed"
  /\ told' = [told EXCEPT ![koKey] = koValue] /\ thread' = "run"
  /\ UNCHANGED <<level, output, observers, m_currentPrios, mainVars, stopEvent, pending, koKey, koValue, sets, tool>>
-------------------------------------------------------------------------------
Main == \/ linkOutput \/ linkSet \/ linkCurrent \/ linkNotify \/ terminateSettingThread \/ join \/ restartSettingThread
Thread == settingThreadSet \/ settingThreadNotify \/ \E c \in Component : settingThreadPop(c)

Next ==
  \/ \E c \in Component : setLoglevel(c) \/ Remove(c) \/ (\E n \in BOOLEAN : linkToDb(c, n)) \/ \E l \in Level : swssloglevel(c, l)
  \/ \E l \in Level, sai \in BOOLEAN : swssloglevelAll(sai, l)
  \/ swssloglevelDefault \/ restartLogger \/ Main \/ Thread \/ settingThreadStop

Spec == Init /\ [][Next]_vars
FairSpec == Spec /\ WF_vars(Main) /\ WF_vars(Thread) /\ SF_vars(settingThreadStop)
-------------------------------------------------------------------------------
\* When the threads are at rest, every linked component that is in the table
\* logs at the level of the table, whatever changed while the links were made and threads restarted.
LevelsFollow ==
  pc = "idle" /\ thread = "run" /\ pending = {} => \A c \in observers : level[c] # None => told[c] = level[c]

\* linkToDbNative() and restartLogger() return: the old thread is stopped, also
\* while levels keep changing.
RestartReturns == pc # "idle" ~> pc = "idle"
===============================================================================
