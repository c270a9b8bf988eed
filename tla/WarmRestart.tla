------------------------------ MODULE WarmRestart ------------------------------
(***************************************************************************)
(* WarmStart (warm_restart.cpp), by which an application finds out whether *)
(* it restarts warm, and publishes how far it is.                          *)
(***************************************************************************)
EXTENDS Integers

CONSTANTS App,        \* applications, each in a docker of its own
          MaxChanges  \* bound: changes of knobs, starts and reboots

None == "none"
Knob == {None, "true", "false"}
WarmStartState == {"restored", "reconciled"}   \* two of INITIALIZED ... WSDISABLED, and "unknown"
NotFound == -1

VARIABLES
  system,         \* the knob of the system
  docker,         \* the knob of an application's docker
  restore_count,  \* in STATE_DB, NotFound if it is not there
  state,          \* in STATE_DB
  changes,
  pc,             \* of an application: "down", "system", "docker", "count" or "run"
  m_enabled, m_systemWarmRebootEnabled,
  warm,           \* of an application: warm starts it counted since the last cold one
  seen            \* of an application: what getWarmStartState() told it last of every other

dbVars == <<system, docker, restore_count, state, changes>>
appVars == <<pc, m_enabled, m_systemWarmRebootEnabled, warm, seen>>
vars == <<system, docker, restore_count, state, changes, pc, m_enabled, m_systemWarmRebootEnabled, warm, seen>>

NotTold == [b \in App |-> None]

\* Every variable has its type.
TypeOK ==
  /\ system \in Knob /\ docker \in [App -> Knob]
  /\ restore_count \in [App -> Nat \cup {NotFound}] /\ state \in [App -> WarmStartState \cup {None}]
  /\ pc \in [App -> {"down", "system", "docker", "count", "run"}]
  /\ m_enabled \in [App -> BOOLEAN] /\ m_systemWarmRebootEnabled \in [App -> BOOLEAN]
  /\ seen \in [App -> [App -> WarmStartState \cup {None, "unknown"}]]

Init ==
  /\ system \in Knob /\ docker = [a \in App |-> None]
  /\ restore_count = [a \in App |-> NotFound] /\ state = [a \in App |-> None] /\ changes = 0
  /\ pc = [a \in App |-> "down"] /\ m_enabled = [a \in App |-> FALSE]
  /\ m_systemWarmRebootEnabled = [a \in App |-> FALSE]
  /\ warm = [a \in App |-> 0] /\ seen = [a \in App |-> NotTold]
-------------------------------------------------------------------------------
(***************************************************************************)
(* The scripts that reboot the system, and the restarts.                   *)
(***************************************************************************)
Change == changes < MaxChanges /\ changes' = changes + 1

SetSystem(v) ==
  /\ Change /\ v \in Knob \ {system}
  /\ system' = v
  /\ UNCHANGED <<docker, restore_count, state, appVars>>

SetDocker(a, v) ==
  /\ Change /\ v \in Knob \ {docker[a]}
  /\ docker' = [docker EXCEPT ![a] = v]
  /\ UNCHANGED <<system, restore_count, state, appVars>>

\* The application stops, at any point, and is started again.
Restart(a) ==
  /\ pc[a] # "down"
  /\ pc' = [pc EXCEPT ![a] = "down"] /\ m_enabled' = [m_enabled EXCEPT ![a] = FALSE]
  /\ m_systemWarmRebootEnabled' = [m_systemWarmRebootEnabled EXCEPT ![a] = FALSE]
  /\ seen' = [seen EXCEPT ![a] = NotTold]
  /\ UNCHANGED <<dbVars, warm>>

\* A cold reboot: STATE_DB is empty, and no process is left.
Flush ==
  /\ Change
  /\ system' = None /\ docker' = [a \in App |-> None]
  /\ restore_count' = [a \in App |-> NotFound] /\ state' = [a \in App |-> None]
  /\ pc' = [a \in App |-> "down"] /\ m_enabled' = [a \in App |-> FALSE]
  /\ m_systemWarmRebootEnabled' = [a \in App |-> FALSE]
  /\ warm' = [a \in App |-> 0] /\ seen' = [a \in App |-> NotTold]
-------------------------------------------------------------------------------
(***************************************************************************)
(* The application.                                                        *)
(***************************************************************************)
\* initialize(), and the start of checkWarmStart(); it may be called again while it runs.
initialize(a) ==
  /\ Change /\ pc[a] \in {"down", "run"}
  /\ pc' = [pc EXCEPT ![a] = "system"]
  /\ UNCHANGED <<system, docker, restore_count, state, m_enabled, m_systemWarmRebootEnabled, warm, seen>>

\* checkWarmStart(): the first hget(), of the system.
checkSystem(a) ==
  /\ pc[a] = "system" /\ pc' = [pc EXCEPT ![a] = "docker"]
  /\ IF system = "true"
     THEN /\ m_enabled' = [m_enabled EXCEPT ![a] = TRUE]
          /\ m_systemWarmRebootEnabled' = [m_systemWarmRebootEnabled EXCEPT ![a] = TRUE]
     ELSE UNCHANGED <<m_enabled, m_systemWarmRebootEnabled>>
  /\ UNCHANGED <<dbVars, warm, seen>>

\* The second one, of the docker.
checkDocker(a) ==
  /\ pc[a] = "docker"
  /\ m_enabled' = [m_enabled EXCEPT ![a] = @ \/ docker[a] = "true"]
  /\ pc' = [pc EXCEPT ![a] = "count"]
  /\ UNCHANGED <<dbVars, m_systemWarmRebootEnabled, warm, seen>>

Cold(a) == restore_count' = [restore_count EXCEPT ![a] = 0] /\ warm' = [warm EXCEPT ![a] = 0]

\* Mutant: the count is left alone at a cold start.
checkCountKeep(a, incr_restore_cnt) ==
  /\ pc[a] = "count" /\ pc' = [pc EXCEPT ![a] = "run"]
  /\ IF ~m_enabled[a] THEN warm' = [warm EXCEPT ![a] = 0] /\ UNCHANGED <<restore_count, m_enabled>>
     ELSE IF restore_count[a] = NotFound THEN Cold(a) /\ m_enabled' = [m_enabled EXCEPT ![a] = FALSE]
     ELSE /\ restore_count' = [restore_count EXCEPT ![a] = @ + 1]
          /\ warm' = [warm EXCEPT ![a] = @ + 1]
          /\ UNCHANGED m_enabled
  /\ UNCHANGED <<system, docker, state, changes, m_systemWarmRebootEnabled, seen>>

\* The rest: a cold start, a warm start without its data, which becomes one, or a warm start, counted on request.
checkCount(a, incr_restore_cnt) ==
  /\ pc[a] = "count" /\ pc' = [pc EXCEPT ![a] = "run"]
  /\ IF ~m_enabled[a] THEN Cold(a) /\ UNCHANGED <<m_enabled, m_systemWarmRebootEnabled>>
     ELSE IF restore_count[a] = NotFound
     THEN /\ Cold(a) /\ m_enabled' = [m_enabled EXCEPT ![a] = FALSE]
          /\ m_systemWarmRebootEnabled' = [m_systemWarmRebootEnabled EXCEPT ![a] = FALSE]
     ELSE /\ IF incr_restore_cnt
             THEN /\ restore_count' = [restore_count EXCEPT ![a] = @ + 1]
                  /\ warm' = [warm EXCEPT ![a] = @ + 1]
             ELSE UNCHANGED <<restore_count, warm>>
          /\ UNCHANGED <<m_enabled, m_systemWarmRebootEnabled>>
  /\ UNCHANGED <<system, docker, state, changes, seen>>

setWarmStartState(a, s) ==
  /\ pc[a] = "run" /\ s # state[a]
  /\ state' = [state EXCEPT ![a] = s]
  /\ UNCHANGED <<system, docker, restore_count, changes, appVars>>

\* What application a is told of application b: without warm start, that it is reconciled.
getWarmStartState(a, b) ==
  /\ pc[a] = "run"
  /\ seen' = [seen EXCEPT ![a][b] = IF ~m_enabled[a] THEN "reconciled" ELSE IF state[b] = None THEN "unknown" ELSE state[b]]
  /\ UNCHANGED <<dbVars, pc, m_enabled, m_systemWarmRebootEnabled, warm>>
-------------------------------------------------------------------------------
Next ==
  \/ Flush \/ \E v \in Knob : SetSystem(v)
  \/ \E a \in App :
       \/ initialize(a) \/ checkSystem(a) \/ checkDocker(a) \/ \E b \in BOOLEAN : checkCount(a, b)
       \/ \E s \in WarmStartState : setWarmStartState(a, s)
       \/ \E b \in App : getWarmStartState(a, b)
       \/ Restart(a) \/ \E v \in Knob : SetDocker(a, v)

Spec == Init /\ [][Next]_vars
-------------------------------------------------------------------------------
\* restore_count in STATE_DB counts the warm starts since the last cold start,
\* whatever restarts, reboots and changes of the knobs came in between.
CountsWarmStarts == \A a \in App : pc[a] = "run" => restore_count[a] = warm[a]

\* No application takes part in a warm reboot of the system that it does not itself do warm.
SystemImpliesEnabled == \A a \in App : m_systemWarmRebootEnabled[a] => m_enabled[a]

\* While warm start is on, an application is told that another one is
\* reconciled only if that one has said so ("state cannot be assumed as Reconciled").
ToldAsSaid ==
  \A a, b \in App :
    seen'[a][b] = "reconciled" /\ seen[a][b] # "reconciled" /\ m_enabled[a] => state[b] = "reconciled"
\* Every getWarmStartState() under warm start tells only what was said.
NotReconciledByDefault == [][ToldAsSaid]_vars
================================================================================
