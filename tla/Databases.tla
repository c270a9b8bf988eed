------------------------------- MODULE Databases -------------------------------
(***************************************************************************)
(* The modules about finding and reading databases, side by side.          *)
(* They have no state in common: "part" says which one, if any, moves in a *)
(* behaviour.                                                              *)
(***************************************************************************)
EXTENDS DBConfig

CONSTANTS
  \* Profile
  Client, Item, StaticItem, MaxProfileCalls,
  \* WarmRestart
  App, MaxChanges,
  \* Counters
  Oid, MaxNameChanges

\* The items of PROFILE_DB are items.
ASSUME ProfileAssumption == StaticItem \subseteq Item

VARIABLES
  part,
  \* Profile
  deleted, op, profilePc, asked, profileTodo, profileResult, returned, seen, unseen, profileCalls,
  \* WarmRestart
  system, docker, restore_count, state, changes, warmPc, m_enabled, m_systemWarmRebootEnabled, warm, warmSeen,
  \* Counters
  nameMap, nameChanges, m_keyMap, m_cacheEnabled, counterPc, mode, counterAsked, enabling, counterKeys, values, present,
  sinceCall, sinceRefresh

configVars == <<m_init, m_global_init, m_inst_info, m_db_info, m_db_separator, parses, owner, includes, pc,
                want, ref, dangling, result>>
profileVars == <<deleted, op, profilePc, asked, profileTodo, profileResult, returned, seen, unseen, profileCalls>>
warmVars == <<system, docker, restore_count, state, changes, warmPc, m_enabled, m_systemWarmRebootEnabled,
              warm, warmSeen>>
counterVars == <<nameMap, nameChanges, m_keyMap, m_cacheEnabled, counterPc, mode, counterAsked, enabling, counterKeys, values,
                 present, sinceCall, sinceRefresh>>
allVars == <<part, configVars, profileVars, warmVars, counterVars>>
-------------------------------------------------------------------------------
Profile == INSTANCE Profile WITH
  MaxCalls <- MaxProfileCalls, pc <- profilePc, todo <- profileTodo, result <- profileResult, calls <- profileCalls

Warm == INSTANCE WarmRestart WITH pc <- warmPc, seen <- warmSeen

Counters == INSTANCE Counters WITH
  MaxChanges <- MaxNameChanges, changes <- nameChanges, m_enabled <- m_cacheEnabled, pc <- counterPc,
  asked <- counterAsked, keys <- counterKeys
-------------------------------------------------------------------------------
\* The variables of a part that does not move have no value of interest.
NoProfile ==
  /\ deleted = 0 /\ op = 0 /\ profilePc = 0 /\ asked = 0 /\ profileTodo = 0 /\ profileResult = 0
  /\ returned = 0 /\ seen = 0 /\ unseen = 0 /\ profileCalls = 0
NoWarm ==
  /\ system = 0 /\ docker = 0 /\ restore_count = 0 /\ state = 0 /\ changes = 0 /\ warmPc = 0 /\ m_enabled = 0
  /\ m_systemWarmRebootEnabled = 0 /\ warm = 0 /\ warmSeen = 0
NoCounters ==
  /\ nameMap = 0 /\ nameChanges = 0 /\ m_keyMap = 0 /\ m_cacheEnabled = 0 /\ counterPc = 0 /\ mode = 0 /\ counterAsked = 0
  /\ enabling = 0 /\ counterKeys = 0 /\ values = 0 /\ present = 0 /\ sinceCall = 0 /\ sinceRefresh = 0

PartsInit ==
  /\ part \in {"config", "profile", "warm", "counters", "none"}
  /\ Init
  /\ IF part = "profile" THEN Profile!Init ELSE NoProfile
  /\ IF part = "warm" THEN Warm!Init ELSE NoWarm
  /\ IF part = "counters" THEN Counters!Init ELSE NoCounters

ConfigPart ==
  part = "config" /\ Next
  /\ UNCHANGED <<part, profileVars, warmVars, counterVars>>
ProfilePart ==
  part = "profile" /\ Profile!Next
  /\ UNCHANGED <<part, configVars, warmVars, counterVars>>
WarmPart ==
  part = "warm" /\ Warm!Next
  /\ UNCHANGED <<part, configVars, profileVars, counterVars>>
CountersPart ==
  part = "counters" /\ Counters!Next
  /\ UNCHANGED <<part, configVars, profileVars, warmVars>>
PartsNext == ConfigPart \/ ProfilePart \/ WarmPart \/ CountersPart

PartsSpec == PartsInit /\ [][PartsNext]_allVars
-------------------------------------------------------------------------------
\* Every variable of the part that moves has its type.
PartsTypeOK ==
  CASE part = "config" -> TypeOK
    [] part = "profile" -> Profile!TypeOK
    [] part = "warm" -> Warm!TypeOK
    [] part = "counters" -> Counters!TypeOK
    [] OTHER -> TypeOK

\* What is computed from several reads is true.  Profile: a read shows of every item what was true
\* of it during the call.  Counters: a counter comes from rows that its name stood for, with or
\* without the cache.
ReadsTrue ==
  /\ part = "profile" => Profile!ReadsPresent
  /\ part = "counters" => Counters!RowsOfTheName /\ Counters!CacheTransparent

\* WarmRestart: restore_count counts the warm starts since the last cold one, and who takes part in a
\* warm reboot of the system restarts warm.
WarmStartsCounted == part = "warm" => Warm!CountsWarmStarts /\ Warm!SystemImpliesEnabled
===============================================================================
