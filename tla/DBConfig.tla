------------------------------- MODULE DBConfig -------------------------------
(***************************************************************************)
(* SonicDBConfig (dbconnector.cpp): the static maps that say where each    *)
(* database is, filled from database_config.json on first use or from the  *)
(* files that database_global.json includes, and the look-ups, by several  *)
(* threads under one recursive mutex.                                      *)
(***************************************************************************)
EXTENDS Integers

CONSTANTS Thread,
          Key,        \* SonicDBKey: namespace and container
          EmptyKey,
          NoThread,
          MaxParses   \* bound: files read

ASSUME DBConfigAssumption == EmptyKey \in Key /\ NoThread \notin Thread

VARIABLES
  m_init, m_global_init,
  m_inst_info,     \* of a key: the number of the file its entry comes from, 0 for none
  m_db_info,
  m_db_separator,
  parses,          \* files read so far
  owner,           \* the thread that holds m_db_info_mutex over several steps
  includes,        \* what is left of INCLUDES for the running initializeGlobalConfig()
  pc,              \* of a thread: "idle", "global", "use", "list", "listInit", "listFind"
  want,            \* of a thread: the key it looks up
  ref,             \* of a thread: the file of the entry it has a reference to
  dangling,        \* of a thread: reset() was called since it got the reference
  result           \* of a thread: how its last call ended

maps == <<m_inst_info, m_db_info, m_db_separator>>
vars == <<m_init, m_global_init, m_inst_info, m_db_info, m_db_separator, parses, owner, includes, pc,
          want, ref, dangling, result>>

Results == {"none", "ok", "already_initialized", "no_file", "not_global", "out_of_range", "undefined"}

\* Every variable has its type.
TypeOK ==
  /\ m_init \in BOOLEAN /\ m_global_init \in BOOLEAN
  /\ m_inst_info \in [Key -> Nat] /\ m_db_info \in [Key -> Nat] /\ m_db_separator \in [Key -> Nat]
  /\ parses \in Nat /\ owner \in Thread \cup {NoThread} /\ includes \in SUBSET Key
  /\ pc \in [Thread -> {"idle", "global", "use", "list", "listInit", "listFind"}]
  /\ want \in [Thread -> Key] /\ ref \in [Thread -> Nat] /\ dangling \in [Thread -> BOOLEAN]
  /\ result \in [Thread -> Results]

Init ==
  /\ m_init = FALSE /\ m_global_init = FALSE
  /\ m_inst_info = [k \in Key |-> 0] /\ m_db_info = [k \in Key |-> 0] /\ m_db_separator = [k \in Key |-> 0]
  /\ parses = 0 /\ owner = NoThread /\ includes = {}
  /\ pc = [t \in Thread |-> "idle"] /\ want = [t \in Thread |-> EmptyKey]
  /\ ref = [t \in Thread |-> 0] /\ dangling = [t \in Thread |-> FALSE]
  /\ result = [t \in Thread |-> "none"]
-------------------------------------------------------------------------------
(***************************************************************************)
(* Reading the files.                                                      *)
(***************************************************************************)
Free(t) == owner \in {NoThread, t}
Ends(t, r) == pc' = [pc EXCEPT ![t] = "idle"] /\ result' = [result EXCEPT ![t] = r]

\* The entry of a key comes from file n, in all three maps.
Store(k, n) ==
  /\ m_inst_info' = [m_inst_info EXCEPT ![k] = n]
  /\ m_db_info' = [m_db_info EXCEPT ![k] = n]
  /\ m_db_separator' = [m_db_separator EXCEPT ![k] = n]

\* A file has its contents, is missing, or is not what it should be; the
\* maps are only touched after the whole file has been read.
parseDatabaseConfig(outcome) ==
  /\ parses < MaxParses /\ outcome \in {"good", "missing", "bad"}
  /\ parses' = parses + 1

\* initialize() for a caller that holds the mutex or takes it.  emplace() keeps an entry.
initialize(outcome) ==
  /\ ~m_init /\ parseDatabaseConfig(outcome)
  /\ IF outcome = "good"
     THEN /\ m_init' = TRUE
          /\ m_inst_info' = [m_inst_info EXCEPT ![EmptyKey] = IF @ = 0 THEN parses + 1 ELSE @]
          /\ m_db_info' = [m_db_info EXCEPT ![EmptyKey] = IF @ = 0 THEN parses + 1 ELSE @]
          /\ m_db_separator' = [m_db_separator EXCEPT ![EmptyKey] = IF @ = 0 THEN parses + 1 ELSE @]
     ELSE UNCHANGED <<m_init, maps>>

\* A call of initialize().
callInitialize(t, outcome) ==
  /\ pc[t] = "idle" /\ Free(t)
  /\ IF m_init THEN Ends(t, "already_initialized") /\ UNCHANGED <<m_init, maps, parses>>
     ELSE initialize(outcome) /\ Ends(t, IF outcome = "good" THEN "ok" ELSE "no_file")
  /\ UNCHANGED <<m_global_init, owner, includes, want, ref, dangling>>

\* initializeGlobalConfig() takes the mutex and reads database_global.json; a missing file is
\* not an error, a bad one is.
initializeGlobalConfig(t, ks, outcome) ==
  /\ pc[t] = "idle" /\ Free(t)
  /\ IF m_global_init \/ outcome = "missing"
     THEN Ends(t, "ok") /\ m_global_init' = TRUE /\ UNCHANGED <<owner, includes>>
     ELSE IF outcome = "bad" THEN Ends(t, "no_file") /\ UNCHANGED <<m_global_init, owner, includes>>
     ELSE /\ pc' = [pc EXCEPT ![t] = "global"] /\ owner' = t /\ includes' = ks
          /\ UNCHANGED <<m_global_init, result>>
  /\ UNCHANGED <<m_init, maps, parses, want, ref, dangling>>

\* Mutant: the default database is read again.
includeAgain(t, k, outcome, ignore_nonexistent) ==
  /\ pc[t] = "global" /\ k \in includes
  /\ includes' = includes \ {k}
  /\ parseDatabaseConfig(outcome)
  /\ IF outcome = "bad" \/ (outcome = "missing" /\ ~ignore_nonexistent)
     THEN Ends(t, "no_file") /\ owner' = NoThread /\ UNCHANGED <<m_init, maps>>
     ELSE /\ IF outcome = "good" THEN Store(k, parses + 1) ELSE UNCHANGED maps
          /\ m_init' = (m_init \/ k = EmptyKey)
          /\ UNCHANGED <<owner, pc, result>>
  /\ UNCHANGED <<m_global_init, want, ref, dangling>>

\* One element of INCLUDES.  The default database is skipped when it is there already; a
\* file that may be missing and is leaves no entry; a bad one ends the call half done.
include(t, k, outcome, ignore_nonexistent) ==
  /\ pc[t] = "global" /\ k \in includes
  /\ includes' = includes \ {k}
  /\ IF k = EmptyKey /\ m_init THEN UNCHANGED <<m_init, maps, parses, owner, pc, result>>
     ELSE /\ parseDatabaseConfig(outcome)
          /\ IF outcome = "bad" \/ (outcome = "missing" /\ ~ignore_nonexistent)
             THEN Ends(t, "no_file") /\ owner' = NoThread /\ UNCHANGED <<m_init, maps>>
             ELSE /\ IF outcome = "good" THEN Store(k, parses + 1) ELSE UNCHANGED maps
                  /\ m_init' = (m_init \/ k = EmptyKey)
                  /\ UNCHANGED <<owner, pc, result>>
  /\ UNCHANGED <<m_global_init, want, ref, dangling>>

includesEnd(t) ==
  /\ pc[t] = "global" /\ includes = {}
  /\ m_global_init' = TRUE /\ owner' = NoThread /\ Ends(t, "ok")
  /\ UNCHANGED <<m_init, maps, parses, includes, want, ref, dangling>>

reset(t) ==
  /\ pc[t] = "idle" /\ Free(t)
  /\ m_init' = FALSE /\ m_global_init' = FALSE
  /\ m_inst_info' = [k \in Key |-> 0] /\ m_db_info' = [k \in Key |-> 0] /\ m_db_separator' = [k \in Key |-> 0]
  /\ dangling' = [u \in Thread |-> TRUE]
  /\ Ends(t, "ok")
  /\ UNCHANGED <<parses, owner, includes, want, ref>>
-------------------------------------------------------------------------------
(***************************************************************************)
(* Look-ups.                                                               *)
(***************************************************************************)
\* "if (!m_init) initialize(DEFAULT_SONIC_DB_CONFIG_FILE)"; TRUE if the look-up goes on.
OnFirstUse(outcome) == IF m_init THEN UNCHANGED <<m_init, maps, parses>> ELSE initialize(outcome)

\* What a look-up of key k in map m gives after that.
Found(m, k) == IF k # EmptyKey /\ ~m_global_init THEN "not_global" ELSE IF m[k] = 0 THEN "out_of_range" ELSE "ok"

\* getDbInfo() and, through it, getDbInst(), getDbId() and getSeparator() of a name: the result is a
\* reference, used when the mutex is released.
getDbInfo(t, k, outcome) ==
  /\ pc[t] = "idle" /\ Free(t) /\ OnFirstUse(outcome)
  /\ want' = [want EXCEPT ![t] = k]
  /\ IF m_init' /\ Found(m_db_info', k) = "ok"
     THEN /\ pc' = [pc EXCEPT ![t] = "use"] /\ ref' = [ref EXCEPT ![t] = m_db_info'[k]]
          /\ dangling' = [dangling EXCEPT ![t] = FALSE] /\ UNCHANGED result
     ELSE Ends(t, IF m_init' THEN Found(m_db_info', k) ELSE "no_file") /\ UNCHANGED <<ref, dangling>>
  /\ UNCHANGED <<m_global_init, owner, includes>>

\* getRedisInfo() and getDbSock(), getDbHostname() and getDbPort(): the instance named in
\* m_db_info is looked up in m_inst_info, both under the mutex.
getRedisInfo(t, k, outcome) ==
  /\ pc[t] = "idle" /\ Free(t) /\ OnFirstUse(outcome)
  /\ want' = [want EXCEPT ![t] = k]
  /\ IF m_init' /\ Found(m_inst_info', k) = "ok" /\ Found(m_db_info', k) = "ok"
     THEN /\ pc' = [pc EXCEPT ![t] = "use"] /\ ref' = [ref EXCEPT ![t] = m_inst_info'[k]]
          /\ dangling' = [dangling EXCEPT ![t] = FALSE] /\ UNCHANGED result
     ELSE Ends(t, IF m_init' THEN Found(m_inst_info', k) ELSE "no_file") /\ UNCHANGED <<ref, dangling>>
  /\ UNCHANGED <<m_global_init, owner, includes>>

\* The caller copies what the reference points to; after reset() that is undefined.
use(t) ==
  /\ pc[t] = "use"
  /\ Ends(t, IF dangling[t] THEN "undefined" ELSE "ok")
  /\ ref' = [ref EXCEPT ![t] = 0]
  /\ UNCHANGED <<m_init, m_global_init, maps, parses, owner, includes, want, dangling>>

\* getSeparator() of a database number, which copies under the mutex.
getSeparator(t, k, outcome) ==
  /\ pc[t] = "idle" /\ Free(t) /\ OnFirstUse(outcome)
  /\ Ends(t, IF m_init' THEN Found(m_db_separator', k) ELSE "no_file")
  /\ want' = [want EXCEPT ![t] = k]
  /\ UNCHANGED <<m_global_init, owner, includes, ref, dangling>>

\* A namespace is valid if a key with it is in m_inst_info.
validateNamespace(m, k) ==
  IF k = EmptyKey THEN "ok" ELSE IF ~m_global_init THEN "not_global" ELSE IF m[k] = 0 THEN "out_of_range" ELSE "ok"

\* getNamespaces() and getDbKeys().
getDbKeys(t, outcome) ==
  /\ pc[t] = "idle" /\ Free(t) /\ OnFirstUse(outcome)
  /\ Ends(t, IF m_init' THEN "ok" ELSE "no_file")
  /\ UNCHANGED <<m_global_init, owner, includes, want, ref, dangling>>

getDbList(t, k, outcome) ==
  /\ pc[t] = "idle" /\ Free(t) /\ OnFirstUse(outcome)
  /\ Ends(t, IF ~m_init' THEN "no_file" ELSE IF validateNamespace(m_inst_info', k) # "ok" THEN validateNamespace(m_inst_info', k)
             ELSE IF m_db_info'[k] = 0 THEN "out_of_range" ELSE "ok")
  /\ want' = [want EXCEPT ![t] = k]
  /\ UNCHANGED <<m_global_init, owner, includes, ref, dangling>>

\* getInstanceList() looks at m_init without the mutex,
getInstanceList(t, k) ==
  /\ pc[t] = "idle"
  /\ want' = [want EXCEPT ![t] = k]
  /\ pc' = [pc EXCEPT ![t] = IF m_init THEN "list" ELSE "listInit"]
  /\ UNCHANGED <<m_init, m_global_init, maps, parses, owner, includes, ref, dangling, result>>

\* calls initialize(), which takes it and finds that another thread was faster,
getInstanceListInit(t, outcome) ==
  /\ pc[t] = "listInit" /\ Free(t)
  /\ IF m_init THEN Ends(t, "already_initialized") /\ UNCHANGED <<m_init, maps, parses>>
     ELSE /\ initialize(outcome)
          /\ IF outcome = "good" THEN pc' = [pc EXCEPT ![t] = "list"] /\ UNCHANGED result ELSE Ends(t, "no_file")
  /\ UNCHANGED <<m_global_init, owner, includes, want, ref, dangling>>

\* and validateNamespace(), which releases it;
getInstanceListValidate(t) ==
  /\ pc[t] = "list" /\ Free(t)
  /\ IF validateNamespace(m_inst_info, want[t]) = "ok" THEN pc' = [pc EXCEPT ![t] = "listFind"] /\ UNCHANGED result
     ELSE Ends(t, validateNamespace(m_inst_info, want[t]))
  /\ UNCHANGED <<m_init, m_global_init, maps, parses, owner, includes, want, ref, dangling>>

\* the map is then read without it: undefined while another thread may be changing it.
getInstanceListFind(t) ==
  /\ pc[t] = "listFind"
  /\ Ends(t, IF Free(t) THEN "ok" ELSE "undefined")
  /\ UNCHANGED <<m_init, m_global_init, maps, parses, owner, includes, want, ref, dangling>>
-------------------------------------------------------------------------------
Outcome == {"good", "missing", "bad"}

Step(t) ==
  \/ \E o \in Outcome : callInitialize(t, o) \/ getDbKeys(t, o) \/ getInstanceListInit(t, o)
  \/ \E ks \in SUBSET Key, o \in Outcome : initializeGlobalConfig(t, ks, o)
  \/ \E k \in Key, o \in Outcome :
       \/ \E b \in BOOLEAN : include(t, k, o, b)
       \/ getDbInfo(t, k, o) \/ getRedisInfo(t, k, o) \/ getSeparator(t, k, o) \/ getDbList(t, k, o)
  \/ \E k \in Key : getInstanceList(t, k)
  \/ includesEnd(t) \/ reset(t) \/ use(t) \/ getInstanceListValidate(t) \/ getInstanceListFind(t)

Next == \E t \in Thread : Step(t)

Spec == Init /\ [][Next]_vars
-------------------------------------------------------------------------------
\* The three maps describe the same file for every key: no look-up combines the instance of one
\* file with the database number or separator of another.
SameFile == m_inst_info = m_db_info /\ m_db_info = m_db_separator

\* A reference that getDbInfo() or getRedisInfo() gave out stays good until reset(): no later
\* reading of files replaces the entry under it.
ReferencesStayGood == \A t \in Thread : pc[t] = "use" /\ ~dangling[t] => ref[t] # 0 /\ m_db_info[want[t]] = ref[t]

\* Without m_init there is no entry of the default database: initialize(), whose emplace() would keep
\* an old entry without a word, always stores what it has read.
FlagsTellContents == ~m_init => m_db_info[EmptyKey] = 0

\* What threads find in SonicDBConfig fits together, in whatever order they initialise, include,
\* look up and reset: the maps, the references that were given out, and m_init.
ConfigConsistent == SameFile /\ ReferencesStayGood /\ FlagsTellContents
===============================================================================
