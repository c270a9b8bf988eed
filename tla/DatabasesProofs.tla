---------------------------- MODULE DatabasesProofs ----------------------------
(***************************************************************************)
(* Proofs about the modules that find, read and write databases, for any   *)
(* values of their constants: any threads and keys of DBConfig, any        *)
(* clients and items of Profile, any applications of WarmRestart, and any  *)
(* number of calls, restarts and changes.                                  *)
(***************************************************************************)
EXTENDS Databases, TLAPS

-------------------------------------------------------------------------------
(***************************************************************************)
(* The inductive invariant.  An entry that somebody may have a reference   *)
(* to is there for good, because the flag of its key is set: initialize()  *)
(* and the skipped element of INCLUDES look at m_init, and                 *)
(* initializeGlobalConfig() at m_global_init, before they write.           *)
(***************************************************************************)
\* A thread that reads the global file holds the mutex, and nobody has finished reading it.
GlobalOwner ==
  \A t \in Thread : pc[t] = "global" => owner = t /\ ~m_global_init

\* A thread got a reference only with the flag of its key set.
FlagOfReference ==
  \A t \in Thread : pc[t] = "use" /\ ~dangling[t] => IF want[t] = EmptyKey THEN m_init ELSE m_global_init

FileInv == SameFile /\ FlagsTellContents

ConfigInv == TypeOK /\ FileInv /\ GlobalOwner /\ FlagOfReference /\ ReferencesStayGood

MapType ==
  m_inst_info \in [Key -> Nat] /\ m_db_info \in [Key -> Nat] /\ m_db_separator \in [Key -> Nat]

\* What reading database_config.json on first use may do: entries are added, none is replaced.
Filled ==
  /\ MapType' /\ FileInv' /\ m_init' \in BOOLEAN /\ parses' \in Nat
  /\ m_init => m_init'
  /\ \A k \in Key : m_db_info[k] # 0 => m_db_info'[k] = m_db_info[k]

\* initialize() fills the entry of the default database, which was empty.
LEMMA InitializeFills ==
  ASSUME TypeOK, FileInv, NEW o, initialize(o)
  PROVE  Filled
<1>1. m_init \in BOOLEAN /\ MapType /\ parses \in Nat /\ parses' = parses + 1 /\ ~m_init
  BY Zenon DEF TypeOK, MapType, initialize, parseDatabaseConfig
<1>2. m_db_info = m_inst_info /\ m_db_separator = m_inst_info /\ m_db_info[EmptyKey] = 0
  BY <1>1, Zenon DEF FileInv, SameFile, FlagsTellContents
<1>3. CASE o = "good"
  <2>1. /\ m_init' = TRUE
        /\ m_db_info' = [m_db_info EXCEPT ![EmptyKey] = parses + 1]
        /\ m_inst_info' = m_db_info' /\ m_db_separator' = m_db_info'
    BY <1>2, <1>3, Zenon DEF initialize
  <2> QED
    BY <1>1, <1>2, <2>1, DBConfigAssumption DEF Filled, MapType, FileInv, SameFile, FlagsTellContents
<1>4. CASE o # "good"
  <2>1. UNCHANGED <<m_init, m_inst_info, m_db_info, m_db_separator>>
    BY <1>4, Zenon DEF initialize, maps
  <2> QED
    BY <1>1, <2>1 DEF Filled, MapType, FileInv, SameFile, FlagsTellContents
<1> QED
  BY <1>3, <1>4, Zenon

\* Nothing may happen.
LEMMA NothingFills ==
  ASSUME TypeOK, FileInv, UNCHANGED <<m_init, maps, parses>>
  PROVE  Filled
BY Zenon DEF TypeOK, FileInv, Filled, MapType, SameFile, FlagsTellContents, maps

\* The look-ups' first line.
LEMMA FirstUseFills ==
  ASSUME TypeOK, FileInv, NEW o, OnFirstUse(o)
  PROVE  Filled
BY InitializeFills, NothingFills, Zenon DEF OnFirstUse

\* A step of thread t that reads no global file, changes no flag of it, and ends, or goes on with
\* anything but a reference.
LEMMA OrdinaryStep ==
  ASSUME ConfigInv, Filled, NEW t \in Thread, UNCHANGED <<m_global_init, owner, includes, dangling>>,
         NEW c \in {"idle", "list", "listInit", "listFind"}, pc' = [pc EXCEPT ![t] = c],
         result' \in [Thread -> Results], want' \in [Thread -> Key],
         \A u \in Thread \ {t} : want'[u] = want[u] /\ ref'[u] = ref[u], ref' \in [Thread -> Nat]
  PROVE  ConfigInv'
<1>1. TypeOK' /\ FileInv'
  BY Zenon DEF ConfigInv, TypeOK, Filled, MapType
<1>2. \A u \in Thread : pc'[u] = IF u = t THEN c ELSE pc[u]
  BY Zenon DEF ConfigInv, TypeOK
<1>3. GlobalOwner'
  BY <1>2, Zenon DEF ConfigInv, GlobalOwner
<1>4. FlagOfReference'
  BY <1>2 DEF ConfigInv, FlagOfReference, Filled
<1>5. ReferencesStayGood'
  BY <1>2 DEF ConfigInv, TypeOK, ReferencesStayGood, Filled
<1> QED
  BY <1>1, <1>3, <1>4, <1>5, Zenon DEF ConfigInv

\* A step that gives thread t a reference to the entry of key k.
LEMMA ReferenceStep ==
  ASSUME ConfigInv, Filled, NEW t \in Thread, NEW k \in Key,
         UNCHANGED <<m_global_init, owner, includes, result>>,
         m_init', k # EmptyKey => m_global_init, m_db_info'[k] # 0,
         pc' = [pc EXCEPT ![t] = "use"], want' = [want EXCEPT ![t] = k],
         ref' = [ref EXCEPT ![t] = m_db_info'[k]], dangling' = [dangling EXCEPT ![t] = FALSE]
  PROVE  ConfigInv'
<1>1. m_db_info'[k] \in Nat
  BY Zenon DEF Filled, MapType
<1>2. TypeOK' /\ FileInv'
  BY <1>1, Zenon DEF ConfigInv, TypeOK, Filled, MapType
<1>3. \A u \in Thread \ {t} : pc'[u] = pc[u] /\ want'[u] = want[u] /\ ref'[u] = ref[u] /\ dangling'[u] = dangling[u]
  BY Zenon DEF ConfigInv, TypeOK
<1>4. pc'[t] = "use" /\ want'[t] = k /\ ref'[t] = m_db_info'[k]
  BY Zenon DEF ConfigInv, TypeOK
<1>5. GlobalOwner'
  BY <1>3, <1>4, Zenon DEF ConfigInv, GlobalOwner
<1>6. FlagOfReference'
  BY <1>3, <1>4, Zenon DEF ConfigInv, FlagOfReference, Filled
<1>7. ReferencesStayGood'
  BY <1>3, <1>4 DEF ConfigInv, TypeOK, ReferencesStayGood, Filled
<1> QED
  BY <1>2, <1>5, <1>6, <1>7, Zenon DEF ConfigInv

\* Ending a call.
LEMMA EndsType ==
  ASSUME TypeOK, NEW t \in Thread, NEW r \in Results, Ends(t, r)
  PROVE  pc' = [pc EXCEPT ![t] = "idle"] /\ result' \in [Thread -> Results]
BY Zenon DEF TypeOK, Ends

\* The result of a look-up is one of the results.
LEMMA FoundType ==
  ASSUME NEW m, NEW k
  PROVE  Found(m, k) \in Results /\ validateNamespace(m, k) \in Results
BY Zenon DEF Found, validateNamespace, Results

\* initialize() as a call.
LEMMA CallInitializeStep ==
  ASSUME ConfigInv, NEW t \in Thread, NEW o \in Outcome, callInitialize(t, o)
  PROVE  ConfigInv'
<1>1. Filled
  BY InitializeFills, NothingFills, Zenon DEF ConfigInv, callInitialize
<1>2. PICK r \in Results : Ends(t, r)
  BY Zenon DEF callInitialize, Results
<1> QED
  BY <1>1, <1>2, EndsType, OrdinaryStep, Zenon DEF ConfigInv, TypeOK, callInitialize

\* getDbInfo() and getRedisInfo() give out a reference or fail.
LEMMA GetInfoStep ==
  ASSUME ConfigInv, NEW t \in Thread, NEW k \in Key, NEW o \in Outcome, getDbInfo(t, k, o) \/ getRedisInfo(t, k, o)
  PROVE  ConfigInv'
<1>1. Filled
  BY FirstUseFills, Zenon DEF ConfigInv, getDbInfo, getRedisInfo
<1>2. m_inst_info' = m_db_info'
  BY <1>1, Zenon DEF Filled, FileInv, SameFile
<1>3. UNCHANGED <<m_global_init, owner, includes>> /\ want' = [want EXCEPT ![t] = k] /\ want' \in [Thread -> Key]
  BY Zenon DEF getDbInfo, getRedisInfo, ConfigInv, TypeOK
<1>4. CASE m_init' /\ Found(m_db_info', k) = "ok"
  <2>1. (k # EmptyKey => m_global_init) /\ m_db_info'[k] # 0
    BY <1>3, <1>4, Zenon DEF Found
  <2>2. /\ pc' = [pc EXCEPT ![t] = "use"] /\ ref' = [ref EXCEPT ![t] = m_db_info'[k]]
        /\ dangling' = [dangling EXCEPT ![t] = FALSE] /\ UNCHANGED result
    BY <1>2, <1>4, Zenon DEF getDbInfo, getRedisInfo
  <2> QED
    BY <1>1, <1>3, <1>4, <2>1, <2>2, ReferenceStep, Zenon
<1>5. CASE ~(m_init' /\ Found(m_db_info', k) = "ok")
  <2>1. PICK r \in Results : Ends(t, r)
    BY <1>2, <1>5, FoundType, Zenon DEF getDbInfo, getRedisInfo, Results
  <2>2. UNCHANGED <<ref, dangling>>
    BY <1>2, <1>5, Zenon DEF getDbInfo, getRedisInfo
  <2> QED
    BY <1>1, <1>3, <2>1, <2>2, EndsType, OrdinaryStep, Zenon DEF ConfigInv, TypeOK
<1> QED
  BY <1>4, <1>5, Zenon

\* The look-ups that copy under the mutex.
LEMMA CopyStep ==
  ASSUME ConfigInv, NEW t \in Thread, NEW k \in Key, NEW o \in Outcome,
         getSeparator(t, k, o) \/ getDbKeys(t, o) \/ getDbList(t, k, o)
  PROVE  ConfigInv'
<1>1. Filled
  BY FirstUseFills, Zenon DEF ConfigInv, getSeparator, getDbKeys, getDbList
<1>2. PICK r \in Results : Ends(t, r)
  <2>1. "no_file" \in Results /\ "ok" \in Results /\ "out_of_range" \in Results
    BY Zenon DEF Results
  <2> QED
    BY <2>1, FoundType, Zenon DEF getSeparator, getDbKeys, getDbList
<1>3. UNCHANGED <<m_global_init, owner, includes, ref, dangling>> /\ (want' = [want EXCEPT ![t] = k] \/ want' = want)
  BY Zenon DEF getSeparator, getDbKeys, getDbList
<1> QED
  BY <1>1, <1>2, <1>3, EndsType, OrdinaryStep DEF ConfigInv, TypeOK

\* The use of a reference, and the steps of getInstanceList().
LEMMA InstanceListStep ==
  ASSUME ConfigInv, NEW t \in Thread, NEW k \in Key, NEW o \in Outcome,
         \/ use(t) \/ getInstanceList(t, k) \/ getInstanceListInit(t, o)
         \/ getInstanceListValidate(t) \/ getInstanceListFind(t)
  PROVE  ConfigInv'
<1>1. CASE use(t)
  <2>1. Filled
    BY <1>1, NothingFills, Zenon DEF ConfigInv, use
  <2>2. PICK r \in Results : Ends(t, r)
    BY <1>1, Zenon DEF use, Results
  <2> QED
    BY <1>1, <2>1, <2>2, EndsType, OrdinaryStep, Zenon DEF ConfigInv, TypeOK, use
<1>2. CASE getInstanceList(t, k)
  <2>1. Filled
    BY <1>2, NothingFills, Zenon DEF ConfigInv, getInstanceList
  <2> QED
    BY <1>2, <2>1, OrdinaryStep, Zenon DEF ConfigInv, TypeOK, getInstanceList
<1>3. CASE getInstanceListInit(t, o)
  <2>1. Filled
    BY <1>3, InitializeFills, NothingFills, Zenon DEF ConfigInv, getInstanceListInit
  <2>2. \/ pc' = [pc EXCEPT ![t] = "list"] /\ UNCHANGED result
        \/ \E r \in Results : Ends(t, r)
    BY <1>3, Zenon DEF getInstanceListInit, Results
  <2> QED
    BY <1>3, <2>1, <2>2, EndsType, OrdinaryStep DEF ConfigInv, TypeOK, getInstanceListInit
<1>4. CASE getInstanceListValidate(t)
  <2>1. Filled
    BY <1>4, NothingFills, Zenon DEF ConfigInv, getInstanceListValidate
  <2>2. \/ pc' = [pc EXCEPT ![t] = "listFind"] /\ UNCHANGED result
        \/ \E r \in Results : Ends(t, r)
    BY <1>4, FoundType, Zenon DEF getInstanceListValidate
  <2> QED
    BY <1>4, <2>1, <2>2, EndsType, OrdinaryStep DEF ConfigInv, TypeOK, getInstanceListValidate
<1>5. CASE getInstanceListFind(t)
  <2>1. Filled
    BY <1>5, NothingFills, Zenon DEF ConfigInv, getInstanceListFind
  <2>2. PICK r \in Results : Ends(t, r)
    BY <1>5, Zenon DEF getInstanceListFind, Results
  <2> QED
    BY <1>5, <2>1, <2>2, EndsType, OrdinaryStep, Zenon DEF ConfigInv, TypeOK, getInstanceListFind
<1> QED
  BY <1>1, <1>2, <1>3, <1>4, <1>5, Zenon

\* reset() makes every reference dangle.
LEMMA ResetStep ==
  ASSUME ConfigInv, NEW t \in Thread, reset(t)
  PROVE  ConfigInv'
<1>1. pc' = [pc EXCEPT ![t] = "idle"] /\ result' \in [Thread -> Results]
  BY EndsType, Zenon DEF ConfigInv, reset, Results
<1>2. TypeOK'
  BY <1>1, Zenon DEF ConfigInv, TypeOK, reset
<1>3. FileInv'
  BY DBConfigAssumption, Zenon DEF reset, FileInv, SameFile, FlagsTellContents
<1>4. GlobalOwner'
  BY <1>1, Zenon DEF ConfigInv, GlobalOwner, reset, TypeOK
<1>5. FlagOfReference' /\ ReferencesStayGood'
  BY Zenon DEF reset, FlagOfReference, ReferencesStayGood
<1> QED
  BY <1>2, <1>3, <1>4, <1>5, Zenon DEF ConfigInv

\* initializeGlobalConfig() begins and ends: nobody else is reading the global file.
LEMMA GlobalStep ==
  ASSUME ConfigInv, NEW t \in Thread, NEW ks \in SUBSET Key, NEW o \in Outcome,
         initializeGlobalConfig(t, ks, o) \/ includesEnd(t)
  PROVE  ConfigInv'
<1>1. \A u \in Thread \ {t} : pc[u] # "global"
  BY DBConfigAssumption, Zenon DEF ConfigInv, GlobalOwner, initializeGlobalConfig, includesEnd, Free
<1>2. UNCHANGED <<m_init, maps, parses, want, ref, dangling>>
  BY Zenon DEF initializeGlobalConfig, includesEnd
<1>3. Filled
  BY <1>2, NothingFills, Zenon DEF ConfigInv
<1>4. PICK c \in {"idle", "global"} : pc' = [pc EXCEPT ![t] = c] /\ (c = "global" => owner' = t /\ ~m_global_init')
  BY Zenon DEF initializeGlobalConfig, includesEnd, Ends
<1>5. result' \in [Thread -> Results]
  BY EndsType, Zenon DEF ConfigInv, TypeOK, initializeGlobalConfig, includesEnd, Results
<1>6. owner' \in Thread \cup {NoThread} /\ includes' \in SUBSET Key /\ m_global_init' \in BOOLEAN /\ (m_global_init => m_global_init')
  BY Zenon DEF ConfigInv, TypeOK, initializeGlobalConfig, includesEnd
<1>7. TypeOK' /\ FileInv'
  BY <1>2, <1>3, <1>4, <1>5, <1>6, Zenon DEF ConfigInv, TypeOK, Filled, MapType
<1>8. \A u \in Thread : pc'[u] = IF u = t THEN c ELSE pc[u]
  BY <1>4, Zenon DEF ConfigInv, TypeOK
<1>9. GlobalOwner'
  BY <1>1, <1>4, <1>8, Zenon DEF GlobalOwner
<1>10. FlagOfReference' /\ ReferencesStayGood'
  BY <1>2, <1>6, <1>8, <1>4 DEF ConfigInv, FlagOfReference, ReferencesStayGood, maps
<1> QED
  BY <1>7, <1>9, <1>10, Zenon DEF ConfigInv

\* An element of INCLUDES: no entry that it replaces has a reference.
LEMMA IncludeStep ==
  ASSUME ConfigInv, NEW t \in Thread, NEW k \in Key, NEW o \in Outcome, NEW b \in BOOLEAN, include(t, k, o, b)
  PROVE  ConfigInv'
<1>1. owner = t /\ ~m_global_init /\ \A u \in Thread \ {t} : pc[u] # "global"
  BY Zenon DEF ConfigInv, GlobalOwner, include
<1>2. \A u \in Thread : pc[u] = "use" /\ ~dangling[u] => want[u] = EmptyKey /\ m_init
  BY <1>1, Zenon DEF ConfigInv, FlagOfReference
<1>3. UNCHANGED <<m_global_init, want, ref, dangling>> /\ includes' \in SUBSET Key
  BY Zenon DEF ConfigInv, TypeOK, include
<1>4. CASE Filled /\ \/ UNCHANGED <<owner, pc, result>>
                     \/ owner' = NoThread /\ \E r \in Results : Ends(t, r)
  <2>1. owner' \in Thread \cup {NoThread} /\ result' \in [Thread -> Results]
    BY <1>4, EndsType, Zenon DEF ConfigInv, TypeOK
  <2>2. PICK c \in {"idle", "global"} : pc' = [pc EXCEPT ![t] = c] /\ (c = "global" => owner' = owner)
    <3>1. pc[t] = "global" /\ pc = [pc EXCEPT ![t] = pc[t]]
      BY Zenon DEF ConfigInv, TypeOK, include
    <3> QED
      BY <1>4, <3>1, Zenon DEF Ends
  <2>3. TypeOK' /\ FileInv'
    BY <1>3, <1>4, <2>1, <2>2, Zenon DEF ConfigInv, TypeOK, Filled, MapType
  <2>4. \A u \in Thread : pc'[u] = IF u = t THEN c ELSE pc[u]
    BY <2>2, Zenon DEF ConfigInv, TypeOK
  <2>5. GlobalOwner'
    BY <1>1, <1>3, <2>2, <2>4, Zenon DEF GlobalOwner
  <2>6. FlagOfReference' /\ ReferencesStayGood'
    BY <1>3, <1>4, <2>4 DEF ConfigInv, TypeOK, FlagOfReference, ReferencesStayGood, Filled
  <2> QED
    BY <2>3, <2>5, <2>6, Zenon DEF ConfigInv
<1>5. CASE Store(k, parses + 1) /\ parses' = parses + 1 /\ (k # EmptyKey \/ ~m_init)
           /\ m_init' = (m_init \/ k = EmptyKey) /\ UNCHANGED <<owner, pc, result>>
  <2>1. m_db_info' = [m_db_info EXCEPT ![k] = parses + 1] /\ m_inst_info' = m_db_info' /\ m_db_separator' = m_db_info'
    BY <1>5, Zenon DEF ConfigInv, FileInv, SameFile, Store
  <2>2. TypeOK'
    BY <1>3, <1>5, <2>1 DEF ConfigInv, TypeOK
  <2>3. FileInv'
    BY <1>5, <2>1, DBConfigAssumption, Zenon DEF ConfigInv, TypeOK, FileInv, SameFile, FlagsTellContents
  <2>4. GlobalOwner'
    BY <1>3, <1>5, Zenon DEF ConfigInv, GlobalOwner
  <2>5. FlagOfReference' /\ ReferencesStayGood'
    BY <1>2, <1>3, <1>5, <2>1, DBConfigAssumption, Zenon DEF ConfigInv, TypeOK, FlagOfReference, ReferencesStayGood
  <2> QED
    BY <2>2, <2>3, <2>4, <2>5, Zenon DEF ConfigInv
<1>6. CASE k = EmptyKey /\ m_init
  <2>1. Filled
    BY <1>6, NothingFills, Zenon DEF ConfigInv, include
  <2> QED
    BY <1>4, <1>6, <2>1, Zenon DEF include
<1>7. CASE ~(k = EmptyKey /\ m_init) /\ (o = "bad" \/ (o = "missing" /\ ~b))
  <2>1. UNCHANGED <<m_init, maps>> /\ parses' \in Nat
    BY <1>7 DEF include, parseDatabaseConfig, ConfigInv, TypeOK
  <2>2. Filled
    BY <2>1, Zenon DEF ConfigInv, TypeOK, FileInv, Filled, MapType, SameFile, FlagsTellContents, maps
  <2> QED
    BY <1>4, <1>7, <2>2, Zenon DEF include, Results
<1>8. CASE ~(k = EmptyKey /\ m_init) /\ o = "missing" /\ b
  <2>1. UNCHANGED <<maps, owner, pc, result>> /\ parses' \in Nat /\ m_init' = (m_init \/ k = EmptyKey)
    BY <1>8 DEF include, parseDatabaseConfig, ConfigInv, TypeOK
  <2>2. Filled
    BY <2>1, Zenon DEF ConfigInv, TypeOK, FileInv, Filled, MapType, SameFile, FlagsTellContents, maps
  <2> QED
    BY <1>4, <2>1, <2>2, Zenon
<1>9. CASE ~(k = EmptyKey /\ m_init) /\ o = "good"
  BY <1>5, <1>9, Zenon DEF include, parseDatabaseConfig
<1> QED
  BY <1>6, <1>7, <1>8, <1>9, Zenon DEF Outcome

\* Every step of a thread keeps the invariant.
LEMMA ConfigStep == ConfigInv /\ [Next]_vars => ConfigInv'
<1> SUFFICES ASSUME ConfigInv, [Next]_vars
             PROVE  ConfigInv'
  BY Zenon
<1>1. ASSUME NEW t \in Thread, Step(t)
      PROVE  ConfigInv'
  <2>1. "good" \in Outcome /\ EmptyKey \in Key /\ {} \in SUBSET Key
    BY DBConfigAssumption, Zenon DEF Outcome
  <2> QED
    BY <1>1, <2>1, CallInitializeStep, GetInfoStep, CopyStep, InstanceListStep, ResetStep, GlobalStep, IncludeStep, Zenon DEF
       Step
<1>2. CASE UNCHANGED vars
  BY <1>2, Zenon DEF vars, ConfigInv, TypeOK, FileInv, SameFile, FlagsTellContents, GlobalOwner, FlagOfReference,
     ReferencesStayGood
<1> QED
  BY <1>1, <1>2, Zenon DEF Next

\* Initially there are no entries and no references.
LEMMA ConfigInit == Init => ConfigInv
<1> SUFFICES ASSUME Init
             PROVE  ConfigInv
  BY Zenon
<1>1. TypeOK
  BY DBConfigAssumption, Zenon DEF Init, TypeOK, Results
<1>2. FileInv
  BY DBConfigAssumption, Zenon DEF Init, FileInv, SameFile, FlagsTellContents
<1>3. GlobalOwner /\ FlagOfReference /\ ReferencesStayGood
  BY Zenon DEF Init, GlobalOwner, FlagOfReference, ReferencesStayGood
<1> QED
  BY <1>1, <1>2, <1>3, Zenon DEF ConfigInv

\* The maps of SonicDBConfig describe the same files, no reading of files replaces an entry that a
\* thread has a reference to, and without m_init there is no entry that emplace() would keep.
THEOREM ConfigIsConsistent == Spec => []ConfigConsistent
<1>1. ConfigInv => ConfigConsistent
  BY Zenon DEF ConfigInv, FileInv, ConfigConsistent
<1> QED
  BY <1>1, ConfigInit, ConfigStep, PTL DEF Spec
-------------------------------------------------------------------------------
(***************************************************************************)
(* WarmRestart.                                                            *)
(***************************************************************************)
WarmTyped ==
  /\ restore_count \in [App -> Nat \cup {Warm!NotFound}] /\ warm \in [App -> Nat]
  /\ state \in [App -> Warm!WarmStartState \cup {Warm!None}] /\ docker \in [App -> Warm!Knob]
  /\ warmPc \in [App -> {"down", "system", "docker", "count", "run"}]
  /\ m_enabled \in [App -> BOOLEAN] /\ m_systemWarmRebootEnabled \in [App -> BOOLEAN]
  /\ warmSeen \in [App -> [App -> Warm!WarmStartState \cup {Warm!None, "unknown"}]]

\* The count is right whenever it is there, also between the steps of
\* checkWarmStart() and while the application is down; and it is there once
\* checkWarmStart() is done.
CountRight ==
  /\ \A a \in App : restore_count[a] # Warm!NotFound => restore_count[a] = warm[a]
  /\ \A a \in App : warmPc[a] = "run" => restore_count[a] # Warm!NotFound

WarmInv == WarmTyped /\ CountRight /\ Warm!SystemImpliesEnabled

\* The invariant holds before the first boot.
LEMMA InitWarm == Warm!Init => WarmInv
BY DEF Warm!Init, WarmInv, WarmTyped, CountRight, Warm!SystemImpliesEnabled, Warm!Knob, Warm!None, Warm!NotFound,
   Warm!NotTold

\* No restart, reboot, change of a knob or call of an application breaks it.
LEMMA StepWarm == WarmInv /\ [Warm!Next]_(Warm!vars) => WarmInv'
<1> SUFFICES ASSUME WarmInv, [Warm!Next]_(Warm!vars) PROVE WarmInv'
  BY Zenon
<1> USE DEF WarmInv, WarmTyped, CountRight, Warm!SystemImpliesEnabled, Warm!NotFound
<1>1. CASE Warm!Flush
  BY <1>1, Zenon DEF Warm!Flush, Warm!Change, Warm!Knob, Warm!None, Warm!NotTold
<1>2. CASE \E v \in Warm!Knob : Warm!SetSystem(v)
  BY <1>2, Zenon DEF Warm!SetSystem, Warm!appVars
<1>3. ASSUME NEW a \in App, Warm!initialize(a) PROVE WarmInv'
  BY <1>3, Zenon DEF Warm!initialize
<1>4. ASSUME NEW a \in App, Warm!checkSystem(a) PROVE WarmInv'
  BY <1>4, Zenon DEF Warm!checkSystem, Warm!dbVars
<1>5. ASSUME NEW a \in App, Warm!checkDocker(a) PROVE WarmInv'
  BY <1>5, Zenon DEF Warm!checkDocker, Warm!dbVars
<1>6. ASSUME NEW a \in App, NEW b \in BOOLEAN, Warm!checkCount(a, b) PROVE WarmInv'
  <2>1. CASE ~m_enabled[a]
    <3>1. /\ restore_count' = [restore_count EXCEPT ![a] = 0] /\ warm' = [warm EXCEPT ![a] = 0]
          /\ warmPc' = [warmPc EXCEPT ![a] = "run"]
          /\ UNCHANGED <<state, docker, warmSeen, m_enabled, m_systemWarmRebootEnabled>>
      BY <1>6, <2>1, Zenon DEF Warm!checkCount, Warm!Cold
    <3> QED BY <3>1
  <2>2. CASE m_enabled[a] /\ restore_count[a] = Warm!NotFound
    <3>1. /\ restore_count' = [restore_count EXCEPT ![a] = 0] /\ warm' = [warm EXCEPT ![a] = 0]
          /\ warmPc' = [warmPc EXCEPT ![a] = "run"]
          /\ m_enabled' = [m_enabled EXCEPT ![a] = FALSE]
          /\ m_systemWarmRebootEnabled' = [m_systemWarmRebootEnabled EXCEPT ![a] = FALSE]
          /\ UNCHANGED <<state, docker, warmSeen>>
      BY <1>6, <2>2, Zenon DEF Warm!checkCount, Warm!Cold
    <3>2. CountRight' /\ Warm!SystemImpliesEnabled'
      BY <3>1
    <3> QED BY <3>1, <3>2, Zenon
  <2>3. CASE m_enabled[a] /\ restore_count[a] # Warm!NotFound
    <3>1. /\ \/ /\ restore_count' = [restore_count EXCEPT ![a] = @ + 1]
                /\ warm' = [warm EXCEPT ![a] = @ + 1]
             \/ UNCHANGED <<restore_count, warm>>
          /\ warmPc' = [warmPc EXCEPT ![a] = "run"]
          /\ UNCHANGED <<state, docker, warmSeen, m_enabled, m_systemWarmRebootEnabled>>
      BY <1>6, <2>3, Zenon DEF Warm!checkCount
    <3>2. WarmTyped'
      BY <3>1, <2>3
    <3>3. CountRight' /\ Warm!SystemImpliesEnabled'
      BY <3>1, <2>3
    <3> QED BY <3>2, <3>3, Zenon
  <2> QED BY <2>1, <2>2, <2>3, Zenon
<1>7. ASSUME NEW a \in App, NEW s \in Warm!WarmStartState, Warm!setWarmStartState(a, s) PROVE WarmInv'
  BY <1>7, Zenon DEF Warm!setWarmStartState, Warm!appVars
<1>8. ASSUME NEW a \in App, NEW b \in App, Warm!getWarmStartState(a, b) PROVE WarmInv'
  BY <1>8 DEF Warm!getWarmStartState, Warm!dbVars, Warm!WarmStartState
<1>9. ASSUME NEW a \in App, Warm!Restart(a) PROVE WarmInv'
  BY <1>9, Zenon DEF Warm!Restart, Warm!dbVars, Warm!NotTold
<1>10. ASSUME NEW a \in App, NEW v \in Warm!Knob, Warm!SetDocker(a, v) PROVE WarmInv'
  BY <1>10, Zenon DEF Warm!SetDocker, Warm!appVars
<1>11. CASE UNCHANGED Warm!vars
  BY <1>11, Zenon DEF Warm!vars
<1> QED BY <1>1, <1>2, <1>3, <1>4, <1>5, <1>6, <1>7, <1>8, <1>9, <1>10, <1>11, Zenon DEF Warm!Next

\* In every behaviour, restore_count of an application that has done
\* checkWarmStart() is the number of its warm starts since the last cold one.
THEOREM CountIsRight == Warm!Spec => []Warm!CountsWarmStarts
<1>1. WarmInv => Warm!CountsWarmStarts
  BY Zenon DEF WarmInv, CountRight, Warm!CountsWarmStarts
<1> QED BY InitWarm, StepWarm, <1>1, PTL DEF Warm!Spec

\* isSystemWarmRebootEnabled() of an application implies its isWarmStart().
THEOREM SystemEnabled == Warm!Spec => []Warm!SystemImpliesEnabled
<1>1. WarmInv => Warm!SystemImpliesEnabled
  BY Zenon DEF WarmInv
<1> QED BY InitWarm, StepWarm, <1>1, PTL DEF Warm!Spec

\* With warm start on, "reconciled" is told of an application only if that one has said so.
THEOREM ToldOnlyAsSaid == Warm!Spec => Warm!NotReconciledByDefault
<1>1. WarmInv /\ [Warm!Next]_(Warm!vars) => [Warm!ToldAsSaid]_(Warm!vars)
  <2> SUFFICES ASSUME WarmInv, Warm!Next PROVE Warm!ToldAsSaid
    BY Zenon
  <2> SUFFICES ASSUME NEW c \in App, NEW d \in App,
                      warmSeen'[c][d] = "reconciled", warmSeen[c][d] # "reconciled", m_enabled[c]
               PROVE state[d] = "reconciled"
    BY Zenon DEF Warm!ToldAsSaid
  <2>1. warmSeen \in [App -> [App -> Warm!WarmStartState \cup {Warm!None, "unknown"}]] /\ m_enabled \in [App -> BOOLEAN]
    BY Zenon DEF WarmInv, WarmTyped
  <2>2. PICK a \in App, b \in App : Warm!getWarmStartState(a, b)
    BY <2>1 DEF Warm!Next, Warm!Flush, Warm!SetSystem, Warm!initialize, Warm!checkSystem, Warm!checkDocker,
       Warm!checkCount, Warm!setWarmStartState, Warm!Restart,
                Warm!SetDocker, Warm!appVars, Warm!None, Warm!NotTold
  <2> QED BY <2>1, <2>2, Zenon DEF Warm!getWarmStartState, Warm!None
<1> QED BY InitWarm, StepWarm, <1>1, PTL DEF Warm!Spec, Warm!NotReconciledByDefault
-------------------------------------------------------------------------------
(***************************************************************************)
(* Profile.                                                                *)
(***************************************************************************)
Reading(c) == op[c] \in {"getConfigs", "getKeys"}

ProfileTyped ==
  /\ deleted \in SUBSET Item
  /\ op \in [Client -> Profile!Op \cup {"none"}] /\ profilePc \in [Client -> {"idle", "check", "write", "done"}]
  /\ asked \in [Client -> SUBSET Item] /\ profileTodo \in [Client -> SUBSET Item] /\ profileResult \in [Client -> SUBSET Item]
  /\ seen \in [Client -> SUBSET Item] /\ unseen \in [Client -> SUBSET Item]

\* The history of a call has what is true now while the call lasts; of the items a
\* read has already asked for, those it found have been there and the others not.
CallHistory(c) ==
  /\ profilePc[c] \in {"check", "write"} => Profile!There(deleted) \subseteq seen[c] /\ Item \ Profile!There(deleted) \subseteq unseen[c]
  /\ Reading(c) /\ profilePc[c] \in {"check", "done"} =>
       /\ profileResult[c] \subseteq seen[c]
       /\ (asked[c] \ profileTodo[c]) \ profileResult[c] \subseteq unseen[c]
       /\ profilePc[c] = "done" => profileTodo[c] = {}

ProfileInv == ProfileTyped /\ \A c \in Client : CallHistory(c)

\* It holds before the first call.
LEMMA ProfileInit == Profile!Init => ProfileInv
BY Zenon DEF Profile!Init, ProfileInv, ProfileTyped, CallHistory, Reading, Profile!Op

\* A call begins: the history begins with what is true now.
LEMMA ProfileCallStep ==
  ASSUME ProfileInv, NEW c \in Client, NEW o \in Profile!Op, NEW items \in SUBSET Item, Profile!Call(c, o, items)
  PROVE  ProfileInv'
<1>1. Profile!There(deleted) \in SUBSET Item /\ Item \ Profile!There(deleted) \in SUBSET Item
  BY ProfileAssumption, Zenon DEF Profile!There
<1>2. ProfileTyped'
  BY <1>1, Zenon DEF ProfileInv, ProfileTyped, Profile!Call
<1>3. ASSUME NEW d \in Client, d # c
      PROVE  CallHistory(d)'
  BY <1>3, Zenon DEF ProfileInv, ProfileTyped, CallHistory, Reading, Profile!Call
<1>4. CallHistory(c)'
  BY Zenon DEF ProfileInv, ProfileTyped, CallHistory, Reading, Profile!Call
<1> QED
  BY <1>2, <1>3, <1>4, Zenon DEF ProfileInv

\* A deletion or its reversal enters the history of every call that is being made.
LEMMA ProfileWriteStep ==
  ASSUME ProfileInv, NEW c \in Client, deleted' \in SUBSET Item, Profile!Watch(deleted'),
         profilePc[c] = "write", profilePc' = [profilePc EXCEPT ![c] = "done"], op[c] \in {"tryDeleteItem", "tryRevertItem"},
         UNCHANGED <<op, asked, profileTodo, profileResult>>
  PROVE  ProfileInv'
<1>1. Profile!There(deleted') \in SUBSET Item /\ Item \ Profile!There(deleted') \in SUBSET Item
  BY ProfileAssumption, Zenon DEF Profile!There
<1>2. ProfileTyped'
  BY <1>1, Zenon DEF ProfileInv, ProfileTyped, Profile!Watch
<1>3. ASSUME NEW e \in Client, e # c
      PROVE  CallHistory(e)'
  BY <1>3, Zenon DEF ProfileInv, ProfileTyped, CallHistory, Reading, Profile!Watch
<1>4. CallHistory(c)'
  BY Zenon DEF ProfileInv, ProfileTyped, CallHistory, Reading
<1> QED
  BY <1>2, <1>3, <1>4, Zenon DEF ProfileInv

\* Every step keeps the invariant.
LEMMA ProfileStep ==
  ProfileInv /\ [Profile!Next]_(Profile!vars) => ProfileInv'
<1> SUFFICES ASSUME ProfileInv, [Profile!Next]_(Profile!vars)
             PROVE  ProfileInv'
  BY Zenon
<1>1. ASSUME NEW c \in Client, Profile!getConfigs(c) \/ Profile!getKeys(c)
      PROVE  ProfileInv'
  BY <1>1, ProfileCallStep, ProfileAssumption, Zenon DEF Profile!getConfigs, Profile!getKeys, Profile!Op
<1>2. ASSUME NEW c \in Client, NEW i \in Item, Profile!getConfig(c, i) \/ Profile!tryDeleteItem(c, i) \/ Profile!tryRevertItem(c, i)
      PROVE  ProfileInv'
  BY <1>2, ProfileCallStep DEF Profile!getConfig, Profile!tryDeleteItem, Profile!tryRevertItem, Profile!Op
<1>3. ASSUME NEW c \in Client, NEW i \in Item, Profile!itemDeleted(c, i)
      PROVE  ProfileInv'
  <2>1. ProfileTyped'
    BY <1>3, Zenon DEF Profile!itemDeleted, ProfileInv, ProfileTyped
  <2>2. ASSUME NEW d \in Client, d # c
        PROVE  CallHistory(d)'
    BY <1>3, <2>2, Zenon DEF Profile!itemDeleted, ProfileInv, ProfileTyped, CallHistory, Reading
  <2>3. CallHistory(c)'
    <3>1. /\ profilePc[c] = "check" /\ Reading(c) /\ op' = op /\ asked' = asked /\ seen' = seen /\ unseen' = unseen
          /\ deleted' = deleted /\ profileTodo'[c] = profileTodo[c] \ {i}
          /\ profileResult'[c] = profileResult[c] \cup ({i} \cap Profile!There(deleted))
          /\ profilePc'[c] = IF profileTodo'[c] = {} THEN "done" ELSE "check"
      BY <1>3, Zenon DEF Profile!itemDeleted, ProfileInv, ProfileTyped, Reading
    <3>2. CallHistory(c)
      BY Zenon DEF ProfileInv
    <3> QED
      BY <3>1, <3>2, Zenon DEF CallHistory, Reading
  <2> QED
    BY <2>1, <2>2, <2>3, Zenon DEF ProfileInv
<1>4. ASSUME NEW c \in Client, Profile!checkItem(c)
      PROVE  ProfileInv'
  <2>1. ProfileTyped'
    BY <1>4, Zenon DEF Profile!checkItem, ProfileInv, ProfileTyped
  <2>2. ASSUME NEW d \in Client, d # c
        PROVE  CallHistory(d)'
    BY <1>4, <2>2, Zenon DEF Profile!checkItem, ProfileInv, ProfileTyped, CallHistory, Reading
  <2>3. CallHistory(c)'
    BY <1>4, Zenon DEF Profile!checkItem, ProfileInv, ProfileTyped, CallHistory, Reading
  <2> QED
    BY <2>1, <2>2, <2>3, Zenon DEF ProfileInv
<1>5. ASSUME NEW c \in Client, Profile!deleteItem(c) \/ Profile!revertItem(c)
      PROVE  ProfileInv'
  <2>1. deleted' \in SUBSET Item
    BY <1>5, Zenon DEF Profile!deleteItem, Profile!revertItem, ProfileInv, ProfileTyped
  <2> QED
    BY <1>5, <2>1, ProfileWriteStep, Zenon DEF Profile!deleteItem, Profile!revertItem
<1>6. CASE UNCHANGED Profile!vars
  BY <1>6, Zenon DEF Profile!vars, ProfileInv, ProfileTyped, CallHistory, Reading
<1> QED
  BY <1>1, <1>2, <1>3, <1>4, <1>5, <1>6, Zenon DEF Profile!Next

\* A read shows of every item what was true of it at some moment of the call.
THEOREM ReadsWhatWasThere ==
  Profile!Spec => []Profile!ReadsPresent
<1>1. ProfileInv => Profile!ReadsPresent
  BY Zenon DEF ProfileInv, CallHistory, Reading, Profile!ReadsPresent
<1> QED
  BY <1>1, ProfileInit, ProfileStep, PTL DEF Profile!Spec
-------------------------------------------------------------------------------
\* The proofs about the counters.
Read == INSTANCE CountersProofs WITH
  MaxChanges <- MaxNameChanges, changes <- nameChanges, m_enabled <- m_cacheEnabled, pc <- counterPc,
  asked <- counterAsked, keys <- counterKeys

(***************************************************************************)
(* The modules side by side: a step of one leaves the others and "part"    *)
(* alone.                                                                  *)
(***************************************************************************)
\* The module of those proofs and the one of Databases are the same.
LEMMA SameCounters ==
  /\ Read!Init <=> Counters!Init
  /\ [Counters!Next]_(Counters!vars) => [Read!Next]_(Read!vars)
  /\ Read!RowsOfTheName /\ Read!CacheTransparent => Counters!RowsOfTheName /\ Counters!CacheTransparent
<1>1. Read!Init <=> Counters!Init
  BY Zenon DEF Read!None, Counters!None, Read!COUNTERS_DB, Counters!COUNTERS_DB, Read!GB_COUNTERS_DB,
     Counters!GB_COUNTERS_DB, Read!Db, Counters!Db, Read!PortName, Counters!PortName, Read!Name, Counters!Name, Read!NoKey,
     Counters!NoKey, Read!NoValues, Counters!NoValues, Read!DbsOf, Counters!DbsOf, Read!NamesOf, Counters!NamesOf,
     Read!NoHistory, Counters!NoHistory, Read!Init, Counters!Init
<1>2. Counters!Next <=> Read!Next
  BY Zenon DEF Read!None, Counters!None, Read!COUNTERS_DB, Counters!COUNTERS_DB, Read!GB_COUNTERS_DB,
     Counters!GB_COUNTERS_DB, Read!Db, Counters!Db, Read!PortName, Counters!PortName, Read!Name, Counters!Name, Read!NoKey,
     Counters!NoKey, Read!NoValues, Counters!NoValues, Read!DbsOf, Counters!DbsOf, Read!DbOf, Counters!DbOf, Read!Mode,
     Counters!Mode, Read!NamesOf, Counters!NamesOf, Read!Field, Counters!Field, Read!dbVars, Counters!dbVars, Read!cacheVars,
     Counters!cacheVars, Read!histories, Counters!histories, Read!Stands, Counters!Stands, Read!Of, Counters!Of,
     Read!NoHistory, Counters!NoHistory, Read!SetName, Counters!SetName, Read!Idle, Counters!Idle, Read!Rest, Counters!Rest,
     Read!Forget, Counters!Forget, Read!refresh, Counters!refresh, Read!Insert, Counters!Insert, Read!cachingKey,
     Counters!cachingKey, Read!cachingKeyGb, Counters!cachingKeyGb, Read!disable, Counters!disable, Read!Call,
     Counters!Call, Read!get, Counters!get, Read!hget, Counters!hget, Read!usingLuaTable, Counters!usingLuaTable,
     Read!LuaNames, Counters!LuaNames, Read!getLuaKeys, Counters!getLuaKeys, Read!NameOf, Counters!NameOf, Read!getKey,
     Counters!getKey, Read!getKeyGb, Counters!getKeyGb, Read!Row, Counters!Row, Read!tableGet, Counters!tableGet,
     Read!get_gbcounter, Counters!get_gbcounter, Read!luaGet, Counters!luaGet, Read!Next, Counters!Next
<1>3. UNCHANGED Counters!vars => UNCHANGED Read!vars
  BY Zenon DEF Read!vars, Counters!vars
<1>4. Read!RowsOfTheName <=> Counters!RowsOfTheName
  BY Zenon DEF Read!PortName, Counters!PortName, Read!NoValues, Counters!NoValues, Read!NamesOf, Counters!NamesOf,
     Read!Cached, Counters!Cached, Read!Since, Counters!Since, Read!RowsOfTheName, Counters!RowsOfTheName
<1>5. Read!CacheTransparent <=> Counters!CacheTransparent
  BY Zenon DEF Read!None, Counters!None, Read!COUNTERS_DB, Counters!COUNTERS_DB, Read!GB_COUNTERS_DB,
     Counters!GB_COUNTERS_DB, Read!Db, Counters!Db, Read!PortName, Counters!PortName, Read!NoValues, Counters!NoValues,
     Read!DbsOf, Counters!DbsOf, Read!DbOf, Counters!DbOf, Read!NamesOf, Counters!NamesOf, Read!Stands, Counters!Stands,
     Read!Of, Counters!Of, Read!NameOf, Counters!NameOf, Read!Row, Counters!Row, Read!Cached, Counters!Cached, Read!Since,
     Counters!Since, Read!Gearbox, Counters!Gearbox, Read!Meant, Counters!Meant, Read!AllNamed, Counters!AllNamed,
     Read!RightBy, Counters!RightBy, Read!CacheTransparent, Counters!CacheTransparent
<1> QED BY <1>1, <1>2, <1>3, <1>4, <1>5

WarmPartInv == part = "warm" => WarmInv
ReadPartsInv == (part = "profile" => ProfileInv) /\ (part = "counters" => Read!CountersInv)

\* A step of Databases is one of the part that moves.
LEMMA PartStep ==
  ASSUME [PartsNext]_allVars
  PROVE  /\ part' = part
         /\ part = "warm" => [Warm!Next]_(Warm!vars)
         /\ part = "profile" => [Profile!Next]_(Profile!vars)
         /\ part = "counters" => [Counters!Next]_(Counters!vars)
<1>1. CASE ConfigPart
  BY <1>1, Zenon DEF ConfigPart
<1>2. CASE ProfilePart
  BY <1>2, Zenon DEF ProfilePart
<1>3. CASE WarmPart
  BY <1>3, Zenon DEF WarmPart
<1>4. CASE CountersPart
  BY <1>4, Zenon DEF CountersPart
<1>5. CASE UNCHANGED allVars
  <2>1. UNCHANGED <<part, profileVars, warmVars, counterVars>>
    BY <1>5, Zenon DEF allVars
  <2>2. UNCHANGED Warm!vars
    BY <2>1, Zenon DEF warmVars, Warm!vars
  <2>3. UNCHANGED Profile!vars
    BY <2>1, Zenon DEF profileVars, Profile!vars
  <2>4. UNCHANGED Counters!vars
    BY <2>1, Zenon DEF counterVars, Counters!vars
  <2> QED
    BY <2>1, <2>2, <2>3, <2>4
<1> QED
  BY <1>1, <1>2, <1>3, <1>4, <1>5, Zenon DEF PartsNext

\* restore_count counts the warm starts since the last cold one, and an application that takes part in
\* a warm reboot of the system restarts warm (WarmStart::checkWarmStart).
THEOREM WarmStartsAreCounted == PartsSpec => []WarmStartsCounted
<1>1. PartsInit => WarmPartInv
  BY InitWarm, Zenon DEF PartsInit, WarmPartInv
<1>2. WarmPartInv /\ [PartsNext]_allVars => WarmPartInv'
  BY PartStep, StepWarm, Zenon DEF WarmPartInv
<1>3. WarmPartInv => WarmStartsCounted
  BY DEF WarmPartInv, WarmInv, CountRight, Warm!CountsWarmStarts, WarmStartsCounted
<1> QED
  BY <1>1, <1>2, <1>3, PTL DEF PartsSpec

\* A read of PROFILE_DB and STATE_DB shows of every item what was true of it during the call
\* (ProfileProvider), and a counter comes from rows that its name stood for during the call or since the
\* refresh() of the cache, all of them when the name maps did not change (CounterTable).
THEOREM ReadsAreTrue == PartsSpec => []ReadsTrue
<1>1. PartsInit => ReadPartsInv
  BY ProfileInit, Read!InitCounters, SameCounters, Zenon DEF PartsInit, ReadPartsInv
<1>2. ReadPartsInv /\ [PartsNext]_allVars => ReadPartsInv'
  BY PartStep, ProfileStep, Read!StepCounters, SameCounters, Zenon DEF ReadPartsInv
<1>3. ReadPartsInv => ReadsTrue
  <2>1. ProfileInv => Profile!ReadsPresent
    BY Zenon DEF ProfileInv, CallHistory, Reading, Profile!ReadsPresent
  <2> QED
    BY <2>1, Read!CountersRight, SameCounters, Zenon DEF ReadPartsInv, ReadsTrue
<1> QED
  BY <1>1, <1>2, <1>3, PTL DEF PartsSpec
================================================================================
