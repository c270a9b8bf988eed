------------------------------- MODULE Counters -------------------------------
(***************************************************************************)
(* CounterTable (countertable.cpp, luatable.cpp, portcounter.lua): the     *)
(* counters of a port or of a MACsec association are found by its name, by *)
(* way of the name maps of COUNTERS_DB and GB_COUNTERS_DB or of a cache of *)
(* these maps.  A port may have a gearbox, with a system and a line side   *)
(* of its own.  A client reads the counters of one port or of one          *)
(* association: PortCounter and MacsecCounter share nothing.               *)
(***************************************************************************)
EXTENDS Integers, Sequences

CONSTANTS Oid,
          MaxChanges   \* bound: changes of the name maps

None == "none"
COUNTERS_DB == "COUNTERS_DB"
GB_COUNTERS_DB == "GB_COUNTERS_DB"
Db == {COUNTERS_DB, GB_COUNTERS_DB}
PortName == {"asic", "system", "line"}   \* the name of the port, alone or with the suffix of a side
Name == PortName \cup {"sa"}
NoKey == <<COUNTERS_DB, None>>
NoValues == [f \in {} |-> {}]

\* The databases whose map may have a name.
DbsOf(n) == IF n = "asic" THEN {COUNTERS_DB} ELSE IF n = "sa" THEN Db ELSE {GB_COUNTERS_DB}
DbOf(n) == IF n = "asic" THEN COUNTERS_DB ELSE GB_COUNTERS_DB

Mode == {"UNION", "ASIC", "SYSTEMSIDE", "LINESIDE", "MACSEC"}   \* of PortCounter, and MacsecCounter
NamesOf(m) == IF m = "MACSEC" THEN {"sa"} ELSE PortName

\* Counters that both sides of the gearbox add to, only the line side, or none.
Field == {"both", "line", "plain"}

VARIABLES
  nameMap,        \* COUNTERS_PORT_NAME_MAP and COUNTERS_MACSEC_NAME_MAP in either database
  changes,
  m_keyMap,       \* of the KeyCache
  m_enabled,      \* whose names are cached
  pc, mode,       \* what the client does, and for which counter
  asked,          \* the counters it wants
  enabling,       \* refresh() is part of enable()
  keys,           \* what it has found in the maps
  values,         \* what it got, if anything: for each counter the rows that are added up
  present,        \* the rows that were there when it read
  sinceCall, sinceRefresh   \* history: what a name has stood for since the call, and since the refresh()

dbVars == <<nameMap, changes>>
cacheVars == <<m_keyMap, m_enabled, enabling>>
histories == <<sinceCall, sinceRefresh>>
vars == <<nameMap, changes, m_keyMap, m_enabled, pc, mode, asked, enabling, keys, values, present, sinceCall,
          sinceRefresh>>

Pair == Db \X (Oid \cup {None})

\* Every variable has its type.
TypeOK ==
  /\ nameMap \in [Db -> [Name -> Oid \cup {None}]]
  /\ m_keyMap \in [Name -> Pair] /\ m_enabled \subseteq Name
  /\ pc \in {"idle", "using", "luaKeys", "lua", "key", "keyGb", "table", "caching", "cachingGb", "done"}
  /\ mode \in Mode /\ asked \subseteq Field /\ Len(keys) <= 3
  /\ sinceCall \in [Name -> SUBSET Pair] /\ sinceRefresh \in [Name -> SUBSET Pair]

\* What a name stands for, by the maps M and by those in the databases.
Stands(M, n) == {<<d, M[d][n]>> : d \in DbsOf(n)}
Of(n) == Stands(nameMap, n)
NoHistory == [n \in Name |-> {}]

Init ==
  /\ mode \in {"UNION", "MACSEC"}
  /\ \E o \in Oid : nameMap \in [Db -> [Name -> {o, None}]]
  /\ \A n \in Name, d \in Db : d \notin DbsOf(n) \/ n \notin NamesOf(mode) => nameMap[d][n] = None
  /\ changes = 0
  /\ m_keyMap = [n \in Name |-> NoKey] /\ m_enabled = {} /\ enabling = FALSE
  /\ pc = "idle" /\ asked = {} /\ keys = <<>> /\ values = NoValues /\ present = {}
  /\ sinceCall = NoHistory /\ sinceRefresh = NoHistory
-------------------------------------------------------------------------------
\* orchagent creates, removes or replaces a port or an association.
SetName(d, n, o) ==
  /\ changes < MaxChanges /\ changes' = changes + 1
  /\ n \in NamesOf(mode) /\ d \in DbsOf(n) /\ o # nameMap[d][n]
  /\ nameMap' = [nameMap EXCEPT ![d][n] = o]
  /\ sinceCall' = [sinceCall EXCEPT ![n] = IF pc \in {"idle", "done"} THEN @ ELSE @ \cup {<<d, o>>}]
  /\ sinceRefresh' = [sinceRefresh EXCEPT ![n] = IF @ = {} THEN @ ELSE @ \cup {<<d, o>>}]
  /\ UNCHANGED <<cacheVars, pc, mode, asked, keys, values, present>>
-------------------------------------------------------------------------------
(***************************************************************************)
(* KeyCache.                                                               *)
(***************************************************************************)
Idle == pc \in {"idle", "done"}
Rest == UNCHANGED mode /\ asked' = {} /\ keys' = <<>> /\ values' = NoValues /\ present' = {} /\ sinceCall' = NoHistory

Forget == m_keyMap' = [n \in Name |-> NoKey]

\* Mutant: the old keys stay.
refreshKeeps(e) ==
  /\ Idle /\ UNCHANGED m_keyMap
  /\ pc' = "caching" /\ enabling' = e /\ Rest
  /\ sinceRefresh' = [n \in Name |-> IF n \in NamesOf(mode) THEN Of(n) ELSE {}]
  /\ UNCHANGED <<dbVars, m_enabled>>

\* refresh(), which enable() calls first.
refresh(e) ==
  /\ Idle /\ Forget
  /\ pc' = "caching" /\ enabling' = e /\ Rest
  /\ sinceRefresh' = [n \in Name |-> IF n \in NamesOf(mode) THEN Of(n) ELSE {}]
  /\ UNCHANGED <<dbVars, m_enabled>>

\* insert() keeps a key that is there.
Insert(d) ==
  m_keyMap' = [n \in Name |-> IF n \in NamesOf(mode) /\ m_keyMap[n] = NoKey /\ nameMap[d][n] # None
                              THEN <<d, nameMap[d][n]>> ELSE m_keyMap[n]]

\* cachingKey(): an HGETALL of each database.
cachingKey ==
  /\ pc = "caching" /\ Insert(COUNTERS_DB) /\ pc' = "cachingGb"
  /\ UNCHANGED <<dbVars, m_enabled, enabling, mode, asked, keys, values, present, histories>>

cachingKeyGb ==
  /\ pc = "cachingGb" /\ Insert(GB_COUNTERS_DB) /\ pc' = "idle"
  /\ m_enabled' = IF enabling THEN m_enabled \cup NamesOf(mode) ELSE m_enabled
  /\ enabling' = FALSE /\ Rest
  /\ UNCHANGED <<dbVars, sinceRefresh>>

\* disable(), or only clear().
disable(e) ==
  /\ Idle /\ Forget /\ pc' = "idle" /\ Rest
  /\ m_enabled' = IF e THEN {} ELSE m_enabled
  /\ sinceRefresh' = NoHistory
  /\ UNCHANGED <<dbVars, enabling>>
-------------------------------------------------------------------------------
(***************************************************************************)
(* CounterTable.                                                           *)
(***************************************************************************)
Call(m, fs) ==
  /\ Idle /\ NamesOf(m) = NamesOf(mode) /\ mode' = m /\ asked' = fs
  /\ pc' = IF m = "UNION" THEN "using" ELSE "key"
  /\ keys' = <<>> /\ values' = NoValues /\ present' = {}
  /\ sinceCall' = [n \in Name |-> IF n \in NamesOf(m) THEN Of(n) ELSE {}]
  /\ UNCHANGED <<dbVars, cacheVars, sinceRefresh>>

get(m) == Call(m, Field)
hget(m, f) == Call(m, {f})

\* Is there a gearbox?
usingLuaTable ==
  /\ pc = "using"
  /\ pc' = IF nameMap[GB_COUNTERS_DB]["line"] # None THEN "luaKeys" ELSE "key"
  /\ UNCHANGED <<dbVars, cacheVars, mode, asked, keys, values, present, histories>>

LuaNames == <<"line", "system", "asic">>   \* the order of the HGETs

\* The three keys, at once from the cache or by an HGET each.
getLuaKeys ==
  /\ pc = "luaKeys"
  /\ IF PortName \subseteq m_enabled
     THEN keys' = [i \in 1..3 |-> m_keyMap[LuaNames[i]][2]]
     ELSE LET n == LuaNames[Len(keys) + 1] IN keys' = Append(keys, nameMap[DbOf(n)][n])
  /\ pc' = IF Len(keys') = 3 THEN "lua" ELSE "luaKeys"
  /\ UNCHANGED <<dbVars, cacheVars, mode, asked, values, present, histories>>

NameOf(m) ==
  IF m = "SYSTEMSIDE" THEN "system" ELSE IF m = "LINESIDE" THEN "line" ELSE IF m = "MACSEC" THEN "sa" ELSE "asic"

\* The key of one row: of a port, from the database of its mode; of an
\* association, from the first database that has it.
getKey ==
  /\ pc = "key"
  /\ LET n == NameOf(mode)
         k == IF n \in m_enabled THEN m_keyMap[n]
              ELSE IF n = "sa" THEN <<COUNTERS_DB, nameMap[COUNTERS_DB][n]>>
              ELSE <<DbOf(n), nameMap[DbOf(n)][n]>>
     IN /\ keys' = k
        /\ pc' = IF k[2] # None THEN "table" ELSE IF n = "sa" /\ n \notin m_enabled THEN "keyGb" ELSE "done"
  /\ UNCHANGED <<dbVars, cacheVars, mode, asked, values, present, histories>>

getKeyGb ==
  /\ pc = "keyGb"
  /\ keys' = <<GB_COUNTERS_DB, nameMap[GB_COUNTERS_DB]["sa"]>>
  /\ pc' = IF nameMap[GB_COUNTERS_DB]["sa"] # None THEN "table" ELSE "done"
  /\ UNCHANGED <<dbVars, cacheVars, mode, asked, values, present, histories>>

\* A row of the counter table, by the name it was found with, and which of its counters is added.
Row(n, d, o, c) == [name |-> n, db |-> d, oid |-> o, counter |-> c]

\* Table::get() and Table::hget() of the row, which may be there or not.
tableGet(there) ==
  /\ pc = "table" /\ there \subseteq {NameOf(mode)}
  /\ present' = there /\ pc' = "done"
  /\ values' = IF there = {} THEN NoValues ELSE [f \in asked |-> {Row(NameOf(mode), keys[1], keys[2], "same")}]
  /\ UNCHANGED <<dbVars, cacheVars, mode, asked, keys, histories>>

\* What comes in at a port leaves its gearbox at the system side, whose opposite counter is added.
get_gbcounter(f, there) ==
  {r \in {Row("system", GB_COUNTERS_DB, keys[2], "mirror"), Row("line", GB_COUNTERS_DB, keys[1], "same")} :
     r.name \in there /\ (f = "both" \/ (f = "line" /\ r.name = "line"))}

\* LuaTable and the script: the counters of the ASIC, with those of the gearbox added.
luaGet(there) ==
  /\ pc = "lua" /\ present' = there /\ pc' = "done"
  /\ values' = IF None \in {keys[i] : i \in 1..3} \/ "asic" \notin there THEN NoValues
               ELSE [f \in asked |-> {Row("asic", COUNTERS_DB, keys[3], "same")} \cup get_gbcounter(f, there)]
  /\ UNCHANGED <<dbVars, cacheVars, mode, asked, keys, histories>>
-------------------------------------------------------------------------------
Next ==
  \/ \E d \in Db, n \in Name, o \in Oid \cup {None} : SetName(d, n, o)
  \/ \E e \in BOOLEAN : refresh(e) \/ disable(e)
  \/ cachingKey \/ cachingKeyGb
  \/ \E m \in Mode : get(m) \/ \E f \in (IF m = "UNION" THEN Field ELSE {"plain"}) : hget(m, f)
  \/ usingLuaTable \/ getLuaKeys \/ getKey \/ getKeyGb
  \/ \E there \in SUBSET Name : tableGet(there)
  \/ \E there \in SUBSET PortName : luaGet(there)

Spec == Init /\ [][Next]_vars
-------------------------------------------------------------------------------
Cached == NamesOf(mode) \subseteq m_enabled
Since == IF Cached THEN sinceRefresh ELSE sinceCall

\* A counter is never added from a row that its name did not stand for: at some
\* time of the call, or, with the cache, at some time since the last refresh().
RowsOfTheName ==
  pc = "done" /\ values # NoValues =>
    \A r \in UNION {values[f] : f \in asked} :
      <<r.db, r.oid>> \in Since[r.name]

Gearbox(M) == M[GB_COUNTERS_DB]["line"] # None

\* The rows that make up counter f, by the maps M.
Meant(M, f) ==
  LET first == IF M[COUNTERS_DB]["sa"] # None THEN COUNTERS_DB ELSE GB_COUNTERS_DB
      rows == {Row(n, DbOf(n), M[DbOf(n)][n], IF mode = "UNION" /\ n = "system" THEN "mirror" ELSE "same") : n \in PortName}
  IN IF mode = "MACSEC" THEN {Row("sa", first, M[first]["sa"], "same")}
     ELSE {r \in rows :
             \/ r.name = NameOf(mode)
             \/ /\ mode = "UNION" /\ Gearbox(M) /\ r.name \in present
                /\ f = "both" \/ (f = "line" /\ r.name = "line")}

\* Every name that makes up a counter stands for something, by the maps M.
AllNamed(M) ==
  \A n \in (IF mode = "UNION" /\ Gearbox(M) THEN PortName ELSE {NameOf(mode)}) : \E k \in Stands(M, n) : k[2] # None

\* What was read is right by the maps M.
RightBy(M) ==
  IF AllNamed(M) /\ NameOf(mode) \in present THEN values # NoValues /\ \A f \in asked : values[f] = Meant(M, f)
                                             ELSE values = NoValues

\* While the maps stay as they are, a counter is the sum over the rows that make
\* it up in mode m, and the cache makes no difference.
CacheTransparent == pc = "done" /\ (\A n \in NamesOf(mode) : Since[n] = Of(n)) => RightBy(nameMap)
===============================================================================
