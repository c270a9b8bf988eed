---------------------------- MODULE CountersProofs ----------------------------
(***************************************************************************)
(* Proofs about Counters, for any set of object identifiers and any number *)
(* of changes of the name maps: a counter comes from rows that its name    *)
(* stood for, and the cache shows nothing that the maps would not.         *)
(*                                                                         *)
(* The histories sinceCall and sinceRefresh have whatever a name has stood *)
(* for.  A client is "quiet" if each of its names has stood for one thing  *)
(* only; then every key that it has found is the one in the maps.          *)
(***************************************************************************)
EXTENDS Counters, TLAPS

Calling == {"using", "luaKeys", "lua", "key", "keyGb", "table"}
Maps == [Db -> [Name -> Oid \cup {None}]]

\* The key of a name by the first of the two maps, and by both.
FirstKey(n) == IF nameMap[COUNTERS_DB][n] # None THEN <<COUNTERS_DB, nameMap[COUNTERS_DB][n]>> ELSE NoKey
BothKey(n) ==
  IF nameMap[COUNTERS_DB][n] # None THEN <<COUNTERS_DB, nameMap[COUNTERS_DB][n]>>
  ELSE IF nameMap[GB_COUNTERS_DB][n] # None THEN <<GB_COUNTERS_DB, nameMap[GB_COUNTERS_DB][n]>> ELSE NoKey

Quiet == \A n \in NamesOf(mode) : Since[n] = Of(n)

Shape ==
  /\ nameMap \in Maps /\ m_keyMap \in [Name -> Pair] /\ m_enabled \in {{}, NamesOf(mode)}
  /\ pc \in Calling \cup {"idle", "caching", "cachingGb", "done"} /\ mode \in Mode /\ asked \subseteq Field
  /\ sinceCall \in [Name -> SUBSET Pair] /\ sinceRefresh \in [Name -> SUBSET Pair]
  /\ \A n \in Name, d \in Db : d \notin DbsOf(n) \/ n \notin NamesOf(mode) => nameMap[d][n] = None
  /\ \A n \in Name : \A k \in sinceRefresh[n] : k[1] \in DbsOf(n)

\* The histories have what the names stand for now.
Tracked ==
  /\ \A n \in NamesOf(mode) : sinceRefresh[n] = {} \/ Of(n) \subseteq sinceRefresh[n]
  /\ pc \in Calling => \A n \in NamesOf(mode) : Of(n) \subseteq sinceCall[n]
  /\ pc \in {"caching", "cachingGb"} => \A n \in NamesOf(mode) : sinceRefresh[n] # {}

\* The cache has what the names stood for since the refresh(), and all of it.
CacheRight ==
  \A n \in Name :
    /\ m_keyMap[n] = NoKey \/ m_keyMap[n] \in sinceRefresh[n]
    /\ n \in NamesOf(mode) /\ sinceRefresh[n] = Of(n) =>
         m_keyMap[n] = IF pc = "caching" THEN NoKey ELSE IF pc = "cachingGb" THEN FirstKey(n) ELSE BothKey(n)

\* The keys found so far.
LuaRight ==
  /\ pc \in {"using", "luaKeys", "lua"} => mode = "UNION"
  /\ pc = "using" => keys = <<>>
  /\ pc = "luaKeys" => keys \in Seq(Oid \cup {None}) /\ Len(keys) < 3 /\ (Cached => keys = <<>>)
  /\ pc = "lua" => keys \in Seq(Oid \cup {None}) /\ Len(keys) = 3
  /\ pc \in {"luaKeys", "lua"} =>
       \A i \in 1..Len(keys) : keys[i] = None \/ <<DbOf(LuaNames[i]), keys[i]>> \in Since[LuaNames[i]]
  /\ pc \in {"luaKeys", "lua"} /\ Quiet =>
       Gearbox(nameMap) /\ \A i \in 1..Len(keys) : keys[i] = nameMap[DbOf(LuaNames[i])][LuaNames[i]]
KeyRight ==
  /\ pc \in {"key", "keyGb", "table"} /\ mode = "UNION" /\ Quiet => ~ Gearbox(nameMap)
  /\ pc = "keyGb" => mode = "MACSEC" /\ "sa" \notin m_enabled /\ (Quiet => nameMap[COUNTERS_DB]["sa"] = None)
  /\ pc = "table" =>
       keys \in Pair /\ keys[2] # None /\ keys \in Since[NameOf(mode)] /\ (Quiet => keys = BothKey(NameOf(mode)))

\* What a call that is over has shown is right by the only maps there may have been.
DoneRight ==
  /\ pc \in Calling => asked # {} /\ values = NoValues /\ present = {}
  /\ pc = "done" /\ values # NoValues =>
       \A f \in asked : \A r \in values[f] : r.name \in Name /\ <<r.db, r.oid>> \in Since[r.name]
  /\ pc = "done" => \A M \in Maps : (\A n \in NamesOf(mode) : Since[n] = Stands(M, n)) => RightBy(M)

CountersInv == Shape /\ Tracked /\ CacheRight /\ LuaRight /\ KeyRight /\ DoneRight
-------------------------------------------------------------------------------
\* The names that a counter needs, and the databases that may have them.
LEMMA NamesFacts ==
  /\ \A m \in Mode : NamesOf(m) \subseteq Name /\ NameOf(m) \in NamesOf(m) /\ NamesOf(m) # {}
  /\ \A n \in Name : DbsOf(n) \subseteq Db /\ DbsOf(n) # {} /\ DbOf(n) \in DbsOf(n)
  /\ \A n \in PortName : DbsOf(n) = {DbOf(n)}
  BY Zenon DEF Mode, NamesOf, Name, PortName, NameOf, DbsOf, DbOf, Db, COUNTERS_DB, GB_COUNTERS_DB

\* A name stands for something in some map, if only for nothing.
LEMMA StandsForSome == \A M : \A n \in Name : Stands(M, n) # {}
  BY NamesFacts, Zenon DEF Stands

\* Nothing is cached, found or shown at first.
LEMMA InitCounters == Init => CountersInv
<1> SUFFICES ASSUME Init PROVE CountersInv
  BY Zenon
<1>1. Shape
  BY DEF Init, Shape, Maps, Pair, NoKey, NoHistory, Mode, Calling, Db, COUNTERS_DB
<1>2. Tracked /\ LuaRight /\ KeyRight /\ DoneRight
  BY Zenon DEF Init, Tracked, LuaRight, KeyRight, DoneRight, RowsOfTheName, NoHistory, NamesOf, Calling, Name
<1>3. CacheRight
  BY StandsForSome, Zenon DEF Init, CacheRight, NoHistory, Of
<1> QED BY <1>1, <1>2, <1>3, Zenon DEF CountersInv

\* A name never stands for two rows of a database.
LEMMA OneRowEach ==
  ASSUME NEW M, NEW n, NEW d, NEW a, NEW b, NEW S, a # b, <<d, a>> \in S, <<d, b>> \in S
  PROVE  S # Stands(M, n)
  BY DEF Stands

\* After a change of the maps nothing is quiet until the next call or refresh().
LEMMA NotQuietAfter ==
  ASSUME Shape, Tracked, NEW d \in Db, NEW n \in Name, NEW o \in Oid \cup {None}, SetName(d, n, o)
  PROVE  /\ sinceRefresh'[n] = {} \/ (<<d, o>> \in sinceRefresh'[n] /\ <<d, nameMap[d][n]>> \in sinceRefresh'[n])
         /\ \A M : sinceRefresh'[n] # Stands(M, n)
         /\ pc \in Calling => \A M : sinceCall'[n] # Stands(M, n)
         /\ n \in NamesOf(mode) /\ d \in DbsOf(n) /\ nameMap[d][n] # o
<1>1. n \in NamesOf(mode) /\ d \in DbsOf(n) /\ nameMap[d][n] # o
  BY Zenon DEF SetName
<1>2. <<d, nameMap[d][n]>> \in Of(n)
  BY <1>1, Zenon DEF Of, Stands
<1>3. sinceRefresh'[n] = {} \/ (<<d, o>> \in sinceRefresh'[n] /\ <<d, nameMap[d][n]>> \in sinceRefresh'[n])
  BY <1>1, <1>2, Zenon DEF SetName, Tracked, Shape
<1>4. \A M : Stands(M, n) # {}
  BY <1>1, Zenon DEF Stands
<1>5. \A M : sinceRefresh'[n] # Stands(M, n)
  BY <1>3, <1>4, <1>1, OneRowEach, Zenon
<1>6. ASSUME pc \in Calling PROVE \A M : sinceCall'[n] # Stands(M, n)
  <2>1. <<d, o>> \in sinceCall'[n] /\ <<d, nameMap[d][n]>> \in sinceCall'[n]
    BY <1>1, <1>2, <1>6, Zenon DEF SetName, Tracked, Shape, Calling
  <2> QED BY <2>1, <1>1, OneRowEach, Zenon
<1> QED BY <1>1, <1>3, <1>5, <1>6, Zenon

\* A change of a map is in the histories, and ends the quiet of whoever depends on the name.
LEMMA SetNameInv ==
  ASSUME CountersInv, NEW d \in Db, NEW n \in Name, NEW o \in Oid \cup {None}, SetName(d, n, o)
  PROVE  CountersInv'
<1>a. Shape /\ Tracked
  BY Zenon DEF CountersInv
<1>b. /\ sinceRefresh'[n] = {} \/ (<<d, o>> \in sinceRefresh'[n] /\ <<d, nameMap[d][n]>> \in sinceRefresh'[n])
      /\ \A M : sinceRefresh'[n] # Stands(M, n)
      /\ pc \in Calling => \A M : sinceCall'[n] # Stands(M, n)
      /\ n \in NamesOf(mode) /\ d \in DbsOf(n) /\ nameMap[d][n] # o
  BY <1>a, NotQuietAfter, Zenon
<1>c. /\ UNCHANGED <<m_keyMap, m_enabled, enabling, pc, mode, asked, keys, values, present>>
      /\ nameMap' = [nameMap EXCEPT ![d][n] = o]
      /\ \A x \in Name : sinceRefresh'[x] = IF x = n /\ sinceRefresh[x] # {} THEN sinceRefresh[x] \cup {<<d, o>>} ELSE sinceRefresh[x]
      /\ \A x \in Name : sinceCall'[x] = IF x = n /\ pc \notin {"idle", "done"} THEN sinceCall[x] \cup {<<d, o>>} ELSE sinceCall[x]
      /\ sinceCall' \in [Name -> SUBSET Pair] /\ sinceRefresh' \in [Name -> SUBSET Pair]
  <2>1. /\ UNCHANGED <<m_keyMap, m_enabled, enabling, pc, mode, asked, keys, values, present>>
        /\ nameMap' = [nameMap EXCEPT ![d][n] = o]
        /\ sinceCall' = [sinceCall EXCEPT ![n] = IF pc \in {"idle", "done"} THEN @ ELSE @ \cup {<<d, o>>}]
        /\ sinceRefresh' = [sinceRefresh EXCEPT ![n] = IF @ = {} THEN @ ELSE @ \cup {<<d, o>>}]
    BY Zenon DEF SetName, cacheVars
  <2>2. <<d, o>> \in Pair
    BY Zenon DEF Pair
  <2>3. sinceCall \in [Name -> SUBSET Pair] /\ sinceRefresh \in [Name -> SUBSET Pair]
    BY <1>a, Zenon DEF Shape
  <2> QED BY <2>1, <2>2, <2>3, Zenon
<1>d. nameMap' \in Maps /\ nameMap'[d][n] = o /\ \A e \in Db, x \in Name : ~ (e = d /\ x = n) => nameMap'[e][x] = nameMap[e][x]
  BY <1>a, <1>c, Zenon DEF Shape, Maps
<1>e. \A x \in Name : x # n => Of(x)' = Of(x)
  BY <1>d, NamesFacts DEF Of, Stands
<1>f. Of(n)' \subseteq Of(n) \cup {<<d, o>>}
  BY <1>d, NamesFacts, Zenon DEF Of, Stands
<1>g. NamesOf(mode) \subseteq Name /\ NamesOf(mode)' = NamesOf(mode) /\ mode \in Mode
  BY <1>a, <1>c, NamesFacts, Zenon DEF Shape
<1>h. pc \in Calling => ~ Quiet'
  BY <1>b, <1>c, <1>g, Zenon DEF Quiet, Since, Of
<1>i. Cached' = Cached
  BY <1>c, <1>g, Zenon DEF Cached
<1>j. \A x \in Name : Since[x] \subseteq Since'[x]
  BY <1>c, <1>i, Zenon DEF Since
<1>1. Shape'
  <2>1. \A x \in Name : \A k \in sinceRefresh'[x] : k[1] \in DbsOf(x)
    BY <1>a, <1>b, <1>c DEF Shape
  <2>2. \A x \in Name, e \in Db : e \notin DbsOf(x) \/ x \notin NamesOf(mode) => nameMap'[e][x] = None
    BY <1>a, <1>b, <1>d, <1>g DEF Shape
  <2> QED BY <1>a, <1>c, <1>d, <1>g, <2>1, <2>2, Zenon DEF Shape
<1>2. Tracked'
  <2>1. \A x \in NamesOf(mode) : sinceRefresh'[x] = {} \/ Of(x)' \subseteq sinceRefresh'[x]
    BY <1>a, <1>c, <1>e, <1>f, <1>g, Zenon DEF Tracked
  <2>2. pc \in Calling => \A x \in NamesOf(mode) : Of(x)' \subseteq sinceCall'[x]
    BY <1>a, <1>c, <1>e, <1>f, <1>g, Zenon DEF Tracked, Calling
  <2>3. pc \in {"caching", "cachingGb"} => \A x \in NamesOf(mode) : sinceRefresh'[x] # {}
    BY <1>a, <1>c, <1>g, Zenon DEF Tracked
  <2> QED BY <2>1, <2>2, <2>3, <1>c, <1>g, Zenon DEF Tracked
<1>3. CacheRight'
  <2> SUFFICES ASSUME NEW x \in Name
               PROVE  /\ m_keyMap[x] = NoKey \/ m_keyMap[x] \in sinceRefresh'[x]
                      /\ x \in NamesOf(mode) /\ sinceRefresh'[x] = Of(x)' =>
                           m_keyMap[x] = IF pc = "caching" THEN NoKey ELSE IF pc = "cachingGb" THEN FirstKey(x)' ELSE BothKey(x)'
    BY <1>c, <1>g, Zenon DEF CacheRight
  <2>1. CASE x = n
    <3>1. sinceRefresh'[n] # Of(n)'
      BY <1>b, Zenon DEF Of
    <3>2. m_keyMap[x] = NoKey \/ m_keyMap[x] \in sinceRefresh'[x]
      BY <1>c, Zenon DEF CacheRight, CountersInv
    <3> QED BY <2>1, <3>1, <3>2, Zenon
  <2>2. CASE x # n
    <3>1. FirstKey(x)' = FirstKey(x) /\ BothKey(x)' = BothKey(x)
      BY <1>d, <2>2, Zenon DEF FirstKey, BothKey, Db
    <3> QED BY <2>2, <3>1, <1>c, <1>e, Zenon DEF CacheRight, CountersInv
  <2> QED BY <2>1, <2>2, Zenon
<1>4. LuaRight'
  <2>1. ASSUME pc \in {"luaKeys", "lua"}, NEW i \in 1..Len(keys)
        PROVE  keys[i] = None \/ <<DbOf(LuaNames[i]), keys[i]>> \in Since'[LuaNames[i]]
    <3>1. keys \in Seq(Oid \cup {None}) /\ (Len(keys) < 3 \/ Len(keys) = 3)
      BY <2>1, Zenon DEF LuaRight, CountersInv
    <3>2. i \in 1..3
      <4>1. Len(keys) \in Nat
        BY <3>1
      <4> QED BY <3>1, <4>1
    <3>3. LuaNames[i] \in Name
      BY <3>2 DEF LuaNames, Name, PortName
    <3> QED BY <3>3, <2>1, <1>j, Zenon DEF LuaRight, CountersInv
  <2> QED BY <2>1, <1>c, <1>h, <1>i, Zenon DEF LuaRight, CountersInv, Calling
<1>5. KeyRight'
  BY <1>c, <1>h, <1>i, <1>j, <1>g, NamesFacts, Zenon DEF KeyRight, CountersInv, Calling
<1>6. DoneRight'
  <2>1. ASSUME pc = "done", values # NoValues, NEW f \in asked, NEW r \in values[f]
        PROVE  r.name \in Name /\ <<r.db, r.oid>> \in Since'[r.name]
    BY <2>1, <1>j, Zenon DEF DoneRight, CountersInv
  <2>2. ASSUME pc = "done", NEW M \in Maps, \A x \in NamesOf(mode) : Since'[x] = Stands(M, x) PROVE RightBy(M)'
    <3>1. ~ Cached
      BY <1>b, <1>i, <2>2, Zenon DEF Since
    <3>2. Since' = Since
      BY <3>1, <1>i, <1>c, <1>a, <2>2, Zenon DEF Since, Shape, SetName
    <3>3. RightBy(M)
      BY <3>2, <2>2, Zenon DEF DoneRight, CountersInv
    <3>4. UNCHANGED <<mode, asked, values, present>>
      BY <1>c, Zenon
    <3> QED BY <3>3, <3>4, Zenon DEF RightBy, AllNamed, Meant
  <2> QED BY <2>1, <2>2, <1>c, <1>g, Zenon DEF DoneRight, CountersInv
<1> QED BY <1>1, <1>2, <1>3, <1>4, <1>5, <1>6, Zenon DEF CountersInv

\* refresh() empties the cache, and its history begins anew.
LEMMA RefreshInv ==
  ASSUME CountersInv, NEW e \in BOOLEAN, refresh(e)
  PROVE  CountersInv'
<1>a. Shape
  BY Zenon DEF CountersInv
<1>b. /\ UNCHANGED <<nameMap, m_enabled, mode>> /\ pc' = "caching" /\ asked' = {}
      /\ m_keyMap' = [n \in Name |-> NoKey] /\ sinceCall' = [n \in Name |-> {}]
      /\ sinceRefresh' = [n \in Name |-> IF n \in NamesOf(mode) THEN Of(n) ELSE {}]
  BY Zenon DEF refresh, Forget, Rest, dbVars, NoHistory
<1>c. \A n \in Name : Of(n)' = Of(n) /\ Of(n) \subseteq Pair /\ \A k \in Of(n) : k[1] \in DbsOf(n)
  BY <1>a, <1>b, NamesFacts DEF Of, Stands, Pair, Shape, Maps
<1>d. NamesOf(mode) \subseteq Name /\ NoKey \in Pair
  BY <1>a, NamesFacts, Zenon DEF Shape, NoKey, Pair, Db
<1>1. Shape'
  BY <1>a, <1>b, <1>c, <1>d, Zenon DEF Shape, Field
<1>2. Tracked' /\ LuaRight' /\ KeyRight' /\ DoneRight'
  BY <1>b, <1>c, <1>d, StandsForSome, Zenon DEF Tracked, Of, LuaRight, KeyRight, DoneRight, Calling
<1>3. CacheRight'
  BY <1>b, Zenon DEF CacheRight
<1> QED BY <1>1, <1>2, <1>3, Zenon DEF CountersInv

\* disable() makes the calls look at the maps again.
LEMMA DisableInv ==
  ASSUME CountersInv, NEW e \in BOOLEAN, disable(e)
  PROVE  CountersInv'
<1>a. Shape
  BY Zenon DEF CountersInv
<1>b. /\ UNCHANGED <<nameMap, mode>> /\ pc' = "idle" /\ asked' = {} /\ m_enabled' \in {{}, m_enabled}
      /\ m_keyMap' = [n \in Name |-> NoKey] /\ sinceCall' = [n \in Name |-> {}]
      /\ sinceRefresh' = [n \in Name |-> {}]
  BY Zenon DEF disable, Forget, Rest, dbVars, NoHistory
<1>d. NamesOf(mode) \subseteq Name /\ NoKey \in Pair
  BY <1>a, NamesFacts, Zenon DEF Shape, NoKey, Pair, Db
<1>1. Shape'
  BY <1>a, <1>b, <1>d, Zenon DEF Shape, Field
<1>2. Tracked' /\ LuaRight' /\ KeyRight' /\ DoneRight'
  BY <1>b, <1>d, Zenon DEF Tracked, LuaRight, KeyRight, DoneRight, Calling
<1>3. CacheRight'
  BY <1>b, StandsForSome, Zenon DEF CacheRight, Of
<1> QED BY <1>1, <1>2, <1>3, Zenon DEF CountersInv

\* What insert() adds is what the name stands for.
LEMMA InsertKeys ==
  ASSUME CountersInv, NEW d \in Db, Insert(d), UNCHANGED <<nameMap, mode, sinceRefresh>>,
         pc \in {"caching", "cachingGb"}, d = IF pc = "caching" THEN COUNTERS_DB ELSE GB_COUNTERS_DB,
         pc' = IF pc = "caching" THEN "cachingGb" ELSE "idle"
  PROVE  CacheRight' /\ m_keyMap' \in [Name -> Pair]
<1>a. Shape /\ Tracked /\ CacheRight
  BY Zenon DEF CountersInv
<1>b. NamesOf(mode) \subseteq Name /\ nameMap[d] \in [Name -> Oid \cup {None}]
  BY <1>a, NamesFacts, Zenon DEF Shape, Maps
<1>1. m_keyMap' \in [Name -> Pair]
  <2>1. \A n \in Name : <<d, nameMap[d][n]>> \in Pair
    BY <1>b, Zenon DEF Pair
  <2> QED BY <2>1, <1>a, Zenon DEF Insert, Shape
<1> SUFFICES ASSUME NEW n \in Name
             PROVE  /\ m_keyMap'[n] = NoKey \/ m_keyMap'[n] \in sinceRefresh[n]
                    /\ n \in NamesOf(mode) /\ sinceRefresh[n] = Of(n) =>
                         m_keyMap'[n] = IF pc = "caching" THEN FirstKey(n) ELSE BothKey(n)
  BY <1>1, Zenon DEF CacheRight, Of, Stands, FirstKey, BothKey
<1>2. m_keyMap'[n] = IF n \in NamesOf(mode) /\ m_keyMap[n] = NoKey /\ nameMap[d][n] # None THEN <<d, nameMap[d][n]>> ELSE m_keyMap[n]
  BY Zenon DEF Insert
<1>3. nameMap[d][n] # None => d \in DbsOf(n)
  BY <1>a, Zenon DEF Shape
<1>4. n \in NamesOf(mode) /\ nameMap[d][n] # None => <<d, nameMap[d][n]>> \in sinceRefresh[n]
  BY <1>3, <1>a, Zenon DEF Of, Stands, Tracked
<1>5. n \in NamesOf(mode) /\ sinceRefresh[n] = Of(n) => m_keyMap[n] = IF pc = "caching" THEN NoKey ELSE FirstKey(n)
  BY <1>a, Zenon DEF CacheRight
<1> QED BY <1>2, <1>4, <1>5, <1>a DEF CacheRight, FirstKey, BothKey, NoKey, COUNTERS_DB, GB_COUNTERS_DB

\* KeyCache::insert of the first and of the second map.
LEMMA CachingInv ==
  ASSUME CountersInv, cachingKey \/ cachingKeyGb
  PROVE  CountersInv'
<1>a. Shape /\ Tracked
  BY Zenon DEF CountersInv
<1>b. /\ UNCHANGED <<nameMap, mode, sinceRefresh>> /\ pc \in {"caching", "cachingGb"}
      /\ pc' = IF pc = "caching" THEN "cachingGb" ELSE "idle"
      /\ Insert(IF pc = "caching" THEN COUNTERS_DB ELSE GB_COUNTERS_DB)
  BY Zenon DEF cachingKey, cachingKeyGb, dbVars, histories, Rest
<1>c. asked' \subseteq Field /\ sinceCall' \in [Name -> SUBSET Pair] /\ m_enabled' \in {{}, NamesOf(mode)}
  BY <1>a, Zenon DEF cachingKey, cachingKeyGb, histories, Rest, Shape, NoHistory
<1>1. CacheRight' /\ m_keyMap' \in [Name -> Pair]
  BY <1>b, InsertKeys, Zenon DEF Db
<1>2. Shape'
  BY <1>1, <1>a, <1>b, <1>c, Zenon DEF Shape
<1>3. Tracked' /\ LuaRight' /\ KeyRight' /\ DoneRight'
  BY <1>a, <1>b, Zenon DEF Tracked, LuaRight, KeyRight, DoneRight, Calling, Of, Stands
<1> QED BY <1>1, <1>2, <1>3, Zenon DEF CountersInv

\* A call begins with an empty history.
LEMMA CallInv ==
  ASSUME CountersInv, NEW m \in Mode, NEW fs \in SUBSET Field, fs # {}, Call(m, fs)
  PROVE  CountersInv'
<1>a. Shape /\ Tracked /\ CacheRight
  BY Zenon DEF CountersInv
<1>b. /\ UNCHANGED <<nameMap, m_keyMap, m_enabled, sinceRefresh>> /\ NamesOf(m) = NamesOf(mode)
      /\ mode' = m /\ asked' = fs /\ keys' = <<>> /\ values' = NoValues /\ present' = {}
      /\ pc' = IF m = "UNION" THEN "using" ELSE "key"
      /\ sinceCall' = [n \in Name |-> IF n \in NamesOf(m) THEN Of(n) ELSE {}]
      /\ pc \in {"idle", "done"}
  BY Zenon DEF Call, dbVars, cacheVars, Idle
<1>c. \A n \in Name : Of(n)' = Of(n) /\ Of(n) \subseteq Pair
  BY <1>a, <1>b, NamesFacts DEF Of, Stands, Pair, Shape, Maps
<1>d. NamesOf(m) \subseteq Name
  BY NamesFacts, Zenon
<1>1. Shape'
  BY <1>a, <1>b, <1>c, <1>d, Zenon DEF Shape, Calling
<1>2. Tracked'
  BY <1>a, <1>b, <1>c, <1>d, Zenon DEF Tracked, Calling
<1>3. CacheRight'
  BY <1>a, <1>b, <1>c, Zenon DEF CacheRight, BothKey, FirstKey
<1>4. LuaRight' /\ KeyRight' /\ DoneRight'
  BY <1>b, Zenon DEF LuaRight, KeyRight, DoneRight
<1> QED BY <1>1, <1>2, <1>3, <1>4, Zenon DEF CountersInv

\* The steps of a call leave the maps, the cache and the histories alone.
CallStep(p, q) ==
  /\ pc = p /\ pc' \in q
  /\ UNCHANGED <<nameMap, m_keyMap, m_enabled, mode, asked, sinceCall, sinceRefresh>>

\* A step of a call changes neither the maps nor the cache.
LEMMA CallStepKeeps ==
  ASSUME CountersInv, NEW p \in Calling, NEW q \in SUBSET (Calling \cup {"done"}), CallStep(p, q)
  PROVE  /\ Shape' /\ Tracked' /\ CacheRight' /\ Cached' = Cached /\ Since' = Since
         /\ Quiet' = Quiet /\ \A n : BothKey(n)' = BothKey(n)
<1>1. Shape'
  BY Zenon DEF CountersInv, Shape, CallStep
<1>2. Tracked'
  BY Zenon DEF CountersInv, Tracked, CallStep, Of, Stands, Calling
<1>3. CacheRight'
  BY DEF CountersInv, CacheRight, CallStep, Of, Stands, Calling, BothKey, FirstKey
<1>4. Cached' = Cached /\ Since' = Since /\ \A n : BothKey(n)' = BothKey(n)
  BY Zenon DEF CallStep, Cached, Since, BothKey
<1>5. Quiet' = Quiet
  BY <1>4 DEF CallStep, Quiet, Of, Stands
<1> QED BY <1>1, <1>2, <1>3, <1>4, <1>5, Zenon

\* With the maps as they were at the refresh() or at the call, the cache and the maps agree.
LEMMA QuietKeys ==
  ASSUME CountersInv, pc \in Calling
  PROVE  /\ \A n \in NamesOf(mode) :
              /\ Since[n] = {} \/ Of(n) \subseteq Since[n]
              /\ Cached => m_keyMap[n] = NoKey \/ m_keyMap[n] \in Since[n]
              /\ Cached /\ Quiet => m_keyMap[n] = BothKey(n)
         /\ \A n \in PortName : m_keyMap[n][2] # None => m_keyMap[n][1] = DbOf(n)
         /\ \A n \in PortName :
              /\ BothKey(n)[2] = nameMap[DbOf(n)][n]
              /\ nameMap[DbOf(n)][n] # None => BothKey(n) = <<DbOf(n), nameMap[DbOf(n)][n]>>
<1>a. Shape /\ Tracked /\ CacheRight
  BY Zenon DEF CountersInv
<1>b. NamesOf(mode) \subseteq Name /\ PortName \subseteq Name
  BY <1>a, NamesFacts, Zenon DEF Shape, Name
<1>1. \A n \in NamesOf(mode) :
        /\ Since[n] = {} \/ Of(n) \subseteq Since[n]
        /\ Cached => m_keyMap[n] = NoKey \/ m_keyMap[n] \in Since[n]
        /\ Cached /\ Quiet => m_keyMap[n] = BothKey(n)
  BY <1>a, <1>b, Zenon DEF Tracked, CacheRight, Since, Quiet, Calling
<1>2. \A n \in PortName : m_keyMap[n][2] # None => m_keyMap[n][1] = DbOf(n)
  <2> SUFFICES ASSUME NEW n \in PortName, m_keyMap[n][2] # None PROVE m_keyMap[n][1] = DbOf(n)
    BY Zenon
  <2>1. m_keyMap[n] \in sinceRefresh[n]
    BY <1>a, <1>b DEF CacheRight, NoKey
  <2> QED BY <2>1, <1>a, <1>b, NamesFacts, Zenon DEF Shape
<1>3. \A n \in PortName :
        /\ BothKey(n)[2] = nameMap[DbOf(n)][n]
        /\ nameMap[DbOf(n)][n] # None => BothKey(n) = <<DbOf(n), nameMap[DbOf(n)][n]>>
  <2> SUFFICES ASSUME NEW n \in PortName
               PROVE  /\ BothKey(n)[2] = nameMap[DbOf(n)][n]
                      /\ nameMap[DbOf(n)][n] # None => BothKey(n) = <<DbOf(n), nameMap[DbOf(n)][n]>>
    BY Zenon
  <2>1. \A d \in Db : d # DbOf(n) => nameMap[d][n] = None
    BY <1>a, <1>b, NamesFacts, Zenon DEF Shape
  <2> QED BY <2>1, Zenon DEF BothKey, DbOf, Db, NoKey, COUNTERS_DB, GB_COUNTERS_DB
<1> QED BY <1>1, <1>2, <1>3, Zenon

\* By the histories there was only one pair of maps.
LEMMA SameMaps ==
  ASSUME CountersInv, pc \in Calling, NEW M \in Maps, \A n \in NamesOf(mode) : Since[n] = Stands(M, n)
  PROVE  /\ Quiet
         /\ \A n \in NamesOf(mode) : \A d \in DbsOf(n) : M[d][n] = nameMap[d][n]
<1>b. NamesOf(mode) \subseteq Name
  BY NamesFacts, Zenon DEF Shape, CountersInv
<1> SUFFICES ASSUME NEW n \in NamesOf(mode) PROVE Since[n] = Of(n) /\ \A d \in DbsOf(n) : M[d][n] = nameMap[d][n]
  BY Zenon DEF Quiet
<1>1. Since[n] # {} /\ Since[n] = Stands(M, n)
  BY <1>b, StandsForSome, Zenon
<1>2. Of(n) \subseteq Stands(M, n)
  BY <1>1, QuietKeys, Zenon
<1>3. ASSUME NEW d \in DbsOf(n) PROVE M[d][n] = nameMap[d][n]
  <2>1. <<d, nameMap[d][n]>> \in Stands(M, n)
    BY <1>2, Zenon DEF Of, Stands
  <2>2. PICK e \in DbsOf(n) : <<d, nameMap[d][n]>> = <<e, M[e][n]>>
    BY <2>1, Zenon DEF Stands
  <2> QED BY <2>2, Zenon
<1> QED BY <1>1, <1>3, Zenon DEF Of, Stands

\* usingLuaTable() looks for a gearbox.
LEMMA UsingInv ==
  ASSUME CountersInv, usingLuaTable
  PROVE  CountersInv'
<1>1. CallStep("using", {"luaKeys", "key"}) /\ UNCHANGED <<keys, values, present>>
  BY Zenon DEF usingLuaTable, CallStep, dbVars, cacheVars, histories
<1>2. Shape' /\ Tracked' /\ CacheRight' /\ Cached' = Cached /\ Quiet' = Quiet
  BY <1>1, CallStepKeeps, Zenon DEF Calling
<1>3. mode = "UNION" /\ asked # {} /\ values = NoValues /\ present = {} /\ keys = <<>>
  BY <1>1, Zenon DEF CountersInv, LuaRight, DoneRight, CallStep, Calling
<1>4. LuaRight'
  BY <1>1, <1>2, <1>3 DEF LuaRight, CallStep, usingLuaTable, Gearbox
<1>5. KeyRight' /\ DoneRight'
  BY <1>1, <1>2, <1>3, Zenon DEF KeyRight, DoneRight, CallStep, usingLuaTable, Gearbox
<1> QED BY <1>2, <1>4, <1>5, Zenon DEF CountersInv

\* The keys of the Lua script, from the cache or from the maps.
LEMMA LuaKeysInv ==
  ASSUME CountersInv, getLuaKeys
  PROVE  CountersInv'
<1>1. CallStep("luaKeys", {"luaKeys", "lua"}) /\ UNCHANGED <<values, present>>
  BY Zenon DEF getLuaKeys, CallStep, dbVars, cacheVars, histories
<1>2. Shape' /\ Tracked' /\ CacheRight' /\ Cached' = Cached /\ Quiet' = Quiet /\ Since' = Since
  BY <1>1, CallStepKeeps, Zenon DEF Calling
<1>3. /\ mode = "UNION" /\ asked # {} /\ values = NoValues /\ present = {} /\ pc = "luaKeys" /\ pc \in Calling
      /\ keys \in Seq(Oid \cup {None}) /\ Len(keys) < 3 /\ (Cached => keys = <<>>)
  BY <1>1, Zenon DEF CountersInv, LuaRight, DoneRight, CallStep, Calling
<1>4. /\ NamesOf(mode) = PortName /\ Cached = (PortName \subseteq m_enabled)
      /\ \A i \in 1..3 : LuaNames[i] \in PortName
  BY <1>3 DEF NamesOf, Cached, LuaNames, PortName
<1>5. nameMap \in Maps /\ m_keyMap \in [Name -> Pair] /\ PortName \subseteq Name
  BY Zenon DEF CountersInv, Shape, Name
<1>6. CASE Cached
  <2>1. keys' = [i \in 1..3 |-> m_keyMap[LuaNames[i]][2]]
    BY <1>6, <1>4, Zenon DEF getLuaKeys
  <2>2. keys' \in Seq(Oid \cup {None}) /\ Len(keys') = 3 /\ pc' = "lua"
    <3>1. \A i \in 1..3 : m_keyMap[LuaNames[i]][2] \in Oid \cup {None}
      BY <1>4, <1>5, Zenon DEF Pair
    <3> QED BY <2>1, <3>1 DEF getLuaKeys
  <2>3. \A i \in 1..3 : keys'[i] = None \/ <<DbOf(LuaNames[i]), keys'[i]>> \in Since[LuaNames[i]]
    <3> SUFFICES ASSUME NEW i \in 1..3, keys'[i] # None PROVE <<DbOf(LuaNames[i]), keys'[i]>> \in Since[LuaNames[i]]
      BY Zenon
    <3>1. m_keyMap[LuaNames[i]] \in Pair /\ m_keyMap[LuaNames[i]][2] = keys'[i]
      BY <1>4, <1>5, <2>1, Zenon
    <3>2. m_keyMap[LuaNames[i]][1] = DbOf(LuaNames[i])
      BY <3>1, <1>3, <1>4, QuietKeys, Zenon
    <3>3. m_keyMap[LuaNames[i]] \in Since[LuaNames[i]]
      BY <3>1, <1>3, <1>4, <1>6, QuietKeys DEF NoKey
    <3>4. m_keyMap[LuaNames[i]] = <<DbOf(LuaNames[i]), keys'[i]>>
      BY <3>1, <3>2 DEF Pair
    <3> QED BY <3>3, <3>4, Zenon
  <2>4. Quiet => \A i \in 1..3 : keys'[i] = nameMap[DbOf(LuaNames[i])][LuaNames[i]]
    BY <1>3, <1>4, <1>6, <2>1, QuietKeys, Zenon
  <2>5. Quiet => Gearbox(nameMap)
    BY <1>3, Zenon DEF CountersInv, LuaRight
  <2>6. LuaRight'
    BY <1>1, <1>2, <1>3, <2>2, <2>3, <2>4, <2>5, Zenon DEF LuaRight, CallStep, Gearbox
  <2>7. KeyRight' /\ DoneRight'
    BY <1>1, <1>3, <2>2, Zenon DEF KeyRight, DoneRight, CallStep
  <2> QED BY <1>2, <2>6, <2>7, Zenon DEF CountersInv
<1>7. CASE ~ Cached
  <2> DEFINE n == LuaNames[Len(keys) + 1]
  <2>1. keys' = Append(keys, nameMap[DbOf(n)][n]) /\ pc' = IF Len(keys') = 3 THEN "lua" ELSE "luaKeys"
    BY <1>7, <1>4, Zenon DEF getLuaKeys
  <2>2. n \in PortName /\ n \in Name
    BY <1>3, <1>4, <1>5
  <2>3. nameMap[DbOf(n)][n] \in Oid \cup {None} /\ <<DbOf(n), nameMap[DbOf(n)][n]>> \in Since[n]
    <3>1. <<DbOf(n), nameMap[DbOf(n)][n]>> \in Of(n)
      BY <2>2, NamesFacts, Zenon DEF Of, Stands
    <3>2. Of(n) \subseteq Since[n]
      BY <1>7, <1>3, <1>4, <2>2, Zenon DEF CountersInv, Tracked, Since
    <3>3. DbOf(n) \in Db
      BY <2>2, NamesFacts, Zenon
    <3> HIDE DEF n
    <3> QED BY <3>1, <3>2, <3>3, <1>5, <2>2, Zenon DEF Maps
  <2>4. keys' \in Seq(Oid \cup {None}) /\ Len(keys') = Len(keys) + 1
        /\ \A i \in 1..Len(keys') : keys'[i] = IF i = Len(keys) + 1 THEN nameMap[DbOf(n)][n] ELSE keys[i]
    BY <1>3, <2>1, <2>3
  <2>5. \A i \in 1..Len(keys') : keys'[i] = None \/ <<DbOf(LuaNames[i]), keys'[i]>> \in Since[LuaNames[i]]
    <3> SUFFICES ASSUME NEW i \in 1..Len(keys') PROVE keys'[i] = None \/ <<DbOf(LuaNames[i]), keys'[i]>> \in Since[LuaNames[i]]
      BY Zenon
    <3>1. CASE i = Len(keys) + 1
      BY <3>1, <2>3, <2>4, Zenon
    <3>2. CASE i # Len(keys) + 1
      <4>1. i \in 1..Len(keys) /\ keys'[i] = keys[i]
        BY <3>2, <1>3, <2>4
      <4> QED BY <4>1, <1>3, Zenon DEF CountersInv, LuaRight
    <3> QED BY <3>1, <3>2, Zenon
  <2>6. Quiet => Gearbox(nameMap) /\ \A i \in 1..Len(keys') : keys'[i] = nameMap[DbOf(LuaNames[i])][LuaNames[i]]
    BY <1>3, <2>4 DEF CountersInv, LuaRight
  <2>7. LuaRight'
    <3>1. mode' = "UNION" /\ pc' \in {"luaKeys", "lua"} /\ ~ Cached' /\ nameMap' = nameMap
      BY <1>1, <1>2, <1>3, <1>7, Zenon DEF CallStep
    <3>2. /\ pc' = "luaKeys" => Len(keys') < 3
          /\ pc' = "lua" => Len(keys') = 3
      BY <1>3, <2>1, <2>4
    <3>3. Quiet' => Gearbox(nameMap)' /\ \A i \in 1..Len(keys') : keys'[i] = nameMap'[DbOf(LuaNames[i])][LuaNames[i]]
      BY <2>6, <1>2, <3>1, Zenon DEF Gearbox
    <3>4. \A i \in 1..Len(keys') : keys'[i] = None \/ <<DbOf(LuaNames[i]), keys'[i]>> \in Since'[LuaNames[i]]
      BY <2>5, <1>2, Zenon
    <3> HIDE DEF n
    <3> QED BY <2>4, <3>1, <3>2, <3>3, <3>4, Zenon DEF LuaRight
  <2>8. KeyRight' /\ DoneRight'
    BY <1>1, <1>3, <2>1, Zenon DEF KeyRight, DoneRight, CallStep
  <2> QED BY <1>2, <2>7, <2>8, Zenon DEF CountersInv
<1> QED BY <1>6, <1>7, Zenon

\* What a read that is over has shown is right by all maps that agree with the databases.
LEMMA DoneByMaps ==
  ASSUME CountersInv, NEW p \in Calling, CallStep(p, {"done"}), Quiet => RightBy(nameMap)'
  PROVE  \A M \in Maps : (\A n \in NamesOf(mode') : Since'[n] = Stands(M, n)) => RightBy(M)'
<1>1. mode' = mode /\ Since' = Since /\ nameMap' = nameMap /\ pc \in Calling /\ mode \in Mode /\ Quiet' = Quiet
  BY CallStepKeeps, Zenon DEF CallStep, CountersInv, Shape
<1> SUFFICES ASSUME NEW M \in Maps, \A n \in NamesOf(mode) : Since[n] = Stands(M, n) PROVE RightBy(M)'
  BY <1>1, Zenon
<1>2. Quiet /\ \A n \in NamesOf(mode) : \A d \in DbsOf(n) : M[d][n] = nameMap[d][n]
  BY <1>1, SameMaps, Zenon
<1>3. \A n \in NamesOf(mode) : Stands(M, n) = Stands(nameMap, n)
  BY <1>2 DEF Stands
<1>4. CASE mode = "MACSEC"
  <2>1. M[COUNTERS_DB]["sa"] = nameMap[COUNTERS_DB]["sa"] /\ M[GB_COUNTERS_DB]["sa"] = nameMap[GB_COUNTERS_DB]["sa"]
    BY <1>2, <1>4, Zenon DEF NamesOf, DbsOf, Db
  <2>2. AllNamed(M)' = AllNamed(nameMap)'
    BY <1>1, <1>3, <1>4, Zenon DEF AllNamed, NameOf, NamesOf
  <2>3. \A f : Meant(M, f)' = Meant(nameMap, f)'
    BY <1>1, <1>4, <2>1, Zenon DEF Meant
  <2> QED BY <1>1, <1>2, <2>2, <2>3, Zenon DEF RightBy
<1>5. CASE mode # "MACSEC"
  <2>1. \A n \in PortName : M[DbOf(n)][n] = nameMap[DbOf(n)][n]
    BY <1>2, <1>5, NamesFacts, Zenon DEF NamesOf, Name
  <2>2. Gearbox(M) = Gearbox(nameMap)
    BY <2>1, Zenon DEF Gearbox, DbOf, PortName
  <2>3. AllNamed(M)' = AllNamed(nameMap)'
    BY <1>1, <1>3, <1>5, <2>2, NamesFacts, Zenon DEF AllNamed, NamesOf, Gearbox
  <2>4. \A f : Meant(M, f)' = Meant(nameMap, f)'
    <3>1. \A k : \A n \in PortName : Row(n, DbOf(n), M[DbOf(n)][n], k) = Row(n, DbOf(n), nameMap[DbOf(n)][n], k)
      BY <2>1, Zenon
    <3> QED BY <1>1, <1>5, <2>2, <3>1, Zenon DEF Meant, Gearbox
  <2> QED BY <1>1, <1>2, <2>3, <2>4, Zenon DEF RightBy
<1> QED BY <1>4, <1>5, Zenon

\* getKey(), from the cache or from the first map.
LEMMA KeyInv ==
  ASSUME CountersInv, getKey
  PROVE  CountersInv'
<1> DEFINE n == NameOf(mode)
           k == IF n \in m_enabled THEN m_keyMap[n]
                ELSE IF n = "sa" THEN <<COUNTERS_DB, nameMap[COUNTERS_DB][n]>>
                ELSE <<DbOf(n), nameMap[DbOf(n)][n]>>
<1>1. /\ CallStep("key", {"table", "keyGb", "done"}) /\ UNCHANGED <<values, present>> /\ keys' = k
      /\ pc' = IF k[2] # None THEN "table" ELSE IF n = "sa" /\ n \notin m_enabled THEN "keyGb" ELSE "done"
  BY Zenon DEF getKey, CallStep, dbVars, cacheVars, histories
<1>2. Shape' /\ Tracked' /\ CacheRight' /\ Cached' = Cached /\ Quiet' = Quiet /\ Since' = Since
      /\ BothKey(n)' = BothKey(n)
  <2>1. "key" \in Calling /\ {"table", "keyGb", "done"} \in SUBSET (Calling \cup {"done"})
    BY Zenon DEF Calling
  <2>2. /\ Shape' /\ Tracked' /\ CacheRight' /\ Cached' = Cached /\ Quiet' = Quiet /\ Since' = Since
        /\ \A x : BothKey(x)' = BothKey(x)
    BY <1>1, <2>1, CallStepKeeps, Zenon
  <2>3. mode' = mode
    BY <1>1, Zenon DEF CallStep
  <2> QED BY <2>2, <2>3, Zenon
<1>3. /\ asked # {} /\ values = NoValues /\ present = {} /\ pc = "key" /\ pc \in Calling /\ mode \in Mode
      /\ n \in NamesOf(mode) /\ n \in Name /\ nameMap \in Maps /\ m_keyMap \in [Name -> Pair]
      /\ mode = "UNION" /\ Quiet => ~ Gearbox(nameMap)
  BY <1>1, NamesFacts, Zenon DEF CountersInv, KeyRight, DoneRight, CallStep, Calling, Shape
<1>4. (n \in m_enabled) = Cached /\ (n = "sa") = (mode = "MACSEC") /\ (n # "sa" => n \in PortName)
  BY <1>3 DEF CountersInv, Shape, Cached, NamesOf, NameOf, PortName, Mode
<1>5. k \in Pair
  <2>1. \A d \in Db : <<d, nameMap[d][n]>> \in Pair
    BY <1>3 DEF Maps, Pair
  <2> QED BY <2>1, <1>3, NamesFacts, Zenon DEF Db
<1>6. k[2] # None => k \in Since[n]
  <2>1. CASE Cached
    <3>1. k = m_keyMap[n]
      BY <1>4, <2>1, Zenon
    <3> QED BY <3>1, <2>1, <1>3, QuietKeys DEF NoKey
  <2>2. CASE ~ Cached
    <3>1. Of(n) \subseteq Since[n]
      BY <2>2, <1>3, Zenon DEF CountersInv, Tracked, Since
    <3>2. \A d \in DbsOf(n) : <<d, nameMap[d][n]>> \in Of(n)
      BY Zenon DEF Of, Stands
    <3>3. k \in Of(n)
      BY <3>2, <2>2, <1>3, <1>4, NamesFacts, Zenon DEF DbsOf, Db
    <3> QED BY <3>1, <3>3, Zenon
  <2> QED BY <2>1, <2>2, Zenon
<1>7. Quiet /\ k[2] # None => k = BothKey(n)
  <2>1. CASE Cached
    BY <1>3, <1>4, <2>1, QuietKeys, Zenon
  <2>2. CASE ~ Cached /\ n = "sa"
    BY <2>2, <1>4, Zenon DEF BothKey
  <2>3. CASE ~ Cached /\ n # "sa"
    BY <2>3, <1>3, <1>4, QuietKeys, Zenon
  <2> QED BY <2>1, <2>2, <2>3, Zenon
<1>8. Quiet /\ pc' = "done" => BothKey(n)[2] = None
  BY <1>1, <1>3, <1>4, QuietKeys, Zenon
<1>9. pc' = "keyGb" => mode = "MACSEC" /\ ~ Cached /\ "sa" \notin m_enabled /\ nameMap[COUNTERS_DB]["sa"] = None
  BY <1>1, <1>4, Zenon
<1>10. UNCHANGED <<mode, nameMap, m_enabled, asked>> /\ pc' \in {"table", "keyGb", "done"}
  BY <1>1, Zenon DEF CallStep
<1> HIDE DEF k
<1>11. LuaRight'
  BY <1>10, Zenon DEF LuaRight
<1>12. KeyRight'
  BY <1>1, <1>2, <1>3, <1>5, <1>6, <1>7, <1>9, <1>10, Zenon DEF KeyRight, Gearbox
<1>13. ASSUME pc' = "done" PROVE \A M \in Maps : (\A x \in NamesOf(mode') : Since'[x] = Stands(M, x)) => RightBy(M)'
  <2>1. CallStep("key", {"done"})
    BY <1>1, <1>13, Zenon DEF CallStep
  <2>2. ASSUME Quiet PROVE RightBy(nameMap)'
    <3>1. BothKey(n)[2] = None /\ (mode = "UNION" => ~ Gearbox(nameMap))
      BY <1>3, <1>8, <1>13, <2>2, Zenon
    <3>2. \A d \in DbsOf(n) : nameMap[d][n] = None
      BY <3>1, <1>3, <1>4, QuietKeys, NamesFacts, Zenon DEF BothKey, Db, DbsOf
    <3>3. ~ AllNamed(nameMap)'
      BY <3>1, <3>2, <1>10 DEF AllNamed, Stands, Gearbox
    <3> QED BY <3>3, <1>1, <1>3, Zenon DEF RightBy
  <2> QED BY <2>1, <2>2, DoneByMaps, Zenon DEF Calling
<1>14. DoneRight'
  BY <1>1, <1>3, <1>10, <1>13, Zenon DEF DoneRight
<1> QED BY <1>2, <1>11, <1>12, <1>14, Zenon DEF CountersInv

\* getKey() of a MACsec association that the first map has not.
LEMMA KeyGbInv ==
  ASSUME CountersInv, getKeyGb
  PROVE  CountersInv'
<1>1. /\ CallStep("keyGb", {"table", "done"}) /\ UNCHANGED <<values, present>>
      /\ keys' = <<GB_COUNTERS_DB, nameMap[GB_COUNTERS_DB]["sa"]>>
      /\ pc' = IF nameMap[GB_COUNTERS_DB]["sa"] # None THEN "table" ELSE "done"
  BY Zenon DEF getKeyGb, CallStep, dbVars, cacheVars, histories
<1>2. Shape' /\ Tracked' /\ CacheRight' /\ Cached' = Cached /\ Quiet' = Quiet /\ Since' = Since
      /\ \A x : BothKey(x)' = BothKey(x)
  <2>1. "keyGb" \in Calling /\ {"table", "done"} \in SUBSET (Calling \cup {"done"})
    BY Zenon DEF Calling
  <2> QED BY <1>1, <2>1, CallStepKeeps, Zenon
<1>3. /\ asked # {} /\ values = NoValues /\ present = {} /\ pc = "keyGb" /\ pc \in Calling /\ mode = "MACSEC"
      /\ "sa" \notin m_enabled /\ nameMap \in Maps /\ (Quiet => nameMap[COUNTERS_DB]["sa"] = None)
      /\ NamesOf(mode) = {"sa"} /\ NameOf(mode) = "sa" /\ DbsOf("sa") = Db
  BY <1>1, Zenon DEF CountersInv, KeyRight, DoneRight, CallStep, Calling, Shape, NamesOf, NameOf, DbsOf
<1>4. keys' \in Pair /\ keys' \in Since["sa"]
  <2>1. keys' \in Of("sa")
    BY <1>1, <1>3, Zenon DEF Of, Stands, Db
  <2>2. Of("sa") \subseteq Since["sa"]
    BY <1>3, Zenon DEF CountersInv, Tracked, Since, Cached
  <2> QED BY <2>1, <2>2, <1>1, <1>3, Zenon DEF Maps, Pair, Db, Name
<1>5. UNCHANGED <<mode, nameMap, m_enabled, asked>> /\ pc' \in {"table", "done"}
  BY <1>1, Zenon DEF CallStep
<1>6. LuaRight'
  BY <1>5, Zenon DEF LuaRight
<1>7. KeyRight'
  <2>1. pc' = "table" /\ Quiet => keys' = BothKey("sa")
    BY <1>1, <1>3, Zenon DEF BothKey
  <2> QED BY <1>1, <1>2, <1>3, <1>4, <1>5, <2>1, Zenon DEF KeyRight
<1>8. ASSUME pc' = "done" PROVE \A M \in Maps : (\A x \in NamesOf(mode') : Since'[x] = Stands(M, x)) => RightBy(M)'
  <2>1. CallStep("keyGb", {"done"})
    BY <1>1, <1>8, Zenon DEF CallStep
  <2>2. ASSUME Quiet PROVE RightBy(nameMap)'
    <3>1. \A d \in DbsOf("sa") : nameMap[d]["sa"] = None
      BY <1>1, <1>3, <1>8, <2>2, Zenon DEF Db
    <3>2. ~ AllNamed(nameMap)'
      BY <3>1, <1>3, <1>5 DEF AllNamed, Stands
    <3> QED BY <3>2, <1>1, <1>3, Zenon DEF RightBy
  <2> QED BY <2>1, <2>2, DoneByMaps, Zenon DEF Calling
<1>9. DoneRight'
  BY <1>1, <1>3, <1>5, <1>8, Zenon DEF DoneRight
<1> QED BY <1>2, <1>6, <1>7, <1>9, Zenon DEF CountersInv

\* The row of a key is read.
LEMMA TableGetInv ==
  ASSUME CountersInv, NEW there \in SUBSET Name, tableGet(there)
  PROVE  CountersInv'
<1> DEFINE n == NameOf(mode)
           r == Row(n, keys[1], keys[2], "same")
<1>1. /\ CallStep("table", {"done"}) /\ present' = there /\ there \subseteq {n} /\ UNCHANGED keys
      /\ values' = IF there = {} THEN NoValues ELSE [f \in asked |-> {r}]
  BY Zenon DEF tableGet, CallStep, dbVars, cacheVars, histories
<1>2. Shape' /\ Tracked' /\ CacheRight' /\ Cached' = Cached /\ Quiet' = Quiet /\ Since' = Since
  <2>1. "table" \in Calling /\ {"done"} \in SUBSET (Calling \cup {"done"})
    BY Zenon DEF Calling
  <2> QED BY <1>1, <2>1, CallStepKeeps, Zenon
<1>3. /\ asked # {} /\ pc = "table" /\ pc \in Calling /\ mode \in Mode /\ n \in NamesOf(mode) /\ n \in Name
      /\ keys \in Pair /\ keys[2] # None /\ keys \in Since[n] /\ (Quiet => keys = BothKey(n))
      /\ (mode = "UNION" /\ Quiet => ~ Gearbox(nameMap))
  BY <1>1, NamesFacts, Zenon DEF CountersInv, KeyRight, DoneRight, CallStep, Calling, Shape
<1>4. keys = <<keys[1], keys[2]>>
  <2>1. keys \in Db \X (Oid \cup {None})
    BY <1>3, Zenon DEF Pair
  <2> QED BY <2>1
<1>5. UNCHANGED <<mode, nameMap, m_enabled, asked>> /\ pc' = "done"
  BY <1>1, Zenon DEF CallStep
<1>6. LuaRight' /\ KeyRight'
  BY <1>5, Zenon DEF LuaRight, KeyRight
<1>7. r.name = n /\ <<r.db, r.oid>> \in Since[n]
  BY <1>3, <1>4, Zenon DEF Row
<1>8. Quiet => RightBy(nameMap)'
  <2> SUFFICES ASSUME Quiet PROVE RightBy(nameMap)'
    BY Zenon
  <2>1. keys = BothKey(n) /\ (mode = "UNION" => ~ Gearbox(nameMap))
    BY <1>3, Zenon
  <2>2. \E k \in Stands(nameMap, n) : k[2] # None
    <3>1. keys[1] \in DbsOf(n) /\ keys[2] = nameMap[keys[1]][n]
      BY <2>1, <1>3, Zenon DEF BothKey, CountersInv, Shape, NoKey, Db
    <3>2. keys \in Stands(nameMap, n)
      BY <3>1, <1>4, Zenon DEF Stands
    <3> QED BY <3>2, <1>3, Zenon
  <2>3. AllNamed(nameMap)'
    BY <2>1, <2>2, <1>5, Zenon DEF AllNamed, Gearbox
  <2>4. \A f : Meant(nameMap, f)' = {r}
    <3>1. CASE mode = "MACSEC"
      BY <3>1, <1>5, <1>3, <2>1, Zenon DEF Meant, BothKey, NameOf, NoKey
    <3>2. CASE mode # "MACSEC"
      <4>1. n \in PortName /\ (mode = "UNION" => n = "asic")
        BY <3>2, <1>3, Zenon DEF NamesOf, NameOf
      <4>2. nameMap[DbOf(n)][n] # None /\ keys = <<DbOf(n), nameMap[DbOf(n)][n]>>
        BY <4>1, <2>1, <1>3, QuietKeys, Zenon
      <4>3. r = Row(n, DbOf(n), nameMap[DbOf(n)][n], "same")
        BY <4>2, Zenon
      <4>4. \A f : Meant(nameMap, f)' =
              {x \in {Row(m, DbOf(m), nameMap[DbOf(m)][m], IF mode = "UNION" /\ m = "system" THEN "mirror" ELSE "same") : m \in PortName} : x.name = n}
        BY <3>2, <1>5, <2>1, Zenon DEF Meant, Gearbox
      <4>5. \A m, d, o, c : Row(m, d, o, c).name = m
        BY Zenon DEF Row
      <4> HIDE DEF r
      <4> QED BY <4>1, <4>3, <4>4, <4>5
    <3> QED BY <3>1, <3>2, Zenon
  <2>5. CASE there = {}
    BY <2>5, <1>1, Zenon DEF RightBy
  <2>6. CASE there # {}
    <3>1. values' = [f \in asked |-> {r}] /\ n \in there
      BY <2>6, <1>1, Zenon
    <3>2. values' # NoValues
      BY <3>1, <1>3, Zenon DEF NoValues
    <3> QED BY <3>1, <3>2, <2>3, <2>4, <1>1, <1>5, Zenon DEF RightBy
  <2> QED BY <2>5, <2>6, Zenon
<1>9. DoneRight'
  <2>1. \A M \in Maps : (\A x \in NamesOf(mode') : Since'[x] = Stands(M, x)) => RightBy(M)'
    BY <1>1, <1>8, DoneByMaps, Zenon DEF Calling
  <2>2. ASSUME values' # NoValues, NEW f \in asked', NEW x \in values'[f] PROVE x.name \in Name /\ <<x.db, x.oid>> \in Since'[x.name]
    <3>1. x = r
      BY <2>2, <1>1, <1>5, Zenon
    <3> HIDE DEF r
    <3> QED BY <3>1, <1>7, <1>2, <1>3, Zenon
  <2> QED BY <2>1, <2>2, <1>5, Zenon DEF DoneRight, Calling
<1> QED BY <1>2, <1>6, <1>9, Zenon DEF CountersInv

\* The Lua script reads and adds up the rows of three keys.
LEMMA LuaGetInv ==
  ASSUME CountersInv, NEW there \in SUBSET PortName, luaGet(there)
  PROVE  CountersInv'
<1> DEFINE a == Row("asic", COUNTERS_DB, keys[3], "same")
           s == Row("system", GB_COUNTERS_DB, keys[2], "mirror")
           l == Row("line", GB_COUNTERS_DB, keys[1], "same")
<1>1. /\ CallStep("lua", {"done"}) /\ present' = there /\ UNCHANGED keys
      /\ values' = IF None \in {keys[i] : i \in 1..3} \/ "asic" \notin there THEN NoValues
                   ELSE [f \in asked |-> {a} \cup get_gbcounter(f, there)]
  BY Zenon DEF luaGet, CallStep, dbVars, cacheVars, histories
<1>2. Shape' /\ Tracked' /\ CacheRight' /\ Cached' = Cached /\ Quiet' = Quiet /\ Since' = Since
  <2>1. "lua" \in Calling /\ {"done"} \in SUBSET (Calling \cup {"done"})
    BY Zenon DEF Calling
  <2> QED BY <1>1, <2>1, CallStepKeeps, Zenon
<1>3. /\ asked # {} /\ pc = "lua" /\ pc \in Calling /\ mode = "UNION"
      /\ keys \in Seq(Oid \cup {None}) /\ Len(keys) = 3
      /\ NameOf(mode) = "asic" /\ NamesOf(mode) = PortName
  BY <1>1, Zenon DEF CountersInv, LuaRight, DoneRight, CallStep, Calling, NameOf, NamesOf
<1>4. \A i \in 1..3 : keys[i] = None \/ <<DbOf(LuaNames[i]), keys[i]>> \in Since[LuaNames[i]]
  BY <1>3, Zenon DEF CountersInv, LuaRight
<1>5. /\ keys[1] # None => <<GB_COUNTERS_DB, keys[1]>> \in Since["line"]
      /\ keys[2] # None => <<GB_COUNTERS_DB, keys[2]>> \in Since["system"]
      /\ keys[3] # None => <<COUNTERS_DB, keys[3]>> \in Since["asic"]
  BY <1>4 DEF LuaNames, DbOf
<1>6. Quiet =>
        /\ Gearbox(nameMap) /\ keys[1] = nameMap[GB_COUNTERS_DB]["line"]
        /\ keys[2] = nameMap[GB_COUNTERS_DB]["system"] /\ keys[3] = nameMap[COUNTERS_DB]["asic"]
  <2> SUFFICES ASSUME Quiet PROVE /\ Gearbox(nameMap) /\ keys[1] = nameMap[GB_COUNTERS_DB]["line"]
               /\ keys[2] = nameMap[GB_COUNTERS_DB]["system"] /\ keys[3] = nameMap[COUNTERS_DB]["asic"]
    BY Zenon
  <2>1. Gearbox(nameMap) /\ \A i \in 1..3 : keys[i] = nameMap[DbOf(LuaNames[i])][LuaNames[i]]
    BY <1>3, Zenon DEF CountersInv, LuaRight
  <2> QED BY <2>1 DEF LuaNames, DbOf
<1>7. UNCHANGED <<mode, nameMap, m_enabled, asked>> /\ pc' = "done"
  BY <1>1, Zenon DEF CallStep
<1>8. LuaRight' /\ KeyRight'
  BY <1>7, Zenon DEF LuaRight, KeyRight
<1>9. None \in {keys[i] : i \in 1..3} <=> keys[1] = None \/ keys[2] = None \/ keys[3] = None
  BY DEF None
<1>10. \A f : get_gbcounter(f, there) \subseteq {s, l}
  BY Zenon DEF get_gbcounter
<1>11. Quiet => RightBy(nameMap)'
  <2> SUFFICES ASSUME Quiet PROVE RightBy(nameMap)'
    BY Zenon
  <2>1. AllNamed(nameMap)' <=> keys[1] # None /\ keys[2] # None /\ keys[3] # None
    <3>1. AllNamed(nameMap)' <=> \A n \in PortName : \E k \in Stands(nameMap, n) : k[2] # None
      BY <1>6, <1>7, <1>3, Zenon DEF AllNamed, Gearbox
    <3>2. \A n \in PortName : Stands(nameMap, n) = {<<DbOf(n), nameMap[DbOf(n)][n]>>}
      BY NamesFacts, Zenon DEF Stands
    <3>3. AllNamed(nameMap)' <=> \A n \in PortName : nameMap[DbOf(n)][n] # None
      <4>1. \A n \in PortName : (\E k \in Stands(nameMap, n) : k[2] # None) <=> <<DbOf(n), nameMap[DbOf(n)][n]>>[2] # None
        BY <3>2, Zenon
      <4>2. \A n : <<DbOf(n), nameMap[DbOf(n)][n]>>[2] = nameMap[DbOf(n)][n]
        BY Zenon
      <4> QED BY <3>1, <4>1, <4>2, Zenon
    <3> QED BY <3>3, <1>6, Zenon DEF PortName, DbOf
  <2>2. CASE keys[1] = None \/ keys[2] = None \/ keys[3] = None \/ "asic" \notin there
    BY <2>1, <2>2, <1>1, <1>3, <1>7, <1>9, Zenon DEF RightBy
  <2>3. CASE keys[1] # None /\ keys[2] # None /\ keys[3] # None /\ "asic" \in there
    <3>1. values' = [f \in asked |-> {a} \cup get_gbcounter(f, there)]
      BY <2>3, <1>1, <1>9, Zenon
    <3>2. values' # NoValues
      BY <3>1, <1>3, Zenon DEF NoValues
    <3>3. \A f : Meant(nameMap, f)' = {a} \cup get_gbcounter(f, there)
      <4> TAKE f
      <4>1. Meant(nameMap, f)' =
              {r \in {Row(n, DbOf(n), nameMap[DbOf(n)][n], IF n = "system" THEN "mirror" ELSE "same") : n \in PortName} :
                 r.name = "asic" \/ (r.name \in there /\ (f = "both" \/ (f = "line" /\ r.name = "line")))}
        BY <1>1, <1>3, <1>6, <1>7 DEF Meant, Gearbox
      <4>2. {Row(n, DbOf(n), nameMap[DbOf(n)][n], IF n = "system" THEN "mirror" ELSE "same") : n \in PortName} = {a, s, l}
        BY <1>6, Zenon DEF PortName, DbOf
      <4>3. a.name = "asic" /\ s.name = "system" /\ l.name = "line"
        BY Zenon DEF Row
      <4>4. get_gbcounter(f, there) =
              {r \in {s, l} : r.name \in there /\ (f = "both" \/ (f = "line" /\ r.name = "line"))}
        BY Zenon DEF get_gbcounter
      <4> HIDE DEF a, s, l
      <4> QED BY <4>1, <4>2, <4>3, <4>4, Zenon
    <3> QED BY <3>1, <3>2, <3>3, <2>1, <2>3, <1>1, <1>3, <1>7, Zenon DEF RightBy
  <2> QED BY <2>2, <2>3, Zenon
<1>12. DoneRight'
  <2>1. \A M \in Maps : (\A x \in NamesOf(mode') : Since'[x] = Stands(M, x)) => RightBy(M)'
    BY <1>1, <1>11, DoneByMaps, Zenon DEF Calling
  <2>2. ASSUME values' # NoValues, NEW f \in asked', NEW x \in values'[f] PROVE x.name \in Name /\ <<x.db, x.oid>> \in Since'[x.name]
    <3>1. keys[1] # None /\ keys[2] # None /\ keys[3] # None /\ x \in {a, s, l}
      BY <2>2, <1>1, <1>7, <1>9, <1>10, Zenon
    <3>2. /\ a.name = "asic" /\ a.db = COUNTERS_DB /\ a.oid = keys[3]
          /\ s.name = "system" /\ s.db = GB_COUNTERS_DB /\ s.oid = keys[2]
          /\ l.name = "line" /\ l.db = GB_COUNTERS_DB /\ l.oid = keys[1]
      BY Zenon DEF Row
    <3> HIDE DEF a, s, l
    <3> QED BY <3>1, <3>2, <1>5, <1>2, Zenon DEF Name, PortName
  <2> QED BY <2>1, <2>2, <1>7, Zenon DEF DoneRight, Calling
<1> QED BY <1>2, <1>8, <1>12, Zenon DEF CountersInv

\* A stuttering step.
LEMMA StutterInv ==
  ASSUME CountersInv, UNCHANGED vars
  PROVE  CountersInv'
<1> USE DEF vars
<1>1. Cached' = Cached /\ Since' = Since /\ (\A n : Of(n)' = Of(n) /\ BothKey(n)' = BothKey(n) /\ FirstKey(n)' = FirstKey(n))
  BY Zenon DEF Cached, Since, Of, Stands, BothKey, FirstKey
<1>2. Quiet' = Quiet
  BY <1>1, Zenon DEF Quiet
<1>3. Shape' /\ Tracked' /\ CacheRight'
  BY <1>1, Zenon DEF CountersInv, Shape, Tracked, CacheRight
<1>4. LuaRight' /\ KeyRight'
  BY <1>1, <1>2, Zenon DEF CountersInv, LuaRight, KeyRight, Gearbox
<1>5. \A M : RightBy(M)' = RightBy(M)
  BY DEF RightBy, AllNamed, Meant
<1>6. DoneRight'
  BY <1>1, <1>5, Zenon DEF CountersInv, DoneRight
<1> QED BY <1>3, <1>4, <1>6, Zenon DEF CountersInv

\* Every step keeps the invariant.
LEMMA StepCounters == CountersInv /\ [Next]_vars => CountersInv'
<1> SUFFICES ASSUME CountersInv, [Next]_vars PROVE CountersInv'
  BY Zenon
<1>1. CASE \E d \in Db, n \in Name, o \in Oid \cup {None} : SetName(d, n, o)
  BY <1>1, SetNameInv, Zenon
<1>2. CASE \E e \in BOOLEAN : refresh(e) \/ disable(e)
  BY <1>2, RefreshInv, DisableInv, Zenon
<1>3. CASE cachingKey \/ cachingKeyGb
  BY <1>3, CachingInv, Zenon
<1>4. CASE \E m \in Mode : get(m) \/ \E f \in (IF m = "UNION" THEN Field ELSE {"plain"}) : hget(m, f)
  <2>1. PICK m \in Mode : get(m) \/ \E f \in (IF m = "UNION" THEN Field ELSE {"plain"}) : hget(m, f)
    BY <1>4, Zenon
  <2>2. \E fs \in SUBSET Field : fs # {} /\ Call(m, fs)
    BY <2>1, Zenon DEF get, hget, Field
  <2> QED BY <2>2, CallInv, Zenon
<1>5. CASE usingLuaTable \/ getLuaKeys \/ getKey \/ getKeyGb
  BY <1>5, UsingInv, LuaKeysInv, KeyInv, KeyGbInv, Zenon
<1>6. CASE \E there \in SUBSET Name : tableGet(there)
  BY <1>6, TableGetInv, Zenon
<1>7. CASE \E there \in SUBSET PortName : luaGet(there)
  BY <1>7, LuaGetInv, Zenon
<1>8. CASE UNCHANGED vars
  BY <1>8, StutterInv, Zenon
<1> QED BY <1>1, <1>2, <1>3, <1>4, <1>5, <1>6, <1>7, <1>8, Zenon DEF Next

\* The invariant says that what is shown is right.
LEMMA CountersRight == CountersInv => RowsOfTheName /\ CacheTransparent
<1> SUFFICES ASSUME CountersInv PROVE RowsOfTheName /\ CacheTransparent
  BY Zenon
<1>1. RowsOfTheName
  BY Zenon DEF CountersInv, DoneRight, RowsOfTheName
<1>2. CacheTransparent
  BY Zenon DEF CountersInv, DoneRight, Shape, CacheTransparent, Of
<1> QED BY <1>1, <1>2, Zenon

\* A counter comes from rows that its name stood for during the call, or since the refresh() of the
\* cache, and is right if the name maps did not change (PortCounter::get, MacsecCounter::get).
THEOREM CountersOfTheName == Spec => [](RowsOfTheName /\ CacheTransparent)
  BY InitCounters, StepCounters, CountersRight, PTL DEF Spec
===============================================================================
