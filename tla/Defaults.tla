------------------------------- MODULE Defaults -------------------------------
(***************************************************************************)
(* Default values from the YANG models (defaultvalueprovider.cpp) in the   *)
(* reads of DecoratorTable and DecoratorSubscriberStateTable.              *)
(*                                                                         *)
(* A table of a model has lists and containers.  Names are numbers, in the *)
(* order of the strings they stand for, 0 for the empty one.  The code is  *)
(* built against libyang 1 or libyang 3.                                   *)
(***************************************************************************)
EXTENDS Integers, Sequences, FiniteSets
LOCAL INSTANCE SequencesExt

CONSTANTS Child,      \* what a table of the model may contain: [type, name, keys, fields]
          Row,        \* keys of the table: [name, parts], parts = 1 + the number of "|"
          Field, Value,
          MaxWrites   \* bound

VARIABLES
  libyang,    \* 1 or 3
  model,      \* the children of the table in the model, a sequence
  m_context,  \* the YANG models are loaded
  mapping,    \* m_defaultValueMapping[table], a set of at most one TableInfo
  rows,       \* the table in the database
  writes,
  got,        \* the last read: [op, key, ok, values], ok what it returned
  caller      \* the process that reads: "runs", "hangs" in Initialize(), or "undefined"

vars == <<libyang, model, m_context, mapping, rows, writes, got, caller>>

Nothing == [f \in {} |-> 0]
NoRead == [op |-> "none", key |-> CHOOSE k \in Row : TRUE, ok |-> FALSE, values |-> Nothing]

\* std::map::emplace keeps what is there.
Emplace(old, new) == old @@ new
-------------------------------------------------------------------------------
(***************************************************************************)
(* What a model says: a field of a list or container is a leaf, a choice   *)
(* (case holds the nodes of its default case) or a leaf-list; dflt is a    *)
(* set of at most one value.                                               *)
(***************************************************************************)
Dflt(n, d) == IF d = {} THEN Nothing ELSE [x \in {n} |-> CHOOSE v \in d : TRUE]

GetDefaultValueInfoForLeaf(n) == Dflt(n.name, n.dflt)

\* The loop over the default case goes on to the next node only from a leaf.
ChoiceLoops(n) == \E l \in ToSet(n.case) : l.kind # "leaf"

GetDefaultValueInfoForChoice(n) == FoldLeft(LAMBDA m, l : Emplace(m, Dflt(l.name, l.dflt)), Nothing, n.case)

\* The values of a leaf-list are one JSON string.
GetDefaultValueInfoForLeaflist(n) == Dflt(n.name, n.dflt)

GetDefaultValueInfo(node) ==
  LET Of(n) == CASE n.kind = "leaf"     -> GetDefaultValueInfoForLeaf(n)
                 [] n.kind = "choice"   -> GetDefaultValueInfoForChoice(n)
                 [] n.kind = "leaflist" -> GetDefaultValueInfoForLeaflist(n)
                 [] OTHER -> Nothing
  IN  FoldLeft(LAMBDA m, n : Emplace(m, Of(n)), Nothing, node.fields)

\* The schema of the keys: a set of at most one pair of a name and the number of keys.
\* libyang 1 gives no name of the keys and refuses a list without keys.
GetKeySchema(node) ==
  CASE node.type = "list" -> IF libyang = 1 THEN {<<0, node.keys>> : k \in 1..(IF node.keys = 0 THEN 0 ELSE 1)}
                             ELSE {<<IF node.keys = 0 THEN 0 ELSE node.name, node.keys>>}
    [] node.type = "container" -> {<<node.name, 0>>}
    [] OTHER -> {}

\* A choice of a child with a schema keeps the loop from its end.
NeverBuilt ==
  \E n \in ToSet(model) : GetKeySchema(n) # {} /\ \E f \in ToSet(n.fields) : f.kind = "choice" /\ ChoiceLoops(f)

\* BuildTableDefaultValueMapping(): the mapping from schemas, the children that are lists.
BuildTableDefaultValueMapping ==
  FoldLeft(LAMBDA m, n : IF GetKeySchema(n) = {} THEN m
                         ELSE Emplace(m, [s \in GetKeySchema(n) |-> GetDefaultValueInfo(n)]), Nothing, model)

ListCount == Cardinality({i \in DOMAIN model : \E s \in GetKeySchema(model[i]) : s[2] # 0})

\* The order of the schemas in the mapping.
Before(s, t) == s[1] < t[1] \/ (s[1] = t[1] /\ s[2] =< t[2])
InOrder(S) == SetToSortSeq(S, Before)

\* The first of the schemas with the same x wins.
First(m, i) == [x \in {s[i] : s \in DOMAIN m} |-> m[SelectSeq(InOrder(DOMAIN m), LAMBDA s : s[i] = x)[1]]]

TableInfoDict(m) == [type |-> "dict", of |-> First(m, 1)]
TableInfoSingleList(m) == [type |-> "single", of |-> [x \in {0} |-> m[InOrder(DOMAIN m)[1]]]]
TableInfoMultipleList(m) == [type |-> "multiple", of |-> First(m, 2)]

AppendTableInfoToMapping ==
  LET m == BuildTableDefaultValueMapping
  IN  CASE ListCount = 0 -> TableInfoDict(m)
        [] ListCount = 1 -> TableInfoSingleList(m)
        [] OTHER -> TableInfoMultipleList(m)

\* FoundFieldMappingByKey() of the three.
FoundFieldMappingByKey(info, key) ==
  LET x == CASE info.type = "dict" -> IF key.parts = 1 THEN key.name ELSE -1
             [] info.type = "single" -> 0
             [] OTHER -> key.parts
  IN  {info.of[y] : y \in {x} \cap DOMAIN info.of}

\* GetDefaultValue(): a set of at most one value.
GetDefaultValue(info, key, f) == UNION {{m[g] : g \in {f} \cap DOMAIN m} : m \in FoundFieldMappingByKey(info, key)}

\* appendDefaultValues(): the values with the defaults of the fields that are missing.
AppendDefaultValues(info, key, existed) ==
  LET m == FoundFieldMappingByKey(info, key)
  IN  IF m = {} THEN existed ELSE Emplace(existed, CHOOSE fm \in m : TRUE)
-------------------------------------------------------------------------------
\* Every variable has its type.
TypeOK ==
  /\ libyang \in {1, 3} /\ model \in Seq(Child) /\ m_context \in BOOLEAN /\ Cardinality(mapping) =< 1
  /\ \A k \in DOMAIN rows : k \in Row /\ DOMAIN rows[k] \subseteq Field /\ \A f \in DOMAIN rows[k] : rows[k][f] \in Value
  /\ writes \in 0..MaxWrites /\ caller \in {"runs", "hangs", "undefined"}

Init ==
  /\ libyang \in {1, 3} /\ model \in UNION {[1..n -> Child] : n \in 1..2}
  /\ m_context = FALSE /\ mapping = {} /\ rows = Nothing /\ writes = 0 /\ got = NoRead /\ caller = "runs"

\* A field of a row is set, or a row removed, in the database.
hset(k, f, v) ==
  /\ writes < MaxWrites /\ writes' = writes + 1
  /\ rows' = [x \in {k} |-> (f :> v) @@ (IF k \in DOMAIN rows THEN rows[k] ELSE Nothing)] @@ rows
  /\ got' = NoRead
  /\ UNCHANGED <<libyang, model, m_context, mapping, caller>>

del(k) ==
  /\ k \in DOMAIN rows /\ writes < MaxWrites /\ writes' = writes + 1
  /\ rows' = [x \in DOMAIN rows \ {k} |-> rows[x]] /\ got' = NoRead
  /\ UNCHANGED <<libyang, model, m_context, mapping, caller>>

\* Initialize(), the first time a default is asked for: the directory of the models cannot be
\* opened and an exception leaves the read,
InitializeFails ==
  /\ caller = "runs" /\ ~m_context /\ got' = [NoRead EXCEPT !.op = "failed"]
  /\ UNCHANGED <<libyang, model, m_context, mapping, rows, writes, caller>>

\* or it does not come back,
InitializeHangs ==
  /\ caller = "runs" /\ ~m_context /\ NeverBuilt
  /\ m_context' = TRUE /\ caller' = "hangs" /\ got' = NoRead
  /\ UNCHANGED <<libyang, model, mapping, rows, writes>>

\* or the models are loaded, all but those that libyang refuses (LoadModule()), once and for all.
Initialize(refused) ==
  /\ caller = "runs" /\ (NeverBuilt => m_context \/ refused)
  /\ IF m_context THEN UNCHANGED mapping ELSE mapping' = IF refused THEN {} ELSE {AppendTableInfoToMapping}
  /\ m_context' = TRUE
  /\ UNCHANGED <<libyang, model, rows, writes>>

\* A look-up gives its result.  For a key without a mapping FoundFieldMappingByKey() has read the
\* pointer of end() before it says so, which is undefined: the process may end.
Gives(k, result) ==
  \/ got' = result /\ UNCHANGED caller
  \/ /\ \E i \in mapping' : FoundFieldMappingByKey(i, k) = {}
     /\ caller' = "undefined" /\ got' = NoRead

InternalAppendDefaultValues(k, existed) ==
  IF mapping' = {} THEN existed ELSE AppendDefaultValues(CHOOSE i \in mapping' : TRUE, k, existed)

\* DecoratorTable::get(): the defaults are there also when the row is not.
get(k, refused) ==
  /\ Initialize(refused)
  /\ Gives(k, [op |-> "get", key |-> k, ok |-> k \in DOMAIN rows,
               values |-> InternalAppendDefaultValues(k, IF k \in DOMAIN rows THEN rows[k] ELSE Nothing)])

\* DecoratorTable::hget(): a default makes it succeed, of a row that is not there too.
hget(k, f, refused) ==
  IF k \in DOMAIN rows /\ f \in DOMAIN rows[k]
  THEN /\ caller = "runs"
       /\ got' = [op |-> "hget", key |-> k, ok |-> TRUE, values |-> (f :> rows[k][f])]
       /\ UNCHANGED <<libyang, model, m_context, mapping, rows, writes, caller>>
  ELSE /\ Initialize(refused)
       /\ LET d == UNION {GetDefaultValue(i, k, f) : i \in mapping'}
          IN  Gives(k, [op |-> "hget", key |-> k, ok |-> d # {}, values |-> Dflt(f, d)])

\* DecoratorSubscriberStateTable::pops(): only what is SET is decorated.
pops(k, refused) ==
  IF k \in DOMAIN rows
  THEN /\ Initialize(refused)
       /\ Gives(k, [op |-> "SET", key |-> k, ok |-> TRUE, values |-> InternalAppendDefaultValues(k, rows[k])])
  ELSE /\ caller = "runs"
       /\ got' = [op |-> "DEL", key |-> k, ok |-> TRUE, values |-> Nothing]
       /\ UNCHANGED <<libyang, model, m_context, mapping, rows, writes, caller>>

Next ==
  \/ InitializeFails \/ InitializeHangs
  \/ \E k \in Row :
       \/ del(k)
       \/ \E f \in Field, v \in Value : hset(k, f, v)
       \/ \E r \in BOOLEAN : get(k, r) \/ pops(k, r) \/ \E f \in Field : hget(k, f, r)

Spec == Init /\ [][Next]_vars
-------------------------------------------------------------------------------
\* What the model says of a row: the defaults of the only child the row can belong to.
Owner(k) == {n \in ToSet(model) : IF n.type = "list" THEN n.keys = k.parts
                                  ELSE n.type = "container" /\ k.parts = 1 /\ n.name = k.name}

\* The default that the model gives to the field f of its child n, a set of at most one value: that
\* of the leaf or leaf-list f, or of the leaf f in the default case of a choice.
DefaultInModel(n, f) ==
  LET nodes == UNION {IF d.kind = "choice" THEN ToSet(d.case) ELSE {d} : d \in ToSet(n.fields)}
  IN  UNION {d.dflt : d \in {x \in nodes : x.kind \in {"leaf", "leaflist"} /\ x.name = f}}

\* The tables a key can be looked up in: lists of different numbers of keys, or
\* containers of different names, and not both.
WellFormed ==
  /\ \A n \in ToSet(model) : n.type = "list" => n.keys > 0
  /\ Cardinality({n.type : n \in ToSet(model)}) = 1
  /\ \A i, j \in DOMAIN model : i # j => IF model[i].type = "list" THEN model[i].keys # model[j].keys
                                         ELSE model[i].name # model[j].name

\* What is configured comes back as it is, through every read; no read invents a
\* field that neither the database nor the model of the table has.
ConfiguredKept ==
  got.op \in {"get", "hget", "SET"} =>
    LET row == IF got.key \in DOMAIN rows THEN rows[got.key] ELSE Nothing
    IN  \A f \in DOMAIN got.values :
          IF f \in DOMAIN row THEN got.values[f] = row[f]
          ELSE \E n \in ToSet(model) : got.values[f] \in DefaultInModel(n, f)

\* A row of a well-formed table is read with exactly the defaults of the list or container of
\* the model it belongs to, whichever libyang the code is built with and in whichever order the
\* children come. (With a single list every key is taken for one of the list.)
DefaultsOfOwner ==
  got.op \in {"get", "SET"} /\ mapping # {} /\ WellFormed =>
     \A n \in Owner(got.key) :
       LET row == IF got.key \in DOMAIN rows THEN rows[got.key] ELSE Nothing
       IN  /\ DOMAIN got.values = DOMAIN row \cup {f \in Field : DefaultInModel(n, f) # {}}
           /\ \A f \in DOMAIN got.values \ DOMAIN row : got.values[f] \in DefaultInModel(n, f)
===============================================================================
