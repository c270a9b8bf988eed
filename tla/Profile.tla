-------------------------------- MODULE Profile --------------------------------
(***************************************************************************)
(* Static profiles (profileprovider.cpp): items of PROFILE_DB, which does  *)
(* not change, of which CONFIG_DB marks some as deleted.  Every call makes *)
(* its requests to the two databases one by one.                           *)
(***************************************************************************)
EXTENDS Integers, FiniteSets

CONSTANTS Client, Item, StaticItem, MaxCalls

VARIABLES
  deleted,    \* items with a key in PROFILE_DELETE of CONFIG_DB
  op, pc,     \* per client: the call it is in, or "none", and how far it is
  asked,      \* the items it is about
  todo,       \* those it has still to ask CONFIG_DB for
  result,     \* items it found
  returned,   \* what the last tryDeleteItem() or tryRevertItem() returned
  seen, unseen,   \* history: items that were there, or were not, at some moment of the call
  calls

vars == <<deleted, op, pc, asked, todo, result, returned, seen, unseen, calls>>

Op == {"getConfigs", "getKeys", "tryDeleteItem", "tryRevertItem"}
There(d) == StaticItem \ d

\* Every variable has its type.
TypeOK ==
  /\ deleted \subseteq Item /\ op \in [Client -> Op \cup {"none"}]
  /\ pc \in [Client -> {"idle", "check", "write", "done"}]
  /\ \A c \in Client : todo[c] \subseteq asked[c] /\ result[c] \subseteq Item /\ asked[c] \subseteq Item
  /\ returned \in [Client -> BOOLEAN] /\ calls \in 0..MaxCalls

Init ==
  /\ deleted \in SUBSET Item /\ op = [c \in Client |-> "none"] /\ pc = [c \in Client |-> "idle"]
  /\ asked = [c \in Client |-> {}] /\ todo = [c \in Client |-> {}] /\ result = [c \in Client |-> {}]
  /\ returned = [c \in Client |-> FALSE] /\ seen = [c \in Client |-> {}] /\ unseen = [c \in Client |-> {}] /\ calls = 0

\* The history of the calls that are being made when `deleted` becomes d.
Watch(d) ==
  /\ seen' = [c \in Client |-> IF pc[c] \in {"idle", "done"} THEN seen[c] ELSE seen[c] \cup There(d)]
  /\ unseen' = [c \in Client |-> IF pc[c] \in {"idle", "done"} THEN unseen[c] ELSE unseen[c] \cup (Item \ There(d))]

\* getConfigs(table, key) and getConfig(), appendConfigs() that call it: {i}, CONFIG_DB is asked first;
\* getConfigs() and getKeys(): all that PROFILE_DB has.
Call(c, o, items) ==
  /\ pc[c] \in {"idle", "done"} /\ calls < MaxCalls /\ calls' = calls + 1
  /\ op' = [op EXCEPT ![c] = o] /\ asked' = [asked EXCEPT ![c] = items] /\ todo' = [todo EXCEPT ![c] = items]
  /\ result' = [result EXCEPT ![c] = {}] /\ pc' = [pc EXCEPT ![c] = "check"]
  /\ seen' = [seen EXCEPT ![c] = There(deleted)] /\ unseen' = [unseen EXCEPT ![c] = Item \ There(deleted)]
  /\ UNCHANGED <<deleted, returned>>

getConfig(c, i) == Call(c, "getConfigs", {i})
getConfigs(c) == Call(c, "getConfigs", StaticItem)
getKeys(c) == Call(c, "getKeys", StaticItem)
tryDeleteItem(c, i) == Call(c, "tryDeleteItem", {i})
tryRevertItem(c, i) == Call(c, "tryRevertItem", {i})

\* itemDeleted() for one of the items of a read.
itemDeleted(c, i) ==
  /\ pc[c] = "check" /\ i \in todo[c] /\ op[c] \in {"getConfigs", "getKeys"}
  /\ todo' = [todo EXCEPT ![c] = @ \ {i}]
  /\ result' = [result EXCEPT ![c] = @ \cup ({i} \cap There(deleted))]
  /\ pc' = [pc EXCEPT ![c] = IF todo'[c] = {} THEN "done" ELSE "check"]
  /\ UNCHANGED <<deleted, op, asked, returned, seen, unseen, calls>>

\* itemDeleted() in tryDeleteItem() and tryRevertItem().
checkItem(c) ==
  /\ pc[c] = "check" /\ op[c] \in {"tryDeleteItem", "tryRevertItem"}
  /\ LET write == (asked[c] \subseteq deleted) = (op[c] = "tryRevertItem")
     IN  pc' = [pc EXCEPT ![c] = IF write THEN "write" ELSE "done"] /\ returned' = [returned EXCEPT ![c] = write]
  /\ UNCHANGED <<deleted, op, asked, todo, result, seen, unseen, calls>>

\* deleteItem()
deleteItem(c) ==
  /\ pc[c] = "write" /\ op[c] = "tryDeleteItem"
  /\ deleted' = deleted \cup asked[c] /\ Watch(deleted')
  /\ pc' = [pc EXCEPT ![c] = "done"]
  /\ UNCHANGED <<op, asked, todo, result, returned, calls>>

\* revertItem()
revertItem(c) ==
  /\ pc[c] = "write" /\ op[c] = "tryRevertItem"
  /\ deleted' = deleted \ asked[c] /\ Watch(deleted')
  /\ pc' = [pc EXCEPT ![c] = "done"]
  /\ UNCHANGED <<op, asked, todo, result, returned, calls>>

Next ==
  \E c \in Client :
    \/ getConfigs(c) \/ getKeys(c) \/ checkItem(c) \/ deleteItem(c) \/ revertItem(c)
    \/ \E i \in Item : getConfig(c, i) \/ tryDeleteItem(c, i) \/ tryRevertItem(c, i) \/ itemDeleted(c, i)

Spec == Init /\ [][Next]_vars
-------------------------------------------------------------------------------
\* Whatever others delete and revert meanwhile, a read shows of every item what
\* was true of it at some moment between its call and its return.
ReadsPresent ==
  \A c \in Client : pc[c] = "done" /\ op[c] \in {"getConfigs", "getKeys"} =>
     result[c] \subseteq seen[c] /\ asked[c] \ result[c] \subseteq unseen[c]
===============================================================================
