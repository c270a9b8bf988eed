--------------------------- MODULE StateTableProofs ---------------------------
(***************************************************************************)
(* Proofs about StateTable and TempView for any finite set of keys and any *)
(* batch size.                                                             *)
(***************************************************************************)
EXTENDS TempView, FiniteSetTheorems, TLAPS

-------------------------------------------------------------------------------
(***************************************************************************)
(* Hashes.                                                                 *)
(***************************************************************************)
\* The empty hash is a hash, and HSET of hashes gives a hash.
LEMMA HashType ==
  /\ EmptyHash \in Hash
  /\ \A h, u \in Hash : HSet(h, u) \in Hash
BY Zenon DEF Hash, EmptyHash, HSet

\* HSET with nothing changes nothing; HSET into a missing hash creates a copy.
LEMMA HSetEmpty ==
  ASSUME NEW h \in Hash
  PROVE  /\ HSet(h, EmptyHash) = h
         /\ HSet(EmptyHash, h) = h
BY Zenon DEF Hash, EmptyHash, HSet

\* Two HSETs in a row are the HSET of the merged pairs, the later one winning:
\* this is why fields may be staged in a hash of their own.
LEMMA HSetAssociative ==
  ASSUME NEW h \in Hash, NEW u \in Hash, NEW w \in Hash
  PROVE  HSet(HSet(h, u), w) = HSet(h, HSet(u, w))
BY Zenon DEF Hash, HSet

\* Repeating an HSET changes nothing.
LEMMA HSetIdempotent ==
  ASSUME NEW h \in Hash, NEW u \in Hash
  PROVE  HSet(HSet(h, u), u) = HSet(h, u)
BY Zenon DEF Hash, HSet
-------------------------------------------------------------------------------
(***************************************************************************)
(* Type correctness.                                                       *)
(***************************************************************************)
\* An entry made from a staged hash has the type of an entry.
LEMMA KcoType ==
  ASSUME TypeOK, NEW k \in Key
  PROVE  KcoOf(k) \in Kco
BY Zenon DEF TypeOK, KcoOf, Kco

\* The pops script keeps the types.
LEMMA PopsScriptType ==
  ASSUME TypeOK, NEW S \in Spop, PopsScript(S)
  PROVE  /\ keySet' \subseteq Key
         /\ delSet' \subseteq Key
         /\ stateHash' \in [Key -> Hash]
         /\ table' \in [Key -> Hash]
         /\ watchDirty' \in BOOLEAN
         /\ channel' \in Nat
         /\ expected' \in [Key -> Hash]
BY HashType, Zenon DEF TypeOK, PopsScript, TouchKeySet

\* Every step keeps the variables in their types.
LEMMA TypeStep == TypeOK /\ [Next]_vars => TypeOK'
<1> SUFFICES ASSUME TypeOK, [Next]_vars
             PROVE  TypeOK'
  BY Zenon
<1>1. ASSUME NEW S \in Batch, Set(S)
      PROVE  TypeOK'
  <2>1. PICK b \in [S -> Update] : SetScript(b, TRUE)
    BY <1>1, Zenon DEF Set
  <2>2. \A k \in S : b[k] \in Hash
    BY Zenon DEF Update
  <2>3. stateHash' \in [Key -> Hash] /\ expected' \in [Key -> Hash]
    BY <2>1, <2>2, HashType, Zenon DEF SetScript, TypeOK
  <2> QED
    BY <1>1, <2>1, <2>3 DEF Set, SetScript, Batch, TypeOK, TouchKeySet, Publish, consumerVars
<1>2. ASSUME NEW S \in Batch, Del(S)
      PROVE  TypeOK'
  <2>1. stateHash' \in [Key -> Hash] /\ expected' \in [Key -> Hash]
    BY <1>2, HashType, Zenon DEF Del, DelScript, TypeOK
  <2> QED
    BY <1>2, <2>1 DEF Del, DelScript, Batch, TypeOK, TouchKeySet, Publish, consumerVars
<1>3. CASE Clear
  BY <1>3, HashType, Zenon DEF Clear, ClearScript, TypeOK, TouchKeySet, consumerVars
<1>4. CASE Watch
  BY <1>4, Zenon DEF Watch, TypeOK, redisVars, ConsumerPc
<1>5. CASE Subscribe
  BY <1>5, Zenon DEF Subscribe, TypeOK, redisVars, ConsumerPc
<1>6. CASE ExecRetry
  BY <1>6, Zenon DEF ExecRetry, TypeOK, redisVars, ConsumerPc
<1>7. CASE Exec
  <2>1. Cardinality(keySet) \in Nat
    BY StateTableAssumption, FS_Subset, FS_CardinalityType, Zenon DEF TypeOK
  <2> QED
    BY <1>7, <2>1, Zenon DEF Exec, TypeOK, redisVars, ConsumerPc
<1>8. CASE Select
  BY <1>8 DEF Select, TypeOK, redisVars, ConsumerPc
<1>9. CASE Pops
  <2>1. PICK S \in Spop : PopsScript(S)
    BY <1>9, Zenon DEF Pops
  <2> QED
    BY <1>9, <2>1, PopsScriptType, Zenon DEF Pops, TypeOK, ConsumerPc
<1>10. CASE PopBuffered
  BY <1>10, Zenon DEF PopBuffered, TypeOK, redisVars, ConsumerPc
<1>11. CASE PopRefill
  <2>1. PICK S \in Spop :
          /\ PopsScript(S)
          /\ IF S = {} THEN m_buffer' = {}
             ELSE \E k \in S : m_buffer' = {KcoOf(j) : j \in S \ {k}}
    BY <1>11, Zenon DEF PopRefill
  <2>2. \A j \in S : KcoOf(j) \in Kco
    BY KcoType, Zenon DEF Spop, TypeOK
  <2>3. m_buffer' \subseteq Kco
    BY <2>1, <2>2, Zenon
  <2> QED
    BY <1>11, <2>1, <2>3, PopsScriptType, Zenon DEF PopRefill, TypeOK, ConsumerPc
<1>12. CASE Exit
  BY <1>12, Zenon DEF Exit, TypeOK, redisVars, ConsumerPc
<1>13. CASE UNCHANGED vars
  BY <1>13, Zenon DEF vars, TypeOK
<1> QED
  BY <1>1, <1>2, <1>3, <1>4, <1>5, <1>6, <1>7, <1>8, <1>9, <1>10, <1>11, <1>12, <1>13, Zenon
  DEF Next, Produce, Consume

\* The initial state is well typed.
LEMMA TypeInit == Init => TypeOK
<1> SUFFICES ASSUME Init
             PROVE  TypeOK
  BY Zenon
<1>1. stateHash \in [Key -> Hash] /\ table \in [Key -> Hash] /\ expected \in [Key -> Hash]
  BY HashType, Zenon DEF Init
<1> QED
  BY <1>1, Zenon DEF Init, TypeOK, ConsumerPc

\* Type correctness of the producer, consumer and Redis state, in particular
\* that the notification counter never drops below its initial -1.
THEOREM TypeCorrect == Spec => []TypeOK
BY TypeInit, TypeStep, PTL DEF Spec
-------------------------------------------------------------------------------
(***************************************************************************)
(* No call is lost.  The invariant is inductive together with the types    *)
(* and with what is known of keys outside T_KEY_SET: a set() that finds    *)
(* leftovers there would be merged with them.                              *)
(***************************************************************************)
StagingInv == TypeOK /\ NothingStagedOutsideKeySet /\ NoCallLost

\* The pops script leaves nothing staged for the keys it takes and moves each of
\* them to its view.
LEMMA PopsScriptStaging ==
  ASSUME StagingInv, NEW S \in Spop, PopsScript(S)
  PROVE  /\ NothingStagedOutsideKeySet'
         /\ NoCallLost'
         /\ \A k \in Key : table'[k] = IF k \in S THEN expected[k] ELSE table[k]
<1>1. \A k \in Key : View[k] = expected[k]
  BY Zenon DEF StagingInv, NoCallLost
<1>2. NothingStagedOutsideKeySet'
  BY Zenon DEF StagingInv, NothingStagedOutsideKeySet, PopsScript, TypeOK
<1>3. \A k \in Key : table'[k] = IF k \in S THEN expected[k] ELSE table[k]
  BY <1>1, Zenon DEF PopsScript, View
<1>4. ASSUME NEW k \in Key
      PROVE  View'[k] = expected[k]
  <2>1. CASE k \in S
    <3>1. View'[k] = HSet(table'[k], EmptyHash)
      BY <2>1, Zenon DEF View, PopsScript
    <3>2. table'[k] = expected[k] /\ expected[k] \in Hash
      BY <1>3, <2>1, Zenon DEF StagingInv, TypeOK
    <3> QED
      BY <3>1, <3>2, HSetEmpty, Zenon
  <2>2. CASE k \notin S
    BY <1>1, <2>2, Zenon DEF View, PopsScript
  <2> QED
    BY <2>1, <2>2, Zenon
<1>5. View' = expected'
  BY <1>4, Zenon DEF View, PopsScript, StagingInv, TypeOK
<1> QED
  BY <1>2, <1>3, <1>5, Zenon DEF NoCallLost

\* Every step keeps the staged data in agreement with the calls made.
LEMMA StagingStep == StagingInv /\ [Next]_vars => StagingInv'
<1> SUFFICES ASSUME StagingInv, [Next]_vars
             PROVE  StagingInv'
  BY Zenon
<1> TypeOK'
  BY TypeStep, Zenon DEF StagingInv
<1> SUFFICES NothingStagedOutsideKeySet' /\ NoCallLost'
  BY Zenon DEF StagingInv
<1>0. \A k \in Key : View[k] = expected[k]
  BY Zenon DEF StagingInv, NoCallLost
<1>1. ASSUME NEW S \in Batch, Set(S)
      PROVE  NothingStagedOutsideKeySet' /\ NoCallLost'
  <2>1. PICK b \in [S -> Update] : SetScript(b, TRUE)
    BY <1>1, Zenon DEF Set
  <2>2. \A k \in S : k \in Key /\ b[k] \in Hash
    BY Zenon DEF Update, Batch
  <2>3. NothingStagedOutsideKeySet'
    BY <2>1, <2>2, Zenon DEF StagingInv, NothingStagedOutsideKeySet, SetScript
  <2>4. ASSUME NEW k \in Key
        PROVE  View'[k] = expected'[k]
    <3> DEFINE base == IF k \in delSet THEN EmptyHash ELSE table[k]
    <3>1. base \in Hash /\ stateHash[k] \in Hash
      BY HashType, Zenon DEF StagingInv, TypeOK
    <3>2. View[k] = HSet(base, stateHash[k])
      BY Zenon DEF View
    <3>3. View'[k] = HSet(base, stateHash'[k])
      BY <2>1, Zenon DEF View, SetScript
    <3> HIDE DEF base
    <3>4. CASE k \in S
      <4>1. stateHash'[k] = HSet(stateHash[k], b[k]) /\ expected'[k] = HSet(expected[k], b[k])
        BY <2>1, <3>4, Zenon DEF SetScript
      <4> QED
        BY <1>0, <2>2, <3>1, <3>2, <3>3, <3>4, <4>1, HSetAssociative
    <3>5. CASE k \notin S
      <4>1. stateHash'[k] = stateHash[k] /\ expected'[k] = expected[k]
        BY <2>1, <3>5, Zenon DEF SetScript
      <4> QED
        BY <1>0, <3>2, <3>3, <4>1, Zenon
    <3> QED
      BY <3>4, <3>5, Zenon
  <2>5. View' = expected'
    BY <2>4, Zenon DEF View, TypeOK
  <2> QED
    BY <2>3, <2>5, Zenon DEF NoCallLost
<1>2. ASSUME NEW S \in Batch, Del(S)
      PROVE  NothingStagedOutsideKeySet' /\ NoCallLost'
  <2>1. NothingStagedOutsideKeySet'
    BY <1>2, Zenon DEF StagingInv, NothingStagedOutsideKeySet, Del, DelScript
  <2>2. ASSUME NEW k \in Key
        PROVE  View'[k] = expected'[k]
    <3>1. CASE k \in S
      <4>1. View'[k] = HSet(EmptyHash, EmptyHash) /\ expected'[k] = EmptyHash
        BY <1>2, <3>1, Zenon DEF View, Del, DelScript
      <4> QED
        BY <4>1, HashType, HSetEmpty, Zenon
    <3>2. CASE k \notin S
      BY <1>0, <1>2, <3>2, Zenon DEF View, Del, DelScript
    <3> QED
      BY <3>1, <3>2, Zenon
  <2>3. View' = expected'
    BY <2>2, Zenon DEF View, TypeOK
  <2> QED
    BY <2>1, <2>3, Zenon DEF NoCallLost
<1>3. CASE Clear
  <2>1. NothingStagedOutsideKeySet'
    BY <1>3, Zenon DEF NothingStagedOutsideKeySet, Clear, ClearScript
  <2>2. ASSUME NEW k \in Key
        PROVE  View'[k] = expected'[k]
    <3>1. View'[k] = HSet(table[k], EmptyHash) /\ expected'[k] = table[k]
      BY <1>3, Zenon DEF View, Clear, ClearScript
    <3> QED
      BY <3>1, HSetEmpty, Zenon DEF StagingInv, TypeOK
  <2>3. View' = expected'
    BY <2>2, Zenon DEF View, TypeOK
  <2> QED
    BY <2>1, <2>3, Zenon DEF NoCallLost
<1>4. CASE UNCHANGED <<redisVars, expected>>
  BY <1>4, Zenon DEF StagingInv, NothingStagedOutsideKeySet, NoCallLost, View, redisVars
<1>5. CASE \E S \in Spop : PopsScript(S)
  BY <1>5, PopsScriptStaging, Zenon
<1> QED
  BY <1>1, <1>2, <1>3, <1>4, <1>5, Zenon
  DEF Next, Produce, Consume, Watch, Subscribe, ExecRetry, Exec, Select, Pops, PopBuffered,
      PopRefill, Exit, vars, redisVars

\* Initially nothing is staged and no call has been made.
LEMMA StagingInit == Init => StagingInv
<1> SUFFICES ASSUME Init
             PROVE  NothingStagedOutsideKeySet /\ NoCallLost
  BY TypeInit, Zenon DEF StagingInv
<1>1. NothingStagedOutsideKeySet
  BY Zenon DEF Init, NothingStagedOutsideKeySet
<1>2. \A k \in Key : View[k] = expected[k]
  BY HashType, HSetEmpty, Zenon DEF Init, View
<1>3. View = expected
  BY <1>2, Zenon DEF View, Init
<1> QED
  BY <1>1, <1>3, Zenon DEF NoCallLost

\* Every interleaving of producer calls, consumer steps and consumer restarts
\* keeps table plus staged data equal to what the calls amount to.
THEOREM NoCallIsLost == Spec => [](NothingStagedOutsideKeySet /\ NoCallLost)
<1>1. StagingInv => NothingStagedOutsideKeySet /\ NoCallLost
  BY Zenon DEF StagingInv
<1> QED
  BY <1>1, StagingInit, StagingStep, PTL DEF Spec
-------------------------------------------------------------------------------
(***************************************************************************)
(* No key is stranded.  Besides the types, the induction needs that a      *)
(* consumer in its loop has a non-negative counter, and that m_buffer is   *)
(* finite and only used between calls of pop().                            *)
(***************************************************************************)
Looping == consumer \in {"idle", "popping"}

\* m_buffer is only used by pop(), and only between its calls.
BufferUse == ~Looping \/ api # "pop" => m_buffer = {}

LoopInv ==
  /\ TypeOK
  /\ IsFiniteSet(m_buffer)
  /\ Looping => m_queueLength \in Nat
  /\ BufferUse

WakeupInv == LoopInv /\ NoKeyStranded

\* Cardinalities of the sets that the proof counts.
LEMMA KeySetFinite ==
  ASSUME NEW S \in SUBSET Key
  PROVE  IsFiniteSet(S) /\ Cardinality(S) \in Nat
BY StateTableAssumption, FS_Subset, FS_CardinalityType, Zenon

\* Adding the keys of a call.
LEMMA AddKeys ==
  ASSUME NEW K \in SUBSET Key, NEW S \in SUBSET Key
  PROVE  Cardinality(K \cup S) <= Cardinality(K) + Cardinality(S)
<1>1. /\ IsFiniteSet(K \cap S)
      /\ Cardinality(K \cup S) = Cardinality(K) + Cardinality(S) - Cardinality(K \cap S)
  BY KeySetFinite, FS_Union, Zenon
<1>2. Cardinality(K \cap S) \in Nat
  BY <1>1, FS_CardinalityType, Zenon
<1> QED
  BY <1>1, <1>2, KeySetFinite

\* Taking keys out.
LEMMA RemoveKeys ==
  ASSUME NEW K \in SUBSET Key, NEW S \in SUBSET K
  PROVE  Cardinality(K \ S) = Cardinality(K) - Cardinality(S)
<1>1. Cardinality(K \ S) = Cardinality(K) - Cardinality(K \cap S)
  BY KeySetFinite, FS_Difference, Zenon
<1>2. K \cap S = S
  BY Zenon
<1> QED
  BY <1>1, <1>2, Zenon

\* What pop() puts aside after handing out the first entry.
LEMMA BufferSize ==
  ASSUME TypeOK, NEW S \in SUBSET Key, NEW k \in S
  PROVE  LET B == {KcoOf(j) : j \in S \ {k}}
         IN  /\ IsFiniteSet(B)
             /\ Cardinality(B) \in Nat
             /\ Cardinality(B) <= Cardinality(S) - 1
<1> DEFINE B == {KcoOf(j) : j \in S \ {k}}
           f == [j \in S \ {k} |-> KcoOf(j)]
<1>1. IsFiniteSet(S \ {k}) /\ Cardinality(S \ {k}) = Cardinality(S) - 1
  BY KeySetFinite, FS_RemoveElement, Zenon
<1>2. f \in Surjection(S \ {k}, B)
  BY Zenon DEF Surjection
<1>3. IsFiniteSet(B) /\ Cardinality(B) <= Cardinality(S \ {k})
  BY <1>1, <1>2, FS_Surjection, Zenon
<1> QED
  BY <1>1, <1>3, FS_CardinalityType, Zenon

\* Arithmetic of one notification more or less.
LEMMA CapacityStep ==
  /\ Capacity \in Nat \ {0}
  /\ \A p \in Int : Capacity * (p + 1) = Capacity * p + Capacity
  /\ \A p \in Nat : Capacity * p \in Nat /\ p <= Capacity * p
<1>1. Capacity \in Nat \ {0}
  BY StateTableAssumption DEF Capacity, CapacityOf
<1> HIDE DEF Capacity
<1>2. \A p \in Int : Capacity * (p + 1) = Capacity * p + Capacity
  BY <1>1
<1>3. \A p \in Nat : Capacity * p \in Nat /\ p <= Capacity * p
  BY <1>1
<1> QED
  BY <1>1, <1>2, <1>3, Zenon

\* What one pop takes depends on the application only.
LEMMA SameCapacity == api' = api => Capacity' = Capacity
BY Zenon DEF Capacity, CapacityOf

\* Every step keeps the loop's counter and buffer in order.
LEMMA LoopStep == LoopInv /\ [Next]_vars => LoopInv'
<1> SUFFICES ASSUME LoopInv, [Next]_vars
             PROVE  LoopInv'
  BY Zenon
<1> TypeOK /\ TypeOK'
  BY TypeStep, Zenon DEF LoopInv
<1>1. CASE UNCHANGED consumerVars
  BY <1>1, Zenon DEF LoopInv, BufferUse, Looping, consumerVars
<1>2. CASE Watch \/ Subscribe \/ ExecRetry
  BY <1>2, Zenon DEF Watch, Subscribe, ExecRetry, LoopInv, BufferUse, Looping
<1>3. CASE Exec
  <2>1. Cardinality(keySet) \in Nat
    BY KeySetFinite, Zenon DEF TypeOK
  <2> QED
    BY <1>3, <2>1, Zenon DEF Exec, LoopInv, BufferUse, Looping
<1>4. CASE Select
  <2>1. m_queueLength' \in Nat
    BY <1>4 DEF Select, LoopInv, Looping, TypeOK
  <2> QED
    BY <1>4, <2>1, Zenon DEF Select, LoopInv, BufferUse, Looping
<1>5. CASE Pops
  BY <1>5, Zenon DEF Pops, LoopInv, BufferUse, Looping
<1>6. CASE PopBuffered
  <2>1. PICK x \in m_buffer : m_buffer' = m_buffer \ {x}
    BY <1>6, Zenon DEF PopBuffered
  <2>2. IsFiniteSet(m_buffer')
    BY <2>1, FS_RemoveElement, Zenon DEF LoopInv
  <2> QED
    BY <1>6, <2>2, Zenon DEF PopBuffered, LoopInv, BufferUse, Looping
<1>7. CASE PopRefill
  <2>1. PICK S \in Spop :
          IF S = {} THEN m_buffer' = {} ELSE \E k \in S : m_buffer' = {KcoOf(j) : j \in S \ {k}}
    BY <1>7, Zenon DEF PopRefill
  <2>2. S \in SUBSET Key
    BY Zenon DEF Spop, TypeOK
  <2>3. IsFiniteSet(m_buffer')
    <3>1. CASE S = {}
      BY <2>1, <3>1, FS_EmptySet, Zenon
    <3>2. CASE S # {}
      <4>1. PICK k \in S : m_buffer' = {KcoOf(j) : j \in S \ {k}}
        BY <2>1, <3>2, Zenon
      <4> QED
        BY <2>2, <4>1, BufferSize, Zenon
    <3> QED
      BY <3>1, <3>2, Zenon
  <2> QED
    BY <1>7, <2>3, Zenon DEF PopRefill, LoopInv, BufferUse, Looping
<1>8. CASE Exit
  BY <1>8, FS_EmptySet, Zenon DEF Exit, LoopInv, BufferUse, Looping
<1> QED
  BY <1>1, <1>2, <1>3, <1>4, <1>5, <1>6, <1>7, <1>8, Zenon
  DEF Next, Produce, Consume, Set, Del, Clear, vars, consumerVars

\* A script that adds at most as many keys as one pop takes, and publishes if it
\* adds any, keeps the balance.
LEMMA ScriptKeepsBalance ==
  ASSUME WakeupInv, NEW S \in SUBSET Key, keySet' = keySet \cup S, Cardinality(keySet' \ keySet) <= Capacity,
         NEW pub, keySet' # keySet => pub, Publish(pub), UNCHANGED consumerVars
  PROVE  NoKeyStranded'
<1> SUFFICES ASSUME Looping
             PROVE  Cardinality(keySet') + Cardinality(m_buffer) <= Capacity * Pending'
  BY SameCapacity, Zenon DEF NoKeyStranded, consumerVars, Looping
<1>1. Cardinality(keySet) \in Nat /\ Cardinality(m_buffer) \in Nat
  BY KeySetFinite, FS_CardinalityType, Zenon DEF WakeupInv, LoopInv, TypeOK
<1>2. Pending \in Nat
  BY DEF Pending, WakeupInv, LoopInv, TypeOK
<1>3. Cardinality(keySet) + Cardinality(m_buffer) <= Capacity * Pending
  BY Zenon DEF WakeupInv, NoKeyStranded, Looping
<1>4. CASE ~pub
  <2>1. Pending' = Pending /\ keySet' = keySet
    BY <1>4, Zenon DEF Pending, Publish, consumerVars
  <2> QED
    BY <1>3, <2>1, Zenon
<1>5. CASE pub
  <2>1. Pending' = Pending + 1
    BY <1>5 DEF Pending, Publish, consumerVars, Subscribed, Looping, WakeupInv, LoopInv, TypeOK
  <2>2. keySet' \ keySet \in SUBSET Key /\ keySet' = keySet \cup (keySet' \ keySet) /\ keySet' \in SUBSET Key
    BY Zenon DEF WakeupInv, LoopInv, TypeOK
  <2>3. Cardinality(keySet') <= Cardinality(keySet) + Cardinality(keySet' \ keySet)
    BY <2>2, AddKeys, Zenon DEF WakeupInv, LoopInv, TypeOK
  <2>4. Cardinality(keySet' \ keySet) \in Nat /\ Cardinality(keySet') \in Nat
    BY <2>2, KeySetFinite, Zenon
  <2>5. Capacity * Pending' = Capacity * Pending + Capacity /\ Capacity * Pending \in Nat
    BY <1>2, <2>1, CapacityStep
  <2> QED
    BY <1>1, <1>3, <2>3, <2>4, <2>5, CapacityStep
<1> QED
  BY <1>4, <1>5, Zenon

\* Each pop uses up one notification and takes what it stands for.
LEMMA WakeupStep ==
  ASSUME WakeupInv, [Next]_vars, Cardinality(keySet' \ keySet) <= Capacity
  PROVE  NoKeyStranded'
<1> TypeOK /\ TypeOK'
  BY TypeStep, Zenon DEF WakeupInv, LoopInv
<1>a. Cardinality(keySet) \in Nat /\ Cardinality(m_buffer) \in Nat
  BY KeySetFinite, FS_CardinalityType, Zenon DEF WakeupInv, LoopInv, TypeOK
<1>b. Looping => Pending \in Nat
  BY DEF Pending, WakeupInv, LoopInv, TypeOK
<1>c. Looping => Cardinality(keySet) + Cardinality(m_buffer) <= Capacity * Pending
  BY Zenon DEF WakeupInv, NoKeyStranded, Looping
<1>1. ASSUME NEW S \in Batch, Set(S)
      PROVE  NoKeyStranded'
  <2>1. PICK b \in [S -> Update] : SetScript(b, TRUE)
    BY <1>1, Zenon DEF Set
  <2>2. keySet' = keySet \cup S /\ Publish(TRUE /\ keySet' # keySet) /\ UNCHANGED consumerVars
    BY <1>1, <2>1, Zenon DEF Set, SetScript
  <2>3. S \in SUBSET Key
    BY Zenon DEF Batch
  <2> QED
    BY <2>2, <2>3, ScriptKeepsBalance, Zenon
<1>2. ASSUME NEW S \in Batch, Del(S)
      PROVE  NoKeyStranded'
  <2>1. keySet' = keySet \cup S /\ Publish(TRUE /\ keySet' # keySet) /\ UNCHANGED consumerVars
    BY <1>2, Zenon DEF Del, DelScript
  <2>2. S \in SUBSET Key
    BY Zenon DEF Batch
  <2> QED
    BY <2>1, <2>2, ScriptKeepsBalance, Zenon
<1>3. CASE Clear
  <2>1. keySet' = {} /\ UNCHANGED <<channel, consumer, m_queueLength, m_buffer, api>>
    BY <1>3, Zenon DEF Clear, ClearScript, consumerVars
  <2>2. Pending' = Pending /\ Cardinality(keySet') = 0
    BY <2>1, FS_EmptySet, Zenon DEF Pending
  <2>3. Looping => Cardinality(m_buffer) <= Capacity * Pending
    BY <1>a, <1>b, <1>c, CapacityStep
  <2> QED
    BY <1>a, <2>1, <2>2, <2>3, SameCapacity DEF NoKeyStranded, Looping
<1>4. CASE Watch \/ Subscribe \/ ExecRetry
  BY <1>4, Zenon DEF Watch, Subscribe, ExecRetry, NoKeyStranded
<1>5. CASE Exec
  <2>1. m_buffer = {} /\ Cardinality(m_buffer) = 0
    BY <1>5, FS_EmptySet, Zenon DEF Exec, WakeupInv, LoopInv, BufferUse, Looping
  <2>2. Pending' = channel + Cardinality(keySet) /\ channel \in Nat
    BY <1>5, <1>a DEF Exec, Pending, TypeOK
  <2>3. Cardinality(keySet) <= Capacity * Pending' /\ Capacity * Pending' \in Nat
    <3>1. Pending' \in Nat /\ Cardinality(keySet) <= Pending'
      BY <1>a, <2>2
    <3>2. Pending' <= Capacity * Pending' /\ Capacity * Pending' \in Nat
      BY <3>1, CapacityStep, Zenon
    <3> QED
      BY <1>a, <3>1, <3>2
  <2>4. UNCHANGED <<keySet, m_buffer, api>>
    BY <1>5, Zenon DEF Exec, redisVars
  <2> QED
    BY <1>a, <2>1, <2>3, <2>4, SameCapacity DEF NoKeyStranded
<1>6. CASE Select
  <2>1. Looping /\ Looping' /\ UNCHANGED <<keySet, m_buffer, api>>
    BY <1>6, Zenon DEF Select, Looping, redisVars
  <2>2. Pending' = Pending
    BY <1>6 DEF Select, Pending, WakeupInv, LoopInv, Looping, TypeOK
  <2> QED
    BY <1>c, <2>1, <2>2, SameCapacity, Zenon DEF NoKeyStranded
<1>7. CASE Pops
  <2>1. PICK S \in Spop : PopsScript(S)
    BY <1>7, Zenon DEF Pops
  <2>2. Looping /\ Looping' /\ m_buffer = {} /\ UNCHANGED <<m_queueLength, m_buffer, api, channel>>
    BY <1>7, <2>1, Zenon DEF Pops, Looping, WakeupInv, LoopInv, BufferUse, PopsScript
  <2>3. Pending = Pending' + 1 /\ Pending' \in Nat
    BY <1>7, <2>2 DEF Pops, Pending, WakeupInv, LoopInv, TypeOK
  <2>4. Capacity * Pending = Capacity * Pending' + Capacity /\ Capacity * Pending' \in Nat
    <3>1. Capacity * (Pending' + 1) = Capacity * Pending' + Capacity
      BY <2>3, CapacityStep
    <3>2. Capacity * Pending' \in Nat
      BY <2>3, CapacityStep, Zenon
    <3> QED
      BY <2>3, <3>1, <3>2, Zenon
  <2>5. Cardinality(m_buffer) = 0
    BY <2>2, FS_EmptySet, Zenon
  <2>6. Cardinality(keySet') <= Capacity * Pending' /\ Cardinality(keySet') \in Nat
    <3>1. keySet' = keySet \ S /\ S \subseteq keySet
      BY <2>1, Zenon DEF PopsScript, Spop
    <3>2. CASE S = keySet
      BY <2>4, <3>1, <3>2, FS_EmptySet
    <3>3. CASE S # keySet
      <4>1. Cardinality(S) \in Nat
        BY <3>1, KeySetFinite, Zenon DEF TypeOK
      <4>2. Cardinality(S) = POP_BATCH_SIZE /\ Capacity = POP_BATCH_SIZE
        BY <1>7, <3>3, <4>1, StateTableAssumption DEF Spop, Pops, Capacity, CapacityOf
      <4>3. Cardinality(keySet') = Cardinality(keySet) - Cardinality(S)
        BY <3>1, RemoveKeys, Zenon DEF TypeOK
      <4>4. Cardinality(keySet') \in Nat
        BY KeySetFinite, Zenon DEF TypeOK
      <4> QED
        BY <1>a, <1>c, <2>2, <2>4, <2>5, <4>1, <4>2, <4>3, <4>4
    <3> QED
      BY <3>2, <3>3, Zenon
  <2> QED
    BY <2>2, <2>4, <2>5, <2>6, SameCapacity DEF NoKeyStranded
<1>8. CASE PopBuffered
  <2>1. PICK x \in m_buffer : m_buffer' = m_buffer \ {x}
    BY <1>8, Zenon DEF PopBuffered
  <2>2. /\ IsFiniteSet(m_buffer')
        /\ Cardinality(m_buffer') = Cardinality(m_buffer) - 1
        /\ Cardinality(m_buffer') \in Nat
    BY <2>1, FS_RemoveElement, FS_CardinalityType, Zenon DEF WakeupInv, LoopInv
  <2>3. Looping /\ Looping' /\ api = "pop" /\ UNCHANGED <<keySet, m_queueLength, channel, api>>
    BY <1>8, Zenon DEF PopBuffered, Looping, redisVars
  <2>4. Pending = Pending' + 1 /\ Pending' \in Nat
    BY <1>8, <2>3 DEF PopBuffered, Pending, WakeupInv, LoopInv, TypeOK
  <2>5. Cardinality(keySet) + Cardinality(m_buffer') <= Capacity * Pending'
    BY <1>a, <1>c, <2>2, <2>3, <2>4 DEF Capacity, CapacityOf
  <2> QED
    BY <2>3, <2>5, SameCapacity, Zenon DEF NoKeyStranded
<1>9. CASE PopRefill
  <2>1. PICK S \in Spop :
          /\ PopsScript(S)
          /\ IF S = {} THEN m_buffer' = {}
             ELSE \E k \in S : m_buffer' = {KcoOf(j) : j \in S \ {k}}
    BY <1>9, Zenon DEF PopRefill
  <2>2. Looping /\ Looping' /\ api = "pop" /\ m_buffer = {} /\ UNCHANGED <<m_queueLength, channel, api>>
    BY <1>9, <2>1, Zenon DEF PopRefill, Looping, PopsScript
  <2>3. Pending = Pending' + 1 /\ Pending' \in Nat
    BY <1>9, <2>2 DEF PopRefill, Pending, WakeupInv, LoopInv, TypeOK
  <2>4. keySet' = keySet \ S /\ S \in SUBSET keySet /\ S \in SUBSET Key
    BY <2>1, Zenon DEF PopsScript, Spop, TypeOK
  <2>5. /\ Cardinality(keySet') = Cardinality(keySet) - Cardinality(S)
        /\ Cardinality(keySet') \in Nat
        /\ Cardinality(S) \in Nat
    BY <2>4, RemoveKeys, KeySetFinite, Zenon DEF TypeOK
  <2>6. Cardinality(keySet) <= Pending
    BY <1>a, <1>c, <2>2, <2>3, FS_EmptySet DEF Capacity, CapacityOf
  <2>7. /\ IsFiniteSet(m_buffer')
        /\ Cardinality(keySet') + Cardinality(m_buffer') <= Pending'
    <3>1. CASE S = {}
      <4>1. Cardinality(S) = 0 /\ m_buffer' = {} /\ IsFiniteSet(m_buffer') /\ Cardinality(m_buffer') = 0
        BY <2>1, <3>1, FS_EmptySet, Zenon
      <4>2. S = keySet
        BY <4>1, StateTableAssumption DEF Spop
      <4> QED
        BY <2>3, <2>5, <4>1, <4>2
    <3>2. CASE S # {}
      <4>1. PICK k \in S : m_buffer' = {KcoOf(j) : j \in S \ {k}}
        BY <2>1, <3>2, Zenon
      <4>2. /\ IsFiniteSet(m_buffer')
            /\ Cardinality(m_buffer') \in Nat
            /\ Cardinality(m_buffer') <= Cardinality(S) - 1
        BY <2>4, <4>1, BufferSize, Zenon
      <4> QED
        BY <1>a, <2>3, <2>5, <2>6, <4>2
    <3> QED
      BY <3>1, <3>2, Zenon
  <2> QED
    BY <2>2, <2>3, <2>7 DEF NoKeyStranded, Capacity, CapacityOf
<1>10. CASE Exit
  BY <1>10, Zenon DEF Exit, NoKeyStranded
<1>11. CASE UNCHANGED vars
  BY <1>11, SameCapacity, Zenon DEF vars, WakeupInv, NoKeyStranded, Pending
<1> QED
  BY <1>1, <1>2, <1>3, <1>4, <1>5, <1>6, <1>7, <1>8, <1>9, <1>10, <1>11, Zenon DEF Next, Produce, Consume

\* If no call brings more keys than one pop takes, then in every interleaving
\* the notifications that remain suffice for the keys that remain.
THEOREM NoKeyIsStranded ==
  ASSUME CallsFitInOnePop
  PROVE  Spec => []NoKeyStranded
<1>1. Init => WakeupInv
  BY TypeInit, FS_EmptySet, Zenon DEF Init, WakeupInv, LoopInv, BufferUse, Looping, NoKeyStranded
<1>2. WakeupInv => NoKeyStranded
  BY Zenon DEF WakeupInv
<1>3. ASSUME WakeupInv, [Next]_vars
      PROVE  Cardinality(keySet' \ keySet) <= Capacity
  <2>1. TypeOK /\ TypeOK' /\ MaxBatch <= Capacity
    BY <1>3, TypeStep, Zenon DEF WakeupInv, LoopInv, CallsFitInOnePop, Capacity, TypeOK
  <2>2. CASE keySet' \subseteq keySet
    <3>1. Cardinality(keySet' \ keySet) = 0
      BY <2>2, FS_EmptySet, Zenon
    <3> QED
      BY <3>1, CapacityStep
  <2>3. ASSUME NEW S \in Batch, keySet' = keySet \cup S
        PROVE  Cardinality(keySet' \ keySet) <= Capacity
    <3>1. keySet' \ keySet \in SUBSET S /\ IsFiniteSet(S) /\ Cardinality(S) \in Nat /\ Cardinality(S) <= MaxBatch
      BY <2>3, KeySetFinite, Zenon DEF Batch
    <3>2. Cardinality(keySet' \ keySet) \in Nat /\ Cardinality(keySet' \ keySet) <= Cardinality(S)
      BY <3>1, FS_Subset, FS_CardinalityType, Zenon
    <3> QED
      BY <2>1, <3>1, <3>2, CapacityStep, StateTableAssumption
  <2>4. \A S \in Spop : PopsScript(S) => keySet' \subseteq keySet
    BY Zenon DEF PopsScript
  <2> QED
    BY <1>3, <2>2, <2>3, <2>4, Zenon
    DEF Next, Produce, Consume, Set, SetScript, Del, DelScript, Clear, ClearScript, Watch, Subscribe, ExecRetry, Exec,
        Select, Pops, PopBuffered, PopRefill, Exit, redisVars, vars
<1>4. WakeupInv /\ [Next]_vars => WakeupInv'
  BY <1>3, LoopStep, WakeupStep, Zenon DEF WakeupInv
<1> QED
  BY <1>1, <1>2, <1>4, PTL DEF Spec
-------------------------------------------------------------------------------
(***************************************************************************)
(* Entries in m_buffer.                                                    *)
(***************************************************************************)
BufferInv ==
  /\ StagingInv
  /\ BufferUse
  /\ \A k \in keySet : stateHash[k] = EmptyHash => k \in delSet
  /\ BufferMatchesTable

\* Without set(key, {}), an empty staged hash means that a del() came last.
LEMMA BufferStep ==
  ASSUME EmptySets = FALSE
  PROVE  BufferInv /\ [Next]_vars => BufferInv'
<1> SUFFICES ASSUME BufferInv, [Next]_vars
             PROVE  BufferInv'
  BY Zenon
<1> StagingInv /\ StagingInv' /\ TypeOK
  BY StagingStep, Zenon DEF BufferInv, StagingInv
<1>1. ASSUME NEW S \in Batch, Set(S)
      PROVE  BufferInv'
  <2>1. PICK b \in [S -> Update] : SetScript(b, TRUE)
    BY <1>1, Zenon DEF Set
  <2>2. ASSUME NEW k \in S
        PROVE  stateHash'[k] # EmptyHash
    <3>1. b[k] \in Hash /\ b[k] # EmptyHash
      BY Zenon DEF Update
    <3>2. PICK f \in Field : b[k][f] # NoValue
      BY <3>1, Zenon DEF Hash, EmptyHash
    <3>3. stateHash'[k] = HSet(stateHash[k], b[k])
      BY <2>1, Zenon DEF SetScript, Batch
    <3>4. stateHash'[k][f] # NoValue
      BY <3>2, <3>3, Zenon DEF HSet
    <3> QED
      BY <3>4, Zenon DEF EmptyHash
  <2>3. \A k \in keySet' : stateHash'[k] = EmptyHash => k \in delSet'
    BY <2>1, <2>2, Zenon DEF BufferInv, SetScript, TypeOK
  <2> QED
    BY <1>1, <2>1, <2>3, Zenon DEF BufferInv, BufferUse, Looping, BufferMatchesTable, Set, SetScript, consumerVars
<1>2. ASSUME NEW S \in Batch, Del(S)
      PROVE  BufferInv'
  <2>1. \A k \in keySet' : stateHash'[k] = EmptyHash => k \in delSet'
    BY <1>2, Zenon DEF BufferInv, Del, DelScript, TypeOK
  <2> QED
    BY <1>2, <2>1, Zenon DEF BufferInv, BufferUse, Looping, BufferMatchesTable, Del, DelScript, consumerVars
<1>3. CASE Clear
  BY <1>3, Zenon DEF BufferInv, BufferUse, Looping, BufferMatchesTable, Clear, ClearScript, consumerVars
<1>4. CASE PopBuffered
  BY <1>4, Zenon DEF BufferInv, BufferUse, Looping, BufferMatchesTable, PopBuffered, redisVars
<1>5. ASSUME NEW S \in Spop, PopsScript(S)
      PROVE  \A k \in keySet' : stateHash'[k] = EmptyHash => k \in delSet'
  BY <1>5, Zenon DEF BufferInv, PopsScript, TypeOK
<1>6. CASE Pops
  BY <1>5, <1>6, Zenon DEF Pops, BufferInv, BufferUse, Looping, BufferMatchesTable
<1>7. CASE PopRefill
  <2>1. PICK S \in Spop :
          /\ PopsScript(S)
          /\ IF S = {} THEN m_buffer' = {}
             ELSE \E k \in S : m_buffer' = {KcoOf(j) : j \in S \ {k}}
    BY <1>7, Zenon DEF PopRefill
  <2>2. ASSUME NEW x \in m_buffer'
        PROVE  IF x.op = "DEL" THEN table'[x.key] = EmptyHash
               ELSE HSet(table'[x.key], x.fvs) = table'[x.key]
    <3>1. PICK j \in S : x = KcoOf(j)
      BY <2>1, Zenon
    <3> DEFINE base == IF j \in delSet THEN EmptyHash ELSE table[j]
    <3>2. j \in keySet /\ j \in Key
      BY <3>1, Zenon DEF Spop, TypeOK
    <3>3. base \in Hash /\ stateHash[j] \in Hash
      BY <3>2, HashType, Zenon DEF TypeOK
    <3>4. table'[j] = HSet(base, stateHash[j])
      BY <2>1, <3>2, Zenon DEF PopsScript
    <3>5. x.key = j /\ x.fvs = stateHash[j]
      BY <3>1, Zenon DEF KcoOf
    <3>6. CASE stateHash[j] = EmptyHash
      <4>1. j \in delSet
        BY <3>2, <3>6, Zenon DEF BufferInv
      <4>2. table'[j] = EmptyHash
        BY <3>4, <3>6, <4>1, HashType, HSetEmpty, Zenon
      <4>3. x.op = "DEL"
        BY <3>1, <3>6, Zenon DEF KcoOf
      <4> QED
        BY <3>5, <4>2, <4>3, Zenon
    <3>7. CASE stateHash[j] # EmptyHash
      <4>1. x.op = "SET"
        BY <3>1, <3>7, Zenon DEF KcoOf
      <4> HIDE DEF base
      <4>2. HSet(table'[j], stateHash[j]) = table'[j]
        BY <3>3, <3>4, HSetIdempotent, Zenon
      <4> QED
        BY <3>5, <4>1, <4>2, Zenon
    <3> QED
      BY <3>6, <3>7, Zenon
  <2> QED
    BY <1>5, <1>7, <2>1, <2>2, Zenon DEF PopRefill, BufferInv, BufferUse, Looping, BufferMatchesTable
<1>8. CASE UNCHANGED redisVars /\ (UNCHANGED m_buffer \/ m_buffer' = {}) /\ BufferUse'
  BY <1>8, Zenon DEF BufferInv, BufferMatchesTable, redisVars
<1>9. CASE Watch \/ Subscribe \/ ExecRetry \/ Exec \/ Select \/ Exit \/ UNCHANGED vars
  <2>1. BufferUse'
    BY <1>9, Zenon DEF BufferInv, BufferUse, Looping, Watch, Subscribe, ExecRetry, Exec, Select, Exit, vars
  <2> QED
    BY <1>8, <1>9, <2>1, Zenon DEF Watch, Subscribe, ExecRetry, Exec, Select, Exit, vars, redisVars
<1> QED
  BY <1>1, <1>2, <1>3, <1>4, <1>6, <1>7, <1>9, Zenon DEF Next, Produce, Consume

\* When applications do not call set(key, {}), what pop() hands out later still
\* describes the table truthfully.
THEOREM BufferIsTruthful ==
  ASSUME EmptySets = FALSE
  PROVE  Spec => []BufferMatchesTable
<1>1. Init => BufferInv
  BY StagingInit, Zenon DEF Init, BufferInv, BufferUse, Looping, BufferMatchesTable
<1>2. BufferInv => BufferMatchesTable
  BY Zenon DEF BufferInv
<1> QED
  BY <1>1, <1>2, BufferStep, PTL DEF Spec
-------------------------------------------------------------------------------
(***************************************************************************)
(* Refinement.                                                             *)
(***************************************************************************)
\* The empty hash is the same in both modules.
LEMMA SameHash ==
  /\ Abstract!Hash = Hash
  /\ Abstract!EmptyHash = EmptyHash
  /\ \A h, u : Abstract!HSet(h, u) = HSet(h, u)
BY Zenon DEF Abstract!Hash, Hash, Abstract!EmptyHash, EmptyHash, Abstract!HSet, HSet

\* A step of the table is a step of the lagging replica, or leaves both its
\* view and its table alone.
LEMMA RefinementStep ==
  StagingInv /\ [Next]_vars => [Abstract!Next]_<<expected, table>>
<1> SUFFICES ASSUME StagingInv, [Next]_vars, ~UNCHANGED <<expected, table>>
             PROVE  Abstract!Next
  BY Zenon
<1>1. ASSUME NEW S \in Batch, Set(S)
      PROVE  Abstract!Next
  <2>1. PICK b \in [S -> Update] : SetScript(b, TRUE)
    BY <1>1, Zenon DEF Set
  <2>2. S \in SUBSET Key /\ b \in [S -> Hash]
    BY Zenon DEF Update, Batch
  <2>3. Abstract!Set(b)
    BY <2>1, SameHash, Zenon DEF Abstract!Set, SetScript
  <2> QED
    BY <2>2, <2>3, SameHash, Zenon DEF Abstract!Next
<1>2. ASSUME NEW S \in Batch, Del(S)
      PROVE  Abstract!Next
  <2>1. S \in SUBSET Key /\ Abstract!Del(S)
    BY <1>2, SameHash, Zenon DEF Abstract!Del, Del, DelScript, Batch
  <2> QED
    BY <2>1, Zenon DEF Abstract!Next
<1>3. CASE Clear
  BY <1>3, Zenon DEF Clear, ClearScript, Abstract!Next, Abstract!Clear
<1>4. ASSUME NEW S \in Spop, PopsScript(S)
      PROVE  Abstract!Next
  <2>1. S \in SUBSET Key
    BY Zenon DEF Spop, StagingInv, TypeOK
  <2>2. \A k \in Key : table'[k] = IF k \in S THEN expected[k] ELSE table[k]
    BY <1>4, PopsScriptStaging, Zenon
  <2>3. Abstract!Sync(S)
    BY <1>4, <2>2, Zenon DEF Abstract!Sync, PopsScript
  <2> QED
    BY <2>1, <2>3, Zenon DEF Abstract!Next
<1> QED
  BY <1>1, <1>2, <1>3, <1>4, Zenon
  DEF Next, Produce, Consume, Watch, Subscribe, ExecRetry, Exec, Select, Pops, PopBuffered,
      PopRefill, Exit, vars, redisVars

\* Producer and consumer together implement the lagging replica of KeyValueView:
\* calls take effect one after the other, and the table takes over whole entries.
THEOREM Refinement == Spec => ImplementsKeyValueView
<1>1. Init => Abstract!Init
  BY SameHash, Zenon DEF Init, Abstract!Init
<1> QED
  BY <1>1, StagingInit, StagingStep, RefinementStep, PTL
  DEF Spec, ImplementsKeyValueView, Abstract!Spec
-------------------------------------------------------------------------------
(***************************************************************************)
(* TempView.  The steps that it takes from StateTable keep what is shown   *)
(* above; apply_temp_view() needs an argument of its own.                  *)
(***************************************************************************)
\* A temp view step that stages or consumes is a step of StateTable.
LEMMA StateTableSteps ==
  /\ DirectCall => Next
  /\ ClearCall => Next
  /\ ApplyClear => Next
  /\ ConsumeTemp => Next
BY Zenon DEF DirectCall, ClearCall, ApplyClear, ConsumeTemp, Next, Produce

\* What the script of apply_temp_view() writes has the types of StateTable.
LEMMA ApplyScriptType ==
  ASSUME TempTypeOK, ApplyScript
  PROVE  TypeOK'
<1> DEFINE toSet == {k \in Key : NeedSet(k)}
           toDel == {k \in Key : NeedDel(k)}
<1>1. keySet' \subseteq Key /\ delSet' \subseteq Key
  BY Zenon DEF TempTypeOK, TypeOK, ApplyScript
<1>2. stateHash' \in [Key -> Hash]
  <2>1. \A k \in Key : HSet(stateHash[k], m_tempViewState[k]) \in Hash /\ stateHash[k] \in Hash
    BY HashType, Zenon DEF TempTypeOK, TypeOK
  <2> HIDE DEF toSet
  <2>2. stateHash' = [k \in Key |-> IF k \in toSet THEN HSet(stateHash[k], m_tempViewState[k]) ELSE stateHash[k]]
    BY Zenon DEF ApplyScript, toSet
  <2> QED
    BY <2>1, <2>2, Zenon
<1>3. expected' \in [Key -> Hash] /\ table' = table /\ UNCHANGED consumerVars
  BY Zenon DEF TempTypeOK, ApplyScript
<1>4. watchDirty' \in BOOLEAN /\ channel' \in Nat
  BY DEF TempTypeOK, TypeOK, ApplyScript, TouchKeySet, Publish
<1> QED
  BY <1>1, <1>2, <1>3, <1>4, Zenon DEF TempTypeOK, TypeOK, consumerVars

\* Every step keeps the variables in their types.
LEMMA TempTypeStep == TempTypeOK /\ [TempNext]_allVars => TempTypeOK'
<1> SUFFICES ASSUME TempTypeOK, [TempNext]_allVars
             PROVE  TempTypeOK'
  BY Zenon
<1> overfull' \in BOOLEAN
  BY Zenon DEF TempNext, Account, TempTypeOK, allVars
<1>0. NoHashes \in [Key -> Hash]
  BY HashType, Zenon DEF NoHashes
<1>1. ASSUME Next, UNCHANGED tempVars
      PROVE  TempTypeOK'
  BY <1>1, TypeStep, Zenon DEF TempTypeOK, tempVars
<1>2. CASE ApplyClear
  <2>1. TypeOK'
    BY <1>2, StateTableSteps, TypeStep, Zenon DEF TempTypeOK
  <2> QED
    BY <1>2, <2>1, Zenon DEF TempTypeOK, ApplyClear
<1>3. CASE ApplyDump
  <2>1. TypeOK'
    BY <1>3, Zenon DEF ApplyDump, TempTypeOK, TypeOK, vars
  <2>2. currentState' \subseteq Key
    BY <1>3, Zenon DEF ApplyDump
  <2>3. \A k \in Key : table[k] \in Hash
    BY Zenon DEF TempTypeOK, TypeOK
  <2>4. currentFields' \in [Key -> Hash]
    BY <1>3, <2>3, Zenon DEF ApplyDump, Hash
  <2> QED
    BY <1>3, <2>1, <2>2, <2>4, Zenon DEF ApplyDump, TempTypeOK
<1>4. CASE ApplyScript
  <2>1. TypeOK'
    BY <1>4, ApplyScriptType, Zenon
  <2> QED
    BY <1>0, <1>4, <2>1, Zenon DEF ApplyScript, TempTypeOK
<1>5. ASSUME NEW S \in Batch, TempSet(S)
      PROVE  TempTypeOK'
  <2>1. PICK b \in [S -> Update] :
          m_tempViewState' = [k \in Key |-> IF k \in S THEN HSet(m_tempViewState[k], b[k]) ELSE m_tempViewState[k]]
    BY <1>5, Zenon DEF TempSet
  <2>2. \A k \in S : b[k] \in Hash
    BY Zenon DEF Update
  <2>3. m_tempViewState' \in [Key -> Hash]
    BY <2>1, <2>2, HashType, Zenon DEF TempTypeOK
  <2>4. TypeOK'
    BY <1>5, Zenon DEF TempSet, TempTypeOK, TypeOK, vars
  <2> QED
    BY <1>5, <2>3, <2>4, Zenon DEF TempSet, TempTypeOK
<1>6. ASSUME NEW S \in Batch, TempDel(S)
      PROVE  TempTypeOK'
  <2>1. TypeOK'
    BY <1>6, Zenon DEF TempDel, TempTypeOK, TypeOK, vars
  <2> QED
    BY <1>6, <2>1, HashType, Zenon DEF TempDel, TempTypeOK
<1>7. CASE CreateTempView \/ ProducerExit
  <2>1. TypeOK'
    BY <1>7, Zenon DEF CreateTempView, ProducerExit, TempTypeOK, TypeOK, vars
  <2> QED
    BY <1>0, <1>7, <2>1, Zenon DEF CreateTempView, ProducerExit, TempTypeOK
<1>8. CASE UNCHANGED allVars
  BY <1>8, Zenon DEF allVars, vars, tempVars, TempTypeOK, TypeOK
<1>9. CASE DirectCall \/ ClearCall \/ ConsumeTemp
  BY <1>1, <1>9, StateTableSteps, Zenon DEF DirectCall, ClearCall, ConsumeTemp
<1> QED
  BY <1>2, <1>3, <1>4, <1>5, <1>6, <1>7, <1>8, <1>9, Zenon DEF TempNext, ProduceTemp

\* The initial state is well typed.
LEMMA TempTypeInit == TempInit => TempTypeOK
BY TypeInit, HashType, Zenon DEF TempInit, TempTypeOK, NoHashes

\* The variables of a producer with temp views have their types; in particular
\* apply_temp_view() is only ever under way with a temp view.
THEOREM TempTypeCorrect == TempSpec => []TempTypeOK
BY TempTypeInit, TempTypeStep, PTL DEF TempSpec
-------------------------------------------------------------------------------
(***************************************************************************)
(* The view switch.  Between clear() and the script nothing is staged, so  *)
(* the consumer cannot change the table that dump() has read, and the      *)
(* script decides on what is still true.  The database's separator is ":"  *)
(* and no entry has the field "NULL": table_dump.lua would miss them.      *)
(***************************************************************************)
DumpIsTable ==
  /\ currentState = {k \in Key : table[k] # EmptyHash}
  /\ currentFields = table

SwitchInv ==
  /\ TempTypeOK
  /\ StagingInv
  /\ apply # "no" => keySet = {}
  /\ apply = "dumped" => DumpIsTable

\* clear() leaves nothing staged.
LEMMA ClearEmpties == Clear => keySet' = {}
BY Zenon DEF Clear, ClearScript

\* A consumer that finds no key in T_KEY_SET changes neither it nor the table.
LEMMA NothingToPop ==
  ASSUME TypeOK, keySet = {}, Consume \/ Exit
  PROVE  keySet' = {} /\ table' = table
<1>1. CASE UNCHANGED redisVars
  BY <1>1, Zenon DEF redisVars
<1>2. ASSUME NEW S \in Spop, PopsScript(S)
      PROVE  keySet' = {} /\ table' = table
  <2>1. S = {}
    BY Zenon DEF Spop
  <2> QED
    BY <1>2, <2>1, Zenon DEF PopsScript, TypeOK
<1> QED
  BY <1>1, <1>2, Zenon
  DEF Consume, Watch, Subscribe, ExecRetry, Exec, Select, Pops, PopBuffered, PopRefill, Exit, redisVars

\* Two sets of fields of which one contains the other, and no more of them.
LEMMA SameFields ==
  ASSUME IsFiniteSet(Field), NEW A \in SUBSET Field, NEW B \in SUBSET A, ~(Cardinality(A) > Cardinality(B))
  PROVE  A = B
<1>1. IsFiniteSet(A) /\ IsFiniteSet(B)
  BY FS_Subset, Zenon
<1>2. Cardinality(A) \in Nat /\ Cardinality(B) \in Nat /\ Cardinality(B) <= Cardinality(A)
  BY <1>1, FS_CardinalityType, FS_Subset, Zenon
<1>3. Cardinality(A) = Cardinality(B)
  BY <1>2
<1> QED
  BY <1>1, <1>3, FS_Subset, Zenon

\* A key that needs no DEL loses no field by the SET.
LEMMA NoDelNoLoss ==
  ASSUME NEW h \in Hash, NEW t \in Hash, \A f \in Field : h[f] # NoValue => t[f] # NoValue
  PROVE  HSet(h, t) = t
BY Zenon DEF Hash, HSet

\* A key that needs neither DEL nor SET is as the temp view says.
LEMMA NoSetNoChange ==
  ASSUME IsFiniteSet(Field), NEW h \in Hash, NEW t \in Hash,
         \A f \in Field : h[f] # NoValue => t[f] = h[f],
         ~(Cardinality(FieldsOf(t)) > Cardinality(FieldsOf(h)))
  PROVE  h = t
<1>1. FieldsOf(t) \in SUBSET Field /\ FieldsOf(h) \in SUBSET FieldsOf(t)
  BY Zenon DEF FieldsOf
<1>2. FieldsOf(t) = FieldsOf(h)
  BY <1>1, SameFields, Zenon
<1>3. \A f \in Field : h[f] = t[f]
  BY <1>2, Zenon DEF FieldsOf
<1> QED
  BY <1>3 DEF Hash

\* The script stages exactly the differences between the table and the temp view.
LEMMA ApplyScriptSwitches ==
  ASSUME IsFiniteSet(Field), SwitchInv, ApplyScript
  PROVE  /\ NothingStagedOutsideKeySet'
         /\ NoCallLost'
         /\ \A k \in keySet' : table[k] # expected'[k]
<1> DEFINE toSet == {k \in Key : NeedSet(k)}
           toDel == {k \in Key : NeedDel(k)}
<1>1. keySet = {} /\ apply = "dumped" /\ DumpIsTable /\ TempTypeOK /\ TypeOK
  BY Zenon DEF SwitchInv, ApplyScript, TempTypeOK
<1>2. delSet = {} /\ \A k \in Key : stateHash[k] = EmptyHash
  BY <1>1, Zenon DEF SwitchInv, StagingInv, NothingStagedOutsideKeySet, TypeOK
<1>3. keySet' = toSet /\ delSet' = toDel /\ table' = table /\ expected' = m_tempViewState
  BY <1>1, <1>2, Zenon DEF ApplyScript
<1>4. stateHash' = [k \in Key |-> IF k \in toSet THEN HSet(EmptyHash, m_tempViewState[k]) ELSE EmptyHash]
  BY <1>2, Zenon DEF ApplyScript
<1>5. \A k \in Key : NeedDel(k) => NeedSet(k)
  BY Zenon DEF NeedDel, NeedSet
<1>6. NothingStagedOutsideKeySet'
  BY <1>3, <1>4, <1>5, Zenon DEF NothingStagedOutsideKeySet
<1>7. ASSUME NEW k \in Key
      PROVE  /\ View'[k] = m_tempViewState[k]
             /\ NeedSet(k) => table[k] # m_tempViewState[k]
  <2> DEFINE h == table[k]
             t == m_tempViewState[k]
  <2>1. h \in Hash /\ t \in Hash /\ EmptyHash \in Hash
    BY <1>1, HashType, Zenon DEF TempTypeOK, TypeOK
  <2>2. View'[k] = HSet(IF NeedDel(k) THEN EmptyHash ELSE h, IF NeedSet(k) THEN HSet(EmptyHash, t) ELSE EmptyHash)
    BY <1>3, <1>4, Zenon DEF View
  <2>3. HSet(EmptyHash, t) = t /\ HSet(h, EmptyHash) = h
    BY <2>1, HSetEmpty, Zenon
  <2>4. k \in currentState <=> h # EmptyHash
    BY <1>1, Zenon DEF DumpIsTable
  <2>5. NeedDel(k) <=> h # EmptyHash /\ (t = EmptyHash \/ \E f \in Field : h[f] # NoValue /\ t[f] = NoValue)
    BY <1>1, <2>4, Zenon DEF NeedDel, DumpIsTable
  <2>6. h # EmptyHash => (NeedSet(k) <=> \/ NeedDel(k)
                                         \/ \E f \in Field : h[f] # NoValue /\ t[f] # h[f]
                                         \/ Cardinality(FieldsOf(t)) > Cardinality(FieldsOf(h)))
    BY <1>1, <2>4, Zenon DEF NeedSet, DumpIsTable
  <2>7. h = EmptyHash => (NeedSet(k) <=> t # EmptyHash)
    BY <2>4, Zenon DEF NeedSet
  <2> HIDE DEF h, t
  <2>8. CASE h = EmptyHash
    <3>1. View'[k] = t /\ (NeedSet(k) => h # t)
      BY <2>2, <2>3, <2>5, <2>7, <2>8, Zenon
    <3> QED
      BY <3>1, Zenon DEF h, t
  <2>9. CASE h # EmptyHash /\ NeedDel(k)
    <3>1. View'[k] = t
      BY <1>5, <2>2, <2>3, <2>9, Zenon
    <3>2. h # t
      BY <2>5, <2>9, Zenon
    <3> QED
      BY <3>1, <3>2, Zenon DEF h, t
  <2>10. CASE h # EmptyHash /\ ~NeedDel(k) /\ NeedSet(k)
    <3>1. View'[k] = HSet(h, t)
      BY <2>2, <2>3, <2>10, Zenon
    <3>2. HSet(h, t) = t
      BY <2>1, <2>5, <2>10, NoDelNoLoss, Zenon
    <3>3. h # t
      <4> SUFFICES ASSUME h = t
                   PROVE  FALSE
        BY Zenon
      <4>1. Cardinality(FieldsOf(h)) > Cardinality(FieldsOf(h))
        BY <2>6, <2>10, Zenon
      <4>2. FieldsOf(h) \in SUBSET Field
        BY Zenon DEF FieldsOf
      <4>3. Cardinality(FieldsOf(h)) \in Nat
        BY <4>2, FS_Subset, FS_CardinalityType, Zenon
      <4> QED
        BY <4>1, <4>3
    <3> QED
      BY <3>1, <3>2, <3>3, Zenon DEF h, t
  <2>11. CASE h # EmptyHash /\ ~NeedDel(k) /\ ~NeedSet(k)
    <3>1. View'[k] = h
      BY <2>2, <2>3, <2>11, Zenon
    <3>2. h = t
      BY <2>1, <2>6, <2>11, NoSetNoChange, Zenon
    <3> QED
      BY <2>11, <3>1, <3>2, Zenon DEF h, t
  <2> QED
    BY <2>8, <2>9, <2>10, <2>11, Zenon DEF h, t
<1>8. View' = m_tempViewState
  BY <1>1, <1>7, Zenon DEF View, TempTypeOK
<1>9. NoCallLost'
  BY <1>3, <1>8, Zenon DEF NoCallLost
<1> QED
  BY <1>3, <1>6, <1>7, <1>9, Zenon

\* Every step keeps the dump true until the script has run.
LEMMA SwitchStep ==
  ASSUME ColonDatabase, NullField \notin Field, IsFiniteSet(Field)
  PROVE  SwitchInv /\ [TempNext]_allVars => SwitchInv'
<1> SUFFICES ASSUME SwitchInv, [TempNext]_allVars
             PROVE  SwitchInv'
  BY Zenon
<1>1. TempTypeOK' /\ TypeOK' /\ TypeOK
  BY TempTypeStep, Zenon DEF SwitchInv, TempTypeOK
<1>2. CASE DirectCall \/ ClearCall
  <2>1. StagingInv'
    BY <1>2, StateTableSteps, StagingStep, Zenon DEF SwitchInv
  <2>2. apply' = "no"
    BY <1>2, Zenon DEF DirectCall, ClearCall, tempVars, SwitchInv, TempTypeOK
  <2> QED
    BY <1>1, <2>1, <2>2, Zenon DEF SwitchInv
<1>3. CASE ApplyClear
  <2>1. StagingInv'
    BY <1>3, StateTableSteps, StagingStep, Zenon DEF SwitchInv
  <2>2. apply' = "cleared" /\ keySet' = {}
    BY <1>3, ClearEmpties, Zenon DEF ApplyClear
  <2> QED
    BY <1>1, <2>1, <2>2, Zenon DEF SwitchInv
<1>4. CASE ApplyDump
  <2>1. StagingInv' /\ keySet' = {} /\ table' = table
    BY <1>1, <1>4, Zenon DEF ApplyDump, SwitchInv, vars, StagingInv, NothingStagedOutsideKeySet, NoCallLost, View
  <2>2. currentState' = {k \in Key : table[k] # EmptyHash}
    BY <1>4, Zenon DEF ApplyDump
  <2>3. ASSUME NEW k \in Key, NEW f \in Field
        PROVE  currentFields'[k][f] = table[k][f]
    BY <1>4, <2>2, Zenon DEF ApplyDump, EmptyHash
  <2>4. currentFields' = table
    <3>1. \A k \in Key : currentFields'[k] = table[k]
      BY <1>1, <2>3 DEF TempTypeOK, TypeOK, Hash
    <3> QED
      BY <1>1, <3>1 DEF TempTypeOK, TypeOK
  <2> QED
    BY <1>1, <2>1, <2>2, <2>4, Zenon DEF SwitchInv, DumpIsTable
<1>5. CASE ApplyScript
  <2>1. StagingInv'
    BY <1>1, <1>5, ApplyScriptSwitches, Zenon DEF StagingInv
  <2>2. apply' = "no"
    BY <1>5, Zenon DEF ApplyScript
  <2> QED
    BY <1>1, <2>1, <2>2, Zenon DEF SwitchInv
<1>6. CASE ConsumeTemp
  <2>1. StagingInv'
    BY <1>6, StateTableSteps, StagingStep, Zenon DEF SwitchInv
  <2>2. keySet = {} => keySet' = {} /\ table' = table
    BY <1>1, <1>6, NothingToPop, Zenon DEF ConsumeTemp
  <2> QED
    BY <1>1, <1>6, <2>1, <2>2, Zenon DEF SwitchInv, DumpIsTable, ConsumeTemp, tempVars
<1>7. ASSUME UNCHANGED vars, apply' = "no" \/ UNCHANGED tempVars
      PROVE  SwitchInv'
  BY <1>1, <1>7, Zenon
  DEF SwitchInv, DumpIsTable, vars, tempVars, StagingInv, NothingStagedOutsideKeySet, NoCallLost, View
<1>8. CASE CreateTempView \/ ProducerExit \/ UNCHANGED allVars \/ \E S \in Batch : TempSet(S) \/ TempDel(S)
  BY <1>7, <1>8, Zenon DEF CreateTempView, ProducerExit, TempSet, TempDel, allVars
<1> QED
  BY <1>2, <1>3, <1>4, <1>5, <1>6, <1>8, Zenon DEF TempNext, ProduceTemp

\* Initially no apply_temp_view() is under way.
LEMMA SwitchInit == TempInit => SwitchInv
BY TempTypeInit, StagingInit, Zenon DEF TempInit, SwitchInv

\* After apply_temp_view() table plus staged data are exactly the temp view, and at all other times
\* they are what the calls amount to, whatever the consumer does meanwhile.
THEOREM ViewIsSwitched ==
  ASSUME ColonDatabase, NullField \notin Field, IsFiniteSet(Field)
  PROVE  TempSpec => []ViewSwitched
<1>1. SwitchInv => ViewSwitched
  BY Zenon DEF SwitchInv, StagingInv, ViewSwitched
<1> QED
  BY <1>1, SwitchInit, SwitchStep, PTL DEF TempSpec

\* apply_temp_view() stages no key whose entry is already as the temp view says.
THEOREM SwitchIsMinimal ==
  ASSUME ColonDatabase, NullField \notin Field, IsFiniteSet(Field)
  PROVE  TempSpec => MinimalSwitch
<1>1. SwitchInv /\ [TempNext]_allVars => [StagesDifferences]_allVars
  BY ApplyScriptSwitches, Zenon DEF StagesDifferences
<1> QED
  BY <1>1, SwitchInit, SwitchStep, PTL DEF TempSpec, MinimalSwitch
-------------------------------------------------------------------------------
(***************************************************************************)
(* The queue is empty when select() times out.  A view switch publishes    *)
(* one message for all the keys that it stages; while no script has        *)
(* brought more keys than one pop takes, the messages that are left stand  *)
(* for all that waits.  The balance is restored when nothing waits.        *)
(***************************************************************************)
TimeoutInv == TempTypeOK /\ LoopInv /\ (~overfull => NoKeyStranded)

\* With nothing in T_KEY_SET and m_buffer, no message is needed.
LEMMA EmptyIsBalanced ==
  ASSUME LoopInv', keySet' = {}, m_buffer' = {}
  PROVE  NoKeyStranded'
<1> SUFFICES ASSUME consumer' \in {"idle", "popping"}
             PROVE  Cardinality(keySet') + Cardinality(m_buffer') <= Capacity' * Pending'
  BY Zenon DEF NoKeyStranded
<1>1. Cardinality(keySet') = 0 /\ Cardinality(m_buffer') = 0
  BY FS_EmptySet, Zenon
<1>2. Pending' \in Nat
  <2>1. channel' \in Nat /\ m_queueLength' \in Nat
    BY Zenon DEF LoopInv, Looping, TypeOK
  <2>2. \A c, q \in Nat : c + q + 0 \in Nat /\ c + q + 1 \in Nat
    OBVIOUS
  <2> QED
    BY <2>1, <2>2, Zenon DEF Pending
<1>3. Capacity' \in Nat
  BY StateTableAssumption DEF Capacity, CapacityOf
<1>4. Capacity' * Pending' \in Nat
  <2>1. \A c, p \in Nat : c * p \in Nat
    OBVIOUS
  <2> QED
    BY <1>2, <1>3, <2>1, Zenon
<1> QED
  BY <1>1, <1>4

\* The script of a view switch leaves the consumer alone.
LEMMA ApplyScriptLoop ==
  ASSUME TempTypeOK, LoopInv, ApplyScript
  PROVE  LoopInv'
<1>1. TypeOK' /\ UNCHANGED consumerVars
  BY ApplyScriptType, Zenon DEF ApplyScript, TempTypeOK
<1> QED
  BY <1>1, Zenon DEF LoopInv, BufferUse, consumerVars, Looping

\* The one message of a view switch stands for all of its keys if they fit in one pop.
LEMMA ApplyScriptWakes ==
  ASSUME WakeupInv, ApplyScript, Cardinality(keySet' \ keySet) <= Capacity
  PROVE  NoKeyStranded'
<1>1. PICK S \in SUBSET Key : keySet' = keySet \cup S
  BY Zenon DEF ApplyScript
<1>2. Publish(TRUE) /\ UNCHANGED consumerVars
  BY Zenon DEF ApplyScript
<1> QED
  BY <1>1, <1>2, ScriptKeepsBalance, Zenon

\* A step that is not accounted for as overfull had the balance before it, or needs none.
LEMMA AccountCases ==
  ASSUME TimeoutInv, LoopInv', keySet' \in SUBSET Key, Account, ~overfull'
  PROVE  NoKeyStranded' \/ (WakeupInv /\ Cardinality(keySet' \ keySet) <= Capacity)
<1>1. CASE consumer' \notin {"idle", "popping"}
  BY <1>1, Zenon DEF NoKeyStranded
<1>2. CASE keySet' = {} /\ m_buffer' = {}
  BY <1>2, EmptyIsBalanced, Zenon
<1>3. CASE ~overfull /\ ~(Cardinality(keySet' \ keySet) > Capacity)
  <2>1. WakeupInv
    BY <1>3, Zenon DEF TimeoutInv, WakeupInv
  <2>2. keySet' \ keySet \in SUBSET Key
    BY Zenon
  <2>3. Cardinality(keySet' \ keySet) \in Nat
    BY <2>2, KeySetFinite, Zenon
  <2>4. Cardinality(keySet' \ keySet) <= Capacity
    BY <1>3, <2>3, CapacityStep
  <2> QED
    BY <2>1, <2>4, Zenon
<1> QED
  BY <1>1, <1>2, <1>3, Zenon DEF Account

\* Every step leaves enough notifications for the keys, or is accounted for.
LEMMA TimeoutStep == TimeoutInv /\ [TempNext]_allVars => TimeoutInv'
<1> SUFFICES ASSUME TimeoutInv, [TempNext]_allVars
             PROVE  TimeoutInv'
  BY Zenon
<1>1. TempTypeOK' /\ TypeOK' /\ TempTypeOK /\ LoopInv
  BY TempTypeStep, Zenon DEF TimeoutInv, TempTypeOK
<1>2. CASE UNCHANGED allVars
  <2>1. UNCHANGED vars /\ overfull' = overfull
    BY <1>2, Zenon DEF allVars
  <2>2. LoopInv'
    BY <1>1, <2>1, LoopStep, Zenon
  <2>3. NoKeyStranded => NoKeyStranded'
    BY <2>1, SameCapacity, Zenon DEF vars, NoKeyStranded, Pending
  <2> QED
    BY <1>1, <2>1, <2>2, <2>3, Zenon DEF TimeoutInv
<1>3. ASSUME [Next]_vars, Account
      PROVE  TimeoutInv'
  <2>1. LoopInv' /\ keySet' \in SUBSET Key
    BY <1>1, <1>3, LoopStep, Zenon DEF TypeOK
  <2>2. ~overfull' => NoKeyStranded'
    BY <1>3, <2>1, AccountCases, WakeupStep, Zenon
  <2> QED
    BY <1>1, <2>1, <2>2, Zenon DEF TimeoutInv
<1>4. ASSUME ApplyScript, Account
      PROVE  TimeoutInv'
  <2>1. LoopInv' /\ keySet' \in SUBSET Key
    BY <1>1, <1>4, ApplyScriptLoop, Zenon DEF TypeOK
  <2>2. ~overfull' => NoKeyStranded'
    BY <1>4, <2>1, AccountCases, ApplyScriptWakes, Zenon
  <2> QED
    BY <1>1, <2>1, <2>2, Zenon DEF TimeoutInv
<1>5. CASE TempNext
  <2>1. CASE DirectCall \/ ClearCall \/ ApplyClear \/ ConsumeTemp
    BY <1>3, <1>5, <2>1, StateTableSteps, Zenon DEF TempNext
  <2>2. CASE \/ ApplyDump \/ CreateTempView \/ ProducerExit
             \/ \E S \in Batch : TempSet(S) \/ TempDel(S)
    <3>1. UNCHANGED vars
      BY <2>2, Zenon DEF ApplyDump, CreateTempView, ProducerExit, TempSet, TempDel
    <3> QED
      BY <1>3, <1>5, <3>1, Zenon DEF TempNext
  <2> QED
    BY <1>4, <1>5, <2>1, <2>2, Zenon DEF TempNext, ProduceTemp
<1> QED
  BY <1>2, <1>5, Zenon

\* When select() times out nothing is left in T_KEY_SET or in m_buffer, also after a view switch and
\* however many calls came on the way, unless one script brought more keys than one pop takes.
THEOREM EmptyOnTimeout == TempSpec => []QueueEmptyOnTimeout
<1>1. TempInit => TimeoutInv
  BY TempTypeInit, TypeInit, FS_EmptySet, Zenon DEF TempInit, Init, TimeoutInv, LoopInv, BufferUse, Looping, NoKeyStranded
<1>2. TimeoutInv => QueueEmptyOnTimeout
  <2> SUFFICES ASSUME TimeoutInv, consumer = "idle", channel = 0, m_queueLength = 0, ~overfull
               PROVE  keySet = {} /\ m_buffer = {}
    BY Zenon DEF QueueEmptyOnTimeout
  <2>1. LoopInv /\ NoKeyStranded /\ TypeOK
    BY Zenon DEF TimeoutInv, LoopInv
  <2>2. Pending = 0 /\ Capacity * Pending = 0
    BY CapacityStep DEF Pending
  <2>3. Cardinality(keySet) + Cardinality(m_buffer) <= 0
    BY <2>1, <2>2, Zenon DEF NoKeyStranded
  <2>4. IsFiniteSet(keySet) /\ IsFiniteSet(m_buffer) /\ Cardinality(keySet) \in Nat /\ Cardinality(m_buffer) \in Nat
    BY <2>1, KeySetFinite, FS_CardinalityType, Zenon DEF LoopInv, TypeOK
  <2>5. Cardinality(keySet) = 0 /\ Cardinality(m_buffer) = 0
    BY <2>3, <2>4
  <2> QED
    BY <2>4, <2>5, FS_EmptySet, Zenon
<1> QED
  BY <1>1, <1>2, TimeoutStep, PTL DEF TempSpec
===============================================================================
