----------------------------- MODULE SelectProofs -----------------------------
(***************************************************************************)
(* That Select forgets no message and respects the priorities, for every   *)
(* number of Selectables, of whatever kinds and priorities.                *)
(***************************************************************************)
EXTENDS Select, FiniteSetTheorems, TLAPS

\* What an object holds is known to Select: the object is in m_ready, unless it
\* is the NotificationConsumer that was returned with its last message.  A plain
\* object is in m_ready exactly when it has fired.
KnownToSelect ==
  /\ \A s \in m_objects : cached[s] > 0 /\ s \notin m_ready => /\ s = result
                                                               /\ Kind[s] = "buffer"
                                                               /\ cached[s] = 1
  /\ \A s \in Selectable \ m_objects : cached[s] > 0 => Kind[s] = "counter"
  /\ \A s \in Selectable : Kind[s] = "plain" => cached[s] = IF s \in m_ready THEN 1 ELSE 0
  /\ result \in Selectable /\ Kind[result] = "buffer" => result \in m_objects /\ cached[result] > 0
  /\ \A s \in Selectable : unread[s] + cached[s] <= MaxData

SelectInv == TypeOK /\ KnownToSelect

\* The objects that the application removes are consumer tables.
OnlyTablesRemoved == \A s \in Removable : Kind[s] = "counter"

\* The invariant holds for a new Select.
LEMMA SelectInit == Init => SelectInv
BY SelectAssumption DEF Init, SelectInv, TypeOK, KnownToSelect, NoObject

\* What the objects hold after they have read.
LEMMA HoldingType ==
  ASSUME SelectInv, NEW R \in SUBSET m_objects, NEW n \in [R -> 1..MaxData],
         \A s \in R : n[s] <= unread[s] /\ (Kind[s] = "plain" => n[s] = unread[s])
  PROVE  /\ Holding(R, n) \in [Selectable -> 0..MaxData]
         /\ \A s \in R : Holding(R, n)[s] > 0 /\ Holding(R, n)[s] + (unread[s] - n[s]) <= MaxData
         /\ \A s \in Selectable \ R : Holding(R, n)[s] = cached[s]
         /\ \A s \in Selectable : Kind[s] = "plain" /\ s \in R => Holding(R, n)[s] = 1
<1> DEFINE h == Holding(R, n)
<1>1. /\ R \subseteq Selectable
      /\ \A s \in R : n[s] \in 1..MaxData /\ n[s] <= unread[s]
      /\ \A s \in Selectable : unread[s] \in 0..MaxData /\ cached[s] \in 0..MaxData /\ unread[s] + cached[s] <= MaxData
      /\ MaxData \in Nat \ {0}
  BY SelectAssumption, Zenon DEF SelectInv, TypeOK, KnownToSelect
<1>2. \A s \in R : h[s] = IF Kind[s] = "plain" THEN 1 ELSE cached[s] + n[s]
  BY <1>1, Zenon DEF Holding, readData
<1>3. \A s \in Selectable \ R : h[s] = cached[s]
  BY Zenon DEF Holding
<1>4. \A s \in R : h[s] \in 1..MaxData /\ h[s] + (unread[s] - n[s]) <= MaxData
  BY <1>1, <1>2
<1>5. h = [s \in Selectable |-> h[s]]
  BY Zenon DEF Holding
<1>6. h \in [Selectable -> 0..MaxData]
  <2>1. ASSUME NEW s \in Selectable
        PROVE  h[s] \in 0..MaxData
    BY <1>1, <1>3, <1>4
  <2> HIDE DEF h
  <2> QED
    BY <1>5, <2>1, Zenon
<1> QED
  BY <1>1, <1>2, <1>3, <1>4, <1>6

\* The order of use remains one: the objects that leave m_ready come last, in the
\* order in which they leave it.
LEMMA TouchType ==
  ASSUME TypeOK, NEW S, Touch(S)
  PROVE  lastUsed' \in Order
<1> DEFINE B(a, b) == UsedBefore(S, a, b)
           D(b) == {a \in Selectable : a = b \/ B(a, b)}
<1>1. /\ lastUsed \in [Selectable -> Int]
      /\ \A a, b \in Selectable : lastUsed[a] = lastUsed[b] => a = b
  BY FS_CardinalityType, SelectAssumption DEF TypeOK, Order
<1>2. Pri \in [Selectable -> Int]
  BY SelectAssumption, Zenon
<1>3. \A a, b \in Selectable : a # b => B(a, b) \/ B(b, a)
  BY <1>1, <1>2 DEF UsedBefore, Before
<1>4. \A a, b \in Selectable : ~(B(a, b) /\ B(b, a))
  BY <1>1, <1>2 DEF UsedBefore, Before
<1>5. \A a, b, c \in Selectable : B(a, b) /\ B(b, c) => B(a, c)
  BY <1>1, <1>2 DEF UsedBefore, Before
<1> HIDE DEF B
<1>6. \A b \in Selectable : IsFiniteSet(D(b)) /\ Cardinality(D(b)) \in 1..Cardinality(Selectable)
  <2>1. SUFFICES ASSUME NEW b \in Selectable
                 PROVE  IsFiniteSet(D(b)) /\ Cardinality(D(b)) \in 1..Cardinality(Selectable)
    BY Zenon
  <2>2. D(b) \subseteq Selectable /\ b \in D(b)
    BY Zenon
  <2>3. /\ IsFiniteSet(D(b)) /\ Cardinality(D(b)) <= Cardinality(Selectable)
        /\ Cardinality(Selectable) \in Nat /\ Cardinality(D(b)) \in Nat
    BY <2>2, FS_Subset, FS_CardinalityType, SelectAssumption, Zenon
  <2>4. Cardinality(D(b)) # 0
    BY <2>2, <2>3, FS_EmptySet, Zenon
  <2> QED
    BY <2>3, <2>4
<1>7. \A a, b \in Selectable : B(a, b) => Cardinality(D(a)) # Cardinality(D(b))
  <2>1. SUFFICES ASSUME NEW a \in Selectable, NEW b \in Selectable, B(a, b)
                 PROVE  Cardinality(D(a)) # Cardinality(D(b))
    BY Zenon
  <2>2. D(a) \subseteq D(b) /\ b \notin D(a)
    BY <2>1, <1>4, <1>5, Zenon
  <2>3. D(a) # D(b)
    BY <2>2, Zenon
  <2> QED
    BY <1>6, <2>2, <2>3, FS_Subset, Zenon
<1>8. lastUsed' = [b \in Selectable |-> Cardinality(D(b))]
  BY Zenon DEF Touch, B
<1> HIDE DEF D
<1> QED
  BY <1>3, <1>6, <1>7, <1>8, Zenon DEF Order

\* poll_descriptors() serves or keeps in m_ready every object that holds something.
LEMMA PollStep ==
  ASSUME SelectInv, Handled, poll_descriptors
  PROVE  SelectInv'
<1>0. PICK R \in SUBSET (Readable \ broken) : \E n \in [R -> 1..MaxData] : ReadAndServe(R, n)
  BY Zenon DEF poll_descriptors
<1>1. PICK n \in [R -> 1..MaxData] :
        /\ \A s \in R : n[s] <= unread[s] /\ (Kind[s] = "plain" => n[s] = unread[s])
        /\ unread' = [s \in Selectable |-> IF s \in R THEN unread[s] - n[s] ELSE unread[s]]
        /\ \/ R = Readable /\ Serve(m_ready \cup R, Holding(R, n))
           \/ /\ Readable \cap broken # {}
              /\ result' = "ERROR"
              /\ m_ready' = m_ready \cup R
              /\ cached' = Holding(R, n)
              /\ UNCHANGED lastUsed
  BY <1>0, Zenon DEF ReadAndServe
<1> DEFINE h == Holding(R, n)
           ready == m_ready \cup R
<1>2. R \subseteq m_objects
  BY Zenon DEF Readable
<1>3. /\ h \in [Selectable -> 0..MaxData]
      /\ \A s \in R : h[s] > 0 /\ h[s] + (unread[s] - n[s]) <= MaxData
      /\ \A s \in Selectable \ R : h[s] = cached[s]
      /\ \A s \in Selectable : Kind[s] = "plain" /\ s \in R => h[s] = 1
  BY <1>1, <1>2, HoldingType
<1> HIDE DEF h
<1>4. /\ m_objects' = m_objects /\ broken' = broken
      /\ m_ready \subseteq m_objects /\ m_objects \subseteq Selectable /\ broken \subseteq Selectable
      /\ lastUsed \in Order
  BY Zenon DEF poll_descriptors, SelectInv, TypeOK
<1>5. \A s \in m_objects : h[s] > 0 => s \in ready
  BY <1>3, <1>4, Zenon DEF SelectInv, KnownToSelect, Handled
<1>6. \A s \in Selectable \ m_objects : h[s] > 0 => Kind[s] = "counter"
  BY <1>2, <1>3, Zenon DEF SelectInv, KnownToSelect
<1>7. \A s \in Selectable : Kind[s] = "plain" => h[s] = IF s \in ready THEN 1 ELSE 0
  BY <1>3, Zenon DEF SelectInv, KnownToSelect
<1>8. /\ unread' \in [Selectable -> 0..MaxData]
      /\ \A s \in Selectable : unread'[s] + h[s] <= MaxData
  <2>1. ASSUME NEW s \in Selectable
        PROVE  unread'[s] \in 0..MaxData /\ unread'[s] + h[s] <= MaxData
    <3>1. /\ unread[s] \in 0..MaxData /\ unread[s] + cached[s] <= MaxData /\ MaxData \in Nat
          /\ s \in R => n[s] \in 1..MaxData /\ n[s] <= unread[s]
      BY <1>1, SelectAssumption, Zenon DEF SelectInv, TypeOK, KnownToSelect
    <3>2. CASE s \in R
      BY <3>1, <3>2, <1>1, <1>3
    <3>3. CASE s \notin R
      BY <3>1, <3>3, <1>1, <1>3, Zenon
    <3> QED
      BY <3>2, <3>3, Zenon
  <2>2. unread' = [s \in Selectable |-> unread'[s]]
    BY <1>1, Zenon
  <2> QED
    BY <2>1, <2>2, Zenon
<1>9. CASE /\ result' = "ERROR" /\ m_ready' = ready /\ cached' = h /\ UNCHANGED lastUsed
  <2>1. TypeOK'
    BY <1>2, <1>3, <1>4, <1>8, <1>9, Zenon DEF TypeOK, NoObject, Order
  <2>2. KnownToSelect'
    BY <1>4, <1>5, <1>6, <1>7, <1>8, <1>9, SelectAssumption, Zenon DEF KnownToSelect, NoObject
  <2> QED
    BY <2>1, <2>2, Zenon DEF SelectInv
<1>10. CASE Serve(ready, h)
  <2> DEFINE withData == {s \in ready : hasData(s, h)}
  <2>1. CASE /\ withData = {} /\ result' = "TIMEOUT" /\ m_ready' = {} /\ cached' = h /\ Touch(ready)
    <3>1. TypeOK'
      BY <1>3, <1>4, <1>8, <2>1, TouchType, Zenon DEF TypeOK, NoObject, Order, SelectInv
    <3>2. \A s \in ready : Kind[s] # "plain" /\ ~(h[s] > 0)
      BY <2>1, Zenon DEF hasData
    <3>3. KnownToSelect'
      BY <1>4, <1>5, <1>6, <1>7, <1>8, <2>1, <3>2, SelectAssumption, Zenon DEF KnownToSelect, NoObject
    <3> QED
      BY <3>1, <3>3, Zenon DEF SelectInv
  <2>2. ASSUME NEW first \in withData, \A t \in withData \ {first} : Before(first, t),
               result' = first,
               m_ready' = (ready \ {s \in ready : s = first \/ Before(s, first)})
                          \cup (IF hasCachedData(first, h) THEN {first} ELSE {}),
               cached' = IF Kind[first] = "buffer" THEN h ELSE [h EXCEPT ![first] = @ - 1],
               Touch({s \in ready : s = first \/ Before(s, first)})
        PROVE  SelectInv'
    <3>1. /\ first \in ready /\ first \in m_objects /\ first \in Selectable
          /\ ready \subseteq m_objects /\ MaxData \in Nat
      BY <1>2, <1>4, SelectAssumption, Zenon
    <3>2. h[first] > 0 /\ h[first] \in 1..MaxData /\ (Kind[first] = "plain" => h[first] = 1)
      BY <3>1, <1>3, <1>7 DEF hasData
    <3>3. \A t \in Selectable \ {first} : cached'[t] = h[t]
      BY <2>2, <1>3, Zenon
    <3>4. cached'[first] = IF Kind[first] = "buffer" THEN h[first] ELSE h[first] - 1
      BY <2>2, <1>3, <3>1, Zenon
    <3>5. cached' \in [Selectable -> 0..MaxData]
      BY <2>2, <1>3, <3>1, <3>2
    <3>6. \A t \in ready \ {first} : hasData(t, h) => ~Before(t, first)
      <4>1. SUFFICES ASSUME NEW t \in ready \ {first}, hasData(t, h)
                     PROVE  ~Before(t, first)
        BY Zenon
      <4>2. Before(first, t)
        BY <2>2, <4>1, Zenon
      <4>3. lastUsed[t] \in Int /\ lastUsed[first] \in Int /\ Pri[t] \in Int /\ Pri[first] \in Int
        BY <1>4, <3>1, SelectAssumption DEF Order
      <4> QED
        BY <4>2, <4>3 DEF Before
    <3>7. \A t \in ready \ {first} : hasData(t, h) => t \in m_ready'
      BY <2>2, <3>6, Zenon
    <3>8. /\ first \in m_ready' <=> Kind[first] # "plain" /\ h[first] > 1
          /\ m_ready' \subseteq ready
      BY <2>2, <3>1, Zenon DEF hasCachedData
    <3>9. TypeOK'
      BY <1>4, <1>8, <2>2, <3>1, <3>5, <3>8, TouchType, Zenon DEF TypeOK, SelectInv
    <3>10. \A s \in m_objects : cached'[s] > 0 /\ s \notin m_ready' => s = first /\ Kind[s] = "buffer" /\ cached'[s] = 1
      <4>1. SUFFICES ASSUME NEW s \in m_objects, cached'[s] > 0, s \notin m_ready'
                     PROVE  s = first /\ Kind[s] = "buffer" /\ cached'[s] = 1
        BY Zenon
      <4>2. s = first
        BY <1>4, <1>5, <3>3, <3>7, <4>1, Zenon DEF hasData
      <4> QED
        BY <3>2, <3>4, <3>8, <4>1, <4>2
    <3>11. \A s \in Selectable \ m_objects : cached'[s] > 0 => Kind[s] = "counter"
      BY <1>6, <3>1, <3>3, Zenon
    <3>12. \A s \in Selectable : Kind[s] = "plain" => cached'[s] = IF s \in m_ready' THEN 1 ELSE 0
      <4>1. SUFFICES ASSUME NEW s \in Selectable, Kind[s] = "plain"
                     PROVE  cached'[s] = IF s \in m_ready' THEN 1 ELSE 0
        BY Zenon
      <4>2. CASE s = first
        BY <3>2, <3>4, <3>8, <4>1, <4>2
      <4>3. CASE s # first
        BY <1>7, <3>3, <3>7, <3>8, <4>1, <4>3, Zenon DEF hasData
      <4> QED
        BY <4>2, <4>3, Zenon
    <3>13. \A s \in Selectable : unread'[s] + cached'[s] <= MaxData
      BY <1>3, <1>8, <3>1, <3>2, <3>3, <3>4
    <3>14. KnownToSelect'
      BY <1>4, <2>2, <3>1, <3>2, <3>4, <3>10, <3>11, <3>12, <3>13, Zenon DEF KnownToSelect
    <3> QED
      BY <3>9, <3>14, Zenon DEF SelectInv
  <2> QED
    BY <1>10, <2>1, <2>2, Zenon DEF Serve
<1> QED
  BY <1>1, <1>9, <1>10, Zenon DEF h

\* Every step keeps the invariant.
LEMMA SelectStep ==
  ASSUME OnlyTablesRemoved
  PROVE  SelectInv /\ [Next]_vars => SelectInv'
<1> SUFFICES ASSUME SelectInv, [Next]_vars
             PROVE  SelectInv'
  BY Zenon
<1> USE SelectAssumption
<1>1. ASSUME NEW s \in Selectable, Arrive(s)
      PROVE  SelectInv'
  BY <1>1 DEF Arrive, SelectInv, TypeOK, KnownToSelect
<1>2. ASSUME NEW s \in Selectable, Fail(s)
      PROVE  SelectInv'
  BY <1>2, Zenon DEF Fail, SelectInv, TypeOK, KnownToSelect
<1>3. ASSUME NEW s \in Selectable, Handled, AddSelectable(s)
      PROVE  SelectInv'
  BY <1>3, Zenon DEF AddSelectable, initializedWithData, SelectInv, TypeOK, KnownToSelect, Handled
<1>4. ASSUME NEW s \in Selectable, Handled, RemoveSelectable(s)
      PROVE  SelectInv'
  BY <1>4, Zenon DEF RemoveSelectable, OnlyTablesRemoved, SelectInv, TypeOK, KnownToSelect, Handled
<1>5. CASE Handled /\ poll_descriptors
  BY <1>5, PollStep, Zenon
<1>6. CASE Handled /\ (poll_nothing \/ poll_interrupted)
  BY <1>6, Zenon DEF poll_nothing, poll_interrupted, Handled, SelectInv, TypeOK, KnownToSelect, NoObject
<1>7. ASSUME NEW s \in Selectable, Pop(s)
      PROVE  SelectInv'
  BY <1>7 DEF Pop, SelectInv, TypeOK, KnownToSelect, NoObject
<1>8. CASE UNCHANGED vars
  BY <1>8, Zenon DEF vars, SelectInv, TypeOK, KnownToSelect, Order
<1> QED
  BY <1>1, <1>2, <1>3, <1>4, <1>5, <1>6, <1>7, <1>8, Zenon DEF Next, Loop
-------------------------------------------------------------------------------
\* Select's data have their types: m_ready holds registered objects only, the times
\* of use are a strict order, no count of messages falls below zero.
THEOREM SelectTypes ==
  ASSUME OnlyTablesRemoved
  PROVE  Spec => []TypeOK
<1>1. SelectInv => TypeOK
  BY Zenon DEF SelectInv
<1> QED
  BY <1>1, SelectInit, SelectStep, PTL DEF Spec

\* No message that was read from a descriptor is forgotten: its object is in m_ready
\* whenever the application calls select() again.
THEOREM NothingForgotten ==
  ASSUME OnlyTablesRemoved
  PROVE  Spec => []ReadyWhenData
<1>1. SelectInv => ReadyWhenData
  BY Zenon DEF SelectInv, TypeOK, KnownToSelect, ReadyWhenData, Handled
<1> QED
  BY <1>1, SelectInit, SelectStep, PTL DEF Spec

\* What poll_descriptors() returns when the application has dealt with what it
\* returned before.
LEMMA PollServes ==
  ASSUME SelectInv, Handled, poll_descriptors
  PROVE  ServesHighest
<1>1. PICK R \in SUBSET (Readable \ broken) : \E n \in [R -> 1..MaxData] : ReadAndServe(R, n)
  BY Zenon DEF poll_descriptors
<1>2. PICK n \in [R -> 1..MaxData] : ReadAndServe(R, n)
  BY <1>1, Zenon
<1> DEFINE h == Holding(R, n)
           ready == m_ready \cup R
<1>3. R \subseteq m_objects
  BY Zenon DEF Readable
<1>4. /\ \A s \in R : h[s] > 0
      /\ \A s \in Selectable \ R : h[s] = cached[s]
  BY <1>2, <1>3, HoldingType DEF ReadAndServe
<1> HIDE DEF h
<1>5. /\ m_ready \subseteq m_objects /\ m_objects \subseteq Selectable
      /\ \A s \in Selectable : /\ unread[s] \in Nat /\ cached[s] \in Nat
                              /\ lastUsed[s] \in Int /\ Pri[s] \in Int
  BY SelectAssumption, FS_CardinalityType DEF SelectInv, TypeOK, Order
<1>6. \A s \in ready : hasData(s, h) => unread[s] + cached[s] > 0
  <2>1. \A s \in R : unread[s] > 0
    BY <1>2, <1>3, <1>5, SelectAssumption DEF ReadAndServe
  <2>2. \A s \in m_ready \ R : hasData(s, h) => cached[s] > 0
    BY <1>4, <1>5 DEF hasData, SelectInv, KnownToSelect
  <2> QED
    BY <1>3, <1>5, <2>1, <2>2
<1>7. ASSUME R = Readable, NEW s \in m_objects, ~(unread[s] = 0 /\ cached[s] = 0)
      PROVE  s \in ready /\ hasData(s, h)
  <2>1. CASE s \in R
    BY <1>4, <2>1, Zenon DEF hasData
  <2>2. CASE s \notin R
    <3>1. unread[s] = 0 /\ cached[s] > 0
      BY <1>5, <1>7, <2>2 DEF Readable
    <3> QED
      BY <1>4, <1>5, <2>2, <3>1, Zenon DEF hasData, SelectInv, KnownToSelect, Handled
  <2> QED
    BY <2>1, <2>2, Zenon
<1>8. CASE result' = "ERROR"
  BY <1>8, SelectAssumption, Zenon DEF ServesHighest, NoObject
<1>9. CASE R = Readable /\ Serve(ready, h)
  <2> DEFINE withData == {s \in ready : hasData(s, h)}
  <2>1. CASE withData = {} /\ result' = "TIMEOUT"
    BY <1>7, <1>9, <2>1, SelectAssumption, Zenon DEF ServesHighest, NoObject
  <2>2. ASSUME NEW first \in withData, \A t \in withData \ {first} : Before(first, t), result' = first
        PROVE  ServesHighest
    <3>1. first \in Selectable /\ first # "TIMEOUT" /\ unread[first] + cached[first] > 0
      BY <1>3, <1>5, <1>6, SelectAssumption, Zenon DEF NoObject
    <3>2. \A s \in m_objects : Pri[s] > Pri[first] => unread[s] = 0 /\ cached[s] = 0
      BY <1>5, <1>7, <1>9, <2>2, <3>1 DEF Before
    <3> QED
      BY <2>2, <3>1, <3>2, Zenon DEF ServesHighest
  <2> QED
    BY <1>9, <2>1, <2>2, Zenon DEF Serve
<1> QED
  BY <1>2, <1>8, <1>9, Zenon DEF ReadAndServe, h

\* select() serves the highest priority that has data, and times out only when
\* nothing is there.
THEOREM HighestServedFirst ==
  ASSUME OnlyTablesRemoved
  PROVE  Spec => HighestFirst
<1>1. SelectInv /\ [Next]_vars => [ServesHighest]_vars
  <2> SUFFICES ASSUME SelectInv, Next, poll_descriptors
               PROVE  ServesHighest \/ UNCHANGED vars
    BY Zenon DEF ServesHighest
  <2>1. CASE Handled
    BY <2>1, PollServes, Zenon
  <2>2. PICK R \in SUBSET (Readable \ broken) : \E n \in [R -> 1..MaxData] : ReadAndServe(R, n)
    BY Zenon DEF poll_descriptors
  <2>3. PICK n \in [R -> 1..MaxData] : ReadAndServe(R, n)
    BY <2>2, Zenon
  <2>4. \A s \in Selectable : unread'[s] <= unread[s]
    <3>1. \A s \in Selectable : unread[s] \in Nat
      BY SelectAssumption DEF SelectInv, TypeOK
    <3>2. \A s \in R : n[s] \in Nat
      BY SelectAssumption
    <3>3. ASSUME NEW s \in Selectable
          PROVE  unread'[s] <= unread[s]
      BY <2>3, <3>1, <3>2 DEF ReadAndServe
    <3> QED
      BY <3>3, Zenon
  <2>5. result' # "none"
    <3>1. m_ready \cup R \subseteq Selectable
      BY Zenon DEF Readable, SelectInv, TypeOK
    <3> QED
      BY <2>3, <3>1, SelectAssumption, Zenon DEF ReadAndServe, Serve, NoObject
  <2>6. ASSUME NEW s \in Selectable, Arrive(s)
        PROVE  FALSE
    <3>1. unread'[s] = unread[s] + 1 /\ unread[s] \in Nat
      BY <2>6, SelectAssumption DEF Arrive, SelectInv, TypeOK
    <3> QED
      BY <2>4, <3>1
  <2>7. ASSUME NEW s \in Selectable, Fail(s)
        PROVE  UNCHANGED vars
    BY <2>7, Zenon DEF Fail, poll_descriptors, vars
  <2>8. ASSUME NEW s \in Selectable, Pop(s)
        PROVE  FALSE
    BY <2>5, <2>8, Zenon DEF Pop
  <2> QED
    BY <2>1, <2>6, <2>7, <2>8, Zenon DEF Next, Loop
<1> QED
  BY <1>1, SelectInit, SelectStep, PTL DEF Spec, HighestFirst
===============================================================================
