------------------------- MODULE SubscriberTableProofs -------------------------
(***************************************************************************)
(* That a SubscriberStateTable misses no change and never falls asleep on  *)
(* what it holds, for every set of keys, fields and values.                *)
(***************************************************************************)
EXTENDS SubscriberTable, WellFoundedInduction, SequenceTheorems, TLAPS

-------------------------------------------------------------------------------
(***************************************************************************)
(* Applying entries.                                                       *)
(***************************************************************************)
\* Of the entries about k one is the last.
LEMMA LastExists ==
  ASSUME NEW S, NEW es \in Seq(S), NEW k, NEW i \in DOMAIN es, es[i].key = k
  PROVE  \E l \in DOMAIN es : LastAt(es, k, l)
<1> DEFINE T == {n \in Nat : n < Len(es) /\ es[Len(es) - n].key = k}
<1>1. DOMAIN es = 1..Len(es) /\ Len(es) \in Nat
  OBVIOUS
<1>2. T \subseteq Nat /\ Len(es) - i \in T
  BY <1>1, Len(es) - (Len(es) - i) = i
<1>3. PICK m \in T : \A n \in T : ~(<<n, m>> \in OpToRel(<, Nat))
  BY <1>2, WFMin, NatLessThanWellFounded, Zenon
<1>4. \A n \in T : ~(n < m)
  BY <1>2, <1>3, Zenon DEF OpToRel
<1>5. Len(es) - m \in DOMAIN es /\ es[Len(es) - m].key = k
  BY <1>1
<1>6. ASSUME NEW j \in DOMAIN es, es[j].key = k
      PROVE  j <= Len(es) - m
  <2>1. Len(es) - j \in T
    BY <1>1, <1>6, Len(es) - (Len(es) - j) = j
  <2>2. ~(Len(es) - j < m) /\ m \in Nat /\ j \in Nat
    BY <1>1, <1>4, <2>1
  <2> QED
    BY <1>1, <2>2
<1> QED
  BY <1>5, <1>6, Zenon DEF LastAt

\* What Apply does at a key, by the last entry about it.
LEMMA ApplyAt ==
  ASSUME NEW s, NEW es \in Seq(Kco), NEW k \in Key
  PROVE  /\ \A l \in DOMAIN es : LastAt(es, k, l) => Apply(s, es)[k] = es[l].fvs
         /\ (\A i \in DOMAIN es : es[i].key # k) => Apply(s, es)[k] = s[k]
<1>1. ASSUME NEW l \in DOMAIN es, LastAt(es, k, l)
      PROVE  Apply(s, es)[k] = es[l].fvs
  <2>1. \A i \in DOMAIN es : LastAt(es, k, i) => i = l
    BY <1>1 DEF LastAt
  <2>2. (CHOOSE i \in DOMAIN es : LastAt(es, k, i)) = l
    BY <1>1, <2>1, Zenon
  <2>3. es[l].key = k
    BY <1>1, Zenon DEF LastAt
  <2> QED
    BY <2>2, <2>3, Zenon DEF Apply
<1>2. (\A i \in DOMAIN es : es[i].key # k) => Apply(s, es)[k] = s[k]
  BY Zenon DEF Apply
<1> QED
  BY <1>1, <1>2, Zenon

\* Entries applied in two portions.
LEMMA ApplyConcat ==
  ASSUME NEW s, NEW a \in Seq(Kco), NEW b \in Seq(Kco), NEW k \in Key
  PROVE  Apply(Apply(s, a), b)[k] = Apply(s, a \o b)[k]
<1> DEFINE c == a \o b
<1>1. /\ c \in Seq(Kco) /\ Len(c) = Len(a) + Len(b)
      /\ Len(a) \in Nat /\ Len(b) \in Nat
      /\ DOMAIN a = 1..Len(a) /\ DOMAIN b = 1..Len(b) /\ DOMAIN c = 1..Len(c)
  OBVIOUS
<1>2. \A i \in 1..Len(a) : c[i] = a[i]
  BY <1>1
<1>3. \A i \in 1..Len(b) : c[Len(a) + i] = b[i]
  BY <1>1
<1>4. \A i \in 1..Len(c) : i <= Len(a) \/ (i - Len(a) \in 1..Len(b) /\ c[i] = b[i - Len(a)])
  BY <1>1, <1>3
<1> HIDE DEF c
<1>5. CASE \E i \in DOMAIN b : b[i].key = k
  <2>1. PICK l \in DOMAIN b : LastAt(b, k, l)
    BY <1>5, LastExists, Zenon
  <2>2. Len(a) + l \in DOMAIN c
    BY <1>1
  <2>3. LastAt(c, k, Len(a) + l)
    <3>1. c[Len(a) + l].key = k
      BY <1>1, <1>3, <2>1, Zenon DEF LastAt
    <3>2. ASSUME NEW j \in DOMAIN c, c[j].key = k
          PROVE  j <= Len(a) + l
      <4>1. CASE j <= Len(a)
        BY <4>1, <1>1
      <4>2. CASE ~(j <= Len(a))
        <5>1. j - Len(a) \in DOMAIN b /\ b[j - Len(a)].key = k
          BY <4>2, <1>1, <1>4, <3>2, Zenon
        <5>2. j - Len(a) <= l
          BY <5>1, <2>1, Zenon DEF LastAt
        <5> QED
          BY <5>2, <1>1
      <4> QED
        BY <4>1, <4>2, Zenon
    <3> QED
      BY <3>1, <3>2, Zenon DEF LastAt
  <2>4. Apply(s, c)[k] = c[Len(a) + l].fvs
    BY <1>1, <2>2, <2>3, ApplyAt
  <2>5. Apply(Apply(s, a), b)[k] = b[l].fvs
    BY <2>1, ApplyAt
  <2> QED
    BY <1>1, <1>3, <2>4, <2>5, Zenon DEF c
<1>6. CASE /\ \A i \in DOMAIN b : b[i].key # k
           /\ \E i \in DOMAIN a : a[i].key = k
  <2>1. PICK l \in DOMAIN a : LastAt(a, k, l)
    BY <1>6, LastExists, Zenon
  <2>2. l \in DOMAIN c /\ c[l] = a[l]
    BY <1>1, <1>2
  <2>3. LastAt(c, k, l)
    <3>1. ASSUME NEW j \in DOMAIN c, c[j].key = k
          PROVE  j <= l
      <4>1. j <= Len(a)
        BY <1>1, <1>4, <1>6, <3>1, Zenon
      <4>2. j \in DOMAIN a /\ a[j].key = k
        BY <4>1, <1>1, <1>2, <3>1
      <4> QED
        BY <4>2, <2>1, Zenon DEF LastAt
    <3> QED
      BY <3>1, <2>1, <2>2, Zenon DEF LastAt
  <2>4. Apply(s, c)[k] = a[l].fvs
    BY <1>1, <2>2, <2>3, ApplyAt
  <2>5. Apply(Apply(s, a), b)[k] = Apply(s, a)[k]
    BY <1>6, ApplyAt, Zenon
  <2>6. Apply(s, a)[k] = a[l].fvs
    BY <2>1, ApplyAt
  <2> QED
    BY <2>4, <2>5, <2>6, Zenon DEF c
<1>7. CASE /\ \A i \in DOMAIN b : b[i].key # k
           /\ \A i \in DOMAIN a : a[i].key # k
  <2>1. ASSUME NEW i \in DOMAIN c
        PROVE  c[i].key # k
    <3>1. CASE i <= Len(a)
      BY <1>1, <1>2, <1>7, <3>1
    <3>2. CASE ~(i <= Len(a))
      BY <1>1, <1>4, <1>7, <3>2, Zenon
    <3> QED
      BY <3>1, <3>2, Zenon
  <2>2. Apply(s, c)[k] = s[k]
    BY <1>1, <2>1, ApplyAt, Zenon
  <2>3. Apply(Apply(s, a), b)[k] = Apply(s, a)[k]
    BY <1>7, ApplyAt, Zenon
  <2>4. Apply(s, a)[k] = s[k]
    BY <1>7, ApplyAt, Zenon
  <2> QED
    BY <2>2, <2>3, <2>4, Zenon DEF c
<1> QED
  BY <1>5, <1>6, <1>7, Zenon

\* One more entry.
LEMMA ApplyAppend ==
  ASSUME NEW s, NEW es \in Seq(Kco), NEW x \in Kco, NEW k \in Key
  PROVE  Apply(s, Append(es, x))[k] = IF x.key = k THEN x.fvs ELSE Apply(s, es)[k]
<1> DEFINE y == <<x>>
<1>1. Append(es, x) = es \o y /\ y \in Seq(Kco) /\ DOMAIN y = {1} /\ y[1] = x
  OBVIOUS
<1> HIDE DEF y
<1>2. Apply(s, Append(es, x))[k] = Apply(Apply(s, es), y)[k]
  BY <1>1, ApplyConcat
<1>3. CASE x.key = k
  <2>1. LastAt(y, k, 1)
    BY <1>1, <1>3 DEF LastAt
  <2>2. Apply(Apply(s, es), y)[k] = y[1].fvs
    BY <1>1, <2>1, ApplyAt
  <2> QED
    BY <1>1, <1>2, <1>3, <2>2, Zenon
<1>4. CASE x.key # k
  <2>1. Apply(Apply(s, es), y)[k] = Apply(s, es)[k]
    BY <1>1, <1>4, ApplyAt
  <2> QED
    BY <1>2, <1>4, <2>1, Zenon
<1> QED
  BY <1>3, <1>4, Zenon

\* No entry, and one entry and then the others.
LEMMA ApplyNothing ==
  ASSUME NEW s, NEW k \in Key
  PROVE  Apply(s, <<>>)[k] = s[k]
BY DEF Apply

\* Applying the first entry and then the others is applying them all.
LEMMA ApplyHeadTail ==
  ASSUME NEW s, NEW es \in Seq(Kco), es # <<>>, NEW k \in Key
  PROVE  Apply(Apply(s, <<Head(es)>>), Tail(es))[k] = Apply(s, es)[k]
<1>1. PICK h \in Seq(Kco) : h = <<Head(es)>>
  <2>1. <<Head(es)>> \in Seq(Kco)
    OBVIOUS
  <2> QED
    BY <2>1, Zenon
<1>2. PICK t \in Seq(Kco) : t = Tail(es)
  <2>1. Tail(es) \in Seq(Kco)
    OBVIOUS
  <2> QED
    BY <2>1, Zenon
<1>3. h \o t = es
  BY <1>1, <1>2
<1>4. Apply(Apply(s, h), t)[k] = Apply(s, h \o t)[k]
  BY ApplyConcat
<1> QED
  BY <1>1, <1>2, <1>3, <1>4, Zenon

\* The application's view remains one of the table's type.
LEMMA ApplyType ==
  ASSUME NEW s \in [Key -> Hash], NEW es \in Seq(Kco)
  PROVE  Apply(s, es) \in [Key -> Hash]
<1>1. ASSUME NEW k \in Key
      PROVE  Apply(s, es)[k] \in Hash
  <2>1. CASE \E i \in DOMAIN es : es[i].key = k
    <3>1. PICK l \in DOMAIN es : LastAt(es, k, l)
      BY <2>1, LastExists, Zenon
    <3>2. es[l] \in Kco
      OBVIOUS
    <3>3. Apply(s, es)[k] = es[l].fvs
      BY <3>1, ApplyAt
    <3> QED
      BY <3>2, <3>3, Zenon DEF Kco
  <2>2. CASE \A i \in DOMAIN es : es[i].key # k
    BY <2>2, ApplyAt
  <2> QED
    BY <2>1, <2>2, Zenon
<1>2. Apply(s, es) = [k \in Key |-> Apply(s, es)[k]]
  BY DEF Apply
<1> QED
  BY <1>1, <1>2, Zenon
-------------------------------------------------------------------------------
(***************************************************************************)
(* The events on their way.                                                *)
(***************************************************************************)
Events == m_keyspace_event_buffer \o socket

\* The last event about a key says whether the key is still there.
LastTells(E, t) ==
  \A i \in DOMAIN E : LastAt(E, E[i].key, i) => (E[i].op = "del" <=> t[E[i].key] = EmptyHash)

\* A command of a writer adds events about its key, of which the last one tells.
LEMMA WriterTells ==
  ASSUME NEW E \in Seq(Event), NEW es \in Seq(Event), NEW k \in Key, es # <<>>,
         \A i \in DOMAIN es : es[i].key = k,
         NEW t, NEW u, \A j \in Key \ {k} : u[j] = t[j],
         LastTells(E, t),
         es[Len(es)].op = "del" <=> u[k] = EmptyHash
  PROVE  LastTells(E \o es, u)
<1> DEFINE c == E \o es
<1>1. /\ c \in Seq(Event) /\ Len(c) = Len(E) + Len(es)
      /\ Len(E) \in Nat /\ Len(es) \in Nat /\ Len(es) # 0
      /\ DOMAIN E = 1..Len(E) /\ DOMAIN es = 1..Len(es) /\ DOMAIN c = 1..Len(c)
  OBVIOUS
<1>2. \A i \in 1..Len(E) : c[i] = E[i] /\ c[i].key \in Key
  <2>1. \A i \in 1..Len(E) : c[i] = E[i]
    BY <1>1
  <2>2. \A i \in 1..Len(E) : E[i] \in Event
    BY <1>1
  <2> QED
    BY <2>1, <2>2, Zenon DEF Event
<1>3. c[Len(c)] = es[Len(es)] /\ c[Len(c)].key = k
  BY <1>1
<1>4. \A i \in 1..Len(c) : i <= Len(E) \/ c[i].key = k
  BY <1>1
<1> HIDE DEF c
<1>5. SUFFICES ASSUME NEW i \in DOMAIN c, LastAt(c, c[i].key, i)
               PROVE  c[i].op = "del" <=> u[c[i].key] = EmptyHash
  BY Zenon DEF LastTells, c
<1>6. CASE c[i].key = k
  <2>1. Len(c) \in DOMAIN c /\ i \in 1..Len(c) /\ Len(c) \in Nat
    BY <1>1
  <2>2. Len(c) <= i
    BY <1>3, <1>5, <1>6, <2>1, Zenon DEF LastAt
  <2>3. i = Len(c)
    BY <2>1, <2>2
  <2> QED
    BY <1>3, <2>3, Zenon
<1>7. CASE c[i].key # k
  <2>1. i \in 1..Len(E)
    BY <1>1, <1>4, <1>7
  <2>2. LastAt(E, E[i].key, i)
    BY <1>1, <1>2, <1>5, <2>1 DEF LastAt
  <2> QED
    BY <1>1, <1>2, <1>7, <2>1, <2>2 DEF LastTells
<1> QED
  BY <1>6, <1>7, Zenon

\* Handing the first event on leaves the others as they are.
LEMMA TailTells ==
  ASSUME NEW E \in Seq(Event), E # <<>>, NEW t, LastTells(E, t)
  PROVE  LastTells(Tail(E), t)
<1>1. /\ Tail(E) \in Seq(Event) /\ Len(E) \in Nat \ {0} /\ Len(Tail(E)) = Len(E) - 1
      /\ DOMAIN E = 1..Len(E) /\ DOMAIN Tail(E) = 1..Len(Tail(E))
  OBVIOUS
<1>2. \A i \in DOMAIN Tail(E) : Tail(E)[i] = E[i + 1] /\ i + 1 \in DOMAIN E
  BY <1>1
<1>3. SUFFICES ASSUME NEW i \in DOMAIN Tail(E), LastAt(Tail(E), Tail(E)[i].key, i)
               PROVE  Tail(E)[i].op = "del" <=> t[Tail(E)[i].key] = EmptyHash
  BY Zenon DEF LastTells
<1>4. LastAt(E, E[i + 1].key, i + 1)
  <2>1. ASSUME NEW j \in DOMAIN E, E[j].key = E[i + 1].key
        PROVE  j <= i + 1
    <3>1. CASE j = 1
      BY <3>1, <1>1
    <3>2. CASE j # 1
      <4>1. j - 1 \in DOMAIN Tail(E) /\ Tail(E)[j - 1] = E[j]
        BY <1>1, <3>2
      <4>2. j - 1 <= i
        BY <1>2, <1>3, <2>1, <4>1, Zenon DEF LastAt
      <4> QED
        BY <4>2, <1>1
    <3> QED
      BY <3>1, <3>2, Zenon
  <2> QED
    BY <2>1, Zenon DEF LastAt
<1> QED
  BY <1>2, <1>4 DEF LastTells
-------------------------------------------------------------------------------
(***************************************************************************)
(* Type correctness, and what is empty when.                               *)
(***************************************************************************)
\* HSET gives a hash, and never an empty one.
LEMMA HSetHash ==
  ASSUME NEW h \in Hash, NEW u \in Hash \ {EmptyHash}
  PROVE  HSet(h, u) \in Hash \ {EmptyHash}
<1>1. HSet(h, u) \in Hash
  BY Zenon DEF Hash, HSet
<1>2. PICK f \in Field : u[f] # NoValue
  BY Zenon DEF Hash, EmptyHash
<1>3. HSet(h, u)[f] # EmptyHash[f]
  BY <1>2, Zenon DEF HSet, EmptyHash
<1> QED
  BY <1>1, <1>3, Zenon

\* Types hold before the constructor runs.
LEMMA SubscriberTypeInit == Init => TypeOK
<1>1. EmptyHash \in Hash
  BY Zenon DEF EmptyHash, Hash
<1>2. \A S : <<>> \in Seq(S)
  OBVIOUS
<1> QED
  BY <1>1, <1>2, Zenon DEF Init, TypeOK

\* Every step keeps the variables in their types.
LEMMA SubscriberTypeStep == TypeOK /\ [Next]_vars => TypeOK'
<1> SUFFICES ASSUME TypeOK, [Next]_vars
             PROVE  TypeOK'
  BY Zenon
<1>0. EmptyHash \in Hash
  BY Zenon DEF EmptyHash, Hash
<1>1. \A k \in Key : SetOf(k) \in Kco
  BY Zenon DEF SetOf, Kco, TypeOK
<1>2. \A k \in Key : [key |-> k, op |-> "DEL", fvs |-> EmptyHash] \in Kco
  BY <1>0, Zenon DEF Kco
<1>3. ASSUME NEW k \in Key, NEW u \in Hash \ {EmptyHash}, WriterSet(k, u)
      PROVE  TypeOK'
  <2>1. table' \in [Key -> Hash]
    BY <1>3, HSetHash, Zenon DEF WriterSet, TypeOK
  <2>2. socket' \in Seq(Event)
    <3>1. [key |-> k, op |-> "hset"] \in Event
      BY Zenon DEF Event
    <3> QED
      BY <1>3, <3>1 DEF WriterSet, Notify, TypeOK
  <2> QED
    BY <1>3, <2>1, <2>2, Zenon DEF WriterSet, TypeOK
<1>4. ASSUME NEW k \in Key, WriterDel(k)
      PROVE  TypeOK'
  <2>1. table' \in [Key -> Hash]
    BY <1>0, <1>4, Zenon DEF WriterDel, TypeOK
  <2>2. socket' \in Seq(Event)
    <3>1. [key |-> k, op |-> "del"] \in Event
      BY Zenon DEF Event
    <3> QED
      BY <1>4, <3>1 DEF WriterDel, Notify, TypeOK
  <2> QED
    BY <1>4, <2>1, <2>2, Zenon DEF WriterDel, TypeOK
<1>5. ASSUME NEW k \in Key, NEW f \in Field, WriterHdel(k, f)
      PROVE  TypeOK'
  <2>1. table' \in [Key -> Hash]
    BY <1>5, Zenon DEF WriterHdel, TypeOK, Hash
  <2>2. socket' \in Seq(Event)
    <3>1. [key |-> k, op |-> "hdel"] \in Event /\ [key |-> k, op |-> "del"] \in Event
      BY Zenon DEF Event
    <3> QED
      BY <1>5, <3>1 DEF WriterHdel, Notify, TypeOK
  <2> QED
    BY <1>5, <2>1, <2>2, Zenon DEF WriterHdel, TypeOK
<1>6. CASE Psubscribe \/ GetKeys \/ AddSelectable \/ PopEvents
  BY <1>6, Zenon DEF Psubscribe, GetKeys, AddSelectable, PopEvents, TypeOK
<1>7. CASE ScanKey
  BY <1>1, <1>7 DEF ScanKey, TypeOK
<1>8. CASE Select
  <2>1. PICK n \in 0..Len(socket) :
          /\ socket' = SubSeq(socket, n + 1, Len(socket))
          /\ m_keyspace_event_buffer' = m_keyspace_event_buffer \o SubSeq(socket, 1, n)
    BY <1>8, Zenon DEF Select
  <2>2. socket' \in Seq(Event) /\ m_keyspace_event_buffer' \in Seq(Event)
    BY <2>1 DEF TypeOK
  <2>3. subscriber' \in {"idle", "popping"} /\ m_ready' \in BOOLEAN
    <3> DEFINE more == Len(m_buffer) + Len(m_keyspace_event_buffer') > 1
    <3>1. more \in BOOLEAN
      OBVIOUS
    <3>2. \/ subscriber' = "idle" /\ m_ready' = FALSE
          \/ subscriber' = "popping" /\ m_ready' = more
      BY <1>8, Zenon DEF Select
    <3> HIDE DEF more
    <3> QED
      BY <3>1, <3>2, Zenon
  <2> QED
    BY <1>8, <2>2, <2>3, Zenon DEF Select, TypeOK
<1>9. CASE PopBuffer
  <2>1. /\ <<Head(m_buffer)>> \in Seq(Kco) /\ Tail(m_buffer) \in Seq(Kco)
        /\ m_buffer \in Seq(Kco) /\ seen \in [Key -> Hash]
    BY <1>9 DEF PopBuffer, TypeOK
  <2>2. seen' \in [Key -> Hash]
    BY <1>9, <2>1, ApplyType, Zenon DEF PopBuffer
  <2>3. m_buffer' \in Seq(Kco)
    <3>1. <<>> \in Seq(Kco)
      OBVIOUS
    <3> QED
      BY <1>9, <2>1, <3>1, Zenon DEF PopBuffer
  <2> QED
    BY <1>9, <2>2, <2>3, Zenon DEF PopBuffer, TypeOK
<1>10. CASE PopEvent
  <2>1. Head(m_keyspace_event_buffer) \in Event /\ Tail(m_keyspace_event_buffer) \in Seq(Event)
    BY <1>10 DEF PopEvent, TypeOK
  <2>2. Head(m_keyspace_event_buffer).key \in Key
    BY <2>1, Zenon DEF Event
  <2>3. vkco' \in Seq(Kco)
    BY <1>1, <1>2, <1>10, <2>2 DEF PopEvent, TypeOK
  <2> QED
    BY <1>10, <2>1, <2>3, Zenon DEF PopEvent, TypeOK
<1>11. CASE PopReturn
  <2>1. vkco \in Seq(Kco) /\ seen \in [Key -> Hash]
    BY Zenon DEF TypeOK
  <2>2. CASE vkco # <<>> /\ seen' = Apply(seen, <<Head(vkco)>>) /\ m_buffer' = Tail(vkco)
    <3>1. <<Head(vkco)>> \in Seq(Kco) /\ Tail(vkco) \in Seq(Kco)
      BY <2>1, <2>2
    <3>2. seen' \in [Key -> Hash]
      BY <2>1, <2>2, <3>1, ApplyType, Zenon
    <3> QED
      BY <1>11, <2>2, <3>1, <3>2 DEF PopReturn, TypeOK
  <2>3. CASE seen' = Apply(seen, vkco) /\ m_buffer' = <<>>
    <3>1. seen' \in [Key -> Hash]
      BY <2>1, <2>3, ApplyType, Zenon
    <3> QED
      BY <1>11, <2>3, <3>1 DEF PopReturn, TypeOK
  <2> QED
    BY <1>11, <2>2, <2>3, Zenon DEF PopReturn
<1>12. CASE UNCHANGED vars
  BY <1>12, Zenon DEF vars, TypeOK
<1> QED
  BY <1>3, <1>4, <1>5, <1>6, <1>7, <1>8, <1>9, <1>10, <1>11, <1>12, Zenon DEF Next, Write, Follow

\* What is empty when.
Phases ==
  /\ subscriber \in {"down", "subscribed", "scan"} => /\ m_keyspace_event_buffer = <<>>
                                                      /\ seen = [k \in Key |-> EmptyHash]
  /\ subscriber \in {"down", "subscribed"} => m_buffer = <<>>
  /\ subscriber = "down" => socket = <<>>
  /\ subscriber # "events" => vkco = <<>>
  /\ subscriber = "events" => m_buffer = <<>>

\* Every step leaves the buffers as the phase says.
LEMMA PhasesStep == TypeOK /\ Phases /\ [Next]_vars => Phases'
<1> SUFFICES ASSUME TypeOK, Phases, [Next]_vars
             PROVE  Phases'
  BY Zenon
<1> USE DEF Phases, TypeOK
<1>1. CASE Write
  BY <1>1, Zenon DEF Write, WriterSet, WriterDel, WriterHdel, Notify
<1>2. CASE Psubscribe \/ GetKeys \/ ScanKey \/ AddSelectable \/ PopEvents
  BY <1>2, Zenon DEF Psubscribe, GetKeys, ScanKey, AddSelectable, PopEvents
<1>3. CASE Select
  BY <1>3, Zenon DEF Select
<1>4. CASE PopBuffer \/ PopEvent \/ PopReturn
  BY <1>4, Zenon DEF PopBuffer, PopEvent, PopReturn
<1>5. CASE UNCHANGED vars
  BY <1>5, Zenon DEF vars
<1> QED
  BY <1>1, <1>2, <1>3, <1>4, <1>5, Zenon DEF Next, Follow
-------------------------------------------------------------------------------
(***************************************************************************)
(* The events always tell how their keys have ended.                       *)
(***************************************************************************)
LEMMA AnnouncedEvents ==
  ASSUME TypeOK
  PROVE  \A k : k \in Announced <=> \E i \in DOMAIN Events : Events[i].key = k
<1> DEFINE a == m_keyspace_event_buffer
           b == socket
           c == a \o b
<1>1. /\ a \in Seq(Event) /\ b \in Seq(Event)
      /\ Len(a) \in Nat /\ Len(b) \in Nat /\ Len(c) = Len(a) + Len(b)
      /\ DOMAIN a = 1..Len(a) /\ DOMAIN b = 1..Len(b) /\ DOMAIN c = 1..Len(c)
  BY DEF TypeOK
<1>2. \A i \in DOMAIN a : i \in DOMAIN c /\ c[i] = a[i]
  BY <1>1
<1>3. \A i \in DOMAIN b : Len(a) + i \in DOMAIN c /\ c[Len(a) + i] = b[i]
  BY <1>1
<1>4. \A i \in DOMAIN c : i \in DOMAIN a \/ i - Len(a) \in DOMAIN b
  BY <1>1
<1>5. \A i \in DOMAIN c : i \in DOMAIN a \/ (i - Len(a) \in DOMAIN b /\ c[i] = b[i - Len(a)])
  BY <1>1, <1>3, <1>4
<1>6. Events = c
  BY Zenon DEF Events
<1> HIDE DEF a, b, c
<1>7. \A k : k \in Announced <=> (\E i \in DOMAIN b : b[i].key = k) \/ (\E i \in DOMAIN a : a[i].key = k)
  BY Zenon DEF Announced, a, b
<1> QED
  BY <1>2, <1>3, <1>5, <1>6, <1>7

\* The events of a command are added at the end, once there is a subscription.
LEMMA NotifyEvents ==
  ASSUME TypeOK, Phases, NEW es \in Seq(Event), Notify(es), UNCHANGED m_keyspace_event_buffer
  PROVE  Events' = IF subscriber = "down" THEN <<>> ELSE Events \o es
<1>1. m_keyspace_event_buffer \in Seq(Event) /\ socket \in Seq(Event)
  BY Zenon DEF TypeOK
<1>2. CASE subscriber = "down"
  BY <1>2 DEF Events, Notify, Phases
<1>3. CASE subscriber # "down"
  <2>1. Events' = m_keyspace_event_buffer \o (socket \o es)
    BY <1>3, Zenon DEF Events, Notify
  <2> QED
    BY <1>1, <1>3, <2>1, ConcatAssociative DEF Events
<1> QED
  BY <1>2, <1>3, Zenon

\* Moving the beginning of one sequence to the end of another.
LEMMA MoveFront ==
  ASSUME NEW a \in Seq(Event), NEW b \in Seq(Event), NEW n \in 0..Len(b)
  PROVE  (a \o SubSeq(b, 1, n)) \o SubSeq(b, n + 1, Len(b)) = a \o b
<1>1. Len(b) \in Nat
  OBVIOUS
<1>2. PICK p \in Seq(Event) : p = SubSeq(b, 1, n)
  <2>1. SubSeq(b, 1, n) \in Seq(Event)
    BY <1>1
  <2> QED
    BY <2>1, Zenon
<1>3. PICK q \in Seq(Event) : q = SubSeq(b, n + 1, Len(b))
  <2>1. SubSeq(b, n + 1, Len(b)) \in Seq(Event)
    BY <1>1
  <2> QED
    BY <2>1, Zenon
<1>4. p \o q = b
  <2>1. 1 \in 1..Len(b) + 1 /\ n \in 1 - 1..Len(b) /\ Len(b) \in n..Len(b)
    BY <1>1
  <2>2. SubSeq(b, 1, n) \o SubSeq(b, n + 1, Len(b)) = SubSeq(b, 1, Len(b))
    BY <2>1, ConcatAdjacentSubSeq, Zenon
  <2> QED
    BY <1>2, <1>3, <2>2, SubSeqFull, Zenon
<1>5. (a \o p) \o q = a \o (p \o q)
  BY ConcatAssociative
<1> QED
  BY <1>2, <1>3, <1>4, <1>5, Zenon

\* Reading the socket moves events and changes none.
LEMMA SelectEvents ==
  ASSUME TypeOK, Select
  PROVE  Events' = Events
<1>1. PICK n \in 0..Len(socket) :
        /\ socket' = SubSeq(socket, n + 1, Len(socket))
        /\ m_keyspace_event_buffer' = m_keyspace_event_buffer \o SubSeq(socket, 1, n)
  BY Zenon DEF Select
<1>2. m_keyspace_event_buffer \in Seq(Event) /\ socket \in Seq(Event)
  BY Zenon DEF TypeOK
<1> QED
  BY <1>1, <1>2, MoveFront, Zenon DEF Events

\* The first element of a concatenation, and the rest.
LEMMA TailConcat ==
  ASSUME NEW a \in Seq(Event), a # <<>>, NEW b \in Seq(Event)
  PROVE  /\ a \o b \in Seq(Event) /\ a \o b # <<>>
         /\ Head(a) = (a \o b)[1] /\ Tail(a) \o b = Tail(a \o b)
<1>1. a \o b \in Seq(Event) /\ Len(a \o b) = Len(a) + Len(b) /\ Len(a) \in Nat \ {0} /\ Len(b) \in Nat
  OBVIOUS
<1>2. a \o b # <<>> /\ Head(a) = (a \o b)[1]
  BY <1>1
<1>3. PICK t \in Seq(Event) : t = Tail(a)
  <2>1. Tail(a) \in Seq(Event)
    OBVIOUS
  <2> QED
    BY <2>1, Zenon
<1>4. Len(t) = Len(a) - 1 /\ \A i \in 1..Len(t) : t[i] = a[i + 1]
  BY <1>1, <1>3
<1>5. t \o b \in Seq(Event) /\ Len(t \o b) = Len(t) + Len(b)
  OBVIOUS
<1>6. Tail(a \o b) \in Seq(Event) /\ Len(Tail(a \o b)) = Len(a \o b) - 1
  BY <1>1, <1>2
<1>7. \A i \in 1..Len(t \o b) : (t \o b)[i] = Tail(a \o b)[i]
  BY <1>1, <1>4, <1>5, <1>6
<1>8. t \o b = Tail(a \o b)
  BY <1>1, <1>4, <1>5, <1>6, <1>7, SeqEqual
<1> QED
  BY <1>1, <1>2, <1>3, <1>8, Zenon

\* Processing an event takes it away.
LEMMA PopEventEvents ==
  ASSUME TypeOK, PopEvent
  PROVE  /\ Events \in Seq(Event) /\ Events # <<>>
         /\ Head(m_keyspace_event_buffer) = Events[1] /\ Events' = Tail(Events)
<1>1. /\ m_keyspace_event_buffer \in Seq(Event) /\ m_keyspace_event_buffer # <<>> /\ socket \in Seq(Event)
      /\ Events' = Tail(m_keyspace_event_buffer) \o socket
  BY Zenon DEF PopEvent, Events, TypeOK
<1> QED
  BY <1>1, TailConcat, Zenon DEF Events

\* Every step keeps the last event about a key true to the table.
LEMMA TellsStep ==
  TypeOK /\ Phases /\ LastTells(Events, table) /\ [Next]_vars => LastTells(Events', table')
<1> SUFFICES ASSUME TypeOK, Phases, LastTells(Events, table), [Next]_vars
             PROVE  LastTells(Events', table')
  BY Zenon
<1>1. Events \in Seq(Event)
  BY DEF Events, TypeOK
<1>2. \A t : LastTells(<<>>, t)
  BY DEF LastTells
<1>3. ASSUME NEW k \in Key, NEW u \in Hash \ {EmptyHash}, WriterSet(k, u)
      PROVE  LastTells(Events', table')
  <2> DEFINE es == <<[key |-> k, op |-> "hset"]>>
  <2>1. es \in Seq(Event) /\ es # <<>> /\ Len(es) = 1 /\ DOMAIN es = {1} /\ es[1] = [key |-> k, op |-> "hset"]
    BY DEF Event
  <2>2. Notify(es) /\ UNCHANGED m_keyspace_event_buffer /\ table' = [table EXCEPT ![k] = HSet(@, u)]
    BY <1>3, Zenon DEF WriterSet
  <2> HIDE DEF es
  <2>3. table'[k] # EmptyHash /\ \A j \in Key \ {k} : table'[j] = table[j]
    BY <2>2, HSetHash, Zenon DEF TypeOK
  <2>4. LastTells(Events \o es, table')
    BY <1>1, <2>1, <2>3, WriterTells
  <2> QED
    BY <1>2, <2>1, <2>2, <2>4, NotifyEvents, Zenon
<1>4. ASSUME NEW k \in Key, WriterDel(k)
      PROVE  LastTells(Events', table')
  <2> DEFINE es == <<[key |-> k, op |-> "del"]>>
  <2>1. es \in Seq(Event) /\ es # <<>> /\ Len(es) = 1 /\ DOMAIN es = {1} /\ es[1] = [key |-> k, op |-> "del"]
    BY DEF Event
  <2>2. Notify(es) /\ UNCHANGED m_keyspace_event_buffer /\ table' = [table EXCEPT ![k] = EmptyHash]
    BY <1>4, Zenon DEF WriterDel
  <2> HIDE DEF es
  <2>3. table'[k] = EmptyHash /\ \A j \in Key \ {k} : table'[j] = table[j]
    BY <2>2, Zenon DEF TypeOK
  <2>4. LastTells(Events \o es, table')
    BY <1>1, <2>1, <2>3, WriterTells
  <2> QED
    BY <1>2, <2>1, <2>2, <2>4, NotifyEvents, Zenon
<1>5. ASSUME NEW k \in Key, NEW f \in Field, WriterHdel(k, f)
      PROVE  LastTells(Events', table')
  <2> DEFINE gone == <<[key |-> k, op |-> "hdel"], [key |-> k, op |-> "del"]>>
             less == <<[key |-> k, op |-> "hdel"]>>
  <2>1. /\ gone \in Seq(Event) /\ gone # <<>> /\ Len(gone) = 2 /\ DOMAIN gone = {1, 2}
        /\ gone[1].key = k /\ gone[2].key = k /\ gone[2].op = "del"
        /\ less \in Seq(Event) /\ less # <<>> /\ Len(less) = 1 /\ DOMAIN less = {1}
        /\ less[1].key = k /\ less[1].op = "hdel"
    BY DEF Event
  <2>2. /\ Notify(IF table'[k] = EmptyHash THEN gone ELSE less) /\ UNCHANGED m_keyspace_event_buffer
        /\ \A j \in Key \ {k} : table'[j] = table[j]
    BY <1>5, Zenon DEF WriterHdel, TypeOK
  <2> HIDE DEF gone, less
  <2>3. CASE table'[k] = EmptyHash
    <3>1. \A i \in DOMAIN gone : gone[i].key = k
      BY <2>1, Zenon
    <3>2. gone[Len(gone)].op = "del" <=> table'[k] = EmptyHash
      BY <2>1, <2>3, Zenon
    <3>3. LastTells(Events \o gone, table')
      <4>1. gone \in Seq(Event) /\ gone # <<>>
        BY <2>1, Zenon
      <4>2. \A j \in Key \ {k} : table'[j] = table[j]
        BY <2>2, Zenon
      <4> QED
        BY <1>1, <3>1, <3>2, <4>1, <4>2, WriterTells
    <3> QED
      BY <1>2, <2>1, <2>2, <2>3, <3>3, NotifyEvents, Zenon
  <2>4. CASE table'[k] # EmptyHash
    <3>1. LastTells(Events \o less, table')
      BY <1>1, <2>1, <2>2, <2>4, WriterTells
    <3> QED
      BY <1>2, <2>1, <2>2, <2>4, <3>1, NotifyEvents, Zenon
  <2> QED
    BY <2>3, <2>4, Zenon
<1>6. CASE Select
  BY <1>6, SelectEvents, Zenon DEF Select
<1>7. CASE PopEvent
  BY <1>7, PopEventEvents, TailTells, Zenon DEF PopEvent
<1>8. CASE Psubscribe \/ GetKeys \/ ScanKey \/ AddSelectable \/ PopBuffer \/ PopEvents \/ PopReturn \/ UNCHANGED vars
  BY <1>8, Zenon DEF Psubscribe, GetKeys, ScanKey, AddSelectable, PopBuffer, PopEvents, PopReturn, vars, Events
<1> QED
  BY <1>3, <1>4, <1>5, <1>6, <1>7, <1>8, Zenon DEF Next, Write, Follow
-------------------------------------------------------------------------------
(***************************************************************************)
(* No change is missed.  While the constructor reads, the entries not yet  *)
(* read are not in m_buffer, and those read are up to date or announced.   *)
(***************************************************************************)
ScanInv ==
  subscriber = "scan" =>
    /\ \A k \in scan : \A i \in DOMAIN m_buffer : m_buffer[i].key # k
    /\ \A k \in Key \ scan : k \notin Announced => Apply(seen, m_buffer)[k] = table[k]

FollowInv == TypeOK /\ Phases /\ LastTells(Events, table) /\ ScanInv /\ NoMissedChange

\* The invariant holds before the constructor runs.
LEMMA FollowInit == Init => FollowInv
BY SubscriberTypeInit DEF Init, FollowInv, Phases, LastTells, Events, ScanInv, NoMissedChange

\* A command of a writer announces the key that it changes.
LEMMA WriteAnnounces ==
  ASSUME TypeOK, Phases, Write, subscriber # "down"
  PROVE  \A k \in Key : k \notin Announced' => k \notin Announced /\ table'[k] = table[k]
<1>1. ASSUME NEW k \in Key, NEW es \in Seq(Event), Notify(es), es # <<>>, es[1].key = k,
             UNCHANGED m_keyspace_event_buffer, \A j \in Key \ {k} : table'[j] = table[j]
      PROVE  \A j \in Key : j \notin Announced' => j \notin Announced /\ table'[j] = table[j]
  <2>1. socket \in Seq(Event) /\ socket' = socket \o es
    BY <1>1, Zenon DEF TypeOK, Notify
  <2>2. \A i \in DOMAIN socket : i \in DOMAIN socket' /\ socket'[i] = socket[i]
    BY <2>1, <1>1
  <2>3. Len(socket) + 1 \in DOMAIN socket' /\ socket'[Len(socket) + 1].key = k
    BY <2>1, <1>1
  <2>4. \A j : j \in Announced' <=> \/ \E i \in DOMAIN socket' : socket'[i].key = j
                                   \/ \E i \in DOMAIN m_keyspace_event_buffer : m_keyspace_event_buffer[i].key = j
    BY <1>1, Zenon DEF Announced
  <2>5. \A j : j \in Announced <=> \/ \E i \in DOMAIN socket : socket[i].key = j
                                  \/ \E i \in DOMAIN m_keyspace_event_buffer : m_keyspace_event_buffer[i].key = j
    BY Zenon DEF Announced
  <2> QED
    BY <1>1, <2>2, <2>3, <2>4, <2>5, Zenon
<1>2. ASSUME NEW k \in Key, NEW u, WriterSet(k, u)
      PROVE  \A j \in Key : j \notin Announced' => j \notin Announced /\ table'[j] = table[j]
  <2>1. <<[key |-> k, op |-> "hset"]>> \in Seq(Event) /\ <<[key |-> k, op |-> "hset"]>>[1].key = k
    BY DEF Event
  <2> QED
    BY <1>1, <1>2, <2>1, Zenon DEF WriterSet, TypeOK
<1>3. ASSUME NEW k \in Key, WriterDel(k)
      PROVE  \A j \in Key : j \notin Announced' => j \notin Announced /\ table'[j] = table[j]
  <2>1. <<[key |-> k, op |-> "del"]>> \in Seq(Event) /\ <<[key |-> k, op |-> "del"]>>[1].key = k
    BY DEF Event
  <2> QED
    BY <1>1, <1>3, <2>1, Zenon DEF WriterDel, TypeOK
<1>4. ASSUME NEW k \in Key, NEW f, WriterHdel(k, f)
      PROVE  \A j \in Key : j \notin Announced' => j \notin Announced /\ table'[j] = table[j]
  <2> DEFINE es == IF table'[k] = EmptyHash
                   THEN <<[key |-> k, op |-> "hdel"], [key |-> k, op |-> "del"]>>
                   ELSE <<[key |-> k, op |-> "hdel"]>>
  <2>1. es \in Seq(Event) /\ es # <<>> /\ es[1].key = k
    <3>1. CASE table'[k] = EmptyHash
      BY <3>1 DEF Event
    <3>2. CASE table'[k] # EmptyHash
      BY <3>2 DEF Event
    <3> QED
      BY <3>1, <3>2, Zenon
  <2>2. Notify(es) /\ UNCHANGED m_keyspace_event_buffer /\ \A j \in Key \ {k} : table'[j] = table[j]
    BY <1>4, Zenon DEF WriterHdel, TypeOK
  <2> HIDE DEF es
  <2> QED
    BY <1>1, <2>1, <2>2, Zenon
<1> QED
  BY <1>2, <1>3, <1>4, Zenon DEF Write

\* Every step keeps the invariant.
LEMMA FollowStep == FollowInv /\ [Next]_vars => FollowInv'
<1> SUFFICES ASSUME FollowInv, [Next]_vars
             PROVE  FollowInv'
  BY Zenon
<1>0. TypeOK' /\ Phases' /\ LastTells(Events', table')
  BY SubscriberTypeStep, PhasesStep, TellsStep, Zenon DEF FollowInv
<1> SUFFICES ScanInv' /\ NoMissedChange'
  BY <1>0, Zenon DEF FollowInv
<1>1. TypeOK /\ Phases /\ ScanInv /\ NoMissedChange /\ LastTells(Events, table)
  BY Zenon DEF FollowInv
<1>2. /\ m_buffer \in Seq(Kco) /\ vkco \in Seq(Kco) /\ seen \in [Key -> Hash] /\ table \in [Key -> Hash]
      /\ \A k \in Key : SetOf(k) \in Kco
  BY <1>1, Zenon DEF TypeOK, SetOf, Kco
<1>3. /\ m_buffer \o <<>> = m_buffer /\ vkco \o <<>> = vkco /\ <<>> \o vkco = vkco
      /\ <<>> \in Seq(Kco)
  BY <1>2, ConcatEmptySeq
<1>4. CASE Write
  <2>1. UNCHANGED <<subscriber, scan, m_buffer, vkco, seen>>
    BY <1>4, Zenon DEF Write, WriterSet, WriterDel, WriterHdel
  <2>2. CASE subscriber = "down"
    BY <2>1, <2>2, Zenon DEF ScanInv, NoMissedChange
  <2>3. CASE subscriber # "down"
    <3>1. \A k \in Key : k \notin Announced' => k \notin Announced /\ table'[k] = table[k]
      BY <1>1, <1>4, <2>3, WriteAnnounces, Zenon
    <3>2. ScanInv'
      BY <1>1, <2>1, <3>1 DEF ScanInv, Apply
    <3>3. Apply(seen', m_buffer' \o vkco') = Apply(seen, m_buffer \o vkco)
      BY <2>1, Zenon
    <3>4. NoMissedChange'
      BY <1>1, <2>1, <3>1, <3>3, Zenon DEF NoMissedChange
    <3> QED
      BY <3>2, <3>4, Zenon
  <2> QED
    BY <2>2, <2>3, Zenon
<1>5. CASE Psubscribe
  BY <1>5, Zenon DEF Psubscribe, ScanInv, NoMissedChange
<1>6. CASE GetKeys
  <2>1. m_buffer' = <<>> /\ seen' = [k \in Key |-> EmptyHash]
    BY <1>1, <1>6, Zenon DEF GetKeys, Phases
  <2>2. \A k \in Key : Apply(seen', m_buffer')[k] = EmptyHash
    BY <2>1, ApplyNothing, Zenon
  <2> QED
    BY <1>6, <2>1, <2>2 DEF GetKeys, ScanInv, NoMissedChange
<1>7. CASE ScanKey
  <2>1. PICK k \in scan : /\ scan' = scan \ {k}
                          /\ m_buffer' = IF table[k] = EmptyHash THEN m_buffer ELSE Append(m_buffer, SetOf(k))
    BY <1>7, Zenon DEF ScanKey
  <2>2. /\ subscriber = "scan" /\ subscriber' = "scan" /\ table' = table /\ seen' = seen /\ Announced' = Announced
        /\ k \in Key /\ seen[k] = EmptyHash
    BY <1>1, <1>7, Zenon DEF ScanKey, Announced, TypeOK, Phases
  <2> DEFINE Goal == /\ Apply(seen, m_buffer')[k] = table[k]
                     /\ \A j \in Key \ {k} : Apply(seen, m_buffer')[j] = Apply(seen, m_buffer)[j]
  <2>a. ASSUME table[k] = EmptyHash PROVE Goal
    <3>1. m_buffer' = m_buffer
      BY <2>1, <2>a, Zenon
    <3>2. Apply(seen, m_buffer)[k] = table[k]
      BY <1>1, <1>2, <2>2, <2>a, ApplyAt, Zenon DEF ScanInv
    <3> QED
      BY <3>1, <3>2, Zenon
  <2>b. ASSUME table[k] # EmptyHash PROVE Goal
    <3> DEFINE x == SetOf(k)
    <3>1. x \in Kco /\ x.key = k /\ x.fvs = table[k]
      BY <1>1, <2>2, <2>b, Zenon DEF SetOf, Kco, TypeOK
    <3>2. m_buffer' = Append(m_buffer, x)
      BY <2>1, <2>b, Zenon
    <3> HIDE DEF x
    <3>3. \A j \in Key : Apply(seen, Append(m_buffer, x))[j] = IF x.key = j THEN x.fvs ELSE Apply(seen, m_buffer)[j]
      <4>1. m_buffer \in Seq(Kco) /\ x \in Kco
        BY <1>2, <3>1, Zenon
      <4> QED
        BY <4>1, ApplyAppend, Zenon
    <3> QED
      BY <2>2, <3>1, <3>2, <3>3, Zenon
  <2>3. \A j \in Key \ {k} : Apply(seen, m_buffer')[j] = Apply(seen, m_buffer)[j]
    BY <2>a, <2>b, Zenon
  <2>4. Apply(seen, m_buffer')[k] = table[k]
    BY <2>a, <2>b, Zenon
  <2>5. \A j \in scan' : \A i \in DOMAIN m_buffer' : m_buffer'[i].key # j
    BY <1>1, <1>2, <2>1, <2>2 DEF ScanInv, SetOf
  <2> QED
    BY <1>1, <2>1, <2>2, <2>3, <2>4, <2>5, Zenon DEF ScanInv, NoMissedChange
<1>8. CASE AddSelectable
  <2>1. vkco = <<>> /\ scan = {} /\ UNCHANGED <<table, socket, m_keyspace_event_buffer, m_buffer, vkco, seen>>
    BY <1>1, <1>8, Zenon DEF AddSelectable, Phases
  <2>2. Announced' = Announced
    BY <2>1, Zenon DEF Announced
  <2> QED
    BY <1>1, <1>3, <1>8, <2>1, <2>2, Zenon DEF AddSelectable, ScanInv, NoMissedChange
<1>9. CASE Select
  <2>1. \A k : k \in Announced' <=> k \in Announced
    <3>1. (\A k : k \in Announced <=> \E i \in DOMAIN Events : Events[i].key = k)'
      BY <1>0, AnnouncedEvents, PTL
    <3> QED
      BY <1>1, <1>9, <3>1, AnnouncedEvents, SelectEvents, Zenon
  <2>2. /\ subscriber = "idle" /\ subscriber' \in {"idle", "popping"}
        /\ UNCHANGED <<table, m_buffer, vkco, seen>>
    BY <1>9, Zenon DEF Select
  <2>3. Apply(seen', m_buffer' \o vkco') = Apply(seen, m_buffer \o vkco)
    BY <2>2, Zenon
  <2> QED
    BY <1>1, <2>1, <2>2, <2>3, Zenon DEF ScanInv, NoMissedChange
<1>10. CASE PopBuffer
  <2>1. subscriber = "popping" /\ vkco = <<>> /\ vkco' = <<>> /\ table' = table /\ Announced' = Announced
    BY <1>1, <1>10, Zenon DEF PopBuffer, Phases, Announced
  <2>2. \A k \in Key : Apply(seen', m_buffer')[k] = Apply(seen, m_buffer)[k]
    <3>1. CASE seen' = Apply(seen, <<Head(m_buffer)>>) /\ m_buffer' = Tail(m_buffer)
      BY <1>2, <1>10, <3>1, ApplyHeadTail, Zenon DEF PopBuffer
    <3>2. CASE seen' = Apply(seen, m_buffer) /\ m_buffer' = <<>>
      BY <3>2, ApplyNothing, Zenon
    <3> QED
      BY <1>10, <3>1, <3>2, Zenon DEF PopBuffer
  <2>3. m_buffer' \o <<>> = m_buffer'
    BY <1>0, ConcatEmptySeq, Zenon DEF TypeOK
  <2> QED
    BY <1>1, <1>3, <1>10, <2>1, <2>2, <2>3 DEF PopBuffer, ScanInv, NoMissedChange
<1>11. CASE PopEvents
  BY <1>1, <1>11 DEF PopEvents, ScanInv, NoMissedChange, Announced
<1>12. CASE PopEvent
  <2> DEFINE e == Head(m_keyspace_event_buffer)
  <2>1. /\ Events \in Seq(Event) /\ Events # <<>> /\ e = Events[1] /\ Events' = Tail(Events)
        /\ e \in Event /\ e.key \in Key
    <3>1. Events \in Seq(Event) /\ Events # <<>> /\ e = Events[1] /\ Events' = Tail(Events)
      BY <1>1, <1>12, PopEventEvents, Zenon
    <3>2. e \in Event
      BY <1>1, <1>12 DEF PopEvent, TypeOK
    <3> QED
      BY <3>1, <3>2, Zenon DEF Event
  <2>2. /\ subscriber = "events" /\ subscriber' = "events" /\ m_buffer = <<>> /\ m_buffer' = <<>>
        /\ table' = table /\ seen' = seen
        /\ vkco' = IF e.op = "del" THEN Append(vkco, [key |-> e.key, op |-> "DEL", fvs |-> EmptyHash])
                   ELSE IF table[e.key] = EmptyHash THEN vkco ELSE Append(vkco, SetOf(e.key))
    BY <1>1, <1>12, Zenon DEF PopEvent, Phases
  <2>3. [key |-> e.key, op |-> "DEL", fvs |-> EmptyHash] \in Kco
    BY <2>1, Zenon DEF Kco, Hash, EmptyHash
  <2> HIDE DEF e
  <2>4. \A k \in Key \ {e.key} : Apply(seen, vkco')[k] = Apply(seen, vkco)[k]
    BY <1>2, <2>1, <2>2, <2>3, ApplyAppend DEF SetOf
  <2>5. \A k : k \in Announced <=> \E i \in DOMAIN Events : Events[i].key = k
    BY <1>1, AnnouncedEvents, Zenon
  <2>6. \A k : k \in Announced' <=> \E i \in DOMAIN Events' : Events'[i].key = k
    <3>1. (\A k : k \in Announced <=> \E i \in DOMAIN Events : Events[i].key = k)'
      BY <1>0, AnnouncedEvents, PTL
    <3> QED
      BY <3>1, Zenon
  <2>7. /\ \A i \in DOMAIN Events : i = 1 \/ (i - 1 \in DOMAIN Tail(Events) /\ Tail(Events)[i - 1] = Events[i])
        /\ 1 \in DOMAIN Events
    BY <2>1
  <2>8. ASSUME NEW k \in Key \ {e.key}, k \in Announced
        PROVE  k \in Announced'
    <3>1. PICK i \in DOMAIN Events : Events[i].key = k
      BY <2>5, <2>8, Zenon
    <3>2. i # 1
      BY <2>1, <2>8, <3>1, Zenon
    <3>3. i - 1 \in DOMAIN Events' /\ Events'[i - 1].key = k
      BY <2>1, <2>7, <3>1, <3>2, Zenon
    <3> QED
      BY <2>6, <3>3, Zenon
  <2>9. ASSUME e.key \notin Announced'
        PROVE  Apply(seen, vkco')[e.key] = table[e.key]
    <3>1. \A i \in DOMAIN Events : Events[i].key = e.key => i = 1
      BY <2>1, <2>6, <2>7, <2>9, Zenon
    <3>2. LastAt(Events, Events[1].key, 1)
      BY <2>1, <3>1 DEF LastAt
    <3>3. e.op = "del" <=> table[e.key] = EmptyHash
      BY <1>1, <2>1, <2>7, <3>2, Zenon DEF LastTells
    <3>0. e.key \in Key /\ vkco \in Seq(Kco)
      BY <1>2, <2>1, Zenon
    <3>4. CASE e.op = "del"
      <4>1. PICK x \in Kco : x = [key |-> e.key, op |-> "DEL", fvs |-> EmptyHash]
        BY <2>3, Zenon
      <4>2. vkco' = Append(vkco, x) /\ x.key = e.key /\ x.fvs = table[e.key]
        BY <2>2, <3>3, <3>4, <4>1, Zenon
      <4>3. Apply(seen, Append(vkco, x))[e.key] = IF x.key = e.key THEN x.fvs ELSE Apply(seen, vkco)[e.key]
        BY <3>0, ApplyAppend, Zenon
      <4> QED
        BY <4>2, <4>3, Zenon
    <3>5. CASE e.op # "del"
      <4>1. SetOf(e.key) \in Kco /\ SetOf(e.key).key = e.key /\ SetOf(e.key).fvs = table[e.key]
        BY <1>2, <2>1, Zenon DEF SetOf
      <4>2. vkco' = Append(vkco, SetOf(e.key))
        BY <2>2, <3>3, <3>5, Zenon
      <4>3. PICK x \in Kco : x = SetOf(e.key)
        BY <4>1, Zenon
      <4>4. Apply(seen, Append(vkco, x))[e.key] = IF x.key = e.key THEN x.fvs ELSE Apply(seen, vkco)[e.key]
        BY <3>0, ApplyAppend, Zenon
      <4> QED
        BY <4>1, <4>2, <4>3, <4>4, Zenon
    <3> QED
      BY <3>4, <3>5, Zenon
  <2>10. \A k \in Key \ Announced' : Apply(seen, vkco')[k] = table[k]
    BY <1>1, <1>3, <2>2, <2>4, <2>8, <2>9, Zenon DEF NoMissedChange
  <2>11. <<>> \o vkco' = vkco'
    BY <1>0, ConcatEmptySeq, Zenon DEF TypeOK
  <2> QED
    BY <2>2, <2>10, <2>11, Zenon DEF ScanInv, NoMissedChange
<1>13. CASE PopReturn
  <2>1. /\ subscriber = "events" /\ subscriber' = "idle" /\ m_buffer = <<>> /\ vkco' = <<>>
        /\ table' = table /\ Announced' = Announced
    BY <1>1, <1>13, Zenon DEF PopReturn, Phases, Announced
  <2>2. \A k \in Key : Apply(seen', m_buffer')[k] = Apply(seen, vkco)[k]
    <3>1. CASE vkco # <<>> /\ seen' = Apply(seen, <<Head(vkco)>>) /\ m_buffer' = Tail(vkco)
      BY <1>2, <3>1, ApplyHeadTail, Zenon
    <3>2. CASE seen' = Apply(seen, vkco) /\ m_buffer' = <<>>
      BY <3>2, ApplyNothing, Zenon
    <3> QED
      BY <1>13, <3>1, <3>2, Zenon DEF PopReturn
  <2>3. m_buffer' \o <<>> = m_buffer'
    BY <1>0, ConcatEmptySeq, Zenon DEF TypeOK
  <2>4. \A k \in Key \ Announced : Apply(seen, vkco)[k] = table[k]
    BY <1>1, <1>3, <2>1, Zenon DEF NoMissedChange
  <2> QED
    BY <2>1, <2>2, <2>3, <2>4, Zenon DEF ScanInv, NoMissedChange
<1>14. CASE UNCHANGED vars
  BY <1>1, <1>14, Zenon DEF vars, ScanInv, NoMissedChange, Announced
<1> QED
  BY <1>4, <1>5, <1>6, <1>7, <1>8, <1>9, <1>10, <1>11, <1>12, <1>13, <1>14, Zenon DEF Next, Follow

\* No change is missed, whatever writers do while the subscription is made, the
\* entries are read or older events are processed.
THEOREM NoChangeMissed == Spec => []NoMissedChange
<1>1. FollowInv => NoMissedChange
  BY Zenon DEF FollowInv
<1> QED
  BY <1>1, FollowInit, FollowStep, PTL DEF Spec
-------------------------------------------------------------------------------
(***************************************************************************)
(* The object is in Select's ready set while it holds something.           *)
(***************************************************************************)
\* An object outside the ready set holds at most what the next pop() takes away: in
\* the loop nothing, once it has been returned one entry or event, of which pops()
\* makes at most one entry.
AwakeInv ==
  /\ subscriber = "idle" /\ ~m_ready => m_buffer = <<>> /\ m_keyspace_event_buffer = <<>>
  /\ subscriber \in {"popping", "events"} /\ ~m_ready =>
       Len(m_buffer) + Len(m_keyspace_event_buffer) + Len(vkco) <= 1

\* Every step keeps a subscriber with data ready for the Select.
LEMMA AwakeStep ==
  ASSUME TypeOK, Phases, AwakeInv, [Next]_vars
  PROVE  AwakeInv'
<1>1. /\ Len(m_buffer) \in Nat /\ Len(m_keyspace_event_buffer) \in Nat /\ Len(vkco) \in Nat
      /\ m_buffer = <<>> <=> Len(m_buffer) = 0
      /\ m_keyspace_event_buffer = <<>> <=> Len(m_keyspace_event_buffer) = 0
      /\ vkco = <<>> <=> Len(vkco) = 0
  BY DEF TypeOK
<1>2. CASE Write \/ UNCHANGED vars
  BY <1>2, Zenon DEF Write, WriterSet, WriterDel, WriterHdel, vars, AwakeInv
<1>3. CASE Psubscribe \/ GetKeys \/ ScanKey
  BY <1>3, Zenon DEF Psubscribe, GetKeys, ScanKey, AwakeInv
<1>4. CASE AddSelectable
  BY <1>4, Zenon DEF AddSelectable, AwakeInv, Phases
<1>5. CASE Select
  <2>1. subscriber = "idle" /\ vkco' = <<>> /\ m_buffer' = m_buffer /\ Len(<<>>) = 0
    BY <1>5, Zenon DEF Select, Phases
  <2>2. CASE m_buffer = <<>> /\ m_keyspace_event_buffer' = <<>>
    BY <1>5, <2>1, <2>2, Zenon DEF Select, AwakeInv
  <2>3. CASE ~(m_buffer = <<>> /\ m_keyspace_event_buffer' = <<>>)
    <3>1. m_ready' <=> Len(m_buffer) + Len(m_keyspace_event_buffer') > 1
      BY <1>5, <2>3, Zenon DEF Select
    <3>2. Len(m_keyspace_event_buffer') \in Nat
      BY SubscriberTypeStep DEF TypeOK
    <3>3. subscriber' = "popping"
      BY <1>5, <2>3, Zenon DEF Select
    <3>4. ~m_ready' => Len(m_buffer') + Len(m_keyspace_event_buffer') + Len(vkco') <= 1
      BY <1>1, <2>1, <3>1, <3>2
    <3> QED
      BY <3>3, <3>4, Zenon DEF AwakeInv
  <2> QED
    BY <2>2, <2>3, Zenon
<1>6. CASE PopBuffer
  <2>1. Len(m_buffer) > 0 /\ vkco = <<>>
    BY <1>1, <1>6 DEF PopBuffer, Phases
  <2>2. m_buffer' = <<>> \/ (m_buffer' = Tail(m_buffer) /\ Len(Tail(m_buffer)) = Len(m_buffer) - 1)
    BY <1>6 DEF PopBuffer, TypeOK
  <2>3. subscriber = "popping" /\ subscriber' = "idle" /\ UNCHANGED <<m_ready, m_keyspace_event_buffer, vkco>>
    BY <1>6, Zenon DEF PopBuffer
  <2>4. ~m_ready => Len(m_buffer) = 1 /\ Len(m_keyspace_event_buffer) = 0
    <3> SUFFICES ASSUME ~m_ready
                 PROVE  Len(m_buffer) = 1 /\ Len(m_keyspace_event_buffer) = 0
      BY Zenon
    <3>1. Len(m_buffer) + Len(m_keyspace_event_buffer) + Len(vkco) <= 1
      BY <2>3, Zenon DEF AwakeInv
    <3>2. /\ Len(m_buffer) \in Nat /\ Len(m_keyspace_event_buffer) \in Nat /\ Len(vkco) \in Nat
          /\ Len(m_buffer) > 0
      BY <1>1, <2>1, Zenon
    <3>3. \A x, y, z \in Nat : x + y + z <= 1 /\ x > 0 => x = 1 /\ y = 0
      OBVIOUS
    <3> QED
      BY <3>1, <3>2, <3>3, Zenon
  <2>5. ~m_ready => m_buffer' = <<>>
    BY <2>2, <2>4, <1>6 DEF PopBuffer, TypeOK
  <2> QED
    BY <1>1, <2>3, <2>4, <2>5, Zenon DEF AwakeInv
<1>7. CASE PopEvents
  BY <1>7, Zenon DEF PopEvents, AwakeInv
<1>8. CASE PopEvent
  <2>1. Len(m_keyspace_event_buffer') = Len(m_keyspace_event_buffer) - 1
    BY <1>8 DEF PopEvent, TypeOK
  <2>2. Len(vkco') <= Len(vkco) + 1 /\ Len(vkco') \in Nat
    BY <1>8 DEF PopEvent, TypeOK
  <2>3. subscriber = "events" /\ subscriber' = "events" /\ UNCHANGED <<m_buffer, m_ready>>
    BY <1>8, Zenon DEF PopEvent
  <2> QED
    BY <1>1, <2>1, <2>2, <2>3 DEF AwakeInv
<1>9. CASE PopReturn
  <2>1. /\ subscriber = "events" /\ subscriber' = "idle" /\ UNCHANGED <<m_ready, m_keyspace_event_buffer>>
        /\ m_keyspace_event_buffer = <<>>
    BY <1>9, Zenon DEF PopReturn
  <2>2. ~m_ready => Len(vkco) <= 1
    BY <1>1, <2>1 DEF AwakeInv
  <2>3. ~m_ready => m_buffer' = <<>>
    BY <1>9, <2>2 DEF PopReturn, TypeOK
  <2> QED
    BY <2>1, <2>3, Zenon DEF AwakeInv
<1> QED
  BY <1>2, <1>3, <1>4, <1>5, <1>6, <1>7, <1>8, <1>9, Zenon DEF Next, Follow

\* The application is woken for everything the object holds: an object with entries
\* or events is in the ready set whenever the application is back in select().
THEOREM NeverAsleepWithData == Spec => []ReadyWhenData
<1> DEFINE I == TypeOK /\ Phases /\ AwakeInv
<1>1. Init => I
  BY SubscriberTypeInit, Zenon DEF Init, Phases, AwakeInv
<1>2. I /\ [Next]_vars => I'
  BY SubscriberTypeStep, PhasesStep, AwakeStep, Zenon
<1>3. I => ReadyWhenData
  BY Zenon DEF AwakeInv, ReadyWhenData
<1> QED
  BY <1>1, <1>2, <1>3, PTL DEF Spec

\* A subscriber loses no change, whenever it comes, and is ready for the Select while it holds one.
THEOREM SubscriberFollows == Spec => []FollowsTable
BY NoChangeMissed, NeverAsleepWithData, PTL DEF FollowsTable
==============================================================================
