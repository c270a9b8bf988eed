----------------------------- MODULE EventsProofs -----------------------------
(***************************************************************************)
(* Proofs about Events: types, the accounting of received and missed       *)
(* events, the bound of the table of ids, and the handover between         *)
(* subscribers through the cache.                                          *)
(***************************************************************************)
EXTENDS Events, TLAPS

Modulus == SEQUENCE_MAX + 1
Base(r) == IF r = 1 THEN Before ELSE 0

Queued == Elements(cache) \cup Elements(socket) \cup Elements(m_from_cache) \cup Elements(drained)

\* Every event that was sent and is remembered anywhere.
Known == seen \cup mine \cup twice \cup accepted \cup gone \cup Queued

\* The int that event_receive() computes is the difference: what is on its way
\* is less than half of the numbers from what the subscriber has last received.
WithinWindow ==
  \A e \in Queued :
    e.rid \in DOMAIN m_track =>
      /\ e.n - account[e.rid].last <= Modulus \div 2
      /\ account[e.rid].last - e.n < Modulus \div 2

\* Fewer events are sent than half of the numbers.
FewerThanHalf == MaxSent <= Modulus \div 2

\* Numbers: every event was sent, and what is tracked is an event.
NumbersInv ==
  /\ \A r \in Id : Base(r) <= sent[r] /\ sent[r] <= Base(r) + events
  /\ \A e \in Known : Base(e.rid) < e.n /\ e.n <= sent[e.rid]
  /\ account \in [Id -> [first : Int, last : Int, got : Int, missed : Int]]
  /\ \A r \in DOMAIN m_track : Base(r) < account[r].last /\ account[r].last <= sent[r]

TypeInv == TypeOK /\ NumbersInv

TrackInv == TrackingExact /\ \A r \in DOMAIN m_track : m_track[r].epoch <= now

\* Run-time ids: one source each.
IdsInv ==
  /\ \A s \in Source : s_publishers[s] <= ids
  /\ \A s, t \in Source : s_publishers[s] \in Id /\ s_publishers[s] = s_publishers[t] => s = t
  /\ \A e \in Known : e.rid <= ids
  /\ \A e \in Known, s \in Source : s_publishers[s] = e.rid => e.src = s
  /\ \A e, f \in Known : e.rid = f.rid => e.src = f.src

\* What the subscriber has received is tracked.
MineInv ==
  /\ NoDuplicates
  /\ sub \in {"connected", "running"} =>
       \A e \in mine : e.rid \in forgotten \/ (e.rid \in DOMAIN m_track /\ e.n <= account[e.rid].last)

Pending == accepted \ (seen \cup gone)

\* In a queue, e comes before every event of its id that is not older.
Leads(e, q) ==
  \A i \in DOMAIN q : q[i].rid = e.rid /\ q[i].n >= e.n => \E k \in 1..i : q[k] = e

\* The same for three queues that are read one after the other.
LeadsAll(e, x, y, z) ==
  /\ Leads(e, x)
  /\ e \in Elements(x) \/ Leads(e, y)
  /\ e \in Elements(x) \cup Elements(y) \/ Leads(e, z)

\* The part of the cache that this subscriber will read.
MyCache ==
  IF \/ sub = "connected" /\ eventd = "caching"
     \/ sub = "running" /\ m_cache_read /\ eventd = "stopped"
  THEN cache ELSE <<>>

\* Where nothing waits.
PlacesInv ==
  /\ sub \in {"none", "hung"} => socket = <<>> /\ drained = <<>> /\ m_from_cache = <<>>
  /\ sub \in {"connected", "running"} => drained = <<>>
  /\ sub # "running" => m_from_cache = <<>> /\ m_cache_read = FALSE /\ m_track = <<>>
  /\ eventd \in {"idle", "down"} => cache = <<>>
  /\ \A e \in Elements(socket) \cup Elements(drained) : e.src \in sources

\* What this subscriber will read.
ReadingInv ==
  sub \in {"connected", "running"} =>
    \A e \in Pending :
      e \in Elements(m_from_cache) \cup Elements(MyCache) \cup Elements(socket) =>
        /\ LeadsAll(e, m_from_cache, MyCache, socket)
        /\ e.rid \in DOMAIN m_track => account[e.rid].last < e.n

\* What is cached for this or the next subscriber.
CachingInv ==
  /\ eventd = "caching" => \A e \in Pending : e \in Elements(cache) => Leads(e, cache)
  /\ sub = "connected" /\ eventd = "caching" =>
       \A e \in Pending : e \in Elements(socket) => e \in Elements(cache)

\* What a destructor hands over.
HandingInv ==
  eventd = "init" =>
    /\ sub = "draining" =>
         \A e \in Pending :
           /\ e \in Elements(drained) \cup Elements(socket) \cup Elements(cache) =>
                LeadsAll(e, drained, socket, cache)
           /\ e \in Elements(cache) /\ e.src \in sources => e \in Elements(drained) \cup Elements(socket)
    /\ sub = "drained" =>
         \A e \in Pending :
           /\ e \in Elements(drained) \cup Elements(cache) => LeadsAll(e, drained, cache, <<>>)
           /\ e \in Elements(socket) => e \in Elements(cache)

HandoverInv ==
  /\ NothingLostAtHandover
  /\ PlacesInv
  /\ ReadingInv
  /\ CachingInv
  /\ HandingInv
-------------------------------------------------------------------------------
(***************************************************************************)
(* Arithmetic of sequence numbers.                                         *)
(***************************************************************************)
\* Quotient and remainder.
LEMMA DivMod ==
  ASSUME NEW a \in Int, NEW m \in Nat \ {0}
  PROVE  \E q \in Int : \E r \in 0..m - 1 : a = q * m + r /\ a % m = r
<1> DEFINE q == a \div m
<1> DEFINE r == a % m
<1>1. r \in 0..m - 1 /\ q \in Int /\ r = a - q * m
  OBVIOUS
<1> HIDE DEF q
<1>2. a = q * m + r
  BY <1>1
<1> QED
  BY <1>1, <1>2, Zenon

\* A multiple smaller than the number itself.
LEMMA Multiple ==
  ASSUME NEW q \in Int, NEW m \in Nat \ {0}, -m < q * m, q * m < m
  PROVE  q = 0
<1>1. q >= 1 => q * m >= m
  OBVIOUS
<1>2. q <= -1 => q * m <= -m
  OBVIOUS
<1> QED
  BY <1>1, <1>2

\* The remainder is the only one.
LEMMA ModUnique ==
  ASSUME NEW q \in Int, NEW m \in Nat \ {0}, NEW r \in 0..m - 1
  PROVE  (q * m + r) % m = r
<1>1. PICK p \in Int, s \in 0..m - 1 : q * m + r = p * m + s /\ (q * m + r) % m = s
  <2>1. q * m + r \in Int
    OBVIOUS
  <2> QED
    BY <2>1, DivMod, Zenon
<1>2. (q - p) * m = s - r
  BY <1>1
<1>3. q - p = 0
  <2>1. -m < s - r /\ s - r < m
    OBVIOUS
  <2> QED
    BY <1>2, <2>1, Multiple
<1>4. 0 * m = 0
  OBVIOUS
<1> QED
  BY <1>1, <1>2, <1>3, <1>4

\* The modulus is even, and positive ints are its lower half.
LEMMA Half ==
  /\ Modulus \in Nat \ {0}
  /\ SEQUENCE_MAX = Modulus - 1
  /\ Sequence = 0..Modulus - 1
  /\ \E h \in Nat \ {0} : Modulus = 2 * h /\ Modulus \div 2 = h /\ SEQUENCE_MAX \div 2 = h - 1
<1>1. PICK h \in 1..2^SeqWidth : 2^SeqWidth = 2 * h
  BY EventsAssumption, Zenon
<1> DEFINE m == 2^SeqWidth
<1> HIDE DEF m
<1>2. h \in Nat \ {0} /\ m = 2 * h
  BY <1>1 DEF m
<1>3. SEQUENCE_MAX = m - 1 /\ Modulus = m
  BY <1>2 DEF SEQUENCE_MAX, Modulus, m
<1>4. m \div 2 = h /\ (m - 1) \div 2 = h - 1
  BY <1>2
<1> QED
  BY <1>2, <1>3, <1>4 DEF Sequence

\* this_missed_cnt, computed from the numbers that roll over, is the number of
\* events in between, or negative for what is not newer.
LEMMA Missed ==
  ASSUME NEW n \in Int, NEW l \in Int, n - l <= Modulus \div 2, l - n < Modulus \div 2
  PROVE  ThisMissedCnt(n % Modulus, l % Modulus) = n - l - 1
<1>1. PICK h \in Nat \ {0} : Modulus = 2 * h /\ Modulus \div 2 = h /\ SEQUENCE_MAX \div 2 = h - 1
  BY Half, Zenon
<1> DEFINE a == n % Modulus
<1> DEFINE b == l % Modulus
<1> DEFINE x == IF a # 0 THEN a - b - 1 ELSE SEQUENCE_MAX - b
<1>2. a \in 0..Modulus - 1 /\ b \in 0..Modulus - 1
  BY Half
<1>3. SEQUENCE_MAX = Modulus - 1
  BY Half, Zenon
<1>4. x \in Int
  <2> HIDE DEF a, b
  <2> QED
    BY <1>1, <1>2, <1>3
<1> DEFINE d == n - l - 1
<1> DEFINE y == IF d >= 0 THEN d ELSE d + Modulus
<1>5. y \in 0..Modulus - 1
  BY <1>1
<1>6. x % Modulus = y
  <2>a. PICK q \in Int, a1 \in 0..Modulus - 1 : n = q * Modulus + a1 /\ n % Modulus = a1
    BY Half, DivMod, Zenon
  <2>b. PICK p \in Int, b1 \in 0..Modulus - 1 : l = p * Modulus + b1 /\ l % Modulus = b1
    BY Half, DivMod, Zenon
  <2>1. n = q * Modulus + a /\ l = p * Modulus + b
    BY <2>a, <2>b, Zenon
  <2> HIDE DEF a, b
  <2>2. \E k \in Int : x = k * Modulus + y
    <3>1. CASE a # 0 /\ d >= 0
      <4>1. x = (p - q) * Modulus + y
        BY <1>1, <1>2, <2>1, <3>1
      <4> QED
        BY <4>1
    <3>2. CASE a # 0 /\ d < 0
      <4>1. x = (p - q - 1) * Modulus + y
        BY <1>1, <1>2, <2>1, <3>2
      <4> QED
        BY <4>1
    <3>3. CASE a = 0 /\ d >= 0
      <4>1. x = (p - q + 1) * Modulus + y
        BY <1>1, <1>2, <1>3, <2>1, <3>3
      <4> QED
        BY <4>1
    <3>4. CASE a = 0 /\ d < 0
      <4>1. x = (p - q) * Modulus + y
        BY <1>1, <1>2, <1>3, <2>1, <3>4
      <4> QED
        BY <4>1
    <3> QED
      BY <3>1, <3>2, <3>3, <3>4
  <2> HIDE DEF x, y
  <2>3. PICK k \in Int : x = k * Modulus + y
    BY <2>2, Zenon
  <2>4. (k * Modulus + y) % Modulus = y
    BY <1>5, Half, ModUnique, Zenon
  <2> QED
    BY <2>3, <2>4, Zenon
<1>7. ThisMissedCnt(a, b) = ToInt(x)
  BY Zenon DEF ThisMissedCnt
<1>8. ToInt(x) = d
  <2> HIDE DEF x
  <2>1. Modulus = SEQUENCE_MAX + 1
    BY Zenon DEF Modulus
  <2> QED
    BY <1>1, <1>6, <2>1 DEF ToInt
<1> QED
  BY <1>7, <1>8
-------------------------------------------------------------------------------
(***************************************************************************)
(* The queues.                                                             *)
(***************************************************************************)
\* What stands at a place of a queue is one of its elements.
LEMMA AtPlace ==
  ASSUME NEW S, NEW q \in Seq(S), NEW i \in 1..Len(q)
  PROVE  q[i] \in Elements(q)
  BY DEF Elements

\* And a set that has what stands at every place has all elements.
LEMMA Listed ==
  ASSUME NEW S, NEW q \in Seq(S), NEW T, \A i \in 1..Len(q) : q[i] \in T
  PROVE  Elements(q) \subseteq T
  BY DEF Elements

\* Tail: the head, and the rest.
LEMMA TailElements ==
  ASSUME NEW S, NEW q \in Seq(S), q # <<>>
  PROVE  /\ Tail(q) \in Seq(S) /\ Head(q) \in S
         /\ Elements(q) = {Head(q)} \cup Elements(Tail(q))
<1>1. Tail(q) \in Seq(S) /\ Head(q) \in S /\ Len(q) \in Nat /\ Len(q) > 0
  OBVIOUS
<1>2. Len(Tail(q)) = Len(q) - 1 /\ \A i \in 1..Len(q) - 1 : Tail(q)[i] = q[i + 1]
  OBVIOUS
<1>3. Head(q) = q[1]
  OBVIOUS
<1>4. Elements(q) \subseteq {Head(q)} \cup Elements(Tail(q))
  <2> SUFFICES ASSUME NEW i \in 1..Len(q), i # 1
               PROVE  q[i] \in Elements(Tail(q))
    BY <1>3 DEF Elements
  <2>1. i - 1 \in 1..Len(Tail(q)) /\ Tail(q)[i - 1] = q[i]
    BY <1>1, <1>2
  <2> QED
    BY <1>1, <2>1, AtPlace, Zenon
<1>5. {Head(q)} \cup Elements(Tail(q)) \subseteq Elements(q)
  BY <1>1, <1>2, <1>3 DEF Elements
<1> QED
  BY <1>1, <1>4, <1>5, Zenon

\* Append.
LEMMA AppendElements ==
  ASSUME NEW S, NEW q \in Seq(S), NEW e \in S
  PROVE  /\ Append(q, e) \in Seq(S)
         /\ Elements(Append(q, e)) = Elements(q) \cup {e}
<1>1. Append(q, e) \in Seq(S) /\ Len(q) \in Nat /\ Len(Append(q, e)) = Len(q) + 1
  OBVIOUS
<1>2. Append(q, e)[Len(q) + 1] = e /\ \A i \in 1..Len(q) : Append(q, e)[i] = q[i]
  OBVIOUS
<1> QED
  BY <1>1, <1>2 DEF Elements

\* Concatenation.
LEMMA ConcatElements ==
  ASSUME NEW S, NEW q \in Seq(S), NEW p \in Seq(S)
  PROVE  /\ q \o p \in Seq(S)
         /\ Elements(q \o p) = Elements(q) \cup Elements(p)
<1>1. q \o p \in Seq(S) /\ Len(q) \in Nat /\ Len(p) \in Nat /\ Len(q \o p) = Len(q) + Len(p)
  OBVIOUS
<1>2. /\ \A i \in 1..Len(q) : (q \o p)[i] = q[i]
      /\ \A i \in 1..Len(p) : (q \o p)[Len(q) + i] = p[i]
  OBVIOUS
<1>3. Elements(q \o p) \subseteq Elements(q) \cup Elements(p)
  <2> SUFFICES ASSUME NEW i \in 1..Len(q) + Len(p), i > Len(q)
               PROVE  (q \o p)[i] \in Elements(p)
    BY <1>1, <1>2 DEF Elements
  <2>1. i - Len(q) \in 1..Len(p) /\ Len(q) + (i - Len(q)) = i
    BY <1>1
  <2>2. (q \o p)[i] = p[i - Len(q)]
    BY <1>2, <2>1, Zenon
  <2> QED
    BY <2>1, <2>2 DEF Elements
<1>4. Elements(q) \cup Elements(p) \subseteq Elements(q \o p)
  <2>1. \A i \in 1..Len(q) : i \in 1..Len(q \o p)
    BY <1>1
  <2>2. \A i \in 1..Len(p) : Len(q) + i \in 1..Len(q \o p)
    BY <1>1
  <2>3. \A i \in 1..Len(q \o p) : (q \o p)[i] \in Elements(q \o p)
    BY <1>1, AtPlace, Zenon
  <2>4. \A i \in 1..Len(q) : q[i] \in Elements(q \o p)
    BY <1>2, <2>1, <2>3, Zenon
  <2>5. \A i \in 1..Len(p) : p[i] \in Elements(q \o p)
    BY <1>2, <2>2, <2>3, Zenon
  <2> QED
    BY <2>4, <2>5, Listed, Zenon
<1> QED
  BY <1>1, <1>3, <1>4, Zenon

\* A queue is cut in two.
LEMMA CutElements ==
  ASSUME NEW S, NEW q \in Seq(S), NEW n \in 0..Len(q)
  PROVE  /\ SubSeq(q, 1, n) \in Seq(S) /\ SubSeq(q, n + 1, Len(q)) \in Seq(S)
         /\ Elements(q) = Elements(SubSeq(q, 1, n)) \cup Elements(SubSeq(q, n + 1, Len(q)))
<1> DEFINE x == SubSeq(q, 1, n)
<1> DEFINE y == SubSeq(q, n + 1, Len(q))
<1>1. x \in Seq(S) /\ Len(x) = n /\ \A i \in 1..n : x[i] = q[i]
  OBVIOUS
<1>2. y \in Seq(S) /\ Len(y) = Len(q) - n /\ \A i \in 1..Len(q) - n : y[i] = q[n + i]
  OBVIOUS
<1> HIDE DEF x, y
<1>3. Elements(q) \subseteq Elements(x) \cup Elements(y)
  <2> SUFFICES ASSUME NEW i \in 1..Len(q), i > n
               PROVE  q[i] \in Elements(y)
    BY <1>1 DEF Elements
  <2>1. i - n \in 1..Len(y) /\ n + (i - n) = i
    BY <1>2
  <2>2. y[i - n] = q[i]
    BY <1>2, <2>1, Zenon
  <2> QED
    BY <1>2, <2>1, <2>2, AtPlace, Zenon
<1>4. Elements(x) \cup Elements(y) \subseteq Elements(q)
  <2>1. \A i \in 1..Len(y) : n + i \in 1..Len(q)
    BY <1>2
  <2>2. \A i \in 1..Len(x) : i \in 1..Len(q)
    BY <1>1
  <2>3. \A i \in 1..Len(q) : q[i] \in Elements(q)
    BY AtPlace, Zenon
  <2>4. \A i \in 1..Len(x) : x[i] \in Elements(q)
    BY <1>1, <2>2, <2>3, Zenon
  <2>5. \A i \in 1..Len(y) : y[i] \in Elements(q)
    BY <1>2, <2>1, <2>3, Zenon
  <2> QED
    BY <1>1, <1>2, <2>4, <2>5, Listed, Zenon
<1> QED
  BY <1>1, <1>2, <1>3, <1>4, Zenon DEF x, y

\* Nothing waits in an empty queue.
LEMMA NoElements == Elements(<<>>) = {}
  BY DEF Elements
-------------------------------------------------------------------------------
(***************************************************************************)
(* Types and numbers.                                                      *)
(***************************************************************************)
\* What a publisher leaves alone.
Aside == <<eventd, sub, sources, service, m_cache_read, m_from_cache, m_track, drained,
           subscribers, now, seen, mine, twice, forgotten, gone, account>>

\* The event e of source s has been sent, and the queues of R have it.
Sent(s, e, R) ==
  /\ e \in Event /\ e.src = s /\ e.n = sent[e.rid] + 1
  /\ R \in SUBSET Receivers(s)
  /\ socket' = IF "socket" \in R THEN Append(socket, e) ELSE socket
  /\ cache' = IF "cache" \in R THEN Append(cache, e) ELSE cache
  /\ accepted' = IF R # {} /\ R = Receivers(s) THEN accepted \cup {e} ELSE accepted
  /\ sent' = [sent EXCEPT ![e.rid] = @ + 1]
  /\ events < MaxSent /\ events' = events + 1
  /\ faults' \in 0..MaxFaults

\* send_evt sends the next event of the id.
LEMMA SendEvtSends ==
  ASSUME TypeInv, NEW s \in Source, NEW r \in Id, NEW ctrl \in BOOLEAN, SendEvt(s, r, ctrl)
  PROVE  \E e \in Event : e.rid = r /\ \E R : Sent(s, e, R)
<1> DEFINE e == [src |-> s, rid |-> r, n |-> sent[r] + 1, ctrl |-> ctrl]
<1>1. /\ Before \in Nat /\ MaxSent \in Nat /\ MaxFaults \in Nat
      /\ events \in Nat /\ sent[r] \in Nat /\ faults \in 0..MaxFaults
  BY EventsAssumption DEF TypeInv, TypeOK
<1>2. sent[r] <= Before + events
  BY <1>1 DEF TypeInv, NumbersInv, Base
<1>3. events < MaxSent
  BY Zenon DEF SendEvt
<1>4. e \in Event
  BY <1>1, <1>2, <1>3 DEF Event
<1>5. e.src = s /\ e.rid = r /\ e.n = sent[r] + 1
  BY Zenon
<1> HIDE DEF e
<1>6. PICK R \in SUBSET Receivers(s) :
        /\ IF R = Receivers(s) THEN UNCHANGED faults ELSE faults < MaxFaults /\ faults' = faults + 1
        /\ socket' = IF "socket" \in R THEN Append(socket, e) ELSE socket
        /\ cache' = IF "cache" \in R THEN Append(cache, e) ELSE cache
        /\ accepted' = IF R # {} /\ R = Receivers(s) THEN accepted \cup {e} ELSE accepted
  BY Zenon DEF SendEvt, ZmqMessageSend, e
<1>7. faults' \in 0..MaxFaults
  BY <1>1, <1>6
<1>8. sent' = [sent EXCEPT ![e.rid] = @ + 1] /\ events' = events + 1
  BY <1>5, Zenon DEF SendEvt
<1>9. Sent(s, e, R)
  BY <1>3, <1>4, <1>5, <1>6, <1>7, <1>8, Zenon DEF Sent
<1> QED
  BY <1>4, <1>5, <1>9, Zenon

\* A step of a publisher sends at most one event, of the id it has or gets.
LEMMA PublisherSteps ==
  ASSUME TypeInv, NEW s \in Source,
         GetPublisher(s) \/ DoPublish(s) \/ DropPublisher(s) \/ PublisherExit(s)
  PROVE  /\ UNCHANGED Aside
         /\ \/ /\ UNCHANGED <<sent, events, socket, cache, accepted, ids>>
               /\ faults' \in 0..MaxFaults
               /\ \E p \in {NoPublisher, NoId} : s_publishers' = [s_publishers EXCEPT ![s] = p]
            \/ \E e \in Event :
                 /\ \E R : Sent(s, e, R)
                 /\ \/ /\ e.rid = s_publishers[s] /\ ids' \in {ids, e.rid} /\ ids' >= ids
                       /\ \E p \in {NoPublisher, e.rid} : s_publishers' = [s_publishers EXCEPT ![s] = p]
                    \/ /\ e.rid = ids + 1 /\ ids' = ids + 1
                       /\ s_publishers' = [s_publishers EXCEPT ![s] = e.rid]
<1>0. /\ s_publishers \in [Source -> {NoPublisher, NoId} \cup Id] /\ ids \in 0..MaxIds
      /\ MaxFaults \in Nat /\ MaxIds \in Nat /\ faults \in 0..MaxFaults
  BY EventsAssumption, Zenon DEF TypeInv, TypeOK
<1>1. CASE GetPublisher(s)
  <2>1. UNCHANGED Aside /\ UNCHANGED <<sent, events, socket, cache, accepted, ids, faults>>
    BY <1>1, Zenon DEF GetPublisher, Aside, subVars
  <2>2. s_publishers' = [s_publishers EXCEPT ![s] = NoId]
    BY <1>1, Zenon DEF GetPublisher, PublisherInit
  <2> QED
    BY <1>0, <2>1, <2>2, Zenon
<1>2. CASE PublisherExit(s)
  <2>1. UNCHANGED Aside /\ UNCHANGED <<sent, events, socket, cache, accepted, ids>>
    BY <1>2, Zenon DEF PublisherExit, Aside, subVars
  <2>2. s_publishers' = [s_publishers EXCEPT ![s] = NoPublisher] /\ faults' \in 0..MaxFaults
    BY <1>0, <1>2 DEF PublisherExit
  <2> QED
    BY <2>1, <2>2, Zenon
<1>3. CASE DoPublish(s)
  <2> DEFINE r == IF s_publishers[s] = NoId THEN ids + 1 ELSE s_publishers[s]
  <2>1. UNCHANGED Aside
    BY <1>3, Zenon DEF DoPublish, Aside
  <2>2. /\ r \in Id
        /\ s_publishers' = [s_publishers EXCEPT ![s] = r]
        /\ ids' = IF r > ids THEN r ELSE ids
        /\ SendEvt(s, r, FALSE)
    BY <1>3, Zenon DEF DoPublish, Publish
  <2>3. PICK e \in Event : e.rid = r /\ \E R : Sent(s, e, R)
    BY <2>2, SendEvtSends, Zenon
  <2>4. \/ e.rid = s_publishers[s] /\ ids' \in {ids, e.rid} /\ ids' >= ids
        \/ e.rid = ids + 1 /\ ids' = ids + 1
    BY <1>0, <2>2, <2>3 DEF Id
  <2> QED
    BY <2>1, <2>2, <2>3, <2>4, Zenon
<1>4. CASE DropPublisher(s)
  <2>1. UNCHANGED Aside
    BY <1>4, Zenon DEF DropPublisher, Aside
  <2>2. s_publishers' = [s_publishers EXCEPT ![s] = NoPublisher] /\ UNCHANGED ids
    BY <1>4, Zenon DEF DropPublisher
  <2>3. CASE s_publishers[s] = NoId
    <3>1. UNCHANGED <<sent, events, socket, cache, faults, accepted>>
      BY <1>4, <2>3, Zenon DEF DropPublisher, RemoveRuntimeId
    <3> QED
      BY <1>0, <2>1, <2>2, <3>1, Zenon
  <2>4. CASE s_publishers[s] # NoId
    <3>1. s_publishers[s] \in Id /\ SendEvt(s, s_publishers[s], TRUE)
      BY <1>0, <1>4, <2>4, Zenon DEF DropPublisher, RemoveRuntimeId
    <3>2. PICK e \in Event : e.rid = s_publishers[s] /\ \E R : Sent(s, e, R)
      BY <3>1, SendEvtSends, Zenon
    <3>3. ids' \in {ids, e.rid} /\ ids' >= ids
      BY <1>0, <2>2
    <3> QED
      BY <2>1, <2>2, <3>2, <3>3, Zenon
  <2> QED
    BY <2>3, <2>4, Zenon
<1> QED
  BY <1>1, <1>2, <1>3, <1>4, Zenon

\* No new event is known, and no id is newly tracked.
Shrinks ==
  /\ TypeOK' /\ Known' \subseteq Known
  /\ UNCHANGED <<sent, events, account>>
  /\ DOMAIN m_track' \subseteq DOMAIN m_track

\* What that leaves of the numbers.
LEMMA NumbersKept ==
  ASSUME TypeInv, Shrinks
  PROVE  TypeInv'
<1>1. \A r \in Id : Base(r) <= sent'[r] /\ sent'[r] <= Base(r) + events'
  BY Zenon DEF TypeInv, NumbersInv, Shrinks
<1>2. \A e \in Known' : Base(e.rid) < e.n /\ e.n <= sent'[e.rid]
  BY Zenon DEF TypeInv, NumbersInv, Shrinks
<1>3. account' \in [Id -> [first : Int, last : Int, got : Int, missed : Int]]
  BY Zenon DEF TypeInv, NumbersInv, Shrinks
<1>4. \A r \in DOMAIN m_track' : Base(r) < account'[r].last /\ account'[r].last <= sent'[r]
  BY Zenon DEF TypeInv, NumbersInv, Shrinks
<1>5. TypeOK'
  BY Zenon DEF Shrinks
<1> QED
  BY <1>1, <1>2, <1>3, <1>4, <1>5, Zenon DEF TypeInv, NumbersInv, Base

\* What waits is an event.
LEMMA QueuedTyped ==
  ASSUME TypeOK
  PROVE  Queued \subseteq Event
  BY DEF TypeOK, Queued, Elements

\* The fields of an event.
LEMMA EventTyped ==
  ASSUME NEW e \in Event
  PROVE  e.src \in Source /\ e.rid \in Id /\ e.n \in Int /\ e.n \in Nat /\ e.ctrl \in BOOLEAN
  BY DEF Event

\* And what is remembered.
LEMMA KnownTyped ==
  ASSUME TypeOK, NEW e \in Known
  PROVE  /\ e \in Event
         /\ e.src \in Source /\ e.rid \in Id /\ e.n \in Nat /\ e.ctrl \in BOOLEAN
<1>1. e \in Event
  BY QueuedTyped, Zenon DEF Known, TypeOK
<1> QED
  BY <1>1 DEF Event

\* The event service, the clock and the beginning and end of a subscriber.
LEMMA ServiceTypes ==
  ASSUME TypeInv, EventdDown \/ EventdUp \/ Tick \/ Close
  PROVE  Shrinks
<1>1. TypeOK /\ Queued \subseteq Event /\ Elements(<<>>) = {} /\ <<>> \in Seq(Event) /\ DOMAIN <<>> = {}
  BY NoElements, QueuedTyped DEF TypeInv
<1>2. MaxFaults \in Nat /\ MaxNow \in Nat
  BY EventsAssumption, Zenon
<1>3. CASE EventdDown
  BY <1>1, <1>2, <1>3 DEF EventdDown, Shrinks, TypeOK, Known, Queued, pubVars, subVars
<1>4. CASE EventdUp
  BY <1>1, <1>2, <1>4, Zenon DEF EventdUp, Shrinks, TypeOK, Known, Queued, pubVars, subVars
<1>5. CASE Tick
  BY <1>1, <1>2, <1>5 DEF Tick, Shrinks, TypeOK, Known, Queued, pubVars, subVars
<1>6. CASE Close
  <2>1. Known' \subseteq Known
    BY <1>1, <1>6, Zenon DEF Close, Known, Queued
  <2>2. /\ UNCHANGED <<pubVars, eventd, cache, sources, subscribers, now, seen, mine, twice, forgotten, accepted, account>>
        /\ sub' = "none" /\ service' = "closed" /\ m_cache_read' = FALSE
        /\ m_track' = <<>> /\ socket' = <<>> /\ m_from_cache' = <<>> /\ drained' = <<>>
    BY <1>6, Zenon DEF Close, CloseService
  <2>3. faults' \in 0..MaxFaults /\ gone' \in SUBSET Event
    BY <1>1, <1>2, <1>6 DEF Close, TypeOK, Queued
  <2>4. TypeOK'
    BY <1>1, <2>2, <2>3, Zenon DEF TypeOK, pubVars
  <2> QED
    BY <1>1, <2>1, <2>2, <2>4, Zenon DEF Shrinks, pubVars
<1> QED
  BY <1>3, <1>4, <1>5, <1>6, Zenon

\* A new subscriber.
LEMMA ConnectTypes ==
  ASSUME TypeInv, NEW f \in Filters, NEW use_cache \in BOOLEAN, Connect(f, use_cache)
  PROVE  Shrinks
<1>1. TypeOK /\ Queued \subseteq Event /\ Elements(<<>>) = {} /\ <<>> \in Seq(Event) /\ DOMAIN <<>> = {}
  BY NoElements, QueuedTyped DEF TypeInv
<1>2. MaxSubscribers \in Nat /\ f \in SUBSET Source
  BY EventsAssumption, Zenon
<1>3. /\ UNCHANGED <<pubVars, eventd, cache, drained, now, faults, seen, accepted, gone, account>>
      /\ sub' \in {"connected", "running"} /\ service' \in {"ready", "closed"} /\ sources' = f
      /\ socket' = <<>> /\ m_track' = <<>> /\ m_from_cache' = <<>> /\ m_cache_read' = FALSE
      /\ mine' = {} /\ twice' = {} /\ forgotten' = {}
      /\ subscribers < MaxSubscribers /\ subscribers' = subscribers + 1
  BY Zenon DEF Connect, InitClient, CloseService
<1>4. Known' \subseteq Known
  BY <1>1, <1>3, Zenon DEF Known, Queued
<1>5. TypeOK'
  <2>1. subscribers' \in 0..MaxSubscribers
    BY <1>1, <1>2, <1>3 DEF TypeOK
  <2>2. mine' \in SUBSET Event /\ twice' \in SUBSET Event /\ forgotten' \subseteq Id
    BY <1>3, Zenon
  <2>3. m_cache_read' \in BOOLEAN /\ DOMAIN m_track' = {} /\ sources' \in SUBSET Source
    BY <1>1, <1>2, <1>3, Zenon
  <2>4. /\ sub' \in {"connected", "running"} /\ service' \in {"ready", "closed"}
        /\ socket' = <<>> /\ m_from_cache' = <<>>
        /\ UNCHANGED <<pubVars, eventd, cache, drained, now, faults, seen, accepted, gone>>
    BY <1>3, Zenon
  <2> QED
    BY <1>1, <2>1, <2>2, <2>3, <2>4, Zenon DEF TypeOK, pubVars
<1> QED
  BY <1>1, <1>3, <1>4, <1>5, Zenon DEF Shrinks, pubVars

\* The requests of a subscriber that reads the cache.
LEMMA CacheTypes ==
  ASSUME TypeInv, CacheStop \/ CacheRead
  PROVE  Shrinks
<1>1. TypeOK /\ Queued \subseteq Event
  BY QueuedTyped, Zenon DEF TypeInv
<1>2. MaxFaults \in Nat
  BY EventsAssumption, Zenon
<1>3. CASE CacheStop
  <2>1. /\ UNCHANGED <<pubVars, sources, socket, m_from_cache, m_track, drained, subscribers, now,
                        seen, mine, twice, forgotten, accepted, account, cache>>
        /\ sub' = "running" /\ eventd' \in {eventd, "stopped"} /\ service' \in {service, "stuck"}
        /\ m_cache_read' \in {m_cache_read, eventd = "caching"} /\ gone' \in {gone, gone \cup Elements(cache)}
    BY <1>3, Zenon DEF CacheStop, SendRecvFails, EventdStop
  <2>2. faults' \in 0..MaxFaults
    BY <1>1, <1>2, <1>3 DEF CacheStop, SendRecvFails, TypeOK
  <2>3. Known' \subseteq Known
    BY <2>1, Zenon DEF Known, Queued
  <2>4. TypeOK'
    BY <1>1, <2>1, <2>2, Zenon DEF TypeOK, pubVars, Queued
  <2> QED
    BY <2>1, <2>3, <2>4, Zenon DEF Shrinks, pubVars
<1>4. CASE CacheRead
  <2>1. CASE UNCHANGED <<m_from_cache, cache>>
    BY <1>1, <1>2, <1>4, <2>1 DEF CacheRead, SendRecvFails, Shrinks, TypeOK, Known, Queued, pubVars
  <2>2. CASE /\ UNCHANGED <<service, faults, gone>>
             /\ \E n \in 0..Len(cache) :
                  /\ m_from_cache' = SubSeq(cache, 1, n)
                  /\ cache' = SubSeq(cache, n + 1, Len(cache))
    <3>1. PICK n \in 0..Len(cache) :
             m_from_cache' = SubSeq(cache, 1, n) /\ cache' = SubSeq(cache, n + 1, Len(cache))
      BY <2>2, Zenon
    <3>2. /\ m_from_cache' \in Seq(Event) /\ cache' \in Seq(Event)
          /\ Elements(cache) = Elements(m_from_cache') \cup Elements(cache')
      BY <1>1, <3>1, CutElements, Zenon DEF TypeOK
    <3> QED
      BY <1>1, <1>4, <2>2, <3>2, Zenon DEF CacheRead, Shrinks, TypeOK, Known, Queued, pubVars
  <2> QED
    BY <1>4, <2>1, <2>2, Zenon DEF CacheRead
<1> QED
  BY <1>3, <1>4, Zenon

\* The destructor.
LEMMA DeinitTypes ==
  ASSUME TypeInv, CacheInit \/ Drain \/ DrainEnd \/ CacheStart
  PROVE  Shrinks
<1>1. TypeOK /\ Queued \subseteq Event /\ Elements(<<>>) = {} /\ <<>> \in Seq(Event) /\ DOMAIN <<>> = {}
  BY NoElements, QueuedTyped DEF TypeInv
<1>2. MaxFaults \in Nat
  BY EventsAssumption, Zenon
<1>3. CASE CacheInit
  <2>1. cache' \in {cache, <<>>} /\ socket' \in {socket, <<>>} /\ drained' = <<>>
    BY <1>3, Zenon DEF CacheInit, EventdInit, TermBlocks
  <2>2. gone' \subseteq gone \cup Queued
    BY <1>3, Zenon DEF CacheInit, TermBlocks, Queued
  <2>3. Known' \subseteq Known
    BY <1>1, <1>3, <2>1, <2>2, Zenon DEF CacheInit, Known, Queued
  <2>4. /\ UNCHANGED <<pubVars, sources, subscribers, now, seen, mine, twice, forgotten, accepted, account>>
        /\ m_from_cache' = <<>> /\ m_cache_read' = FALSE /\ m_track' = <<>>
        /\ sub' \in {"draining", "hung"} /\ service' \in {service, "stuck"} /\ eventd' \in {eventd, "init"}
    BY <1>3, Zenon DEF CacheInit, EventdInit, TermBlocks, SendRecvFails
  <2>5. faults' \in 0..MaxFaults
    BY <1>1, <1>2, <1>3 DEF CacheInit, SendRecvFails, TypeOK
  <2>6. TypeOK'
    BY <1>1, <2>1, <2>2, <2>4, <2>5, ZenonT(30) DEF TypeOK, pubVars
  <2> QED
    BY <1>1, <2>3, <2>4, <2>6, Zenon DEF Shrinks, pubVars
<1>4. CASE Drain
  <2>1. /\ Tail(socket) \in Seq(Event) /\ Head(socket) \in Event
        /\ Elements(socket) = {Head(socket)} \cup Elements(Tail(socket))
    BY <1>1, <1>4, TailElements, Zenon DEF Drain, TypeOK
  <2>2. drained' \in Seq(Event) /\ Elements(drained') = Elements(drained) \cup {Head(socket)}
    BY <1>1, <1>4, <2>1, AppendElements DEF Drain, TypeOK
  <2> QED
    BY <1>1, <1>4, <2>1, <2>2, Zenon DEF Drain, Shrinks, TypeOK, Known, Queued, pubVars
<1>5. CASE DrainEnd
  BY <1>1, <1>5, Zenon DEF DrainEnd, Shrinks, TypeOK, Known, Queued, pubVars
<1>6. CASE CacheStart
  <2>1. drained \o cache \in Seq(Event) /\ Elements(drained \o cache) = Elements(drained) \cup Elements(cache)
    BY <1>1, ConcatElements DEF TypeOK
  <2>2. cache' \in {cache, drained \o cache} /\ socket' = <<>> /\ drained' = <<>> /\ m_from_cache' = <<>>
    BY <1>6, Zenon DEF CacheStart, EventdStart, TermBlocks
  <2>3. gone' \subseteq gone \cup Queued
    BY <1>6, Zenon DEF CacheStart, TermBlocks, Queued
  <2>4. Known' \subseteq Known
    BY <1>1, <1>6, <2>1, <2>2, <2>3, ZenonT(30) DEF CacheStart, Known, Queued
  <2>5. /\ UNCHANGED <<pubVars, sources, m_cache_read, m_track, subscribers, now, seen, mine, twice, forgotten,
                        accepted, account>>
        /\ sub' \in {"none", "hung"} /\ service' \in {service, "closed", "stuck"} /\ eventd' \in {eventd, "caching"}
    BY <1>6, Zenon DEF CacheStart, EventdStart, CloseService, TermBlocks, SendRecvFails
  <2>6. faults' \in 0..MaxFaults
    BY <1>1, <1>2, <1>6 DEF CacheStart, SendRecvFails, TypeOK
  <2>7. TypeOK'
    BY <1>1, <2>1, <2>2, <2>3, <2>5, <2>6, Zenon DEF TypeOK, pubVars
  <2> QED
    BY <2>4, <2>5, <2>7, Zenon DEF Shrinks, pubVars
<1> QED
  BY <1>3, <1>4, <1>5, <1>6, Zenon

\* prune_track only forgets.
LEMMA PruneForgets ==
  ASSUME NEW track
  PROVE  /\ DOMAIN PruneTrack(track) \subseteq DOMAIN track
         /\ \A r \in DOMAIN PruneTrack(track) : PruneTrack(track)[r] = track[r]
<1> DEFINE since(t) == {r \in DOMAIN track : track[r].epoch >= t}
<1> DEFINE few == {t \in 0..now + 1 : Cardinality(since(t)) <= MAX_PUBLISHERS_COUNT}
<1> DEFINE t0 == CHOOSE t \in few : \A u \in few : t <= u
<1>1. PruneTrack(track) = [r \in since(t0) |-> track[r]]
  BY Zenon DEF PruneTrack
<1> HIDE DEF t0
<1> QED
  BY <1>1, Zenon

\* The table that event_receive() goes on with for e.
TrackFor(e) ==
  IF e.rid \notin DOMAIN m_track /\ Cardinality(DOMAIN m_track) > MAX_PUBLISHERS_COUNT + PruneSlack
  THEN PruneTrack(m_track) ELSE m_track

\* And what it computes as missed.
MissedBy(e) ==
  IF e.rid \in DOMAIN m_track THEN ThisMissedCnt(SequenceNr(e), m_track[e.rid].seq) ELSE 0

\* An event that is not dropped.
Takes(e) ==
  /\ m_track' = IF e.ctrl THEN [r \in DOMAIN TrackFor(e) \ {e.rid} |-> TrackFor(e)[r]]
                ELSE [r \in DOMAIN TrackFor(e) \cup {e.rid} |->
                        IF r = e.rid THEN [seq |-> SequenceNr(e), epoch |-> now] ELSE TrackFor(e)[r]]
  /\ seen' = seen \cup {e}
  /\ mine' = mine \cup {e}
  /\ twice' = IF e \in mine THEN twice \cup {e} ELSE twice
  /\ forgotten' = forgotten \cup (DOMAIN m_track \ DOMAIN m_track') \cup (IF e.ctrl THEN {e.rid} ELSE {})
  /\ account' = [account EXCEPT ![e.rid] =
       IF e.rid \in DOMAIN m_track
       THEN [first |-> account[e.rid].first, last |-> e.n, got |-> account[e.rid].got + 1,
             missed |-> account[e.rid].missed + MissedBy(e)]
       ELSE [first |-> e.n, last |-> e.n, got |-> 1, missed |-> 0]]

\* A round of event_receive() drops the event or takes it.
LEMMA HandleCases ==
  ASSUME NEW e, Handle(e)
  PROVE  \/ MissedBy(e) < 0 /\ UNCHANGED <<m_track, seen, mine, twice, forgotten, account>>
         \/ ~ (MissedBy(e) < 0) /\ Takes(e)
  BY Zenon DEF Handle, TrackFor, MissedBy, Takes

\* Types after an event was handled.
LEMMA HandleTypes ==
  ASSUME TypeInv, NEW e \in Event, e \in Queued, Handle(e)
  PROVE  /\ DOMAIN m_track' \subseteq DOMAIN m_track \cup {e.rid}
         /\ \A r \in DOMAIN m_track' : m_track'[r] \in [seq : Sequence, epoch : 0..MaxNow]
         /\ seen' \subseteq seen \cup {e} /\ mine' \subseteq mine \cup {e} /\ twice' \subseteq twice \cup {e}
         /\ forgotten' \subseteq Id
         /\ account' \in [Id -> [first : Int, last : Int, got : Int, missed : Int]]
         /\ \A r \in DOMAIN m_track' : Base(r) < account'[r].last /\ account'[r].last <= sent[r]
<1>1. /\ e.rid \in Id /\ e.n \in Int /\ e.ctrl \in BOOLEAN
      /\ Base(e.rid) < e.n /\ e.n <= sent[e.rid]
  BY DEF Event, TypeInv, NumbersInv, Known
<1>2. /\ DOMAIN m_track \subseteq Id /\ now \in 0..MaxNow /\ forgotten \subseteq Id
      /\ \A r \in DOMAIN m_track : m_track[r] \in [seq : Sequence, epoch : 0..MaxNow]
      /\ account \in [Id -> [first : Int, last : Int, got : Int, missed : Int]]
      /\ \A r \in DOMAIN m_track : Base(r) < account[r].last /\ account[r].last <= sent[r]
  BY Zenon DEF TypeInv, TypeOK, NumbersInv
<1>3. SequenceNr(e) \in Sequence
  <2>1. e.n % Modulus \in 0..Modulus - 1
    BY <1>1, Half, DivMod, Zenon
  <2> QED
    BY <2>1, Half, Zenon DEF SequenceNr, Modulus
<1>4. /\ DOMAIN TrackFor(e) \subseteq DOMAIN m_track
      /\ \A r \in DOMAIN TrackFor(e) : TrackFor(e)[r] = m_track[r]
  BY PruneForgets, Zenon DEF TrackFor
<1>5. MissedBy(e) \in Int
  <2>1. SEQUENCE_MAX \in Int /\ SEQUENCE_MAX + 1 \in Nat \ {0}
    BY Half DEF Modulus
  <2>2. \A x \in Int : ToInt(x) \in Int
    BY <2>1 DEF ToInt
  <2>3. \A a, b \in Sequence : ThisMissedCnt(a, b) \in Int
    BY <2>1, <2>2 DEF ThisMissedCnt, Sequence
  <2> QED
    BY <1>2, <1>3, <2>3 DEF MissedBy
<1>6. CASE UNCHANGED <<m_track, seen, mine, twice, forgotten, account>>
  BY <1>2, <1>6, Zenon
<1>7. CASE Takes(e)
  <2>1. account[e.rid] \in [first : Int, last : Int, got : Int, missed : Int]
    BY <1>1, <1>2, Zenon
  <2>2. /\ DOMAIN m_track' \subseteq DOMAIN m_track \cup {e.rid}
        /\ \A r \in DOMAIN m_track' : m_track'[r] \in [seq : Sequence, epoch : 0..MaxNow]
        /\ e.ctrl => e.rid \notin DOMAIN m_track'
    BY <1>2, <1>3, <1>4, <1>7, Zenon DEF Takes
  <2>3. /\ account' \in [Id -> [first : Int, last : Int, got : Int, missed : Int]]
        /\ account'[e.rid].last = e.n
        /\ \A r \in Id \ {e.rid} : account'[r] = account[r]
    BY <1>1, <1>2, <1>5, <1>7, <2>1 DEF Takes
  <2>4. \A r \in DOMAIN m_track' : Base(r) < account'[r].last /\ account'[r].last <= sent[r]
    BY <1>1, <1>2, <2>2, <2>3, Zenon
  <2>5. forgotten' \subseteq Id
    BY <1>1, <1>2, <1>7, Zenon DEF Takes
  <2>6. seen' \subseteq seen \cup {e} /\ mine' \subseteq mine \cup {e} /\ twice' \subseteq twice \cup {e}
    BY <1>7, Zenon DEF Takes
  <2> QED
    BY <2>2, <2>3, <2>4, <2>5, <2>6, Zenon
<1> QED
  BY <1>6, <1>7, HandleCases, Zenon

\* event_receive().
LEMMA ReceiveTypes ==
  ASSUME TypeInv, ReceiveCached \/ ReceiveFromSocket
  PROVE  TypeInv' /\ Known' \subseteq Known
<1>1. TypeOK /\ Queued \subseteq Event
  BY QueuedTyped, Zenon DEF TypeInv
<1>2. ASSUME NEW e \in Event, e \in Queued, Handle(e), Queued' \subseteq Queued,
             socket' \in Seq(Event), m_from_cache' \in Seq(Event),
             UNCHANGED <<pubVars, eventd, cache, sub, sources, service, m_cache_read, drained,
                         subscribers, now, faults, accepted, gone>>
      PROVE  TypeInv' /\ Known' \subseteq Known
  <2>1. /\ DOMAIN m_track' \subseteq DOMAIN m_track \cup {e.rid}
        /\ \A r \in DOMAIN m_track' : m_track'[r] \in [seq : Sequence, epoch : 0..MaxNow]
        /\ seen' \subseteq seen \cup {e} /\ mine' \subseteq mine \cup {e} /\ twice' \subseteq twice \cup {e}
        /\ forgotten' \subseteq Id
        /\ account' \in [Id -> [first : Int, last : Int, got : Int, missed : Int]]
        /\ \A r \in DOMAIN m_track' : Base(r) < account'[r].last /\ account'[r].last <= sent[r]
    BY <1>2, HandleTypes, Zenon
  <2>2. Known' \subseteq Known
    BY <1>2, <2>1, Zenon DEF Known
  <2>3. e.rid \in Id
    BY Zenon DEF Event
  <2>4. TypeOK'
    <3>1. seen' \in SUBSET Event /\ mine' \in SUBSET Event /\ twice' \in SUBSET Event
      BY <1>1, <1>2, <2>1, Zenon DEF TypeOK
    <3>2. DOMAIN m_track' \subseteq Id
      BY <1>1, <2>1, <2>3, Zenon DEF TypeOK
    <3> QED
      BY <1>1, <1>2, <2>1, <3>1, <3>2, Zenon DEF TypeOK, pubVars
  <2>5. NumbersInv'
    BY <1>2, <2>1, <2>2, Zenon DEF TypeInv, NumbersInv, Base, pubVars
  <2> QED
    BY <2>2, <2>4, <2>5, Zenon DEF TypeInv
<1>3. CASE ReceiveCached
  <2>1. /\ m_from_cache' = Tail(m_from_cache) /\ m_from_cache' \in Seq(Event) /\ Head(m_from_cache) \in Event
        /\ Elements(m_from_cache) = {Head(m_from_cache)} \cup Elements(m_from_cache')
    BY <1>1, <1>3, TailElements, Zenon DEF ReceiveCached, TypeOK
  <2>2. /\ Handle(Head(m_from_cache))
        /\ UNCHANGED <<pubVars, eventd, cache, sub, sources, service, m_cache_read, drained,
                         subscribers, now, faults, accepted, gone, socket>>
    BY <1>3, Zenon DEF ReceiveCached
  <2>3. Head(m_from_cache) \in Queued /\ Queued' \subseteq Queued /\ socket' \in Seq(Event)
    BY <1>1, <2>1, <2>2, Zenon DEF Queued, TypeOK
  <2> QED
    BY <1>2, <2>1, <2>2, <2>3, Zenon
<1>4. CASE ReceiveFromSocket
  <2>1. /\ socket' = Tail(socket) /\ socket' \in Seq(Event) /\ Head(socket) \in Event
        /\ Elements(socket) = {Head(socket)} \cup Elements(socket')
    BY <1>1, <1>4, TailElements, Zenon DEF ReceiveFromSocket, TypeOK
  <2>2. /\ Handle(Head(socket))
        /\ UNCHANGED <<pubVars, eventd, cache, sub, sources, service, m_cache_read, drained,
                         subscribers, now, faults, accepted, gone, m_from_cache>>
    BY <1>4, Zenon DEF ReceiveFromSocket
  <2>3. Head(socket) \in Queued /\ Queued' \subseteq Queued /\ m_from_cache' \in Seq(Event)
    BY <1>1, <2>1, <2>2, Zenon DEF Queued, TypeOK
  <2> QED
    BY <1>2, <2>1, <2>2, <2>3, Zenon
<1> QED
  BY <1>3, <1>4, Zenon

\* The steps of publishers.
LEMMA PublisherTypes ==
  ASSUME TypeInv, NEW s \in Source,
         GetPublisher(s) \/ DoPublish(s) \/ DropPublisher(s) \/ PublisherExit(s)
  PROVE  TypeInv'
<1>1. TypeOK /\ NumbersInv /\ MaxIds \in Nat /\ MaxSent \in Nat /\ Before \in Nat
  BY EventsAssumption, Zenon DEF TypeInv
<1>2. UNCHANGED Aside
  BY PublisherSteps, Zenon
<1>3. CASE /\ UNCHANGED <<sent, events, socket, cache, accepted, ids>>
           /\ faults' \in 0..MaxFaults
           /\ \E p \in {NoPublisher, NoId} : s_publishers' = [s_publishers EXCEPT ![s] = p]
  <2>1. s_publishers' \in [Source -> {NoPublisher, NoId} \cup Id]
    BY <1>1, <1>3, Zenon DEF TypeOK
  <2>2. TypeOK'
    BY <1>1, <1>2, <1>3, <2>1, Zenon DEF TypeOK, Aside
  <2>3. NumbersInv'
    BY <1>1, <1>2, <1>3, Zenon DEF NumbersInv, Aside, Known, Queued, Base
  <2> QED
    BY <2>2, <2>3, Zenon DEF TypeInv
<1>4. ASSUME NEW e \in Event, NEW R, Sent(s, e, R), ids' \in {ids, e.rid, ids + 1}, ids' >= ids,
             \E p \in {NoPublisher, e.rid} : s_publishers' = [s_publishers EXCEPT ![s] = p],
             e.rid = ids + 1 \/ ids' \in {ids, e.rid}
      PROVE  TypeInv'
  <2>1. e.rid \in Id /\ e.n \in Nat
    BY <1>1 DEF Event, Id
  <2>2. s_publishers' \in [Source -> {NoPublisher, NoId} \cup Id]
    BY <1>1, <1>4, <2>1, Zenon DEF TypeOK
  <2>3. ids' \in 0..MaxIds
    <3>1. ids \in 0..MaxIds /\ e.rid \in 1..MaxIds
      BY <1>1, <2>1, Zenon DEF TypeOK, Id
    <3>2. ids' \in {ids, e.rid}
      BY <1>4, Zenon
    <3> QED
      BY <3>1, <3>2
  <2>4. /\ \A r \in Id : Base(r) \in Nat /\ Base(r) <= Before
        /\ sent \in [Id -> Nat] /\ events \in Nat
        /\ \A r \in Id : Base(r) <= sent[r] /\ sent[r] <= Base(r) + events
    BY <1>1 DEF TypeOK, NumbersInv, Base
  <2>5. /\ sent' = [sent EXCEPT ![e.rid] = @ + 1] /\ events' = events + 1 /\ events' <= MaxSent
        /\ e.n = sent[e.rid] + 1
    BY <1>1, <1>4, <2>4 DEF Sent
  <2>6. sent' \in [Id -> Nat] /\ \A r \in Id : sent[r] <= sent'[r] /\ sent'[r] <= Base(r) + events'
    BY <2>1, <2>4, <2>5
  <2>7. sent' \in [Id -> 0..Before + MaxSent] /\ events' \in 0..MaxSent
    BY <1>1, <2>4, <2>5, <2>6
  <2>8. /\ socket' \in Seq(Event) /\ Elements(socket') \subseteq Elements(socket) \cup {e}
        /\ cache' \in Seq(Event) /\ Elements(cache') \subseteq Elements(cache) \cup {e}
        /\ accepted' \subseteq accepted \cup {e}
    BY <1>1, <1>4, AppendElements DEF Sent, TypeOK
  <2>9. TypeOK'
    <3>1. accepted' \in SUBSET Event /\ faults' \in 0..MaxFaults
      BY <1>1, <1>4, <2>8, Zenon DEF TypeOK, Sent
    <3> QED
      BY <1>1, <1>2, <2>2, <2>3, <2>7, <2>8, <3>1, Zenon DEF TypeOK, Aside
  <2>10. Known' \subseteq Known \cup {e}
    BY <1>2, <2>8, Zenon DEF Known, Queued, Aside
  <2>11. \A f \in Known' : Base(f.rid) < f.n /\ f.n <= sent'[f.rid]
    <3>1. Base(e.rid) < e.n /\ e.n <= sent'[e.rid]
      BY <2>1, <2>4, <2>5
    <3>2. ASSUME NEW f \in Known
          PROVE  Base(f.rid) < f.n /\ f.n <= sent'[f.rid]
      <4>1. f \in Event /\ f.rid \in Id /\ f.n \in Nat
        BY <1>1, KnownTyped, Zenon
      <4> QED
        BY <1>1, <2>4, <2>6, <4>1 DEF NumbersInv
    <3> QED
      BY <2>10, <3>1, <3>2, Zenon
  <2>12. \A r \in DOMAIN m_track' : Base(r) < account'[r].last /\ account'[r].last <= sent'[r]
    <3> SUFFICES ASSUME NEW r \in DOMAIN m_track
                 PROVE  Base(r) < account[r].last /\ account[r].last <= sent'[r]
      BY <1>2, Zenon DEF Aside
    <3>1. r \in Id /\ account[r].last \in Int
      BY <1>1, Zenon DEF TypeOK, NumbersInv
    <3> QED
      BY <1>1, <2>4, <2>6, <3>1 DEF NumbersInv
  <2>13. \A r \in Id : Base(r) <= sent'[r]
    BY <2>4, <2>6
  <2>14. account' \in [Id -> [first : Int, last : Int, got : Int, missed : Int]]
    BY <1>1, <1>2, Zenon DEF NumbersInv, Aside
  <2>15. NumbersInv'
    BY <2>6, <2>11, <2>12, <2>13, <2>14, Zenon DEF NumbersInv, Base
  <2> QED
    BY <2>9, <2>15, Zenon DEF TypeInv
<1>5. CASE \E e \in Event :
             /\ \E R : Sent(s, e, R)
             /\ \/ /\ e.rid = s_publishers[s] /\ ids' \in {ids, e.rid} /\ ids' >= ids
                   /\ \E p \in {NoPublisher, e.rid} : s_publishers' = [s_publishers EXCEPT ![s] = p]
                \/ /\ e.rid = ids + 1 /\ ids' = ids + 1
                   /\ s_publishers' = [s_publishers EXCEPT ![s] = e.rid]
  <2>1. ids + 1 >= ids
    BY <1>1 DEF TypeOK
  <2> QED
    BY <1>4, <1>5, <2>1, Zenon
<1> QED
  BY <1>3, <1>5, PublisherSteps, Zenon

\* The initial state.
LEMMA InitTypes ==
  ASSUME Init
  PROVE  TypeInv
<1>1. /\ MaxIds \in Nat \ {0} /\ Before \in Nat /\ MaxSent \in Nat /\ MaxSubscribers \in Nat
      /\ MaxFaults \in Nat /\ MaxNow \in Nat /\ Elder \in Source
  BY EventsAssumption, Zenon
<1>2. Known = {} /\ DOMAIN m_track = {} /\ <<>> \in Seq(Event)
  BY NoElements DEF Init, Known, Queued
<1>3. account \in [Id -> [first : Int, last : Int, got : Int, missed : Int]]
  BY DEF Init
<1>4. NumbersInv
  BY <1>1, <1>2, <1>3 DEF Init, NumbersInv, Base, Id
<1>5. TypeOK
  <2>1. 1 \in Id
    BY <1>1 DEF Id
  <2>2. s_publishers \in [Source -> {NoPublisher, NoId} \cup Id]
    BY <2>1, Zenon DEF Init
  <2>3. sent \in [Id -> 0..Before + MaxSent]
    BY <1>1 DEF Init
  <2>4. ids \in 0..MaxIds
    BY <1>1 DEF Init
  <2>5. /\ now \in 0..MaxNow /\ events \in 0..MaxSent /\ subscribers \in 0..MaxSubscribers
        /\ faults \in 0..MaxFaults
    BY <1>1 DEF Init
  <2>6. /\ eventd = "idle" /\ sub = "none" /\ sources \in SUBSET Source /\ service = "closed"
        /\ {cache, socket, m_from_cache, drained} \subseteq Seq(Event) /\ m_cache_read \in BOOLEAN
    BY <1>2, Zenon DEF Init
  <2>7. {seen, mine, twice, accepted, gone} \subseteq SUBSET Event /\ forgotten \subseteq Id
    BY Zenon DEF Init
  <2> QED
    BY <1>2, <2>2, <2>3, <2>4, <2>5, <2>6, <2>7, Zenon DEF TypeOK
<1> QED
  BY <1>4, <1>5, Zenon DEF TypeInv

\* Types and numbers are kept.
LEMMA TypeStep ==
  ASSUME TypeInv, [Next]_vars
  PROVE  TypeInv'
<1>1. CASE UNCHANGED vars
  <2>1. Shrinks
    BY <1>1, Zenon DEF vars, pubVars, subVars, Shrinks, TypeInv, TypeOK, Known, Queued
  <2> QED
    BY <2>1, NumbersKept, Zenon
<1>2. CASE Next
  BY <1>2, NumbersKept, PublisherTypes, ServiceTypes, ConnectTypes, CacheTypes, DeinitTypes,
     ReceiveTypes, Zenon
     DEF Next, SubscriberStep
<1> QED
  BY <1>1, <1>2, Zenon

\* Types and numbers.
LEMMA TypesHold == Spec => []TypeInv
<1>1. Init => TypeInv
  BY InitTypes, Zenon
<1>2. TypeInv /\ [Next]_vars => TypeInv'
  BY TypeStep, Zenon
<1> QED
  BY <1>1, <1>2, PTL DEF Spec

\* Every queue holds events that were sent, and every number stays in its width.
THEOREM EventsTyped == Spec => []TypeOK
<1>1. TypeInv => TypeOK
  BY Zenon DEF TypeInv
<1> QED
  BY <1>1, TypesHold, PTL
-------------------------------------------------------------------------------
(***************************************************************************)
(* The events that a subscriber receives.                                  *)
(***************************************************************************)
\* The table is emptied or left as it is.
Untracked ==
  /\ m_track' = m_track \/ m_track' = <<>>
  /\ sub' \in {"connected", "running"} => sub \in {"connected", "running"} /\ UNCHANGED m_track
  /\ UNCHANGED <<account, seen, mine, twice, forgotten>>
  /\ now' \in {now, now + 1}

\* Every step but the receipt of an event and the beginning of a subscriber.
LEMMA StepUntracked ==
  ASSUME TypeInv, [Next]_vars
  PROVE  \/ Untracked
         \/ ReceiveCached \/ ReceiveFromSocket
         \/ \E f \in Filters, use_cache \in BOOLEAN : Connect(f, use_cache)
<1>1. CASE UNCHANGED vars
  BY <1>1, Zenon DEF vars, subVars, Untracked
<1>2. ASSUME NEW s \in Source, GetPublisher(s) \/ DoPublish(s) \/ DropPublisher(s) \/ PublisherExit(s)
      PROVE  Untracked
  BY <1>2, PublisherSteps, Zenon DEF Aside, Untracked
<1>3. CASE EventdDown \/ EventdUp \/ Tick
  BY <1>3, Zenon DEF EventdDown, EventdUp, Tick, subVars, Untracked
<1>4. CASE Close \/ CacheStop \/ CacheRead
  BY <1>4, Zenon DEF Close, CacheStop, CacheRead, Untracked
<1>5. CASE CacheInit \/ Drain \/ DrainEnd \/ CacheStart
  BY <1>5, Zenon DEF CacheInit, Drain, DrainEnd, CacheStart, TermBlocks, CloseService, Untracked
<1> QED
  BY <1>1, <1>2, <1>3, <1>4, <1>5, Zenon DEF Next, SubscriberStep

\* The event that a subscriber receives.
LEMMA Receives ==
  ASSUME TypeInv, ReceiveCached \/ ReceiveFromSocket
  PROVE  \E e \in Queued :
           /\ Handle(e) /\ UNCHANGED <<now, accepted, gone, sub, sources, eventd, cache, drained, m_cache_read>>
           /\ \/ /\ m_from_cache # <<>> /\ e = Head(m_from_cache) /\ m_from_cache' = Tail(m_from_cache)
                 /\ UNCHANGED socket
              \/ /\ m_from_cache = <<>> /\ ~m_cache_read /\ socket # <<>> /\ e = Head(socket)
                 /\ socket' = Tail(socket) /\ UNCHANGED m_from_cache
           /\ sub = "running"
<1>1. m_from_cache \in Seq(Event) /\ socket \in Seq(Event)
  BY Zenon DEF TypeInv, TypeOK
<1>2. CASE ReceiveCached
  <2>1. Head(m_from_cache) \in Queued
    BY <1>1, <1>2, TailElements DEF ReceiveCached, Queued
  <2> QED
    BY <1>2, <2>1, Zenon DEF ReceiveCached
<1>3. CASE ReceiveFromSocket
  <2>1. Head(socket) \in Queued
    BY <1>1, <1>3, TailElements DEF ReceiveFromSocket, Queued
  <2> QED
    BY <1>3, <2>1, Zenon DEF ReceiveFromSocket
<1> QED
  BY <1>2, <1>3, Zenon

\* For a tracked id, what is computed from the numbers is exact.
LEMMA MissedExact ==
  ASSUME TypeInv, Accounting, WithinWindow, NEW e \in Queued, e.rid \in DOMAIN m_track
  PROVE  MissedBy(e) = e.n - account[e.rid].last - 1
<1>1. e \in Known /\ TypeOK
  BY Zenon DEF Known, TypeInv
<1>2. e.rid \in Id /\ e.n \in Int /\ account[e.rid].last \in Int
  BY <1>1, KnownTyped DEF TypeInv, NumbersInv
<1>3. SequenceNr(e) = e.n % Modulus /\ m_track[e.rid].seq = account[e.rid].last % Modulus
  BY Zenon DEF SequenceNr, Modulus, Accounting
<1>4. e.n - account[e.rid].last <= Modulus \div 2 /\ account[e.rid].last - e.n < Modulus \div 2
  BY Zenon DEF WithinWindow
<1> QED
  BY <1>2, <1>3, <1>4, Missed, Zenon DEF MissedBy

-------------------------------------------------------------------------------
(***************************************************************************)
(* Nothing twice, and one source for an id.                                *)
(***************************************************************************)
\* What is taken was not received before, unless its id was forgotten.
LEMMA HandleMine ==
  ASSUME TypeInv, TrackInv, MineInv, WithinWindow, NEW e \in Queued, Handle(e), sub = "running", UNCHANGED sub
  PROVE  MineInv'
<1>0. TypeOK /\ Accounting /\ e \in Known
  BY Zenon DEF TypeInv, TrackInv, TrackingExact, Known
<1>1. e.rid \in Id /\ e.n \in Int /\ e.ctrl \in BOOLEAN
  BY <1>0, KnownTyped
<1>2. /\ DOMAIN m_track \subseteq Id
      /\ account \in [Id -> [first : Int, last : Int, got : Int, missed : Int]]
  BY Zenon DEF TypeInv, TypeOK, NumbersInv
<1>3. \A f \in mine : f.rid \in forgotten \/ (f.rid \in DOMAIN m_track /\ f.n <= account[f.rid].last)
  BY Zenon DEF MineInv
<1>4. NoDuplicates
  BY Zenon DEF MineInv
<1>5. CASE UNCHANGED <<m_track, seen, mine, twice, forgotten, account>>
  BY <1>3, <1>4, <1>5, Zenon DEF MineInv, NoDuplicates
<1>6. CASE ~ (MissedBy(e) < 0) /\ Takes(e)
  <2>1. e.rid \in DOMAIN m_track => account[e.rid].last < e.n
    <3> SUFFICES ASSUME e.rid \in DOMAIN m_track
                 PROVE  account[e.rid].last < e.n
      BY Zenon
    <3>1. MissedBy(e) = e.n - account[e.rid].last - 1
      BY <1>0, MissedExact, Zenon
    <3>2. account[e.rid].last \in Int
      BY <1>1, <1>2, Zenon
    <3> QED
      BY <1>1, <1>6, <3>1, <3>2
  <2>2. e \in mine => e.rid \in forgotten
    BY <1>1, <1>2, <1>3, <2>1
  <2>3. /\ forgotten \subseteq forgotten' /\ DOMAIN m_track \ DOMAIN m_track' \subseteq forgotten'
        /\ e.ctrl => e.rid \in forgotten'
        /\ twice' \subseteq twice \cup (IF e \in mine THEN {e} ELSE {})
        /\ mine' = mine \cup {e}
    BY <1>6, Zenon DEF Takes
  <2>4. NoDuplicates'
    BY <1>4, <2>2, <2>3, Zenon DEF NoDuplicates
  <2>5. /\ ~e.ctrl => e.rid \in DOMAIN m_track'
        /\ account'[e.rid].last = e.n
        /\ \A r \in Id : r # e.rid => account'[r] = account[r]
    BY <1>1, <1>2, <1>6, Zenon DEF Takes
  <2>6. ASSUME NEW f \in mine'
        PROVE  f.rid \in forgotten' \/ (f.rid \in DOMAIN m_track' /\ f.n <= account'[f.rid].last)
    <3>1. CASE f = e
      BY <1>1, <2>3, <2>5, <3>1
    <3>2. CASE f \in mine /\ f.rid \in forgotten
      BY <2>3, <3>2, Zenon
    <3>3. CASE f \in mine /\ f.rid \in DOMAIN m_track /\ f.n <= account[f.rid].last
      <4>1. f \in Known /\ f.n \in Int
        BY <1>0, <3>3, KnownTyped DEF Known
      <4>2. f.rid \in Id /\ account[f.rid].last \in Int
        BY <1>2, <3>3, Zenon
      <4>3. f.n <= account'[f.rid].last
        BY <1>1, <2>1, <2>5, <3>3, <4>1, <4>2
      <4> QED
        BY <2>3, <3>3, <4>3, Zenon
    <3> QED
      BY <1>3, <2>3, <3>1, <3>2, <3>3, Zenon
  <2> QED
    BY <2>4, <2>6, Zenon DEF MineInv
<1> QED
  BY <1>5, <1>6, HandleCases, Zenon

\* A subscriber's own events stay tracked or forgotten.
LEMMA MineStep ==
  ASSUME TypeInv, TrackInv, MineInv, WithinWindow, [Next]_vars
  PROVE  MineInv'
<1>1. CASE Untracked
  BY <1>1, Zenon DEF Untracked, MineInv, NoDuplicates
<1>2. CASE ReceiveCached \/ ReceiveFromSocket
  BY <1>2, Receives, HandleMine, Zenon
<1>3. ASSUME NEW f \in Filters, NEW use_cache \in BOOLEAN, Connect(f, use_cache)
      PROVE  MineInv'
  BY <1>3, Zenon DEF Connect, MineInv, NoDuplicates
<1> QED
  BY <1>1, <1>2, <1>3, StepUntracked, Zenon

\* Only publishers give out ids and send.
LEMMA StepKnown ==
  ASSUME TypeInv, [Next]_vars
  PROVE  \/ UNCHANGED <<s_publishers, ids>> /\ Known' \subseteq Known
         \/ \E s \in Source : GetPublisher(s) \/ DoPublish(s) \/ DropPublisher(s) \/ PublisherExit(s)
<1>1. CASE UNCHANGED vars
  BY <1>1, Zenon DEF vars, pubVars, subVars, Known, Queued
<1>2. CASE EventdDown \/ EventdUp \/ Tick \/ Close
  <2>1. Known' \subseteq Known
    BY <1>2, ServiceTypes, Zenon DEF Shrinks
  <2> QED
    BY <1>2, <2>1, Zenon DEF EventdDown, EventdUp, Tick, Close, pubVars
<1>3. ASSUME NEW f \in Filters, NEW use_cache \in BOOLEAN, Connect(f, use_cache)
      PROVE  UNCHANGED <<s_publishers, ids>> /\ Known' \subseteq Known
  <2>1. Known' \subseteq Known
    BY <1>3, ConnectTypes, Zenon DEF Shrinks
  <2> QED
    BY <1>3, <2>1, Zenon DEF Connect, pubVars
<1>4. CASE CacheStop \/ CacheRead
  <2>1. Known' \subseteq Known
    BY <1>4, CacheTypes, Zenon DEF Shrinks
  <2> QED
    BY <1>4, <2>1, Zenon DEF CacheStop, CacheRead, pubVars
<1>5. CASE CacheInit \/ Drain \/ DrainEnd \/ CacheStart
  <2>1. Known' \subseteq Known
    BY <1>5, DeinitTypes, Zenon DEF Shrinks
  <2> QED
    BY <1>5, <2>1, Zenon DEF CacheInit, Drain, DrainEnd, CacheStart, pubVars
<1>6. CASE ReceiveCached \/ ReceiveFromSocket
  <2>1. Known' \subseteq Known
    BY <1>6, ReceiveTypes, Zenon
  <2> QED
    BY <1>6, <2>1, Zenon DEF ReceiveCached, ReceiveFromSocket, pubVars
<1> QED
  BY <1>1, <1>2, <1>3, <1>4, <1>5, <1>6, Zenon DEF Next, SubscriberStep

\* An event that is sent: newer than all of its id, and of their source.
LEMMA SentIsNew ==
  ASSUME TypeInv, IdsInv, NEW s \in Source, NEW e \in Event, NEW R, Sent(s, e, R),
         e.rid = s_publishers[s] \/ e.rid = ids + 1
  PROVE  \A f \in Known : f.rid = e.rid => f.src = s /\ f.n < e.n
<1> SUFFICES ASSUME NEW f \in Known, f.rid = e.rid
             PROVE  f.src = s /\ f.n < e.n
  BY Zenon
<1>1. TypeOK /\ ids \in Int
  BY DEF TypeInv, TypeOK
<1>2. f.rid \in Id /\ f.n \in Int /\ sent[f.rid] \in Int
  BY <1>1, KnownTyped DEF TypeOK
<1>3. f.n <= sent[f.rid] /\ e.n = sent[e.rid] + 1
  BY Zenon DEF TypeInv, NumbersInv, Sent
<1>4. f.rid <= ids /\ f.rid \in Int
  BY <1>2 DEF IdsInv, Id
<1> QED
  BY <1>1, <1>2, <1>3, <1>4 DEF IdsInv

\* Every step keeps one source for an id.
LEMMA IdsStep ==
  ASSUME TypeInv, IdsInv, [Next]_vars
  PROVE  IdsInv'
<1>0. /\ s_publishers \in [Source -> {NoPublisher, NoId} \cup Id] /\ ids \in Int /\ ids >= 0
      /\ TypeOK /\ NoPublisher = -1 /\ NoId = 0 /\ Id \subseteq Nat \ {0}
  BY SMTT(30) DEF TypeInv, TypeOK, NoPublisher, NoId, Id
<1>1. CASE UNCHANGED <<s_publishers, ids>> /\ Known' \subseteq Known
  BY <1>1, Zenon DEF IdsInv
<1>2. ASSUME NEW s \in Source, GetPublisher(s) \/ DoPublish(s) \/ DropPublisher(s) \/ PublisherExit(s)
      PROVE  IdsInv'
  <2>1. UNCHANGED Aside
    BY <1>2, PublisherSteps, Zenon
  <2>2. \A f \in Known : f.rid \in Id /\ f.rid \in Int
    <3>1. \A f \in Known : f.rid \in Id
      BY <1>0, KnownTyped, Zenon
    <3> QED
      BY <3>1 DEF Id
  <2>3. CASE /\ UNCHANGED <<sent, events, socket, cache, accepted, ids>>
             /\ \E p \in {NoPublisher, NoId} : s_publishers' = [s_publishers EXCEPT ![s] = p]
    <3>1. Known' = Known
      BY <2>1, <2>3, Zenon DEF Known, Queued, Aside
    <3>2. PICK p \in {NoPublisher, NoId} : s_publishers' = [s_publishers EXCEPT ![s] = p]
      BY <2>3, Zenon
    <3>3. /\ s_publishers'[s] = p /\ p \notin Id /\ p <= ids
          /\ \A t \in Source : t # s => s_publishers'[t] = s_publishers[t]
      BY <1>0, <3>2
    <3>4. \A f \in Known, t \in Source : s_publishers'[t] = f.rid => t # s
      BY <2>2, <3>3, Zenon
    <3> QED
      BY <2>3, <3>1, <3>3, <3>4, ZenonT(30) DEF IdsInv
  <2>4. ASSUME NEW e \in Event, NEW R, Sent(s, e, R), NEW p \in {NoPublisher, e.rid},
               s_publishers' = [s_publishers EXCEPT ![s] = p],
               \/ e.rid = s_publishers[s] /\ ids' \in {ids, e.rid} /\ ids' >= ids
               \/ e.rid = ids + 1 /\ ids' = ids + 1
        PROVE  IdsInv'
    <3>1. e.rid \in Id /\ e.rid \in Int /\ e.src = s /\ e.rid # NoPublisher
      <4>1. e.rid \in Id /\ e.src = s
        BY <2>4, EventTyped, Zenon DEF Sent
      <4> QED
        BY <1>0, <4>1 DEF Id
    <3>2. ids' \in Int /\ ids <= ids' /\ e.rid <= ids'
      BY <1>0, <2>4, <3>1 DEF IdsInv
    <3>3. Known' \subseteq Known \cup {e}
      <4>1. /\ Elements(socket') \subseteq Elements(socket) \cup {e}
            /\ Elements(cache') \subseteq Elements(cache) \cup {e}
            /\ accepted' \subseteq accepted \cup {e}
        BY <1>0, <2>4, AppendElements, SMTT(30) DEF Sent, TypeOK
      <4> QED
        BY <2>1, <4>1, Zenon DEF Known, Queued, Aside
    <3>4. \A f \in Known : f.rid = e.rid => f.src = s
      BY <2>4, SentIsNew, Zenon
    <3>5. /\ s_publishers'[s] = p
          /\ \A t \in Source : t # s => s_publishers'[t] = s_publishers[t]
      BY <1>0, <2>4, Zenon
    <3>6. \A t \in Source : s_publishers[t] \in Int /\ s_publishers[t] <= ids
      <4>1. \A t \in Source : s_publishers[t] \in {NoPublisher, NoId} \cup Id
        BY <1>0, Zenon
      <4> QED
        BY <1>0, <4>1 DEF IdsInv, Id
    <3>7. \A t \in Source : t # s => s_publishers[t] # e.rid
      BY <1>0, <2>4, <3>1, <3>6 DEF IdsInv
    <3>8. \A t \in Source : s_publishers'[t] <= ids'
      BY <1>0, <3>1, <3>2, <3>5, <3>6
    <3>9. \A t, u \in Source : s_publishers'[t] \in Id /\ s_publishers'[t] = s_publishers'[u] => t = u
      BY <1>0, <3>1, <3>5, <3>7 DEF IdsInv
    <3>10. \A f \in Known' : f.rid <= ids'
      BY <1>0, <2>2, <3>2, <3>3 DEF IdsInv
    <3>11. \A f \in Known', t \in Source : s_publishers'[t] = f.rid => f.src = t
      <4> SUFFICES ASSUME NEW f \in Known', NEW t \in Source, s_publishers'[t] = f.rid
                   PROVE  f.src = t
        BY Zenon
      <4>1. f.rid \in Id /\ f.rid # NoPublisher
        BY <1>0, <2>2, <3>1, <3>3
      <4>2. CASE t = s
        <5>1. f.rid = e.rid
          BY <2>4, <3>5, <4>1, <4>2, Zenon
        <5> QED
          BY <3>1, <3>3, <3>4, <4>2, <5>1, Zenon
      <4>3. CASE t # s
        <5>1. f.rid # e.rid
          BY <3>5, <3>7, <4>3, Zenon
        <5> QED
          BY <3>3, <3>5, <4>3, <5>1, ZenonT(30) DEF IdsInv
      <4> QED
        BY <4>2, <4>3, Zenon
    <3>12. \A f, g \in Known' : f.rid = g.rid => f.src = g.src
      BY <3>1, <3>3, <3>4, Zenon DEF IdsInv
    <3> QED
      BY <3>8, <3>9, <3>10, <3>11, <3>12, Zenon DEF IdsInv
  <2>5. CASE \E e \in Event :
               /\ \E R : Sent(s, e, R)
               /\ \/ /\ e.rid = s_publishers[s] /\ ids' \in {ids, e.rid} /\ ids' >= ids
                     /\ \E p \in {NoPublisher, e.rid} : s_publishers' = [s_publishers EXCEPT ![s] = p]
                  \/ /\ e.rid = ids + 1 /\ ids' = ids + 1
                     /\ s_publishers' = [s_publishers EXCEPT ![s] = e.rid]
    BY <2>4, <2>5, Zenon
  <2> QED
    BY <1>2, <2>3, <2>5, PublisherSteps, Zenon
<1> QED
  BY <1>1, <1>2, StepKnown, Zenon
-------------------------------------------------------------------------------
(***************************************************************************)
(* The order in which a subscriber reads.                                  *)
(***************************************************************************)
\* An event newer than the queue.
LEMMA LeadsNew ==
  ASSUME NEW q \in Seq(Event), NEW e \in Event, \A f \in Elements(q) : f.rid = e.rid => f.n < e.n
  PROVE  Leads(e, q)
<1>1. \A i \in 1..Len(q) : q[i].rid = e.rid => q[i].n < e.n
  BY AtPlace, Zenon
<1>2. \A i \in 1..Len(q) : q[i].n \in Int /\ e.n \in Int
  <2>1. \A i \in 1..Len(q) : q[i] \in Event
    OBVIOUS
  <2> QED
    BY <2>1, EventTyped, Zenon
<1> QED
  BY <1>1, <1>2 DEF Leads

\* One more event at the end.
LEMMA LeadsAppend ==
  ASSUME NEW q \in Seq(Event), NEW e \in Event, NEW x \in Event, Leads(e, q),
         x = e \/ x.rid # e.rid \/ x.n < e.n \/ e \in Elements(q)
  PROVE  Leads(e, Append(q, x))
<1> DEFINE p == Append(q, x)
<1>1. /\ Len(q) \in Nat /\ Len(p) = Len(q) + 1 /\ DOMAIN p = 1..Len(q) + 1
      /\ p[Len(q) + 1] = x /\ \A i \in 1..Len(q) : p[i] = q[i]
  OBVIOUS
<1> HIDE DEF p
<1> SUFFICES ASSUME NEW i \in 1..Len(q) + 1, p[i].rid = e.rid, p[i].n >= e.n
             PROVE  \E k \in 1..i : p[k] = e
  BY <1>1, Zenon DEF Leads, p
<1>2. CASE i \in 1..Len(q)
  <2>1. PICK k \in 1..i : q[k] = e
    BY <1>1, <1>2 DEF Leads
  <2>2. k \in 1..Len(q)
    BY <1>1, <1>2
  <2> QED
    BY <1>1, <2>1, <2>2, Zenon
<1>3. CASE i = Len(q) + 1
  <2>1. x.n \in Int /\ e.n \in Int
    BY DEF Event
  <2>2. x = e \/ e \in Elements(q)
    BY <1>1, <1>3, <2>1
  <2>3. CASE x = e
    BY <1>1, <1>3, <2>3, Zenon
  <2>4. CASE e \in Elements(q)
    <3>1. PICK k \in 1..Len(q) : q[k] = e
      BY <2>4 DEF Elements
    <3> QED
      BY <1>1, <1>3, <3>1
  <2> QED
    BY <2>2, <2>3, <2>4, Zenon
<1> QED
  BY <1>1, <1>2, <1>3

\* The head is taken.
LEMMA LeadsTail ==
  ASSUME NEW q \in Seq(Event), q # <<>>, NEW e \in Event, Leads(e, q)
  PROVE  /\ Head(q) = e \/ Leads(e, Tail(q))
         /\ Head(q) = e \/ Head(q).rid # e.rid \/ Head(q).n < e.n
<1>1. /\ Len(q) \in Nat /\ Len(q) > 0 /\ DOMAIN Tail(q) = 1..Len(q) - 1 /\ Head(q) = q[1]
      /\ \A i \in 1..Len(q) - 1 : Tail(q)[i] = q[i + 1]
  OBVIOUS
<1>2. 1 \in DOMAIN q /\ q[1].n \in Int /\ e.n \in Int
  <2>1. 1 \in DOMAIN q /\ q[1] \in Event
    BY <1>1
  <2> QED
    BY <2>1, EventTyped, Zenon
<1>3. Head(q) = e \/ Head(q).rid # e.rid \/ Head(q).n < e.n
  <2> SUFFICES ASSUME q[1].rid = e.rid, q[1].n >= e.n
               PROVE  q[1] = e
    BY <1>1, <1>2
  <2>1. PICK k \in 1..1 : q[k] = e
    BY <1>2, Zenon DEF Leads
  <2> QED
    BY <2>1
<1>4. ASSUME Head(q) # e, NEW i \in 1..Len(q) - 1, Tail(q)[i].rid = e.rid, Tail(q)[i].n >= e.n
      PROVE  \E k \in 1..i : Tail(q)[k] = e
  <2>1. i + 1 \in DOMAIN q /\ q[i + 1] = Tail(q)[i]
    BY <1>1
  <2>2. PICK k \in 1..i + 1 : q[k] = e
    BY <1>4, <2>1, Zenon DEF Leads
  <2>3. k # 1
    BY <1>1, <1>4, <2>2, Zenon
  <2>4. k - 1 \in 1..i /\ k - 1 \in 1..Len(q) - 1 /\ (k - 1) + 1 = k
    BY <1>1, <2>3
  <2>5. Tail(q)[k - 1] = e
    BY <1>1, <2>2, <2>4, Zenon
  <2> QED
    BY <2>4, <2>5, Zenon
<1>5. Head(q) = e \/ Leads(e, Tail(q))
  BY <1>1, <1>4, Zenon DEF Leads
<1> QED
  BY <1>3, <1>5, Zenon

\* Two queues become one.
LEMMA LeadsConcat ==
  ASSUME NEW x \in Seq(Event), NEW y \in Seq(Event), NEW e \in Event,
         Leads(e, x), e \in Elements(x) \/ Leads(e, y)
  PROVE  Leads(e, x \o y)
<1> DEFINE p == x \o y
<1>1. /\ Len(x) \in Nat /\ Len(y) \in Nat /\ DOMAIN p = 1..Len(x) + Len(y)
      /\ \A i \in 1..Len(x) : p[i] = x[i]
      /\ \A i \in 1..Len(y) : p[Len(x) + i] = y[i]
  OBVIOUS
<1> HIDE DEF p
<1> SUFFICES ASSUME NEW i \in 1..Len(x) + Len(y), p[i].rid = e.rid, p[i].n >= e.n
             PROVE  \E k \in 1..i : p[k] = e
  BY <1>1, Zenon DEF Leads, p
<1>2. CASE i \in 1..Len(x)
  <2>1. PICK k \in 1..i : x[k] = e
    BY <1>1, <1>2 DEF Leads
  <2>2. k \in 1..Len(x)
    BY <1>1, <1>2
  <2> QED
    BY <1>1, <2>1, <2>2, Zenon
<1>3. CASE i > Len(x) /\ e \in Elements(x)
  <2>1. PICK k \in 1..Len(x) : x[k] = e
    BY <1>3 DEF Elements
  <2>2. k \in 1..i
    BY <1>1, <1>3
  <2> QED
    BY <1>1, <2>1, <2>2, Zenon
<1>4. CASE i > Len(x) /\ Leads(e, y)
  <2> DEFINE j == i - Len(x)
  <2>1. j \in 1..Len(y) /\ Len(x) + j = i
    BY <1>1, <1>4
  <2>2. y[j] = p[i]
    BY <1>1, <2>1, Zenon
  <2> HIDE DEF j
  <2>3. PICK k \in 1..j : y[k] = e
    BY <1>4, <2>1, <2>2 DEF Leads
  <2>4. k \in 1..Len(y) /\ Len(x) + k \in 1..i
    BY <1>1, <2>1
  <2>5. p[Len(x) + k] = e
    BY <1>1, <2>3, <2>4, Zenon
  <2> QED
    BY <2>4, <2>5, Zenon
<1> QED
  BY <1>1, <1>2, <1>3, <1>4

\* A queue is cut in two.
LEMMA LeadsCut ==
  ASSUME NEW q \in Seq(Event), NEW n \in 0..Len(q), NEW e \in Event, Leads(e, q)
  PROVE  /\ Leads(e, SubSeq(q, 1, n))
         /\ e \in Elements(SubSeq(q, 1, n)) \/ Leads(e, SubSeq(q, n + 1, Len(q)))
<1> DEFINE x == SubSeq(q, 1, n)
<1> DEFINE y == SubSeq(q, n + 1, Len(q))
<1>1. x \in Seq(Event) /\ Len(x) = n /\ DOMAIN x = 1..n /\ \A i \in 1..n : x[i] = q[i]
  OBVIOUS
<1>2. y \in Seq(Event) /\ DOMAIN y = 1..Len(q) - n /\ \A i \in 1..Len(q) - n : y[i] = q[n + i]
  OBVIOUS
<1>3. Len(q) \in Nat
  OBVIOUS
<1> HIDE DEF x, y
<1>4. ASSUME NEW i \in 1..n, x[i].rid = e.rid, x[i].n >= e.n
      PROVE  \E k \in 1..i : x[k] = e
  <2>1. i \in DOMAIN q /\ q[i] = x[i]
    BY <1>1, <1>3
  <2>2. PICK k \in 1..i : q[k] = e
    BY <1>4, <2>1, Zenon DEF Leads
  <2>3. k \in 1..n
    OBVIOUS
  <2> QED
    BY <1>1, <2>2, <2>3, Zenon
<1>5. ASSUME e \notin Elements(x), NEW i \in 1..Len(q) - n, y[i].rid = e.rid, y[i].n >= e.n
      PROVE  \E k \in 1..i : y[k] = e
  <2>1. n + i \in DOMAIN q /\ q[n + i] = y[i]
    BY <1>2, <1>3
  <2>2. PICK k \in 1..n + i : q[k] = e
    BY <1>5, <2>1, Zenon DEF Leads
  <2>3. ~ (k \in 1..n)
    <3> SUFFICES ASSUME k \in 1..n
                 PROVE  FALSE
      BY Zenon
    <3>1. x[k] = e /\ x[k] \in Elements(x)
      BY <1>1, <2>2, AtPlace, Zenon
    <3> QED
      BY <1>5, <3>1, Zenon
  <2>4. k - n \in 1..i /\ k - n \in 1..Len(q) - n /\ n + (k - n) = k
    BY <1>3, <2>3
  <2>5. y[k - n] = e
    BY <1>2, <2>2, <2>4, Zenon
  <2> QED
    BY <2>4, <2>5, Zenon
<1>6. Leads(e, x)
  BY <1>1, <1>4, Zenon DEF Leads
<1>7. e \in Elements(x) \/ Leads(e, y)
  BY <1>2, <1>5, Zenon DEF Leads
<1> QED
  BY <1>6, <1>7, Zenon DEF x, y

\* An empty queue.
LEMMA LeadsNothing ==
  ASSUME NEW e
  PROVE  Leads(e, <<>>)
  BY DEF Leads
-------------------------------------------------------------------------------
(***************************************************************************)
(* The handover.                                                           *)
(***************************************************************************)
\* A queue that e was appended to or not.
Grown(q, p, e) == p = q \/ p = Append(q, e)

\* A queue that may have got a new event at its end: its elements,
LEMMA GrownElements ==
  ASSUME NEW q \in Seq(Event), NEW p, NEW e \in Event, Grown(q, p, e)
  PROVE  p \in Seq(Event) /\ Elements(q) \subseteq Elements(p) /\ Elements(p) \subseteq Elements(q) \cup {e}
<1>1. CASE p = q
  BY <1>1, Zenon
<1>2. CASE p = Append(q, e)
  <2>1. Append(q, e) \in Seq(Event) /\ Elements(Append(q, e)) = Elements(q) \cup {e}
    BY AppendElements
  <2> QED
    BY <1>2, <2>1, Zenon
<1> QED
  BY <1>1, <1>2, Zenon DEF Grown

\* ... the place of the new event,
LEMMA GrownNew ==
  ASSUME NEW q \in Seq(Event), NEW p, NEW e \in Event, Grown(q, p, e),
         \A f \in Elements(q) : f.rid = e.rid => f.n < e.n
  PROVE  Leads(e, p)
<1>1. Leads(e, q)
  BY LeadsNew, Zenon
<1> QED
  BY <1>1, LeadsAppend, Zenon DEF Grown

\* ... and that of the others.
LEMMA GrownOld ==
  ASSUME NEW q \in Seq(Event), NEW p, NEW e \in Event, Grown(q, p, e),
         NEW f \in Event, Leads(f, q), f \in Elements(q)
  PROVE  Leads(f, p)
  BY LeadsAppend, Zenon DEF Grown

\* What the order in the queues says of one of the events on their way.
LEMMA HandoverSend ==
  ASSUME TypeInv, IdsInv, HandoverInv, NEW s \in Source, NEW e \in Event, NEW R, Sent(s, e, R),
         e.rid = s_publishers[s] \/ e.rid = ids + 1, UNCHANGED Aside
  PROVE  HandoverInv'
<1>0. TypeOK /\ Known \subseteq Event
  BY KnownTyped, Zenon DEF TypeInv
<1>1. \A f \in Known : f.rid = e.rid => f.src = s /\ f.n < e.n
  BY SentIsNew, Zenon
<1>2. e \notin Known
  BY <1>1, EventTyped
<1>3. /\ socket \in Seq(Event) /\ cache \in Seq(Event) /\ m_from_cache \in Seq(Event) /\ drained \in Seq(Event)
      /\ Elements(socket) \subseteq Known /\ Elements(cache) \subseteq Known
      /\ Elements(m_from_cache) \subseteq Known /\ Elements(drained) \subseteq Known
      /\ Pending \subseteq Known /\ accepted \subseteq Known
  BY <1>0, Zenon DEF TypeOK, Known, Queued, Pending
<1>4. Grown(socket, socket', e) /\ Grown(cache, cache', e)
  BY Zenon DEF Sent, Grown
<1>5. /\ socket' \in Seq(Event) /\ cache' \in Seq(Event)
      /\ Elements(socket) \subseteq Elements(socket') /\ Elements(socket') \subseteq Elements(socket) \cup {e}
      /\ Elements(cache) \subseteq Elements(cache') /\ Elements(cache') \subseteq Elements(cache) \cup {e}
  BY <1>3, <1>4, GrownElements, ZenonT(30)
<1>6. /\ UNCHANGED <<eventd, sub, sources, m_cache_read, m_from_cache, m_track, drained, seen, gone, account>>
  BY Zenon DEF Aside
<1>7. /\ e \in Elements(socket') => /\ sub \in {"connected", "running", "draining", "drained"}
                                    /\ s \in sources
      /\ e \in Elements(cache') => eventd \in {"init", "caching"}
      /\ cache' # cache => eventd \in {"init", "caching"}
      /\ socket' # socket => sub \in {"connected", "running", "draining", "drained"} /\ s \in sources
  <2>1. /\ "socket" \in R => /\ sub \in {"connected", "running", "draining", "drained"}
                             /\ s \in sources
        /\ "cache" \in R => eventd \in {"init", "caching"}
    BY Zenon DEF Sent, Receivers
  <2> QED
    BY <1>2, <1>3, <2>1, Zenon DEF Sent
<1>8. ASSUME e \in accepted'
      PROVE  /\ e \in Elements(socket') \cup Elements(cache')
             /\ eventd \in {"init", "caching"} => e \in Elements(cache')
             /\ eventd # "down" /\ s \in sources /\ sub \in {"connected", "running", "draining", "drained"}
                  => e \in Elements(socket')
  <2>1. R # {} /\ R = Receivers(s)
    BY <1>2, <1>3, <1>8, Zenon DEF Sent
  <2>2. /\ "socket" \in R => e \in Elements(socket')
        /\ "cache" \in R => e \in Elements(cache')
    BY <1>3, AppendElements DEF Sent
  <2>3. R \subseteq {"socket", "cache"}
    BY <2>1, Zenon DEF Receivers
  <2>4. /\ eventd \in {"init", "caching"} => "cache" \in R
        /\ eventd # "down" /\ s \in sources /\ sub \in {"connected", "running", "draining", "drained"}
             => "socket" \in R
    BY <2>1, Zenon DEF Receivers
  <2> QED
    BY <2>1, <2>2, <2>3, <2>4, Zenon
<1>9. \A f \in Pending' : f # e => f \in Pending /\ f \in Event
  BY <1>0, <1>3, <1>6, Zenon DEF Pending, Sent
<1>10. /\ \A f \in Elements(socket) : f.rid = e.rid => f.n < e.n
       /\ \A f \in Elements(cache) : f.rid = e.rid => f.n < e.n
       /\ \A f \in Elements(m_from_cache) : f.rid = e.rid => f.n < e.n
       /\ \A f \in Elements(drained) : f.rid = e.rid => f.n < e.n
  BY <1>1, <1>3, Zenon
<1>11. Leads(e, socket') /\ Leads(e, cache') /\ Leads(e, m_from_cache) /\ Leads(e, drained)
  BY <1>3, <1>4, <1>10, GrownNew, LeadsNew, Zenon
<1>12. NothingLostAtHandover'
  <2>1. accepted' \subseteq accepted \cup {e}
    BY Zenon DEF Sent
  <2> QED
    BY <1>5, <1>6, <1>8, <2>1, Zenon DEF HandoverInv, NothingLostAtHandover
<1>13. PlacesInv'
  <2>1. PlacesInv
    BY Zenon DEF HandoverInv
  <2>2. sub \in {"none", "hung"} => UNCHANGED socket
    BY <1>7, Zenon
  <2>3. eventd \in {"idle", "down"} => UNCHANGED cache
    BY <1>7, Zenon
  <2>4. \A f \in Elements(socket') : f \in Elements(socket) \/ (f.src = s /\ s \in sources)
    BY <1>5, <1>7, Zenon DEF Sent
  <2> QED
    BY <1>6, <2>1, <2>2, <2>3, <2>4, Zenon DEF PlacesInv
<1>14. CachingInv'
  <2>1. CachingInv
    BY Zenon DEF HandoverInv
  <2>2. ASSUME eventd = "caching", NEW f \in Pending', f \in Elements(cache')
        PROVE  Leads(f, cache')
    <3>1. CASE f = e
      BY <1>11, <3>1, Zenon
    <3>2. CASE f # e
      <4>1. f \in Pending /\ f \in Event /\ f \in Elements(cache)
        BY <1>5, <1>9, <2>2, <3>2, Zenon
      <4>2. Leads(f, cache)
        BY <2>1, <2>2, <4>1, Zenon DEF CachingInv
      <4> QED
        BY <1>3, <1>4, <4>1, <4>2, GrownOld, Zenon
    <3> QED
      BY <3>1, <3>2, Zenon
  <2>3. ASSUME sub = "connected", eventd = "caching", NEW f \in Pending', f \in Elements(socket')
        PROVE  f \in Elements(cache')
    <3>1. CASE f = e
      BY <1>8, <2>3, <3>1, Zenon DEF Pending
    <3>2. CASE f # e
      BY <1>5, <1>9, <2>1, <2>3, <3>2, Zenon DEF CachingInv
    <3> QED
      BY <3>1, <3>2, Zenon
  <2> QED
    BY <1>6, <2>2, <2>3, Zenon DEF CachingInv
<1>15. ReadingInv'
  <2>1. ReadingInv /\ CachingInv /\ PlacesInv
    BY Zenon DEF HandoverInv
  <2>2. Grown(MyCache, MyCache', e) /\ (MyCache' # MyCache => sub = "connected" /\ eventd = "caching")
    <3>1. CASE sub = "connected" /\ eventd = "caching"
      BY <1>4, <1>6, <3>1, Zenon DEF MyCache
    <3>2. CASE sub = "running" /\ m_cache_read /\ eventd = "stopped"
      BY <1>6, <1>7, <3>2, Zenon DEF MyCache, Grown
    <3>3. CASE ~ (sub = "connected" /\ eventd = "caching") /\ ~ (sub = "running" /\ m_cache_read /\ eventd = "stopped")
      <4>1. MyCache = <<>>
        BY <3>3, Zenon DEF MyCache
      <4>2. MyCache' = <<>>
        BY <1>6, <3>3, Zenon DEF MyCache
      <4> QED
        BY <4>1, <4>2, Zenon DEF Grown
    <3> QED
      BY <3>1, <3>2, <3>3, Zenon
  <2>3. /\ MyCache \in Seq(Event) /\ Elements(MyCache) \subseteq Elements(cache)
        /\ \A f \in Elements(MyCache) : f.rid = e.rid => f.n < e.n
    BY <1>3, <1>10, NoElements DEF MyCache
  <2>4. /\ MyCache' \in Seq(Event) /\ Elements(MyCache) \subseteq Elements(MyCache')
        /\ Elements(MyCache') \subseteq Elements(MyCache) \cup {e}
        /\ Leads(e, MyCache')
    BY <2>2, <2>3, GrownElements, GrownNew, Zenon
  <2> SUFFICES ASSUME sub \in {"connected", "running"}, NEW f \in Pending',
                      f \in Elements(m_from_cache) \cup Elements(MyCache') \cup Elements(socket')
               PROVE  /\ LeadsAll(f, m_from_cache, MyCache', socket')
                      /\ f.rid \in DOMAIN m_track => account[f.rid].last < f.n
    BY <1>6, Zenon DEF ReadingInv
  <2>5. CASE f = e
    <3>1. LeadsAll(f, m_from_cache, MyCache', socket')
      BY <1>11, <2>4, <2>5, Zenon DEF LeadsAll
    <3>2. ASSUME e.rid \in DOMAIN m_track
          PROVE  account[e.rid].last < e.n
      <4>1. account[e.rid].last <= sent[e.rid] /\ account[e.rid].last \in Int /\ sent[e.rid] \in Int
        BY <3>2, EventTyped, SMTT(30) DEF TypeInv, TypeOK, NumbersInv
      <4> QED
        BY <4>1, SMTT(30) DEF Sent
    <3> QED
      BY <2>5, <3>1, <3>2, Zenon
  <2>6. CASE f # e
    <3>1. /\ f \in Pending /\ f \in Event
          /\ f \in Elements(m_from_cache) \cup Elements(MyCache) \cup Elements(socket)
      BY <1>5, <1>9, <2>4, <2>6, Zenon
    <3>2. /\ LeadsAll(f, m_from_cache, MyCache, socket)
          /\ f.rid \in DOMAIN m_track => account[f.rid].last < f.n
      BY <2>1, <3>1, Zenon DEF ReadingInv
    <3>3. Leads(f, m_from_cache)
      BY <3>2, Zenon DEF LeadsAll
    <3>4. f \in Elements(m_from_cache) \/ Leads(f, MyCache')
      <4>1. CASE MyCache' = MyCache
        BY <3>2, <4>1, Zenon DEF LeadsAll
      <4>2. CASE MyCache' # MyCache
        <5>1. sub = "connected" /\ eventd = "caching" /\ MyCache = cache /\ m_from_cache = <<>>
          BY <2>1, <2>2, <4>2, Zenon DEF MyCache, PlacesInv
        <5>2. f \in Elements(cache)
          BY <2>1, <3>1, <5>1, NoElements, Zenon DEF CachingInv
        <5>3. Leads(f, MyCache) /\ f \in Elements(MyCache)
          BY <3>2, <5>1, <5>2, NoElements, Zenon DEF LeadsAll
        <5> QED
          BY <2>2, <2>3, <3>1, <5>3, GrownOld, Zenon
      <4> QED
        BY <4>1, <4>2, Zenon
    <3>5. f \in Elements(m_from_cache) \cup Elements(MyCache') \/ Leads(f, socket')
      <4>1. CASE f \in Elements(m_from_cache) \cup Elements(MyCache)
        BY <2>4, <4>1, Zenon
      <4>2. CASE f \notin Elements(m_from_cache) \cup Elements(MyCache)
        <5>1. Leads(f, socket) /\ f \in Elements(socket)
          BY <3>1, <3>2, <4>2, Zenon DEF LeadsAll
        <5> QED
          BY <1>3, <1>4, <3>1, <5>1, GrownOld, Zenon
      <4> QED
        BY <4>1, <4>2, Zenon
    <3> QED
      BY <3>2, <3>3, <3>4, <3>5, Zenon DEF LeadsAll
  <2> QED
    BY <2>5, <2>6, Zenon
<1>16. HandingInv'
  <2>1. HandingInv /\ PlacesInv
    BY Zenon DEF HandoverInv
  <2>2. ASSUME eventd = "init", sub = "draining", NEW f \in Pending'
        PROVE  /\ f \in Elements(drained) \cup Elements(socket') \cup Elements(cache') =>
                    LeadsAll(f, drained, socket', cache')
               /\ f \in Elements(cache') /\ f.src \in sources => f \in Elements(drained) \cup Elements(socket')
    <3>1. CASE f = e
      <4>1. e \in accepted' /\ e.src = s
        BY <3>1, Zenon DEF Pending, Sent
      <4>2. LeadsAll(f, drained, socket', cache')
        BY <1>11, <3>1, Zenon DEF LeadsAll
      <4> QED
        BY <1>8, <2>2, <3>1, <4>1, <4>2, Zenon
    <3>2. CASE f # e
      <4>1. f \in Pending /\ f \in Event /\ f \in Known
        BY <1>3, <1>9, <3>2, Zenon
      <4>2. /\ f \in Elements(drained) \cup Elements(socket) \cup Elements(cache) =>
                 LeadsAll(f, drained, socket, cache)
            /\ f \in Elements(cache) /\ f.src \in sources => f \in Elements(drained) \cup Elements(socket)
        BY <2>1, <2>2, <4>1, Zenon DEF HandingInv
      <4>3. f \in Elements(cache') /\ f.src \in sources => f \in Elements(drained) \cup Elements(socket')
        BY <1>5, <3>2, <4>2, Zenon
      <4>4. ASSUME f \in Elements(drained) \cup Elements(socket') \cup Elements(cache')
            PROVE  LeadsAll(f, drained, socket', cache')
        <5>1. f \in Elements(drained) \cup Elements(socket) \cup Elements(cache)
          BY <1>5, <3>2, <4>4, Zenon
        <5>2. /\ Leads(f, drained)
              /\ f \in Elements(drained) \/ Leads(f, socket)
              /\ f \in Elements(drained) \cup Elements(socket) \/ Leads(f, cache)
          BY <4>2, <5>1, Zenon DEF LeadsAll
        <5>3. f \in Elements(drained) \/ Leads(f, socket')
          <6> SUFFICES ASSUME f \notin Elements(drained)
                       PROVE  Leads(f, socket')
            BY Zenon
          <6>1. CASE f \in Elements(socket)
            BY <1>3, <1>4, <4>1, <5>2, <6>1, GrownOld, Zenon
          <6>2. CASE f \notin Elements(socket)
            <7>1. f \in Elements(cache) /\ f.src \notin sources
              BY <4>2, <5>1, <6>2, Zenon
            <7>2. CASE socket' = socket
              BY <5>2, <7>2, Zenon
            <7>3. CASE socket' # socket
              <8>1. socket' = Append(socket, e) /\ s \in sources
                BY <1>4, <1>7, <7>3, Zenon DEF Grown
              <8>2. e.rid # f.rid
                BY <1>1, <4>1, <7>1, <8>1, Zenon
              <8> QED
                BY <1>3, <4>1, <5>2, <8>1, <8>2, LeadsAppend, Zenon
            <7> QED
              BY <7>2, <7>3, Zenon
          <6> QED
            BY <6>1, <6>2, Zenon
        <5>4. f \in Elements(drained) \cup Elements(socket') \/ Leads(f, cache')
          <6>1. CASE f \in Elements(drained) \cup Elements(socket)
            BY <1>5, <6>1, Zenon
          <6>2. CASE f \notin Elements(drained) \cup Elements(socket)
            BY <1>3, <1>4, <4>1, <5>1, <5>2, <6>2, GrownOld, Zenon
          <6> QED
            BY <6>1, <6>2, Zenon
        <5> QED
          BY <5>2, <5>3, <5>4, Zenon DEF LeadsAll
      <4> QED
        BY <4>3, <4>4, Zenon
    <3> QED
      BY <3>1, <3>2, Zenon
  <2>3. ASSUME eventd = "init", sub = "drained", NEW f \in Pending'
        PROVE  /\ f \in Elements(drained) \cup Elements(cache') => LeadsAll(f, drained, cache', <<>>)
               /\ f \in Elements(socket') => f \in Elements(cache')
    <3>1. CASE f = e
      <4>1. e \in accepted' /\ e.src = s
        BY <3>1, Zenon DEF Pending, Sent
      <4>2. LeadsAll(f, drained, cache', <<>>)
        BY <1>11, <3>1, LeadsNothing, Zenon DEF LeadsAll
      <4> QED
        BY <1>8, <2>3, <3>1, <4>1, <4>2, Zenon
    <3>2. CASE f # e
      <4>1. f \in Pending /\ f \in Event
        BY <1>9, <3>2, Zenon
      <4>2. /\ f \in Elements(drained) \cup Elements(cache) => LeadsAll(f, drained, cache, <<>>)
            /\ f \in Elements(socket) => f \in Elements(cache)
        BY <2>1, <2>3, <4>1, Zenon DEF HandingInv
      <4>3. f \in Elements(socket') => f \in Elements(cache')
        BY <1>5, <3>2, <4>2, Zenon
      <4>4. ASSUME f \in Elements(drained) \cup Elements(cache')
            PROVE  LeadsAll(f, drained, cache', <<>>)
        <5>1. f \in Elements(drained) \cup Elements(cache)
          BY <1>5, <3>2, <4>4, Zenon
        <5>2. Leads(f, drained) /\ (f \in Elements(drained) \/ Leads(f, cache))
          BY <4>2, <5>1, Zenon DEF LeadsAll
        <5>3. f \in Elements(drained) \/ Leads(f, cache')
          BY <1>3, <1>4, <4>1, <5>1, <5>2, GrownOld, Zenon
        <5> QED
          BY <5>2, <5>3, LeadsNothing, Zenon DEF LeadsAll
      <4> QED
        BY <4>3, <4>4, Zenon
    <3> QED
      BY <3>1, <3>2, Zenon
  <2> QED
    BY <1>6, <2>2, <2>3, Zenon DEF HandingInv
<1> QED
  BY <1>12, <1>13, <1>14, <1>15, <1>16, Zenon DEF HandoverInv

\* What the handover is about.
handoverVars == <<eventd, cache, sub, sources, socket, m_cache_read, m_from_cache, m_track, drained,
                  seen, accepted, gone, account>>

\* A step that changes nothing of what is on its way.
LEMMA HandoverQuiet ==
  ASSUME HandoverInv, UNCHANGED handoverVars
  PROVE  HandoverInv'
<1>1. Pending' = Pending /\ MyCache' = MyCache
  BY Zenon DEF handoverVars, Pending, MyCache
<1>2. NothingLostAtHandover'
  BY Zenon DEF handoverVars, HandoverInv, NothingLostAtHandover
<1>3. PlacesInv'
  BY Zenon DEF handoverVars, HandoverInv, PlacesInv
<1>4. ReadingInv'
  BY <1>1, Zenon DEF handoverVars, HandoverInv, ReadingInv
<1>5. CachingInv'
  BY <1>1, Zenon DEF handoverVars, HandoverInv, CachingInv
<1>6. HandingInv'
  BY <1>1, Zenon DEF handoverVars, HandoverInv, HandingInv
<1> QED
  BY <1>2, <1>3, <1>4, <1>5, <1>6, Zenon DEF HandoverInv

\* The steps of publishers.
LEMMA HandoverPublisher ==
  ASSUME TypeInv, IdsInv, HandoverInv, NEW s \in Source,
         GetPublisher(s) \/ DoPublish(s) \/ DropPublisher(s) \/ PublisherExit(s)
  PROVE  HandoverInv'
<1>1. UNCHANGED Aside
  BY PublisherSteps, Zenon
<1>2. CASE UNCHANGED <<sent, events, socket, cache, accepted, ids>>
  <2>1. UNCHANGED handoverVars
    BY <1>1, <1>2, Zenon DEF Aside, handoverVars
  <2> QED
    BY <2>1, HandoverQuiet, Zenon
<1>3. CASE \E e \in Event : (\E R : Sent(s, e, R)) /\ (e.rid = s_publishers[s] \/ e.rid = ids + 1)
  BY <1>1, <1>3, HandoverSend, Zenon
<1> QED
  BY <1>2, <1>3, PublisherSteps, Zenon

\* The event service goes away, or the clock goes on.
LEMMA HandoverService ==
  ASSUME TypeInv, HandoverInv, EventdDown \/ EventdUp \/ Tick
  PROVE  HandoverInv'
<1>0. NothingLostAtHandover /\ PlacesInv /\ ReadingInv /\ CachingInv /\ HandingInv
  BY Zenon DEF HandoverInv
<1>1. CASE Tick
  <2>1. UNCHANGED handoverVars
    BY <1>1, Zenon DEF Tick, subVars, handoverVars
  <2> QED
    BY <2>1, HandoverQuiet, Zenon
<1>2. CASE EventdUp
  <2>1. /\ eventd = "down" /\ eventd' = "idle"
        /\ UNCHANGED <<cache, sub, sources, socket, m_cache_read, m_from_cache, m_track, drained,
                        seen, accepted, gone, account>>
    BY <1>2, Zenon DEF EventdUp, subVars
  <2>2. Pending' = Pending /\ MyCache' = <<>> /\ MyCache = <<>>
    BY <2>1, Zenon DEF Pending, MyCache
  <2>3. NothingLostAtHandover'
    BY <1>0, <2>1, Zenon DEF NothingLostAtHandover
  <2>4. PlacesInv'
    BY <1>0, <2>1, Zenon DEF PlacesInv
  <2>5. ReadingInv'
    BY <1>0, <2>1, <2>2, Zenon DEF ReadingInv
  <2>6. CachingInv' /\ HandingInv'
    BY <2>1, Zenon DEF CachingInv, HandingInv
  <2> QED
    BY <2>3, <2>4, <2>5, <2>6, Zenon DEF HandoverInv
<1>3. CASE EventdDown
  <2>1. /\ eventd' = "down" /\ cache' = <<>> /\ gone' = gone \cup Elements(cache)
        /\ UNCHANGED <<sub, sources, socket, m_cache_read, m_from_cache, m_track, drained,
                        seen, accepted, account>>
    BY <1>3, Zenon DEF EventdDown, subVars
  <2>2. /\ \A e \in Pending' : e \in Pending /\ e \notin Elements(cache)
        /\ MyCache' = <<>>
    BY <2>1, Zenon DEF Pending, MyCache
  <2>3. NothingLostAtHandover'
    BY <1>0, <2>1, Zenon DEF NothingLostAtHandover
  <2>4. PlacesInv'
    BY <1>0, <2>1, Zenon DEF PlacesInv
  <2>5. ReadingInv'
    <3>1. Elements(MyCache) \subseteq Elements(cache) /\ Elements(<<>>) = {}
      BY NoElements, Zenon DEF MyCache
    <3> SUFFICES ASSUME sub \in {"connected", "running"}, NEW e \in Pending',
                        e \in Elements(m_from_cache) \cup Elements(<<>>) \cup Elements(socket)
                 PROVE  /\ LeadsAll(e, m_from_cache, <<>>, socket)
                        /\ e.rid \in DOMAIN m_track => account[e.rid].last < e.n
      BY <2>1, <2>2, Zenon DEF ReadingInv
    <3>2. e \in Pending /\ e \notin Elements(MyCache)
      BY <2>2, <3>1, Zenon
    <3>3. /\ LeadsAll(e, m_from_cache, MyCache, socket)
          /\ e.rid \in DOMAIN m_track => account[e.rid].last < e.n
      BY <1>0, <3>1, <3>2, Zenon DEF ReadingInv
    <3> QED
      BY <3>2, <3>3, LeadsNothing, Zenon DEF LeadsAll
  <2>6. CachingInv' /\ HandingInv'
    BY <2>1, Zenon DEF CachingInv, HandingInv
  <2> QED
    BY <2>3, <2>4, <2>5, <2>6, Zenon DEF HandoverInv
<1> QED
  BY <1>1, <1>2, <1>3, Zenon

\* A new subscriber.
LEMMA HandoverConnect ==
  ASSUME TypeInv, HandoverInv, NEW f \in Filters, NEW use_cache \in BOOLEAN, Connect(f, use_cache)
  PROVE  HandoverInv'
<1>0. NothingLostAtHandover /\ PlacesInv /\ ReadingInv /\ CachingInv /\ HandingInv
  BY Zenon DEF HandoverInv
<1>1. /\ sub = "none" /\ sub' \in {"connected", "running"}
      /\ socket' = <<>> /\ m_track' = <<>> /\ m_from_cache' = <<>> /\ m_cache_read' = FALSE
      /\ UNCHANGED <<eventd, cache, drained, seen, accepted, gone, account>>
  BY Zenon DEF Connect
<1>2. socket = <<>> /\ drained = <<>> /\ m_from_cache = <<>> /\ Elements(<<>>) = {} /\ DOMAIN <<>> = {}
  BY <1>0, <1>1, NoElements DEF PlacesInv
<1>3. Pending' = Pending
  BY <1>1, Zenon DEF Pending
<1>4. NothingLostAtHandover'
  BY <1>0, <1>1, <1>2, Zenon DEF NothingLostAtHandover
<1>5. PlacesInv'
  BY <1>0, <1>1, <1>2, Zenon DEF PlacesInv
<1>6. CachingInv'
  BY <1>0, <1>1, <1>2, <1>3, Zenon DEF CachingInv
<1>7. HandingInv'
  BY <1>1, Zenon DEF HandingInv
<1>8. ReadingInv'
  <2>1. MyCache' = IF sub' = "connected" /\ eventd = "caching" THEN cache ELSE <<>>
    BY <1>1, Zenon DEF MyCache
  <2> SUFFICES ASSUME NEW e \in Pending, e \in Elements(<<>>) \cup Elements(MyCache') \cup Elements(<<>>)
               PROVE  LeadsAll(e, <<>>, MyCache', <<>>)
    BY <1>1, <1>2, <1>3, Zenon DEF ReadingInv
  <2>2. e \in Elements(cache) /\ eventd = "caching" /\ MyCache' = cache
    BY <1>2, <2>1, Zenon
  <2>3. Leads(e, cache)
    BY <1>0, <2>2, Zenon DEF CachingInv
  <2> QED
    BY <2>2, <2>3, LeadsNothing, Zenon DEF LeadsAll
<1> QED
  BY <1>4, <1>5, <1>6, <1>7, <1>8, Zenon DEF HandoverInv

\* The destructor of a subscriber without the cache.
LEMMA HandoverClose ==
  ASSUME TypeInv, HandoverInv, Close
  PROVE  HandoverInv'
<1>0. NothingLostAtHandover /\ PlacesInv /\ ReadingInv /\ CachingInv /\ HandingInv
  BY Zenon DEF HandoverInv
<1>1. /\ sub' = "none"
      /\ socket' = <<>> /\ m_from_cache' = <<>> /\ m_cache_read' = FALSE /\ m_track' = <<>> /\ drained' = <<>>
      /\ gone' = gone \cup Elements(socket) \cup Elements(m_from_cache) \cup Elements(drained)
      /\ UNCHANGED <<eventd, cache, sources, seen, accepted, account>>
  BY Zenon DEF Close
<1>2. \A e \in Pending' : e \in Pending
  BY <1>1, Zenon DEF Pending
<1>3. NothingLostAtHandover'
  BY <1>0, <1>1, Zenon DEF NothingLostAtHandover
<1>4. PlacesInv'
  BY <1>0, <1>1, NoElements, Zenon DEF PlacesInv
<1>5. CachingInv'
  BY <1>0, <1>1, <1>2, Zenon DEF CachingInv
<1>6. HandingInv' /\ ReadingInv'
  BY <1>1, Zenon DEF HandingInv, ReadingInv
<1> QED
  BY <1>3, <1>4, <1>5, <1>6, Zenon DEF HandoverInv

\* EVENT_CACHE_STOP.
LEMMA HandoverCacheStop ==
  ASSUME TypeInv, HandoverInv, CacheStop
  PROVE  HandoverInv'
<1>0. NothingLostAtHandover /\ PlacesInv /\ ReadingInv /\ CachingInv /\ HandingInv
  BY Zenon DEF HandoverInv
<1>a. /\ sub = "connected" /\ sub' = "running"
      /\ UNCHANGED <<sources, socket, m_from_cache, m_track, drained, seen, accepted, account, cache>>
  BY Zenon DEF CacheStop, EventdStop
<1>b. EventdStop => (eventd' = eventd \/ (eventd = "caching" /\ eventd' = "stopped"))
  BY Zenon DEF EventdStop
<1>c. eventd' = eventd \/ (eventd = "caching" /\ eventd' = "stopped")
  BY <1>b, Zenon DEF CacheStop
<1>1. /\ sub = "connected" /\ sub' = "running"
      /\ UNCHANGED <<sources, socket, m_from_cache, m_track, drained, seen, accepted, account, cache>>
      /\ eventd' = eventd \/ (eventd = "caching" /\ eventd' = "stopped")
  BY <1>a, <1>c, Zenon
<1>2. \/ UNCHANGED gone /\ m_cache_read' = (eventd = "caching") /\ (eventd = "caching" => eventd' = "stopped")
      \/ gone' = gone \cup Elements(cache) /\ UNCHANGED m_cache_read
  BY Zenon DEF CacheStop, EventdStop
<1>3. m_from_cache = <<>> /\ m_cache_read = FALSE /\ m_track = <<>> /\ drained = <<>>
  BY <1>0, <1>1, Zenon DEF PlacesInv
<1>4. Elements(MyCache) \subseteq Elements(cache) /\ Elements(<<>>) = {} /\ DOMAIN <<>> = {}
  BY NoElements DEF MyCache
<1>5. \A e \in Pending' : e \in Pending
  BY <1>1, <1>2, Zenon DEF Pending
<1>6. \/ UNCHANGED MyCache
      \/ MyCache' = <<>> /\ \A e \in Pending' : e \notin Elements(cache)
  <2>1. CASE UNCHANGED gone /\ m_cache_read' = (eventd = "caching") /\ (eventd = "caching" => eventd' = "stopped")
    <3>1. CASE eventd = "caching"
      BY <1>1, <2>1, <3>1, Zenon DEF MyCache
    <3>2. CASE eventd # "caching"
      BY <1>1, <2>1, <3>2, Zenon DEF MyCache
    <3> QED
      BY <3>1, <3>2, Zenon
  <2>2. CASE gone' = gone \cup Elements(cache) /\ UNCHANGED m_cache_read
    BY <1>1, <1>3, <2>2, Zenon DEF MyCache, Pending
  <2> QED
    BY <1>2, <2>1, <2>2, Zenon
<1>7. NothingLostAtHandover'
  BY <1>0, <1>1, <1>2, Zenon DEF NothingLostAtHandover
<1>8. PlacesInv'
  BY <1>0, <1>1, <1>3, Zenon DEF PlacesInv
<1>9. CachingInv' /\ HandingInv'
  BY <1>0, <1>1, <1>5, Zenon DEF CachingInv, HandingInv
<1>10. ReadingInv'
  <2> SUFFICES ASSUME NEW e \in Pending', e \in Elements(<<>>) \cup Elements(MyCache') \cup Elements(socket)
               PROVE  LeadsAll(e, <<>>, MyCache', socket)
    BY <1>1, <1>3, <1>4, Zenon DEF ReadingInv
  <2>1. e \in Elements(<<>>) \cup Elements(MyCache) \cup Elements(socket)
    BY <1>4, <1>6, Zenon
  <2>2. LeadsAll(e, <<>>, MyCache, socket)
    BY <1>0, <1>1, <1>3, <1>5, <2>1, Zenon DEF ReadingInv
  <2> QED
    BY <1>4, <1>6, <2>2, LeadsNothing, Zenon DEF LeadsAll
<1> QED
  BY <1>7, <1>8, <1>9, <1>10, Zenon DEF HandoverInv

\* EVENT_CACHE_READ moves the oldest events of the cache.
LEMMA HandoverCacheRead ==
  ASSUME TypeInv, HandoverInv, CacheRead
  PROVE  HandoverInv'
<1>0. NothingLostAtHandover /\ PlacesInv /\ ReadingInv /\ CachingInv /\ HandingInv
  BY Zenon DEF HandoverInv
<1>1. /\ sub = "running" /\ m_cache_read /\ m_from_cache = <<>>
      /\ UNCHANGED <<eventd, sub, sources, socket, m_track, drained, seen, accepted, account>>
      /\ m_cache_read' = (m_from_cache' # <<>>)
  BY Zenon DEF CacheRead
<1>2. /\ cache \in Seq(Event) /\ Pending \subseteq Event
      /\ Elements(MyCache) \subseteq Elements(cache) /\ Elements(<<>>) = {}
  BY NoElements, Zenon DEF TypeInv, TypeOK, Pending, MyCache
<1>3. CASE UNCHANGED <<m_from_cache, cache>> /\ ((eventd # "stopped" /\ UNCHANGED gone) \/ gone' = gone \cup Elements(cache))
  <2>1. m_cache_read' = FALSE /\ MyCache' = <<>>
    BY <1>1, <1>3, Zenon DEF MyCache
  <2>2. \A e \in Pending' : e \in Pending /\ e \notin Elements(MyCache)
    BY <1>1, <1>2, <1>3, Zenon DEF Pending, MyCache
  <2>3. NothingLostAtHandover'
    BY <1>0, <1>1, <1>3, Zenon DEF NothingLostAtHandover
  <2>4. PlacesInv'
    BY <1>0, <1>1, <1>3, Zenon DEF PlacesInv
  <2>5. CachingInv' /\ HandingInv'
    BY <1>0, <1>1, <1>3, <2>2, Zenon DEF CachingInv, HandingInv
  <2>6. ReadingInv'
    <3> SUFFICES ASSUME NEW e \in Pending', e \in Elements(<<>>) \cup Elements(<<>>) \cup Elements(socket)
                 PROVE  /\ LeadsAll(e, <<>>, <<>>, socket)
                        /\ e.rid \in DOMAIN m_track => account[e.rid].last < e.n
      BY <1>1, <1>3, <2>1, Zenon DEF ReadingInv
    <3>1. /\ LeadsAll(e, <<>>, MyCache, socket)
          /\ e.rid \in DOMAIN m_track => account[e.rid].last < e.n
      BY <1>0, <1>1, <1>2, <2>2, Zenon DEF ReadingInv
    <3> QED
      BY <2>2, <3>1, LeadsNothing, Zenon DEF LeadsAll
  <2> QED
    BY <2>3, <2>4, <2>5, <2>6, Zenon DEF HandoverInv
<1>4. CASE /\ eventd = "stopped" /\ UNCHANGED gone
           /\ \E n \in 0..Len(cache) :
                /\ cache # <<>> => n > 0
                /\ m_from_cache' = SubSeq(cache, 1, n)
                /\ cache' = SubSeq(cache, n + 1, Len(cache))
  <2>1. PICK n \in 0..Len(cache) :
          /\ cache # <<>> => n > 0
          /\ m_from_cache' = SubSeq(cache, 1, n)
          /\ cache' = SubSeq(cache, n + 1, Len(cache))
    BY <1>4, Zenon
  <2>2. Elements(cache) = Elements(m_from_cache') \cup Elements(cache')
    BY <1>2, <2>1, CutElements, Zenon
  <2>3. Pending' = Pending /\ MyCache = cache
    BY <1>1, <1>4, Zenon DEF Pending, MyCache
  <2>4. MyCache' = cache' \/ (cache' = <<>> /\ MyCache' = <<>>)
    <3>1. CASE cache = <<>>
      <4>1. cache' = <<>>
        BY <1>2, <2>1, <3>1
      <4> QED
        BY <4>1, Zenon DEF MyCache
    <3>2. CASE cache # <<>>
      <4>1. m_from_cache' # <<>>
        BY <1>2, <2>1, <3>2
      <4> QED
        BY <1>1, <1>4, <4>1, Zenon DEF MyCache
    <3> QED
      BY <3>1, <3>2, Zenon
  <2>5. MyCache' = cache'
    BY <2>4, Zenon
  <2>6. NothingLostAtHandover'
    BY <1>0, <1>1, <1>2, <1>4, <2>2, Zenon DEF NothingLostAtHandover
  <2>7. PlacesInv'
    BY <1>0, <1>1, <1>4, Zenon DEF PlacesInv
  <2>8. CachingInv' /\ HandingInv'
    BY <1>1, <1>4, Zenon DEF CachingInv, HandingInv
  <2>9. ReadingInv'
    <3> SUFFICES ASSUME NEW e \in Pending,
                        e \in Elements(m_from_cache') \cup Elements(cache') \cup Elements(socket)
                 PROVE  /\ LeadsAll(e, m_from_cache', cache', socket)
                        /\ e.rid \in DOMAIN m_track => account[e.rid].last < e.n
      BY <1>1, <2>3, <2>5, Zenon DEF ReadingInv
    <3>1. /\ LeadsAll(e, <<>>, cache, socket)
          /\ e.rid \in DOMAIN m_track => account[e.rid].last < e.n
      BY <1>0, <1>1, <1>2, <2>2, <2>3, Zenon DEF ReadingInv
    <3>2. Leads(e, cache) /\ (e \in Elements(cache) \/ Leads(e, socket))
      BY <1>2, <3>1, Zenon DEF LeadsAll
    <3>3. Leads(e, m_from_cache') /\ (e \in Elements(m_from_cache') \/ Leads(e, cache'))
      BY <1>2, <2>1, <3>2, LeadsCut, Zenon
    <3> QED
      BY <2>2, <3>1, <3>2, <3>3, Zenon DEF LeadsAll
  <2> QED
    BY <2>6, <2>7, <2>8, <2>9, Zenon DEF HandoverInv
<1> QED
  BY <1>3, <1>4, Zenon DEF CacheRead

\* The event that is received next is new to the subscriber, or no longer on its way.
LEMMA HandoverReceive ==
  ASSUME TypeInv, TrackInv, WithinWindow, HandoverInv, ReceiveCached \/ ReceiveFromSocket
  PROVE  HandoverInv'
<1>0. NothingLostAtHandover /\ PlacesInv /\ ReadingInv /\ CachingInv /\ HandingInv /\ TypeOK /\ Accounting
  BY Zenon DEF HandoverInv, TypeInv, TrackInv, TrackingExact
<1>1. PICK e \in Queued :
        /\ Handle(e) /\ UNCHANGED <<now, accepted, gone, sub, sources, eventd, cache, drained, m_cache_read>>
        /\ \/ /\ m_from_cache # <<>> /\ e = Head(m_from_cache) /\ m_from_cache' = Tail(m_from_cache)
              /\ UNCHANGED socket
           \/ /\ m_from_cache = <<>> /\ ~m_cache_read /\ socket # <<>> /\ e = Head(socket)
              /\ socket' = Tail(socket) /\ UNCHANGED m_from_cache
        /\ sub = "running"
  BY Receives, Zenon
<1>2. e \in Event /\ e.rid \in Id /\ e.n \in Int /\ Elements(<<>>) = {}
  BY <1>0, QueuedTyped, EventTyped, NoElements, Zenon
<1>3. /\ m_from_cache \in Seq(Event) /\ socket \in Seq(Event) /\ Pending \subseteq Event
      /\ DOMAIN m_track \subseteq Id
      /\ account \in [Id -> [first : Int, last : Int, got : Int, missed : Int]]
  BY <1>0, Zenon DEF TypeOK, Pending, TypeInv, NumbersInv
<1>4. MyCache' = MyCache
  BY <1>1, Zenon DEF MyCache
<1>5. /\ Elements(m_from_cache') \subseteq Elements(m_from_cache) /\ Elements(socket') \subseteq Elements(socket)
      /\ Elements(m_from_cache) \cup Elements(socket) = {e} \cup Elements(m_from_cache') \cup Elements(socket')
  BY <1>1, <1>3, TailElements, Zenon
<1>6. \A f \in Pending :
        LeadsAll(f, m_from_cache, MyCache, socket) =>
          /\ f = e \/ LeadsAll(f, m_from_cache', MyCache', socket')
          /\ f = e \/ e.rid # f.rid \/ e.n < f.n
  <2> SUFFICES ASSUME NEW f \in Pending, LeadsAll(f, m_from_cache, MyCache, socket), f # e
               PROVE  LeadsAll(f, m_from_cache', MyCache', socket') /\ (e.rid # f.rid \/ e.n < f.n)
    BY Zenon
  <2>1. CASE m_from_cache # <<>> /\ e = Head(m_from_cache) /\ m_from_cache' = Tail(m_from_cache) /\ UNCHANGED socket
    <3>1. Leads(f, m_from_cache)
      BY Zenon DEF LeadsAll
    <3>2. Leads(f, m_from_cache') /\ (e.rid # f.rid \/ e.n < f.n)
      BY <1>3, <2>1, <3>1, LeadsTail, Zenon
    <3>3. f \in Elements(m_from_cache) => f \in Elements(m_from_cache')
      BY <1>3, <2>1, TailElements, Zenon
    <3> QED
      BY <1>4, <2>1, <3>2, <3>3, Zenon DEF LeadsAll
  <2>2. CASE /\ m_from_cache = <<>> /\ ~m_cache_read /\ socket # <<>> /\ e = Head(socket)
             /\ socket' = Tail(socket) /\ UNCHANGED m_from_cache
    <3>1. MyCache = <<>>
      BY <1>1, <2>2, Zenon DEF MyCache
    <3>2. Leads(f, socket)
      BY <1>2, <2>2, <3>1, Zenon DEF LeadsAll
    <3>3. Leads(f, socket') /\ (e.rid # f.rid \/ e.n < f.n)
      BY <1>3, <2>2, <3>2, LeadsTail, Zenon
    <3> QED
      BY <1>4, <2>2, <3>1, <3>3, LeadsNothing, Zenon DEF LeadsAll
  <2> QED
    BY <1>1, <2>1, <2>2, Zenon
<1>7. \A f \in Pending : f \in Elements(m_from_cache) \cup Elements(MyCache) \cup Elements(socket) =>
        /\ LeadsAll(f, m_from_cache, MyCache, socket)
        /\ f.rid \in DOMAIN m_track => account[f.rid].last < f.n
  BY <1>0, <1>1, Zenon DEF ReadingInv
<1>8. PlacesInv'
  BY <1>0, <1>1, <1>5, Zenon DEF PlacesInv
<1>9. HandingInv'
  BY <1>1, Zenon DEF HandingInv
<1>10. CASE MissedBy(e) < 0 /\ UNCHANGED <<m_track, seen, mine, twice, forgotten, account>>
  <2>1. e \notin Pending
    <3> SUFFICES ASSUME e \in Pending
                 PROVE  FALSE
      BY Zenon
    <3>1. e.rid \in DOMAIN m_track
      BY <1>10 DEF MissedBy
    <3>2. MissedBy(e) = e.n - account[e.rid].last - 1
      BY <1>0, <3>1, MissedExact, Zenon
    <3>3. account[e.rid].last < e.n
      BY <1>5, <1>7, <3>1, Zenon
    <3>4. account[e.rid].last \in Int
      BY <1>2, <1>3, Zenon
    <3> QED
      BY <1>2, <1>10, <3>2, <3>3, <3>4
  <2>2. Pending' = Pending
    BY <1>1, <1>10, Zenon DEF Pending
  <2>3. NothingLostAtHandover'
    BY <1>0, <1>1, <1>5, <1>10, <2>1, Zenon DEF NothingLostAtHandover, Pending
  <2>4. CachingInv'
    BY <1>0, <1>1, <1>5, <2>2, Zenon DEF CachingInv
  <2>5. ReadingInv'
    BY <1>4, <1>5, <1>6, <1>7, <1>10, <2>1, <2>2, Zenon DEF ReadingInv
  <2> QED
    BY <1>8, <1>9, <2>3, <2>4, <2>5, Zenon DEF HandoverInv
<1>11. CASE Takes(e)
  <2>1. \A f \in Pending' : f \in Pending /\ f # e
    BY <1>1, <1>11, Zenon DEF Pending, Takes
  <2>2. NothingLostAtHandover'
    BY <1>0, <1>1, <1>5, <1>11, Zenon DEF NothingLostAtHandover, Takes
  <2>3. CachingInv'
    BY <1>0, <1>1, <1>5, <2>1, Zenon DEF CachingInv
  <2>4. /\ \A r \in DOMAIN m_track' : r # e.rid => r \in DOMAIN m_track
        /\ account'[e.rid].last = e.n
        /\ \A r \in Id : r # e.rid => account'[r] = account[r]
    <3>1. DOMAIN TrackFor(e) \subseteq DOMAIN m_track
      BY PruneForgets, Zenon DEF TrackFor
    <3> QED
      BY <1>2, <1>3, <1>11, <3>1, Zenon DEF Takes
  <2>5. ReadingInv'
    <3> SUFFICES ASSUME NEW f \in Pending',
                        f \in Elements(m_from_cache') \cup Elements(MyCache') \cup Elements(socket')
                 PROVE  /\ LeadsAll(f, m_from_cache', MyCache', socket')
                        /\ f.rid \in DOMAIN m_track' => account'[f.rid].last < f.n
      BY Zenon DEF ReadingInv
    <3>1. f \in Pending /\ f # e /\ f \in Elements(m_from_cache) \cup Elements(MyCache) \cup Elements(socket)
      BY <1>4, <1>5, <2>1, Zenon
    <3>2. LeadsAll(f, m_from_cache', MyCache', socket') /\ (e.rid # f.rid \/ e.n < f.n)
      BY <1>6, <1>7, <3>1, Zenon
    <3>3. ASSUME f.rid \in DOMAIN m_track'
          PROVE  account'[f.rid].last < f.n
      <4>1. f.rid \in Id
        BY <1>3, <3>1, EventTyped, Zenon
      <4> QED
        BY <1>7, <2>4, <3>1, <3>2, <3>3, <4>1, Zenon
    <3> QED
      BY <3>2, <3>3, Zenon
  <2> QED
    BY <1>8, <1>9, <2>2, <2>3, <2>5, Zenon DEF HandoverInv
<1> QED
  BY <1>1, <1>10, <1>11, HandleCases, Zenon

\* A destructor that hangs: nothing of what it held is given back.
LEMMA HandoverBlocks ==
  ASSUME TypeInv, HandoverInv, TermBlocks, m_from_cache' = <<>>, m_cache_read' = FALSE, m_track' = <<>>,
         UNCHANGED <<sources, seen, accepted, account>>,
         \/ UNCHANGED <<eventd, cache>>
         \/ eventd' = "init" /\ cache' = <<>> /\ eventd \in {"idle", "stopped"}
         \/ /\ eventd' = "caching" /\ sub = "drained" /\ eventd = "init"
            /\ Elements(cache') = Elements(drained) \cup Elements(cache)
            /\ \A e \in Pending : e \in Elements(cache') => Leads(e, cache')
  PROVE  HandoverInv'
<1>0. NothingLostAtHandover /\ PlacesInv /\ ReadingInv /\ CachingInv /\ HandingInv
  BY Zenon DEF HandoverInv
<1>1. /\ sub' = "hung" /\ socket' = <<>> /\ drained' = <<>>
      /\ gone' = gone \cup Elements(socket) \cup Elements(m_from_cache) \cup Elements(drained)
                   \cup (IF eventd = "stopped" THEN Elements(cache) ELSE {})
  BY Zenon DEF TermBlocks
<1>2. \A e \in Pending' : e \in Pending
  BY <1>1, Zenon DEF Pending
<1>3. Elements(cache) \subseteq Elements(cache') \cup gone'
  BY <1>0, <1>1, NoElements, Zenon DEF PlacesInv
<1>4. NothingLostAtHandover'
  BY <1>0, <1>1, <1>3, Zenon DEF NothingLostAtHandover
<1>5. PlacesInv'
  BY <1>0, <1>1, NoElements, Zenon DEF PlacesInv
<1>6. CachingInv'
  BY <1>0, <1>1, <1>2, Zenon DEF CachingInv
<1>7. HandingInv' /\ ReadingInv'
  BY <1>1, Zenon DEF HandingInv, ReadingInv
<1> QED
  BY <1>4, <1>5, <1>6, <1>7, Zenon DEF HandoverInv

\* EVENT_CACHE_INIT.
LEMMA HandoverCacheInit ==
  ASSUME TypeInv, HandoverInv, CacheInit
  PROVE  HandoverInv'
<1>0. NothingLostAtHandover /\ PlacesInv /\ ReadingInv /\ CachingInv /\ HandingInv
  BY Zenon DEF HandoverInv
<1>1. /\ sub = "running" /\ m_from_cache' = <<>> /\ m_cache_read' = FALSE /\ m_track' = <<>>
      /\ UNCHANGED <<sources, seen, accepted, account>>
  BY Zenon DEF CacheInit
<1>2. \/ TermBlocks /\ UNCHANGED <<eventd, cache>>
      \/ TermBlocks /\ eventd' = "init" /\ cache' = <<>> /\ eventd \in {"idle", "stopped"}
      \/ /\ eventd' = "init" /\ cache' = <<>> /\ sub' = "draining" /\ drained' = <<>>
         /\ gone' = gone \cup Elements(m_from_cache) \cup Elements(cache)
         /\ UNCHANGED socket
  BY Zenon DEF CacheInit, EventdInit
<1>3. CASE TermBlocks /\ UNCHANGED <<eventd, cache>>
  BY <1>1, <1>3, HandoverBlocks, Zenon
<1>4. CASE TermBlocks /\ eventd' = "init" /\ cache' = <<>> /\ eventd \in {"idle", "stopped"}
  BY <1>1, <1>4, HandoverBlocks, Zenon
<1>5. CASE /\ eventd' = "init" /\ cache' = <<>> /\ sub' = "draining" /\ drained' = <<>>
           /\ gone' = gone \cup Elements(m_from_cache) \cup Elements(cache)
           /\ UNCHANGED socket
  <2>1. Elements(<<>>) = {} /\ drained = <<>> /\ Elements(MyCache) \subseteq Elements(cache)
    BY <1>0, <1>1, NoElements, Zenon DEF PlacesInv, MyCache
  <2>2. \A e \in Pending' : e \in Pending /\ e \notin Elements(m_from_cache) \cup Elements(MyCache)
    BY <1>1, <1>5, <2>1, Zenon DEF Pending
  <2>3. NothingLostAtHandover'
    BY <1>0, <1>1, <1>5, <2>1, Zenon DEF NothingLostAtHandover
  <2>4. PlacesInv'
    BY <1>0, <1>1, <1>5, <2>1, Zenon DEF PlacesInv
  <2>5. CachingInv' /\ ReadingInv'
    BY <1>5, Zenon DEF CachingInv, ReadingInv
  <2>6. HandingInv'
    <3> SUFFICES ASSUME NEW e \in Pending', e \in Elements(socket)
                 PROVE  LeadsAll(e, <<>>, socket, <<>>)
      BY <1>5, <2>1, Zenon DEF HandingInv
    <3>1. LeadsAll(e, m_from_cache, MyCache, socket)
      BY <1>0, <1>1, <2>2, Zenon DEF ReadingInv
    <3> QED
      BY <2>1, <2>2, <3>1, LeadsNothing, Zenon DEF LeadsAll
  <2> QED
    BY <2>3, <2>4, <2>5, <2>6, Zenon DEF HandoverInv
<1> QED
  BY <1>2, <1>3, <1>4, <1>5, Zenon

\* A last event is read for the cache.
LEMMA HandoverDrain ==
  ASSUME TypeInv, HandoverInv, Drain
  PROVE  HandoverInv'
<1>0. NothingLostAtHandover /\ PlacesInv /\ ReadingInv /\ CachingInv /\ HandingInv /\ TypeOK
  BY Zenon DEF HandoverInv, TypeInv
<1>1. /\ sub = "draining" /\ socket # <<>>
      /\ drained' = Append(drained, Head(socket)) /\ socket' = Tail(socket)
      /\ UNCHANGED <<eventd, cache, sub, sources, m_cache_read, m_from_cache, m_track, seen, accepted, gone, account>>
  BY Zenon DEF Drain
<1>2. socket \in Seq(Event) /\ drained \in Seq(Event) /\ Pending \subseteq Event /\ Pending' = Pending
  BY <1>0, <1>1, Zenon DEF TypeOK, Pending
<1>3. /\ Head(socket) \in Event
      /\ Elements(socket) = {Head(socket)} \cup Elements(socket')
      /\ Elements(drained') = Elements(drained) \cup {Head(socket)}
  BY <1>1, <1>2, TailElements, AppendElements
<1>4. NothingLostAtHandover'
  BY <1>0, <1>1, <1>3, Zenon DEF NothingLostAtHandover
<1>5. PlacesInv'
  BY <1>0, <1>1, <1>3, Zenon DEF PlacesInv
<1>6. CachingInv' /\ ReadingInv'
  BY <1>0, <1>1, <1>2, Zenon DEF CachingInv, ReadingInv
<1>7. \A e \in Pending : LeadsAll(e, drained, socket, cache) => LeadsAll(e, drained', socket', cache)
  <2> SUFFICES ASSUME NEW e \in Pending, LeadsAll(e, drained, socket, cache)
               PROVE  LeadsAll(e, drained', socket', cache)
    BY Zenon
  <2>1. /\ Leads(e, drained) /\ (e \in Elements(drained) \/ Leads(e, socket))
        /\ e \in Elements(drained) \cup Elements(socket) \/ Leads(e, cache)
    BY Zenon DEF LeadsAll
  <2>2. \/ e \in Elements(drained)
        \/ Head(socket) = e
        \/ Leads(e, socket') /\ (Head(socket).rid # e.rid \/ Head(socket).n < e.n)
    BY <1>1, <1>2, <2>1, LeadsTail, Zenon
  <2>3. Leads(e, drained')
    BY <1>1, <1>2, <1>3, <2>1, <2>2, LeadsAppend, Zenon
  <2> QED
    BY <1>3, <2>1, <2>2, <2>3, Zenon DEF LeadsAll
<1>8. HandingInv'
  BY <1>0, <1>1, <1>2, <1>3, <1>7, Zenon DEF HandingInv
<1> QED
  BY <1>4, <1>5, <1>6, <1>8, Zenon DEF HandoverInv

\* The reading ends.
LEMMA HandoverDrainEnd ==
  ASSUME TypeInv, HandoverInv, DrainEnd
  PROVE  HandoverInv'
<1>0. NothingLostAtHandover /\ PlacesInv /\ ReadingInv /\ CachingInv /\ HandingInv
  BY Zenon DEF HandoverInv
<1>1. /\ sub = "draining" /\ sub' = "drained" /\ gone' = gone \cup Elements(socket)
      /\ UNCHANGED <<eventd, cache, sources, socket, m_cache_read, m_from_cache, m_track, drained,
                     seen, accepted, account>>
  BY Zenon DEF DrainEnd
<1>2. \A e \in Pending' : e \in Pending /\ e \notin Elements(socket)
  BY <1>1, Zenon DEF Pending
<1>3. NothingLostAtHandover'
  BY <1>0, <1>1, Zenon DEF NothingLostAtHandover
<1>4. PlacesInv'
  BY <1>0, <1>1, Zenon DEF PlacesInv
<1>5. CachingInv' /\ ReadingInv'
  BY <1>0, <1>1, <1>2, Zenon DEF CachingInv, ReadingInv
<1>6. HandingInv'
  BY <1>0, <1>1, <1>2, LeadsNothing, Zenon DEF HandingInv, LeadsAll
<1> QED
  BY <1>3, <1>4, <1>5, <1>6, Zenon DEF HandoverInv

\* EVENT_CACHE_START puts what was read before what was captured.
LEMMA HandoverCacheStart ==
  ASSUME TypeInv, HandoverInv, CacheStart
  PROVE  HandoverInv'
<1>0. NothingLostAtHandover /\ PlacesInv /\ ReadingInv /\ CachingInv /\ HandingInv /\ TypeOK
  BY Zenon DEF HandoverInv, TypeInv
<1>1. /\ sub = "drained" /\ m_from_cache' = <<>>
      /\ UNCHANGED <<sources, m_cache_read, m_track, seen, accepted, account>>
  BY Zenon DEF CacheStart
<1>2. m_from_cache = <<>> /\ m_cache_read' = FALSE /\ m_track' = <<>> /\ Elements(<<>>) = {}
  BY <1>0, <1>1, NoElements, Zenon DEF PlacesInv
<1>3. \/ TermBlocks /\ UNCHANGED <<eventd, cache>>
      \/ TermBlocks /\ eventd = "init" /\ eventd' = "caching" /\ cache' = drained \o cache
      \/ /\ eventd = "init" /\ eventd' = "caching" /\ cache' = drained \o cache
         /\ sub' = "none" /\ socket' = <<>> /\ drained' = <<>> /\ UNCHANGED gone
  BY Zenon DEF CacheStart, EventdStart
<1>4. drained \in Seq(Event) /\ cache \in Seq(Event) /\ Pending \subseteq Event
  BY <1>0, Zenon DEF TypeOK, Pending
<1>5. ASSUME eventd = "init", cache' = drained \o cache
      PROVE  /\ Elements(cache') = Elements(drained) \cup Elements(cache)
             /\ \A e \in Pending : e \in Elements(cache') => Leads(e, cache')
  <2>1. Elements(cache') = Elements(drained) \cup Elements(cache)
    BY <1>4, <1>5, ConcatElements, ZenonT(30)
  <2>2. ASSUME NEW e \in Pending, e \in Elements(cache')
        PROVE  Leads(e, cache')
    <3>1. Leads(e, drained) /\ (e \in Elements(drained) \/ Leads(e, cache))
      BY <1>0, <1>1, <1>5, <2>1, <2>2, Zenon DEF HandingInv, LeadsAll
    <3> QED
      BY <1>4, <1>5, <3>1, LeadsConcat, Zenon
  <2> QED
    BY <2>1, <2>2, Zenon
<1>6. CASE TermBlocks /\ UNCHANGED <<eventd, cache>>
  BY <1>1, <1>2, <1>6, HandoverBlocks, Zenon
<1>7. CASE TermBlocks /\ eventd = "init" /\ eventd' = "caching" /\ cache' = drained \o cache
  BY <1>1, <1>2, <1>5, <1>7, HandoverBlocks, Zenon
<1>8. CASE /\ eventd = "init" /\ eventd' = "caching" /\ cache' = drained \o cache
           /\ sub' = "none" /\ socket' = <<>> /\ drained' = <<>> /\ UNCHANGED gone
  <2>1. Pending' = Pending
    BY <1>1, <1>8, Zenon DEF Pending
  <2>2. \A e \in Pending : e \in Elements(socket) => e \in Elements(cache)
    BY <1>0, <1>1, <1>8, Zenon DEF HandingInv
  <2>3. NothingLostAtHandover'
    BY <1>0, <1>1, <1>2, <1>5, <1>8, <2>2, Zenon DEF NothingLostAtHandover, Pending
  <2>4. PlacesInv'
    BY <1>1, <1>2, <1>8, Zenon DEF PlacesInv
  <2>5. CachingInv'
    BY <1>5, <1>8, <2>1, Zenon DEF CachingInv
  <2>6. HandingInv' /\ ReadingInv'
    BY <1>8, Zenon DEF HandingInv, ReadingInv
  <2> QED
    BY <2>3, <2>4, <2>5, <2>6, Zenon DEF HandoverInv
<1> QED
  BY <1>3, <1>6, <1>7, <1>8, Zenon

\* Every step keeps what is on its way in order.
LEMMA HandoverStep ==
  ASSUME TypeInv, TrackInv, IdsInv, WithinWindow, HandoverInv, [Next]_vars
  PROVE  HandoverInv'
<1>1. CASE UNCHANGED vars
  BY <1>1, HandoverQuiet, Zenon DEF vars, pubVars, subVars, handoverVars
<1>2. CASE Next
  BY <1>2, HandoverPublisher, HandoverService, HandoverConnect, HandoverClose, HandoverCacheStop,
     HandoverCacheRead, HandoverReceive, HandoverCacheInit, HandoverDrain, HandoverDrainEnd,
     HandoverCacheStart, Zenon DEF Next, SubscriberStep
<1> QED
  BY <1>1, <1>2, Zenon

\* The initial state.
LEMMA InitHandover ==
  ASSUME Init
  PROVE  IdsInv /\ MineInv /\ HandoverInv
<1>1. Elements(<<>>) = {} /\ Known = {} /\ Pending = {}
  BY NoElements, Zenon DEF Init, Known, Queued, Pending
<1>2. \A s \in Source : s_publishers[s] <= ids
  BY DEF Init, NoPublisher
<1>3. \A s, t \in Source : s_publishers[s] \in Id /\ s_publishers[s] = s_publishers[t] => s = t
  BY DEF Init, NoPublisher, Id
<1>4. IdsInv
  BY <1>1, <1>2, <1>3, Zenon DEF IdsInv
<1>5. MineInv
  BY Zenon DEF Init, MineInv, NoDuplicates
<1>6. NothingLostAtHandover /\ PlacesInv
  BY <1>1, Zenon DEF Init, NothingLostAtHandover, PlacesInv
<1>7. ReadingInv /\ CachingInv /\ HandingInv
  BY Zenon DEF Init, ReadingInv, CachingInv, HandingInv
<1> QED
  BY <1>4, <1>5, <1>6, <1>7, Zenon DEF HandoverInv
-------------------------------------------------------------------------------
(***************************************************************************)
(* What is tracked.                                                        *)
(***************************************************************************)
INSTANCE FiniteSetTheorems
INSTANCE WellFoundedInduction

\* A set of naturals has a least member.
LEMMA LeastNatural ==
  ASSUME NEW T, T \subseteq Nat, T # {}
  PROVE  \E x \in T : \A y \in T : x <= y
<1>1. IsWellFoundedOn(OpToRel(<, Nat), Nat)
  BY NatLessThanWellFounded, Zenon
<1>2. PICK x \in T : \A y \in T : ~ (<<y, x>> \in OpToRel(<, Nat))
  BY <1>1, WFMin, Zenon
<1>3. ASSUME NEW y \in T, y < x
      PROVE  FALSE
  <2>1. <<y, x>> \in OpToRel(<, Nat)
    BY <1>3, Zenon DEF OpToRel
  <2> QED
    BY <1>2, <2>1, Zenon
<1> QED
  BY <1>3

\* prune_track leaves at most MAX_PUBLISHERS_COUNT ids.
LEMMA PruneBounds ==
  ASSUME TypeOK, \A r \in DOMAIN m_track : m_track[r].epoch <= now
  PROVE  /\ IsFiniteSet(DOMAIN PruneTrack(m_track))
         /\ Cardinality(DOMAIN PruneTrack(m_track)) <= MAX_PUBLISHERS_COUNT
<1> DEFINE since(t) == {r \in DOMAIN m_track : m_track[r].epoch >= t}
<1> DEFINE few == {t \in 0..now + 1 : Cardinality(since(t)) <= MAX_PUBLISHERS_COUNT}
<1> DEFINE t0 == CHOOSE t \in few : \A u \in few : t <= u
<1>1. /\ now \in Nat /\ MAX_PUBLISHERS_COUNT \in Nat /\ DOMAIN m_track \subseteq Id
      /\ \A r \in DOMAIN m_track : m_track[r].epoch \in Nat
  <2>1. MAX_PUBLISHERS_COUNT \in Nat /\ MaxNow \in Nat
    BY EventsAssumption, Zenon
  <2>2. now \in Nat /\ DOMAIN m_track \subseteq Id
    BY <2>1 DEF TypeOK
  <2>3. \A r \in DOMAIN m_track : m_track[r].epoch \in Nat
    BY <2>1 DEF TypeOK
  <2> QED
    BY <2>1, <2>2, <2>3, Zenon
<1>2. since(now + 1) = {}
  BY <1>1
<1>3. now + 1 \in few
  BY <1>1, <1>2, FS_EmptySet, SMTT(30)
<1>4. few \subseteq Nat
  BY <1>1
<1>5. \E t \in few : \A u \in few : t <= u
  <2> HIDE DEF few
  <2> QED
    BY <1>3, <1>4, LeastNatural, Zenon
<1>6. t0 \in few
  <2> HIDE DEF few
  <2> QED
    BY <1>5, Zenon
<1>7. DOMAIN PruneTrack(m_track) = since(t0)
  <2>1. PruneTrack(m_track) = [r \in since(t0) |-> m_track[r]]
    BY Zenon DEF PruneTrack
  <2> HIDE DEF t0
  <2> QED
    BY <2>1, Zenon
<1>8. IsFiniteSet(DOMAIN PruneTrack(m_track))
  <2>1. IsFiniteSet(Id)
    BY EventsAssumption, FS_Interval DEF Id
  <2>2. DOMAIN PruneTrack(m_track) \subseteq Id
    BY <1>1, PruneForgets, Zenon
  <2> QED
    BY <2>1, <2>2, FS_Subset, Zenon
<1> HIDE DEF t0
<1> QED
  BY <1>6, <1>7, <1>8, Zenon

\* A step that leaves the table of ids alone, or clears it.
LEMMA TrackKept ==
  ASSUME TypeInv, TrackInv, m_track' = m_track \/ m_track' = <<>>, UNCHANGED account, now' \in {now, now + 1}
  PROVE  TrackInv'
<1>1. CASE m_track' = <<>>
  <2>1. DOMAIN m_track' = {} /\ Cardinality(DOMAIN m_track') = 0
    BY <1>1, FS_EmptySet
  <2>2. MAX_PUBLISHERS_COUNT \in Nat /\ PruneSlack \in Nat
    BY EventsAssumption, Zenon
  <2> QED
    BY <2>1, <2>2 DEF TrackInv, TrackingExact, Accounting, TrackBounded
<1>2. CASE m_track' = m_track
  <2>1. Accounting' /\ TrackBounded'
    BY <1>2, Zenon DEF TrackInv, TrackingExact, Accounting, TrackBounded
  <2>2. ASSUME NEW r \in DOMAIN m_track
        PROVE  m_track[r].epoch <= now'
    <3>1. m_track[r].epoch \in Int /\ now \in Int
      BY DEF TypeInv, TypeOK
    <3>2. m_track[r].epoch <= now
      BY Zenon DEF TrackInv
    <3> QED
      BY <3>1, <3>2, SMTT(30)
  <2> QED
    BY <1>2, <2>1, <2>2, Zenon DEF TrackInv, TrackingExact
<1> QED
  BY <1>1, <1>2, Zenon

\* A received event is accounted for.
LEMMA HandleTracks ==
  ASSUME TypeInv, TrackInv, WithinWindow, NEW e \in Queued, Handle(e), UNCHANGED now
  PROVE  TrackInv'
<1>0. TypeOK /\ Accounting /\ e \in Known
  BY Zenon DEF TypeInv, TrackInv, TrackingExact, Known
<1>1. e.rid \in Id /\ e.n \in Int /\ e.ctrl \in BOOLEAN
  BY <1>0, KnownTyped, SMTT(30)
<1>2. /\ DOMAIN m_track \subseteq Id /\ now \in Int
      /\ account \in [Id -> [first : Int, last : Int, got : Int, missed : Int]]
      /\ MAX_PUBLISHERS_COUNT \in Nat /\ PruneSlack \in Nat /\ MaxIds \in Nat
  <2>1. MAX_PUBLISHERS_COUNT \in Nat /\ PruneSlack \in Nat /\ MaxIds \in Nat
    BY EventsAssumption, Zenon
  <2> QED
    BY <2>1 DEF TypeInv, TypeOK, NumbersInv
<1>3. CASE UNCHANGED <<m_track, seen, mine, twice, forgotten, account>>
  BY <1>3, TrackKept, Zenon
<1>4. CASE Takes(e)
  <2>1. /\ DOMAIN TrackFor(e) \subseteq DOMAIN m_track
        /\ \A r \in DOMAIN TrackFor(e) : TrackFor(e)[r] = m_track[r]
    BY PruneForgets, Zenon DEF TrackFor
  <2>2. /\ \A r \in DOMAIN m_track' : r # e.rid => r \in DOMAIN m_track /\ m_track'[r] = m_track[r]
        /\ e.rid \in DOMAIN m_track' => m_track'[e.rid] = [seq |-> SequenceNr(e), epoch |-> now]
        /\ DOMAIN m_track' \subseteq DOMAIN TrackFor(e) \cup {e.rid}
    BY <1>4, <2>1, Zenon DEF Takes
  <2>3. /\ \A r \in Id : r # e.rid => account'[r] = account[r]
        /\ account'[e.rid] =
             IF e.rid \in DOMAIN m_track
             THEN [first |-> account[e.rid].first, last |-> e.n, got |-> account[e.rid].got + 1,
                   missed |-> account[e.rid].missed + MissedBy(e)]
             ELSE [first |-> e.n, last |-> e.n, got |-> 1, missed |-> 0]
    BY <1>1, <1>2, <1>4, Zenon DEF Takes
  <2>4. Accounting'
    <3> SUFFICES ASSUME NEW r \in DOMAIN m_track'
                 PROVE  /\ account'[r].got + account'[r].missed = account'[r].last - account'[r].first + 1
                        /\ m_track'[r].seq = account'[r].last % (SEQUENCE_MAX + 1)
      BY Zenon DEF Accounting
    <3>1. CASE r # e.rid
      BY <1>0, <1>2, <2>2, <2>3, <3>1, Zenon DEF Accounting
    <3>2. CASE r = e.rid
      <4>1. m_track'[r].seq = account'[r].last % (SEQUENCE_MAX + 1)
        BY <2>2, <2>3, <3>2, SMTT(30) DEF SequenceNr
      <4>2. CASE r \in DOMAIN m_track
        <5>1. MissedBy(e) = e.n - account[r].last - 1
          BY <1>0, <3>2, <4>2, MissedExact, Zenon
        <5>2. account[r].got + account[r].missed = account[r].last - account[r].first + 1
          BY <1>0, <4>2, Zenon DEF Accounting
        <5>3. /\ account[r].got \in Int /\ account[r].missed \in Int
              /\ account[r].last \in Int /\ account[r].first \in Int
          BY <1>1, <1>2, <3>2, ZenonT(30)
        <5> QED
          BY <1>1, <2>3, <3>2, <4>1, <4>2, <5>1, <5>2, <5>3, SMTT(30)
      <4>3. CASE r \notin DOMAIN m_track
        BY <1>1, <2>3, <3>2, <4>1, <4>3, SMTT(30)
      <4> QED
        BY <4>2, <4>3, ZenonT(30)
    <3> QED
      BY <3>1, <3>2, Zenon
  <2>5. TrackBounded'
    <3>1. IsFiniteSet(Id)
      BY <1>2, FS_Interval DEF Id
    <3>2. IsFiniteSet(DOMAIN m_track)
      BY <1>2, <3>1, FS_Subset, Zenon
    <3>3. IsFiniteSet(DOMAIN TrackFor(e))
      BY <2>1, <3>2, FS_Subset, Zenon
    <3>4. \A r \in DOMAIN m_track : m_track[r].epoch <= now
      BY Zenon DEF TrackInv
    <3>5. CASE e.rid \in DOMAIN m_track
      <4>1. DOMAIN m_track' \subseteq DOMAIN m_track
        BY <2>1, <2>2, <3>5, Zenon
      <4>2. Cardinality(DOMAIN m_track') <= Cardinality(DOMAIN m_track) /\ Cardinality(DOMAIN m_track') \in Nat
        BY <3>2, <4>1, FS_Subset, FS_CardinalityType, Zenon
      <4>3. Cardinality(DOMAIN m_track) \in Nat
        BY <3>2, FS_CardinalityType, ZenonT(30)
      <4> QED
        BY <1>2, <4>2, <4>3 DEF TrackInv, TrackingExact, TrackBounded
    <3>6. CASE e.rid \notin DOMAIN m_track
      <4>1. Cardinality(DOMAIN TrackFor(e)) \in Nat /\ Cardinality(DOMAIN m_track) \in Nat
        BY <3>2, <3>3, FS_CardinalityType, ZenonT(30)
      <4>2. Cardinality(DOMAIN TrackFor(e)) <= MAX_PUBLISHERS_COUNT + PruneSlack
        BY <1>0, <1>2, <3>4, <3>6, <4>1, PruneBounds, SMTT(30) DEF TrackFor
      <4>3. /\ IsFiniteSet(DOMAIN TrackFor(e) \cup {e.rid})
            /\ Cardinality(DOMAIN TrackFor(e) \cup {e.rid}) <= Cardinality(DOMAIN TrackFor(e)) + 1
            /\ Cardinality(DOMAIN TrackFor(e) \cup {e.rid}) \in Nat
        <5>1. /\ IsFiniteSet(DOMAIN TrackFor(e) \cup {e.rid})
              /\ Cardinality(DOMAIN TrackFor(e) \cup {e.rid}) =
                   IF e.rid \in DOMAIN TrackFor(e) THEN Cardinality(DOMAIN TrackFor(e))
                   ELSE Cardinality(DOMAIN TrackFor(e)) + 1
          BY <3>3, FS_AddElement, Zenon
        <5> QED
          BY <4>1, <5>1
      <4>4. /\ Cardinality(DOMAIN m_track') <= Cardinality(DOMAIN TrackFor(e) \cup {e.rid})
            /\ Cardinality(DOMAIN m_track') \in Nat
        BY <2>2, <4>3, FS_Subset, FS_CardinalityType, ZenonT(30)
      <4> QED
        BY <1>2, <4>1, <4>2, <4>3, <4>4, SMTT(30) DEF TrackBounded
    <3> QED
      BY <3>5, <3>6, Zenon
  <2>6. \A r \in DOMAIN m_track' : m_track'[r].epoch <= now'
    BY <1>2, <2>2 DEF TrackInv
  <2> QED
    BY <2>4, <2>5, <2>6, Zenon DEF TrackInv, TrackingExact
<1> QED
  BY <1>3, <1>4, HandleCases, Zenon

\* Every step keeps the table exact.
LEMMA TrackStep ==
  ASSUME TypeInv, TrackInv, WithinWindow, [Next]_vars
  PROVE  TrackInv'
<1>1. CASE Untracked
  BY <1>1, TrackKept, Zenon DEF Untracked
<1>2. CASE ReceiveCached \/ ReceiveFromSocket
  BY <1>2, Receives, HandleTracks, Zenon
<1>3. ASSUME NEW f \in Filters, NEW use_cache \in BOOLEAN, Connect(f, use_cache)
      PROVE  TrackInv'
  BY <1>3, TrackKept, Zenon DEF Connect
<1> QED
  BY <1>1, <1>2, <1>3, StepUntracked, Zenon

\* Fewer events than half of the numbers are within the window.
LEMMA FewerWithin ==
  ASSUME TypeInv, FewerThanHalf
  PROVE  WithinWindow
<1> SUFFICES ASSUME NEW e \in Queued, e.rid \in DOMAIN m_track
             PROVE  /\ e.n - account[e.rid].last <= Modulus \div 2
                    /\ account[e.rid].last - e.n < Modulus \div 2
  BY Zenon DEF WithinWindow
<1>1. e \in Known /\ TypeOK /\ Before \in Nat /\ MaxSent \in Nat
  BY EventsAssumption, Zenon DEF Known, TypeInv
<1>2. e.rid \in Id /\ e.n \in Int
  BY <1>1, KnownTyped, SMTT(30)
<1>3. /\ account[e.rid].last \in Int /\ sent[e.rid] \in Int /\ events \in 0..MaxSent
      /\ Base(e.rid) < e.n /\ e.n <= sent[e.rid]
      /\ Base(e.rid) < account[e.rid].last /\ account[e.rid].last <= sent[e.rid]
      /\ sent[e.rid] <= Base(e.rid) + events
  BY <1>1, <1>2, SMTT(30) DEF TypeInv, TypeOK, NumbersInv
<1>4. Base(e.rid) \in Int
  BY <1>1 DEF Base
<1>5. Modulus \div 2 \in Int /\ MaxSent <= Modulus \div 2
  BY Half, SMTT(30) DEF FewerThanHalf
<1> QED
  BY <1>1, <1>2, <1>3, <1>4, <1>5

\* The initial state.
LEMMA InitTrack ==
  ASSUME Init
  PROVE  TrackInv
<1>1. DOMAIN m_track = {} /\ Cardinality(DOMAIN m_track) = 0
  BY FS_EmptySet DEF Init
<1>2. MAX_PUBLISHERS_COUNT \in Nat /\ PruneSlack \in Nat
  BY EventsAssumption, Zenon
<1> QED
  BY <1>1, <1>2, SMTT(30) DEF TrackInv, TrackingExact, Accounting, TrackBounded

\* What a subscriber received and what it counted as missed are all the events
\* of an id since it is tracked, and the table of ids stays small (event_receive,
\* prune_track), as long as the numbers on their way are within the window.
THEOREM ExactWithinWindow == Spec /\ []WithinWindow => []TrackingExact
<1>1. Init => TypeInv /\ TrackInv
  BY InitTypes, InitTrack, Zenon
<1>2. TypeInv /\ TrackInv /\ WithinWindow /\ [Next]_vars => TypeInv' /\ TrackInv'
  BY TypeStep, TrackStep, Zenon
<1>3. TrackInv => TrackingExact
  BY Zenon DEF TrackInv
<1> QED
  BY <1>1, <1>2, <1>3, PTL DEF Spec

\* In particular while fewer events are sent than half of the numbers.
THEOREM TrackingIsExact ==
  ASSUME FewerThanHalf
  PROVE  Spec => []TrackingExact
<1>1. Init => TypeInv /\ TrackInv
  BY InitTypes, InitTrack, Zenon
<1>2. TypeInv /\ TrackInv /\ [Next]_vars => TypeInv' /\ TrackInv'
  BY FewerWithin, TypeStep, TrackStep, Zenon
<1>3. TrackInv => TrackingExact
  BY Zenon DEF TrackInv
<1> QED
  BY <1>1, <1>2, <1>3, PTL DEF Spec

\* Between a subscriber that stops, the cache and the next subscriber no event
\* is lost, and no subscriber receives one twice (cache_init, cache_start,
\* cache_read, event_receive), as long as the numbers on their way are within
\* the window.
THEOREM HandoverWithinWindow == Spec /\ []WithinWindow => []HandoverExact
<1> DEFINE Inv == TypeInv /\ TrackInv /\ IdsInv /\ MineInv /\ HandoverInv
<1>1. Init => Inv
  BY InitTypes, InitTrack, InitHandover, Zenon
<1>2. Inv /\ WithinWindow /\ [Next]_vars => Inv'
  BY TypeStep, TrackStep, IdsStep, MineStep, HandoverStep, ZenonT(30)
<1>3. Inv => HandoverExact
  BY Zenon DEF MineInv, HandoverInv, HandoverExact
<1> QED
  BY <1>1, <1>2, <1>3, PTL DEF Spec

\* In particular while fewer events are sent than half of the numbers.
THEOREM HandoverIsExact ==
  ASSUME FewerThanHalf
  PROVE  Spec => []HandoverExact
<1> DEFINE Inv == TypeInv /\ TrackInv /\ IdsInv /\ MineInv /\ HandoverInv
<1>1. Init => Inv
  BY InitTypes, InitTrack, InitHandover, Zenon
<1>2. Inv /\ [Next]_vars => Inv'
  BY FewerWithin, TypeStep, TrackStep, IdsStep, MineStep, HandoverStep, ZenonT(30)
<1>3. Inv => HandoverExact
  BY Zenon DEF MineInv, HandoverInv, HandoverExact
<1> QED
  BY <1>1, <1>2, <1>3, PTL DEF Spec
===============================================================================
