--------------------------- MODULE SubscriberTable ---------------------------
(***************************************************************************)
(* SubscriberStateTable (subscriberstatetable.cpp): an application follows *)
(* a table through Redis' keyspace notifications.  A notification only     *)
(* names the key and the command, so the entry is read when the event is   *)
(* processed, and may by then be newer than the event or gone.  The        *)
(* constructor subscribes first and then reads the keys and entries one by *)
(* one.  Writers change the table all the while.                           *)
(***************************************************************************)
EXTENDS Integers, Sequences, Hashes

CONSTANTS Key,
          MaxEvents   \* bound: events not yet processed

ASSUME SubscriberAssumption == MaxEvents \in Nat \ {0}

VARIABLES
  table,      \* the hashes T:key in Redis
  socket,     \* keyspace events not read from the subscription
  subscriber, \* "down", "subscribed", "scan", "idle", "popping", "events"
  scan,       \* keys found by getKeys() that the constructor has not read
  m_keyspace_event_buffer,
  m_buffer,   \* entries not handed out
  m_ready,    \* the object is in the ready set of Select
  vkco,       \* entries that the running pops() has collected
  seen        \* the table as the application knows it

vars == <<table, socket, subscriber, scan, m_keyspace_event_buffer, m_buffer, m_ready, vkco, seen>>

Event == [key : Key, op : {"hset", "hdel", "del"}]
Kco == [key : Key, op : {"SET", "DEL"}, fvs : Hash]

\* Types of the table, the events on their way and the buffers of the subscriber.
TypeOK ==
  /\ table \in [Key -> Hash]
  /\ socket \in Seq(Event)
  /\ subscriber \in {"down", "subscribed", "scan", "idle", "popping", "events"}
  /\ scan \subseteq Key
  /\ m_keyspace_event_buffer \in Seq(Event)
  /\ m_buffer \in Seq(Kco)
  /\ m_ready \in BOOLEAN
  /\ vkco \in Seq(Kco)
  /\ seen \in [Key -> Hash]

Init ==
  /\ table \in [Key -> Hash]
  /\ socket = <<>>
  /\ subscriber = "down"
  /\ scan = {}
  /\ m_keyspace_event_buffer = <<>>
  /\ m_buffer = <<>>
  /\ m_ready = FALSE
  /\ vkco = <<>>
  /\ seen = [k \in Key |-> EmptyHash]
-------------------------------------------------------------------------------
(***************************************************************************)
(* Writers, each with one Redis command, and the events Redis sends.       *)
(***************************************************************************)
Notify(es) ==
  /\ Len(socket) + Len(m_keyspace_event_buffer) + Len(es) <= MaxEvents
  /\ socket' = IF subscriber = "down" THEN <<>> ELSE socket \o es

\* HSET
WriterSet(k, u) ==
  /\ table' = [table EXCEPT ![k] = HSet(@, u)]
  /\ Notify(<<[key |-> k, op |-> "hset"]>>)
  /\ UNCHANGED <<subscriber, scan, m_keyspace_event_buffer, m_buffer, m_ready, vkco, seen>>

\* DEL
WriterDel(k) ==
  /\ table[k] # EmptyHash
  /\ table' = [table EXCEPT ![k] = EmptyHash]
  /\ Notify(<<[key |-> k, op |-> "del"]>>)
  /\ UNCHANGED <<subscriber, scan, m_keyspace_event_buffer, m_buffer, m_ready, vkco, seen>>

\* HDEL; removing the last field also deletes the key.
WriterHdel(k, f) ==
  /\ table[k][f] # NoValue
  /\ table' = [table EXCEPT ![k][f] = NoValue]
  /\ Notify(IF table'[k] = EmptyHash
            THEN <<[key |-> k, op |-> "hdel"], [key |-> k, op |-> "del"]>>
            ELSE <<[key |-> k, op |-> "hdel"]>>)
  /\ UNCHANGED <<subscriber, scan, m_keyspace_event_buffer, m_buffer, m_ready, vkco, seen>>
-------------------------------------------------------------------------------
(***************************************************************************)
(* The constructor.                                                        *)
(***************************************************************************)
\* psubscribe()
Psubscribe ==
  /\ subscriber = "down"
  /\ subscriber' = "subscribed"
  /\ UNCHANGED <<table, socket, scan, m_keyspace_event_buffer, m_buffer, m_ready, vkco, seen>>

\* getKeys()
GetKeys ==
  /\ subscriber = "subscribed"
  /\ subscriber' = "scan"
  /\ scan' = {k \in Key : table[k] # EmptyHash}
  /\ UNCHANGED <<table, socket, m_keyspace_event_buffer, m_buffer, m_ready, vkco, seen>>

\* Mutant: the command that caused the event is passed on as the operation.
SetOfRawOp(k) == [key |-> k, op |-> "hset", fvs |-> table[k]]

SetOf(k) == [key |-> k, op |-> "SET", fvs |-> table[k]]

\* Mutant: the subscription is made after the entries were read.
ScanKeyBeforeSubscribe ==
  /\ subscriber = "scan"
  /\ \E k \in scan :
       /\ scan' = scan \ {k}
       /\ m_buffer' = IF table[k] = EmptyHash THEN m_buffer ELSE Append(m_buffer, SetOf(k))
  /\ socket' = <<>>
  /\ UNCHANGED <<table, subscriber, m_keyspace_event_buffer, m_ready, vkco, seen>>

\* get() of one of the keys; a key that is gone by now is skipped.
ScanKey ==
  /\ subscriber = "scan"
  /\ \E k \in scan :
       /\ scan' = scan \ {k}
       /\ m_buffer' = IF table[k] = EmptyHash THEN m_buffer ELSE Append(m_buffer, SetOf(k))
  /\ UNCHANGED <<table, socket, subscriber, m_keyspace_event_buffer, m_ready, vkco, seen>>

\* Select::addSelectable()
AddSelectable ==
  /\ subscriber = "scan"
  /\ scan = {}
  /\ subscriber' = "idle"
  /\ m_ready' = (m_buffer # <<>>)
  /\ UNCHANGED <<table, socket, scan, m_keyspace_event_buffer, m_buffer, vkco, seen>>
-------------------------------------------------------------------------------
(***************************************************************************)
(* The application's loop; it may call pop() or pops() as it likes.         *)
(***************************************************************************)
\* Mutant: hasCachedData() looks at the events only.
SelectIgnoringBuffer ==
  /\ subscriber = "idle"
  /\ \E n \in 0..Len(socket) :
       /\ socket # <<>> => n > 0
       /\ n > 0 \/ m_ready
       /\ socket' = SubSeq(socket, n + 1, Len(socket))
       /\ m_keyspace_event_buffer' = m_keyspace_event_buffer \o SubSeq(socket, 1, n)
  /\ IF m_buffer = <<>> /\ m_keyspace_event_buffer' = <<>>
     THEN subscriber' = "idle" /\ m_ready' = FALSE
     ELSE /\ subscriber' = "popping"
          /\ m_ready' = (Len(m_keyspace_event_buffer') > 1)
  /\ UNCHANGED <<table, scan, m_buffer, vkco, seen>>

\* select(): readData() takes what the socket has delivered, at least one event;
\* an object without data is dropped from the ready set, one that hasData() is
\* returned, and put back into the set if hasCachedData().
Select ==
  /\ subscriber = "idle"
  /\ \E n \in 0..Len(socket) :
       /\ socket # <<>> => n > 0
       /\ n > 0 \/ m_ready
       /\ socket' = SubSeq(socket, n + 1, Len(socket))
       /\ m_keyspace_event_buffer' = m_keyspace_event_buffer \o SubSeq(socket, 1, n)
  /\ IF m_buffer = <<>> /\ m_keyspace_event_buffer' = <<>>
     THEN subscriber' = "idle" /\ m_ready' = FALSE
     ELSE /\ subscriber' = "popping"
          /\ m_ready' = (Len(m_buffer) + Len(m_keyspace_event_buffer') > 1)
  /\ UNCHANGED <<table, scan, m_buffer, vkco, seen>>

\* i is the last of the entries, or events, es that are about k.
LastAt(es, k, i) == es[i].key = k /\ \A j \in DOMAIN es : es[j].key = k => j <= i

\* What the application makes of entries: SET replaces, DEL removes.
Apply(s, es) ==
  [k \in Key |-> IF \E i \in DOMAIN es : es[i].key = k
                 THEN es[CHOOSE i \in DOMAIN es : LastAt(es, k, i)].fvs ELSE s[k]]

\* pops() with entries in m_buffer hands all of them out; pop() hands out one.
PopBuffer ==
  /\ subscriber = "popping"
  /\ m_buffer # <<>>
  /\ subscriber' = "idle"
  /\ \/ seen' = Apply(seen, <<Head(m_buffer)>>) /\ m_buffer' = Tail(m_buffer)
     \/ seen' = Apply(seen, m_buffer) /\ m_buffer' = <<>>
  /\ UNCHANGED <<table, socket, scan, m_keyspace_event_buffer, m_ready, vkco>>

\* pops() with an empty m_buffer goes on to the events, ...
PopEvents ==
  /\ subscriber = "popping"
  /\ m_buffer = <<>>
  /\ subscriber' = "events"
  /\ UNCHANGED <<table, socket, scan, m_keyspace_event_buffer, m_buffer, m_ready, vkco, seen>>

\* ... takes them one by one, reading the entry unless the event is a "del"
\* and skipping an entry that is gone ("possibly outdated"), ...
PopEvent ==
  /\ subscriber = "events"
  /\ m_keyspace_event_buffer # <<>>
  /\ m_keyspace_event_buffer' = Tail(m_keyspace_event_buffer)
  /\ LET k == Head(m_keyspace_event_buffer).key
     IN vkco' = IF Head(m_keyspace_event_buffer).op = "del"
                THEN Append(vkco, [key |-> k, op |-> "DEL", fvs |-> EmptyHash])
                ELSE IF table[k] = EmptyHash THEN vkco ELSE Append(vkco, SetOf(k))
  /\ UNCHANGED <<table, socket, subscriber, scan, m_buffer, m_ready, seen>>

\* ... and returns the entries; pop() keeps all but the first of them in m_buffer.
PopReturn ==
  /\ subscriber = "events"
  /\ m_keyspace_event_buffer = <<>>
  /\ subscriber' = "idle"
  /\ vkco' = <<>>
  /\ \/ vkco # <<>> /\ seen' = Apply(seen, <<Head(vkco)>>) /\ m_buffer' = Tail(vkco)
     \/ seen' = Apply(seen, vkco) /\ m_buffer' = <<>>
  /\ UNCHANGED <<table, socket, scan, m_keyspace_event_buffer, m_ready>>
-------------------------------------------------------------------------------
Write == \E k \in Key : \/ \E u \in Hash \ {EmptyHash} : WriterSet(k, u)
                        \/ WriterDel(k)
                        \/ \E f \in Field : WriterHdel(k, f)

Follow == \/ Psubscribe \/ GetKeys \/ ScanKey \/ AddSelectable
          \/ Select \/ PopBuffer \/ PopEvents \/ PopEvent \/ PopReturn

Next == Write \/ Follow

Spec == Init /\ [][Next]_vars

\* The application's loop does not stop, and Redis answers it.
FairSpec == Spec /\ WF_vars(Follow)
-------------------------------------------------------------------------------
\* Keys for which an event is on its way.
Announced == {socket[i].key : i \in DOMAIN socket}
             \cup {m_keyspace_event_buffer[i].key : i \in DOMAIN m_keyspace_event_buffer}

\* No change is missed, whenever it happens relative to the subscription, the
\* reading of the keys, the reading of the entries or the processing of older
\* events: once no event for a key is on its way, the entries collected for the
\* application lead it to the entry that the table has now.
NoMissedChange ==
  subscriber \in {"idle", "popping", "events"} =>
    \A k \in Key \ Announced : Apply(seen, m_buffer \o vkco)[k] = table[k]

\* The object is in the ready set of Select whenever it still holds something
\* that no further event from the socket would bring to the application.
ReadyWhenData ==
  subscriber = "idle" /\ (m_buffer # <<>> \/ m_keyspace_event_buffer # <<>>) => m_ready

\* A subscriber loses no change and never sleeps on one that it has read.
FollowsTable == NoMissedChange /\ ReadyWhenData

\* When writers pause, the application ends up with the table's content.
CatchesUp == []<><<Write>>_vars \/ <>[](seen = table)
==============================================================================
