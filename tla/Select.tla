-------------------------------- MODULE Select --------------------------------
(***************************************************************************)
(* Select (select.cpp, select.h) over the kinds of Selectable that there   *)
(* are: "counter", a RedisSelect (the consumer tables), which counts the   *)
(* messages it has read; "buffer", a NotificationConsumer, which keeps     *)
(* them until the application pops them; "plain", a SelectableEvent or a   *)
(* SelectableTimer, which keeps nothing and is known to have fired only by *)
(* being in m_ready.                                                       *)
(***************************************************************************)
EXTENDS Integers, FiniteSets

CONSTANTS Selectable,
          Kind,       \* the kind of each
          Pri,        \* getPri()
          Removable,  \* those the application may remove and add again
          MaxData,    \* bound: messages for a Selectable not yet served
          Failures    \* a connection may fail

\* What select() returns when it returns no object, and what it has returned
\* before the first call and after the application has dealt with it.
NoObject == {"TIMEOUT", "ERROR", "SIGNALINT", "none"}

ASSUME SelectAssumption ==
  /\ IsFiniteSet(Selectable) /\ Selectable \cap NoObject = {}
  /\ Kind \in [Selectable -> {"counter", "buffer", "plain"}]
  /\ Pri \in [Selectable -> Int]
  /\ Removable \subseteq Selectable
  /\ MaxData \in Nat \ {0}
  /\ Failures \in BOOLEAN

VARIABLES
  m_objects,
  m_ready,
  lastUsed,   \* the rank of each Selectable by m_last_used_time
  unread,     \* messages at the file descriptor
  cached,     \* m_queueLength, the size of m_queue, or 1 if a plain one has fired
  broken,     \* those whose connection has failed
  result      \* of the last select(): a Selectable or one of NoObject

vars == <<m_objects, m_ready, lastUsed, unread, cached, broken, result>>

\* The orders in which the Selectables may have been used.
Order == {u \in [Selectable -> 1..Cardinality(Selectable)] : \A a, b \in Selectable : u[a] = u[b] => a = b}

\* Types; m_ready holds only objects that the Select knows.
TypeOK ==
  /\ m_ready \subseteq m_objects /\ m_objects \subseteq Selectable
  /\ lastUsed \in Order
  /\ unread \in [Selectable -> 0..MaxData]
  /\ cached \in [Selectable -> 0..MaxData]
  /\ broken \subseteq Selectable
  /\ result \in Selectable \cup NoObject

\* A consumer table may have found messages when it was constructed.
Init ==
  /\ m_objects = {}
  /\ m_ready = {}
  /\ lastUsed \in Order
  /\ unread = [s \in Selectable |-> 0]
  /\ cached \in [Selectable -> 0..1]
  /\ \A s \in Selectable : cached[s] = 1 => Kind[s] = "counter"
  /\ broken = {}
  /\ result = "none"
-------------------------------------------------------------------------------
(***************************************************************************)
(* The outside: messages arrive, connections fail.                         *)
(***************************************************************************)
Arrive(s) ==
  /\ unread[s] + cached[s] < MaxData
  /\ unread' = [unread EXCEPT ![s] = @ + 1]
  /\ UNCHANGED <<m_objects, m_ready, lastUsed, cached, broken, result>>

Fail(s) ==
  /\ Failures
  /\ Kind[s] # "plain"
  /\ broken' = broken \cup {s}
  /\ UNCHANGED <<m_objects, m_ready, lastUsed, unread, cached, result>>
-------------------------------------------------------------------------------
(***************************************************************************)
(* The Selectable's own functions.                                         *)
(***************************************************************************)
initializedWithData(s) == Kind[s] = "counter" /\ cached[s] > 0

hasData(s, c) == Kind[s] = "plain" \/ c[s] > 0

\* Mutant: off by one.
hasCachedDataMoreThanTwo(s, c) == Kind[s] # "plain" /\ c[s] > 2

hasCachedData(s, c) == Kind[s] # "plain" /\ c[s] > 1

\* readData() with n messages: a plain one is reset whatever its count.
readData(s, n) == IF Kind[s] = "plain" THEN 1 ELSE cached[s] + n
-------------------------------------------------------------------------------
\* Mutant: an object that already has data is not made ready.
AddSelectableIdle(s) ==
  /\ s \notin m_objects
  /\ m_objects' = m_objects \cup {s}
  /\ UNCHANGED <<m_ready, lastUsed, unread, cached, broken, result>>

AddSelectable(s) ==
  /\ s \notin m_objects
  /\ m_objects' = m_objects \cup {s}
  /\ m_ready' = IF initializedWithData(s) THEN m_ready \cup {s} ELSE m_ready
  /\ UNCHANGED <<lastUsed, unread, cached, broken, result>>

\* Mutant: the ready set keeps the object.
RemoveSelectableReady(s) ==
  /\ s \in m_objects \cap Removable
  /\ m_objects' = m_objects \ {s}
  /\ UNCHANGED <<m_ready, lastUsed, unread, cached, broken, result>>

RemoveSelectable(s) ==
  /\ s \in m_objects \cap Removable
  /\ m_objects' = m_objects \ {s}
  /\ m_ready' = m_ready \ {s}
  /\ UNCHANGED <<lastUsed, unread, cached, broken, result>>

\* Mutant: the most recently used object comes first.
BeforeMostRecent(a, b) == Pri[a] > Pri[b] \/ (Pri[a] = Pri[b] /\ lastUsed[a] > lastUsed[b])

\* Select::cmp
Before(a, b) == Pri[a] > Pri[b] \/ (Pri[a] = Pri[b] /\ lastUsed[a] < lastUsed[b])

\* updateLastUsedTime() for the objects of S, in the order of cmp: whether a then
\* comes before b.
UsedBefore(S, a, b) == \/ a \notin S /\ b \in S
                       \/ a \in S /\ b \in S /\ Before(a, b)
                       \/ a \notin S /\ b \notin S /\ lastUsed[a] < lastUsed[b]

Touch(S) ==
  lastUsed' = [b \in Selectable |-> Cardinality({a \in Selectable : a = b \/ UsedBefore(S, a, b)})]

\* What epoll_wait() reports: a failed connection counts as readable.
Readable == {s \in m_objects : unread[s] > 0 \/ s \in broken}

\* The first ready object that hasData() is returned, those found without are dropped;
\* c is what every object holds.
Serve(ready, c) ==
  LET withData == {s \in ready : hasData(s, c)}
  IN \/ /\ withData = {}
        /\ result' = "TIMEOUT"
        /\ m_ready' = {}
        /\ cached' = c
        /\ Touch(ready)
     \/ \E first \in {s \in withData : \A t \in withData \ {s} : Before(s, t)} :
          LET passed == {s \in ready : s = first \/ Before(s, first)}
          IN /\ result' = first
             /\ m_ready' = (ready \ passed) \cup (IF hasCachedData(first, c) THEN {first} ELSE {})
             /\ cached' = IF Kind[first] = "buffer" THEN c ELSE [c EXCEPT ![first] = @ - 1]
             /\ Touch(passed)

\* What every object holds when those of R have read, n[s] messages each.
Holding(R, n) == [s \in Selectable |-> IF s \in R THEN readData(s, n[s]) ELSE cached[s]]

\* readData() of the objects of R, each with at least one of its messages; when
\* that of another one fails the call ends with ERROR.
ReadAndServe(R, n) ==
  /\ \A s \in R : n[s] <= unread[s] /\ (Kind[s] = "plain" => n[s] = unread[s])
  /\ unread' = [s \in Selectable |-> IF s \in R THEN unread[s] - n[s] ELSE unread[s]]
  /\ \/ R = Readable /\ Serve(m_ready \cup R, Holding(R, n))
     \/ /\ Readable \cap broken # {}
        /\ result' = "ERROR"
        /\ m_ready' = m_ready \cup R
        /\ cached' = Holding(R, n)
        /\ UNCHANGED lastUsed

\* select(): the readable objects are read and made ready, then one is served.
poll_descriptors ==
  /\ m_objects # {}
  /\ \E R \in SUBSET (Readable \ broken) : \E n \in [R -> 1..MaxData] : ReadAndServe(R, n)
  /\ UNCHANGED <<m_objects, broken>>

\* epoll_wait() refuses to return no event at all.
poll_nothing ==
  /\ m_objects = {}
  /\ result' = "ERROR"
  /\ UNCHANGED <<m_objects, m_ready, lastUsed, unread, cached, broken>>

\* A signal ends the wait that select() begins when it has found nothing.
poll_interrupted ==
  /\ result = "TIMEOUT"
  /\ result' = "SIGNALINT"
  /\ UNCHANGED <<m_objects, m_ready, lastUsed, unread, cached, broken>>

\* The application pops one message or all of them from the NotificationConsumer
\* that select() has returned.
Pop(s) ==
  /\ result = s
  /\ Kind[s] = "buffer"
  /\ \E c \in {0, cached[s] - 1} : cached' = [cached EXCEPT ![s] = c]
  /\ result' = "none"
  /\ UNCHANGED <<m_objects, m_ready, lastUsed, unread, broken>>

Handled == result \in Selectable => Kind[result] # "buffer"
-------------------------------------------------------------------------------
Loop == \/ Handled /\ (poll_descriptors \/ poll_nothing \/ poll_interrupted)
        \/ \E s \in Selectable : Pop(s)

Next == \/ \E s \in Selectable : Arrive(s) \/ Fail(s)
        \/ \E s \in Selectable : Handled /\ (AddSelectable(s) \/ RemoveSelectable(s))
        \/ Loop

Spec == Init /\ [][Next]_vars

\* The application keeps calling select() and handles what it returns.
FairSpec == Spec /\ WF_vars(Loop)
-------------------------------------------------------------------------------
\* A message that was read from a descriptor cannot be forgotten: the object is in
\* m_ready, because no later event of the descriptor would put it there.
ReadyWhenData == Handled => \A s \in m_objects : cached[s] > 0 => s \in m_ready

\* A call of select() that serves what it should.
ServesHighest ==
  poll_descriptors =>
    /\ result' = "TIMEOUT" => \A s \in m_objects : unread[s] = 0 /\ cached[s] = 0
    /\ result' \in Selectable =>
         /\ unread[result'] + cached[result'] > 0
         /\ \A s \in m_objects : Pri[s] > Pri[result'] => unread[s] = 0 /\ cached[s] = 0

\* select() prefers higher priorities and gives up only when nothing is there:
\* the object it returns has data, no object above it had any, and it answers
\* TIMEOUT only when no object had.
HighestFirst == [][ServesHighest]_vars

\* An object of the highest priority that has data is served, however much data
\* the others of that priority have, as the one used least recently comes first;
\* a failed connection ends this, since select() then returns ERROR.
NoStarvation ==
  \A s \in Selectable : (\A t \in Selectable : Pri[t] <= Pri[s]) =>
    ((s \in m_objects /\ unread[s] > 0) ~> (result = s \/ s \notin m_objects \/ broken # {}))
===============================================================================
