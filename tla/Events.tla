-------------------------------- MODULE Events --------------------------------
(***************************************************************************)
(* Structured events (events.cpp, events_service.cpp, events_common.h):    *)
(* publishers number their events per run-time id, with a width that       *)
(* rolls over; a subscriber computes from the numbers how many events it   *)
(* missed and drops duplicates; between two subscribers the event service  *)
(* (eventd, external) caches what is published.                            *)
(***************************************************************************)
EXTENDS Integers, Sequences, FiniteSets

CONSTANTS Source,
          SeqWidth,              \* width of sequence_t: 32
          MAX_PUBLISHERS_COUNT,
          PruneSlack,            \* 10: publishers above the maximum before pruning
          Filters,               \* the subscriptions a subscriber may ask for
          Elder, Before,         \* a source with a publisher that has sent this many events
          MaxIds, MaxSent, MaxSubscribers, MaxFaults, MaxNow  \* bounds

ASSUME EventsAssumption ==
  /\ {SeqWidth, MAX_PUBLISHERS_COUNT, MaxIds, MaxSent, MaxSubscribers} \subseteq Nat \ {0}
  /\ {PruneSlack, Before, MaxFaults, MaxNow} \subseteq Nat
  /\ Elder \in Source
  /\ Filters \subseteq SUBSET Source
  /\ \E half \in 1..2^SeqWidth : 2^SeqWidth = 2 * half

VARIABLES
  s_publishers,   \* the publisher of a source: none, not yet with an id, or its id
  ids,            \* run-time ids given out
  sent,           \* events sent under each id; m_sequence is this modulo its width
  eventd,         \* "down", "idle", "init", "caching" or "stopped"
  cache,          \* what eventd has captured
  sub,            \* "none", "connected", "running", "draining", "drained" or "hung"
  sources,        \* its subscription
  service,        \* its m_event_service: "closed", "ready" or "stuck"
  socket,         \* events that wait in its SUB socket
  m_cache_read, m_from_cache,
  m_track,        \* last sequence number and time per run-time id
  drained,        \* events read by the destructor
  now,            \* the time in seconds
  events,         \* bound: events sent so far
  subscribers,    \* bound: subscribers so far
  faults,         \* bound: messages lost, time-outs and stops so far
  seen,           \* history: events that were received by any subscriber
  mine,           \* history: events that this subscriber has received
  twice,          \* history: events that it has received more than once
  forgotten,      \* history: ids that it has stopped tracking
  accepted,       \* history: events that reached everyone who was connected
  gone,           \* history: events that a time-out, a stop or a deinit lost
  account         \* history: what was received and missed while an id is tracked

pubVars == <<s_publishers, ids, sent, events>>
subVars == <<sub, sources, service, socket, m_cache_read, m_from_cache, m_track, drained, subscribers>>
vars == <<pubVars, eventd, cache, subVars, now, faults, seen, mine, twice, forgotten, accepted, gone, account>>

NoPublisher == -1
NoId == 0
Id == 1..MaxIds
SEQUENCE_MAX == 2^SeqWidth - 1
Sequence == 0..SEQUENCE_MAX

\* n counts the events of an id without rolling over.
Event == [src : Source, rid : Id, n : 1..Before + MaxSent, ctrl : BOOLEAN]

Elements(s) == {s[i] : i \in DOMAIN s}

\* Types, and the places of publisher, event service and subscriber.
TypeOK ==
  /\ s_publishers \in [Source -> {NoPublisher, NoId} \cup Id]
  /\ ids \in 0..MaxIds
  /\ sent \in [Id -> 0..Before + MaxSent]
  /\ eventd \in {"down", "idle", "init", "caching", "stopped"}
  /\ sub \in {"none", "connected", "running", "draining", "drained", "hung"}
  /\ sources \in SUBSET Source
  /\ service \in {"closed", "ready", "stuck"}
  /\ {cache, socket, m_from_cache, drained} \subseteq Seq(Event)
  /\ m_cache_read \in BOOLEAN
  /\ DOMAIN m_track \subseteq Id
  /\ \A r \in DOMAIN m_track : m_track[r] \in [seq : Sequence, epoch : 0..MaxNow]
  /\ now \in 0..MaxNow
  /\ events \in 0..MaxSent
  /\ subscribers \in 0..MaxSubscribers
  /\ faults \in 0..MaxFaults
  /\ {seen, mine, twice, accepted, gone} \subseteq SUBSET Event
  /\ forgotten \subseteq Id

Init ==
  /\ s_publishers = [s \in Source |-> IF s = Elder THEN 1 ELSE NoPublisher]
  /\ ids = 1
  /\ sent = [r \in Id |-> IF r = 1 THEN Before ELSE 0]
  /\ eventd = "idle" /\ cache = <<>>
  /\ sub = "none" /\ sources = {} /\ service = "closed" /\ socket = <<>>
  /\ m_cache_read = FALSE /\ m_from_cache = <<>> /\ m_track = <<>> /\ drained = <<>>
  /\ now = 0 /\ events = 0 /\ subscribers = 0 /\ faults = 0
  /\ seen = {} /\ mine = {} /\ twice = {} /\ forgotten = {} /\ accepted = {} /\ gone = {}
  /\ account = [r \in Id |-> [first |-> 0, last |-> 0, got |-> 0, missed |-> 0]]
-------------------------------------------------------------------------------
(***************************************************************************)
(* Publishers.                                                             *)
(***************************************************************************)
\* The two queues an event is put in: that of a subscriber to its source, and
\* that of eventd once it captures.
Receivers(s) ==
  IF eventd = "down" THEN {}
  ELSE (IF sub \in {"connected", "running", "draining", "drained"} /\ s \in sources THEN {"socket"} ELSE {})
       \cup (IF eventd \in {"init", "caching"} THEN {"cache"} ELSE {})

\* zmq_message_send on a PUB socket: no receiver, or a receiver that misses the
\* message, is no error.
ZmqMessageSend(s, e) ==
  \E R \in SUBSET Receivers(s) :
    /\ IF R = Receivers(s) THEN UNCHANGED faults ELSE faults < MaxFaults /\ faults' = faults + 1
    /\ socket' = IF "socket" \in R THEN Append(socket, e) ELSE socket
    /\ cache' = IF "cache" \in R THEN Append(cache, e) ELSE cache
    /\ accepted' = IF R # {} /\ R = Receivers(s) THEN accepted \cup {e} ELSE accepted

\* send_evt: the number is used up whether or not the message gets through.
SendEvt(s, r, ctrl) ==
  /\ events < MaxSent
  /\ events' = events + 1
  /\ sent' = [sent EXCEPT ![r] = @ + 1]
  /\ ZmqMessageSend(s, [src |-> s, rid |-> r, n |-> sent[r] + 1, ctrl |-> ctrl])

\* init: connected, and the echo is sent; the run-time id comes later.
PublisherInit(s) == s_publishers' = [s_publishers EXCEPT ![s] = NoId]

\* get_publisher: one publisher per source.
GetPublisher(s) ==
  /\ s_publishers[s] = NoPublisher
  /\ ids < MaxIds
  /\ PublisherInit(s)
  /\ UNCHANGED <<ids, sent, events, eventd, cache, subVars, now, faults, seen, mine, twice, forgotten, accepted, gone, account>>

\* publish: the first event gives the publisher its run-time id.
Publish(s) ==
  LET r == IF s_publishers[s] = NoId THEN ids + 1 ELSE s_publishers[s]
  IN /\ r \in Id
     /\ s_publishers' = [s_publishers EXCEPT ![s] = r]
     /\ ids' = IF r > ids THEN r ELSE ids
     /\ SendEvt(s, r, FALSE)

\* do_publish finds the publisher by its handle.
DoPublish(s) ==
  /\ s_publishers[s] # NoPublisher
  /\ Publish(s)
  /\ UNCHANGED <<eventd, sub, sources, service, m_cache_read, m_from_cache, m_track, drained,
                 subscribers, now, seen, mine, twice, forgotten, gone, account>>

\* remove_runtime_id: a publisher that has an id retires it.
RemoveRuntimeId(s) ==
  IF s_publishers[s] = NoId THEN UNCHANGED <<sent, events, socket, cache, faults, accepted>>
  ELSE SendEvt(s, s_publishers[s], TRUE)

DropPublisher(s) ==
  /\ s_publishers[s] # NoPublisher
  /\ s_publishers' = [s_publishers EXCEPT ![s] = NoPublisher]
  /\ RemoveRuntimeId(s)
  /\ UNCHANGED <<ids, eventd, sub, sources, service, m_cache_read, m_from_cache, m_track, drained,
                 subscribers, now, seen, mine, twice, forgotten, gone, account>>

\* A publisher's process stops: its id is never retired.
PublisherExit(s) ==
  /\ s_publishers[s] \in Id /\ faults < MaxFaults
  /\ faults' = faults + 1
  /\ s_publishers' = [s_publishers EXCEPT ![s] = NoPublisher]
  /\ UNCHANGED <<ids, sent, events, eventd, cache, subVars, now, seen, mine, twice, forgotten, accepted, gone, account>>
-------------------------------------------------------------------------------
(***************************************************************************)
(* The event service, used through event_service of the subscriber.        *)
(***************************************************************************)
\* init_client and close_service.
InitClient == service' = "ready"
CloseService == service' = "closed"

Answered == service = "ready" /\ eventd # "down"

\* send_recv fails: no answer in time, or the REQ socket still waits for an
\* earlier one and refuses the request.
SendRecvFails ==
  /\ service' = "stuck"
  /\ IF Answered THEN faults < MaxFaults /\ faults' = faults + 1 ELSE UNCHANGED faults

\* EVENT_CACHE_STOP ends the capture.
EventdStop ==
  /\ eventd' = IF eventd = "caching" THEN "stopped" ELSE eventd
  /\ UNCHANGED cache

\* EVENT_CACHE_INIT connects to the capture end.
EventdInit == eventd' = "init" /\ cache' = <<>>

\* EVENT_CACHE_START with the caller's events as first stock.
EventdStart(lst) == eventd' = "caching" /\ cache' = lst \o cache

EventdDown ==
  /\ eventd # "down" /\ faults < MaxFaults
  /\ faults' = faults + 1
  /\ eventd' = "down" /\ cache' = <<>>
  /\ gone' = gone \cup Elements(cache)
  /\ UNCHANGED <<pubVars, subVars, now, seen, mine, twice, forgotten, accepted, account>>

EventdUp ==
  /\ eventd = "down" /\ eventd' = "idle"
  /\ UNCHANGED <<pubVars, cache, subVars, now, faults, seen, mine, twice, forgotten, accepted, gone, account>>
-------------------------------------------------------------------------------
(***************************************************************************)
(* The subscriber.                                                         *)
(***************************************************************************)
\* EventSubscriber::init up to the connection; with use_cache it goes on.
Connect(f, use_cache) ==
  /\ sub = "none" /\ subscribers < MaxSubscribers
  /\ subscribers' = subscribers + 1
  /\ sub' = IF use_cache THEN "connected" ELSE "running"
  /\ IF use_cache THEN InitClient ELSE CloseService
  /\ sources' = f
  /\ socket' = <<>> /\ m_track' = <<>> /\ m_from_cache' = <<>> /\ m_cache_read' = FALSE
  /\ mine' = {} /\ twice' = {} /\ forgotten' = {}
  /\ UNCHANGED <<pubVars, eventd, cache, drained, now, faults, seen, accepted, gone, account>>

\* cache_stop; only an answer of 0 makes the cache worth reading.
CacheStop ==
  /\ sub = "connected"
  /\ sub' = "running"
  /\ \/ /\ Answered /\ EventdStop
        /\ m_cache_read' = (eventd = "caching")
        /\ UNCHANGED <<service, faults, gone>>
     \/ /\ SendRecvFails
        /\ UNCHANGED m_cache_read
        /\ \/ Answered /\ EventdStop
           \/ UNCHANGED <<eventd, cache>>
        /\ gone' = gone \cup Elements(cache)
  /\ UNCHANGED <<pubVars, sources, socket, m_from_cache, m_track, drained, subscribers, now,
                 seen, mine, twice, forgotten, accepted, account>>

\* cache_read: some of the oldest cached events; none, or a failure, ends it.
CacheRead ==
  /\ sub = "running" /\ m_cache_read /\ m_from_cache = <<>>
  /\ \/ /\ Answered /\ eventd = "stopped"
        /\ \E n \in 0..Len(cache) :
             /\ cache # <<>> => n > 0
             /\ m_from_cache' = SubSeq(cache, 1, n)
             /\ cache' = SubSeq(cache, n + 1, Len(cache))
        /\ UNCHANGED <<service, faults, gone>>
     \/ /\ Answered /\ eventd # "stopped"
        /\ UNCHANGED <<m_from_cache, cache, service, faults, gone>>
     \/ /\ SendRecvFails
        /\ gone' = gone \cup Elements(cache)
        /\ UNCHANGED <<m_from_cache, cache>>
  /\ m_cache_read' = (m_from_cache' # <<>>)
  /\ UNCHANGED <<pubVars, eventd, sub, sources, socket, m_track, drained, subscribers, now,
                 seen, mine, twice, forgotten, accepted, account>>

\* The conversion of a difference of sequence_t to int.
ToInt(x) == LET y == x % (SEQUENCE_MAX + 1)
            IN IF y > SEQUENCE_MAX \div 2 THEN y - (SEQUENCE_MAX + 1) ELSE y

\* Mutant: the event itself is counted among the missed ones.
ThisMissedCntNext(seq, last) == IF seq # 0 THEN ToInt(seq - last) ELSE ToInt(SEQUENCE_MAX - last)

\* Events missed between the last and this number of an id, negative for a
\* duplicate.
ThisMissedCnt(seq, last) == IF seq # 0 THEN ToInt(seq - last - 1) ELSE ToInt(SEQUENCE_MAX - last)

\* prune_track: the ids of one second after the other go, the oldest first,
\* until at most MAX_PUBLISHERS_COUNT are left.
PruneTrack(track) ==
  LET since(t) == {r \in DOMAIN track : track[r].epoch >= t}
      few == {t \in 0..now + 1 : Cardinality(since(t)) <= MAX_PUBLISHERS_COUNT}
      t0 == CHOOSE t \in few : \A u \in few : t <= u
  IN [r \in since(t0) |-> track[r]]

\* Mutant: the number does not roll over.
SequenceNrWide(e) == e.n

\* The number an event carries.
SequenceNr(e) == e.n % (SEQUENCE_MAX + 1)

\* One round of event_receive() with the event e.
Handle(e) ==
  LET seq == SequenceNr(e)
      known == e.rid \in DOMAIN m_track
      missed == IF known THEN ThisMissedCnt(seq, m_track[e.rid].seq) ELSE 0
      full == ~known /\ Cardinality(DOMAIN m_track) > MAX_PUBLISHERS_COUNT + PruneSlack
      track == IF full THEN PruneTrack(m_track) ELSE m_track
      a == account[e.rid]
  IN IF missed < 0 THEN UNCHANGED <<m_track, seen, mine, twice, forgotten, account>>
     ELSE /\ m_track' = IF e.ctrl THEN [r \in DOMAIN track \ {e.rid} |-> track[r]]
                        ELSE [r \in DOMAIN track \cup {e.rid} |->
                                IF r = e.rid THEN [seq |-> seq, epoch |-> now] ELSE track[r]]
          /\ seen' = seen \cup {e}
          /\ mine' = mine \cup {e}
          /\ twice' = IF e \in mine THEN twice \cup {e} ELSE twice
          /\ forgotten' = forgotten \cup (DOMAIN m_track \ DOMAIN m_track')
                          \cup (IF e.ctrl THEN {e.rid} ELSE {})
          /\ account' = [account EXCEPT ![e.rid] =
               IF known THEN [first |-> a.first, last |-> e.n, got |-> a.got + 1, missed |-> a.missed + missed]
               ELSE [first |-> e.n, last |-> e.n, got |-> 1, missed |-> 0]]

\* Cached events come first.
ReceiveCached ==
  /\ sub = "running" /\ m_from_cache # <<>>
  /\ Handle(Head(m_from_cache))
  /\ m_from_cache' = Tail(m_from_cache)
  /\ UNCHANGED <<pubVars, eventd, cache, sub, sources, service, socket, m_cache_read, drained,
                 subscribers, now, faults, accepted, gone>>

ReceiveFromSocket ==
  /\ sub = "running" /\ ~m_cache_read /\ m_from_cache = <<>> /\ socket # <<>>
  /\ Handle(Head(socket))
  /\ socket' = Tail(socket)
  /\ UNCHANGED <<pubVars, eventd, cache, sub, sources, service, m_cache_read, m_from_cache, drained,
                 subscribers, now, faults, accepted, gone>>

\* The destructor without a cache, and the end of a process: what waits is lost.
Close ==
  /\ \/ sub = "running" /\ service = "closed" /\ UNCHANGED faults
     \/ sub # "none" /\ faults < MaxFaults /\ faults' = faults + 1
  /\ sub' = "none" /\ CloseService
  /\ socket' = <<>> /\ m_from_cache' = <<>> /\ m_cache_read' = FALSE /\ m_track' = <<>> /\ drained' = <<>>
  /\ gone' = gone \cup Elements(socket) \cup Elements(m_from_cache) \cup Elements(drained)
  /\ UNCHANGED <<pubVars, eventd, cache, sources, subscribers, now, seen, mine, twice, forgotten, accepted, account>>

\* The error exits of the destructor: zmq_ctx_term() waits for the sockets of
\* the context, and that of m_event_service is still open.
TermBlocks ==
  /\ sub' = "hung"
  /\ socket' = <<>> /\ drained' = <<>>
  /\ gone' = gone \cup Elements(socket) \cup Elements(m_from_cache) \cup Elements(drained)
                   \cup (IF eventd = "stopped" THEN Elements(cache) ELSE {})

\* The destructor: cache_init and the echoes that give it time to connect.
\* Cached events that were not received yet are not given back.
CacheInit ==
  /\ sub = "running" /\ service # "closed"
  /\ m_from_cache' = <<>> /\ m_cache_read' = FALSE /\ m_track' = <<>>
  /\ \/ /\ Answered /\ eventd \in {"idle", "stopped"}
        /\ EventdInit
        /\ \/ UNCHANGED <<service, faults>>
           \/ SendRecvFails
        /\ sub' = "draining" /\ drained' = <<>>
        /\ gone' = gone \cup Elements(m_from_cache) \cup Elements(cache)
        /\ UNCHANGED socket
     \/ /\ Answered /\ eventd \in {"init", "caching"}
        /\ TermBlocks
        /\ UNCHANGED <<service, faults, eventd, cache>>
     \/ /\ SendRecvFails /\ TermBlocks
        /\ \/ Answered /\ eventd \in {"idle", "stopped"} /\ EventdInit
           \/ UNCHANGED <<eventd, cache>>
  /\ UNCHANGED <<pubVars, sources, subscribers, now, seen, mine, twice, forgotten, accepted, account>>

\* The destructor reads without blocking ...
Drain ==
  /\ sub = "draining" /\ socket # <<>>
  /\ drained' = Append(drained, Head(socket))
  /\ socket' = Tail(socket)
  /\ UNCHANGED <<pubVars, eventd, cache, sub, sources, service, m_cache_read, m_from_cache, m_track,
                 subscribers, now, faults, seen, mine, twice, forgotten, accepted, gone, account>>

\* ... until there is nothing or CACHE_DRAIN_IN_MILLISECS have passed.
DrainEnd ==
  /\ sub = "draining"
  /\ sub' = "drained"
  /\ gone' = gone \cup Elements(socket)
  /\ UNCHANGED <<pubVars, eventd, cache, sources, service, socket, m_cache_read, m_from_cache, m_track,
                 drained, subscribers, now, faults, seen, mine, twice, forgotten, accepted, account>>

\* Mutant: the events that were read are not handed over.
CacheStartEmpty ==
  /\ sub = "drained"
  /\ m_from_cache' = <<>>
  /\ \/ /\ Answered /\ eventd = "init"
        /\ EventdStart(<<>>)
        /\ sub' = "none" /\ CloseService /\ socket' = <<>> /\ drained' = <<>>
        /\ UNCHANGED <<faults, gone>>
     \/ /\ Answered /\ eventd # "init"
        /\ TermBlocks
        /\ UNCHANGED <<service, faults, eventd, cache>>
     \/ /\ SendRecvFails /\ TermBlocks
        /\ UNCHANGED <<eventd, cache>>
  /\ UNCHANGED <<pubVars, sources, m_cache_read, m_track, subscribers, now, seen, mine, twice, forgotten, accepted, account>>

\* cache_start with what was read; then the sockets are closed.
CacheStart ==
  /\ sub = "drained"
  /\ m_from_cache' = <<>>
  /\ \/ /\ Answered /\ eventd = "init"
        /\ EventdStart(drained)
        /\ sub' = "none" /\ CloseService /\ socket' = <<>> /\ drained' = <<>>
        /\ UNCHANGED <<faults, gone>>
     \/ /\ Answered /\ eventd # "init"
        /\ TermBlocks
        /\ UNCHANGED <<service, faults, eventd, cache>>
     \/ /\ SendRecvFails /\ TermBlocks
        /\ \/ Answered /\ eventd = "init" /\ EventdStart(drained)
           \/ UNCHANGED <<eventd, cache>>
  /\ UNCHANGED <<pubVars, sources, m_cache_read, m_track, subscribers, now, seen, mine, twice, forgotten, accepted, account>>

Tick ==
  /\ now < MaxNow /\ DOMAIN m_track # {}
  /\ now' = now + 1
  /\ UNCHANGED <<pubVars, eventd, cache, subVars, faults, seen, mine, twice, forgotten, accepted, gone, account>>
-------------------------------------------------------------------------------
SubscriberStep == CacheStop \/ CacheRead \/ ReceiveCached \/ ReceiveFromSocket \/ Drain \/ DrainEnd \/ CacheStart

Next ==
  \/ \E s \in Source : GetPublisher(s) \/ DoPublish(s) \/ DropPublisher(s) \/ PublisherExit(s)
  \/ EventdDown \/ EventdUp
  \/ \E f \in Filters, use_cache \in BOOLEAN : Connect(f, use_cache)
  \/ CacheInit \/ Close \/ SubscriberStep \/ Tick

Spec == Init /\ [][Next]_vars

\* The subscriber's thread goes on with what it has begun.
FairSpec == Spec /\ WF_vars(SubscriberStep)
-------------------------------------------------------------------------------
\* While an id is tracked, the events received and those reported as missed are
\* all the events between the first and the last, whatever was lost, repeated
\* or rolled over.
Accounting ==
  \A r \in DOMAIN m_track :
    LET a == account[r]
    IN a.got + a.missed = a.last - a.first + 1 /\ m_track[r].seq = a.last % (SEQUENCE_MAX + 1)

\* A subscriber receives an event twice, from the cache and from its socket or in
\* what an earlier subscriber has read and left to the cache, only if the id was
\* retired or pruned in between.
NoDuplicates == \A e \in twice : e.rid \in forgotten

\* An event that reached whoever was connected is received, or waits on the way
\* to this or the next subscriber, unless a fault, a time-out or the deinit of a
\* subscriber that had not read the cache lost it.
NothingLostAtHandover ==
  accepted \subseteq seen \cup gone \cup Elements(socket) \cup Elements(cache)
                     \cup Elements(m_from_cache) \cup Elements(drained)

\* The table of ids stays bounded although ids are not always retired.
TrackBounded == Cardinality(DOMAIN m_track) <= MAX_PUBLISHERS_COUNT + PruneSlack + 1

\* What the table of ids tells adds up, and the table stays small.
TrackingExact == Accounting /\ TrackBounded

\* Between a subscriber that stops, the cache and the next subscriber nothing is
\* lost, and none of them receives anything twice.
HandoverExact == NoDuplicates /\ NothingLostAtHandover

\* The destructor of a subscriber comes to its end.
DeinitReturns == (sub \in {"draining", "drained", "hung"}) ~> (sub = "none")
===============================================================================
