----------------------------- MODULE Notifications -----------------------------
(***************************************************************************)
(* NotificationProducer and NotificationConsumer: producers publish        *)
(* on a channel, each consumer has its own subscription, a queue (Fifo or  *)
(* LruDedup) and, possibly, a list of the operations it admits.  A message *)
(* is its operation and its data; peekOp reads the operation up to the     *)
(* first quote of the encoded message, so it misses one with an escape.    *)
(***************************************************************************)
EXTENDS Integers, Sequences, FiniteSets
LOCAL INSTANCE SequencesExt

CONSTANTS Consumer,
          Policy,          \* the NotificationQueuePolicy of each
          Message,         \* records [op, data]
          Quoted,          \* operations whose encoding has an escape
          Malformed,       \* operations of messages that pop() cannot parse
          AllowLists,      \* the arguments of setOpAllowList()
          POP_BATCH_SIZE,
          MaxSent,         \* bound: calls of send()
          MaxFailures      \* bound: failed connections

VARIABLES
  pipe,            \* commands in the pipeline
  sent,            \* messages handed to send()
  phase,           \* of each consumer: in its constructor, idle, in pops(), thrown out of it, failed, undefined
  m_subscribe,     \* the connection: "null", "live" or "dangling"
  socket,          \* replies at the connection
  m_queue,
  m_idx,           \* the payloads that LruDedup has an index entry for
  m_op_allowlist,
  stats,           \* the counters of consumer and queue
  vkco,            \* the result of pops() so far
  failures,
  arrived,         \* ghost: what was pushed to the queue
  popped           \* ghost: what was taken from the queue, each with Len(arrived) at the time

netVars == <<pipe, sent>>
vars == <<pipe, sent, phase, m_subscribe, socket, m_queue, m_idx, m_op_allowlist, stats, vkco, failures,
          arrived, popped>>

Counters == [received : Nat, dropped : Nat, pushed : Nat, dedup : Nat, depth : Nat, hwm : Nat]

\* Every variable has its type.
TypeOK ==
  /\ pipe \in Seq(Message) /\ sent \in 0..MaxSent
  /\ phase \in [Consumer -> {"connect", "subscribe", "idle", "pops", "thrown", "failed", "undefined"}]
  /\ m_subscribe \in [Consumer -> {"null", "live", "dangling"}]
  /\ socket \in [Consumer -> Seq(Message)] /\ m_queue \in [Consumer -> Seq(Message)]
  /\ m_idx \in [Consumer -> SUBSET Message] /\ m_op_allowlist \in [Consumer -> AllowLists \cup {{}}]
  /\ stats \in [Consumer -> Counters] /\ vkco \in [Consumer -> Seq(Message)]

Zero == [received |-> 0, dropped |-> 0, pushed |-> 0, dedup |-> 0, depth |-> 0, hwm |-> 0]

Init ==
  /\ pipe = <<>> /\ sent = 0 /\ failures = 0
  /\ phase = [c \in Consumer |-> "connect"]
  /\ m_subscribe = [c \in Consumer |-> "null"]
  /\ socket = [c \in Consumer |-> <<>>]
  /\ m_queue = [c \in Consumer |-> <<>>] /\ m_idx = [c \in Consumer |-> {}]
  /\ m_op_allowlist = [c \in Consumer |-> {}]
  /\ stats = [c \in Consumer |-> Zero]
  /\ vkco = [c \in Consumer |-> <<>>]
  /\ arrived = [c \in Consumer |-> <<>>] /\ popped = [c \in Consumer |-> <<>>]
-------------------------------------------------------------------------------
(***************************************************************************)
(* The producer.                                                           *)
(***************************************************************************)
Subscribed == {c \in Consumer : phase[c] \in {"idle", "pops", "thrown"}}

\* PUBLISH reaches the connections that have subscribed.
Publish(ms) == socket' = [c \in Consumer |-> IF c \in Subscribed THEN socket[c] \o ms ELSE socket[c]]

\* send(): a buffered producer leaves the command in the pipeline it shares, the
\* other kind has a pipeline of its own, of size 1, which executes it at once.
send(m, m_buffered) ==
  /\ sent < MaxSent
  /\ sent' = sent + 1
  /\ IF m_buffered THEN pipe' = Append(pipe, m) /\ UNCHANGED socket ELSE Publish(<<m>>) /\ UNCHANGED pipe
  /\ UNCHANGED <<phase, m_subscribe, m_queue, m_idx, m_op_allowlist, stats, vkco, failures, arrived, popped>>

flush ==
  /\ pipe # <<>>
  /\ pipe' = <<>>
  /\ Publish(pipe)
  /\ UNCHANGED <<sent, phase, m_subscribe, m_queue, m_idx, m_op_allowlist, stats, vkco, failures, arrived, popped>>
-------------------------------------------------------------------------------
(***************************************************************************)
(* The constructor of a consumer: subscribeWithRetry().                    *)
(***************************************************************************)
subscribeConnect(c) ==
  /\ phase[c] = "connect"
  /\ m_subscribe' = [m_subscribe EXCEPT ![c] = "live"]
  /\ phase' = [phase EXCEPT ![c] = "subscribe"]
  /\ UNCHANGED <<netVars, socket, m_queue, m_idx, m_op_allowlist, stats, vkco, failures, arrived, popped>>

subscribe(c) ==
  /\ phase[c] = "subscribe"
  /\ phase' = [phase EXCEPT ![c] = "idle"]
  /\ UNCHANGED <<netVars, m_subscribe, socket, m_queue, m_idx, m_op_allowlist, stats, vkco, failures, arrived, popped>>

\* The connection or the SUBSCRIBE fails.  The handler deletes m_subscribe and
\* keeps the pointer: when the next attempt fails to connect, it is deleted
\* again, which is undefined.
subscribeWithRetry(c) ==
  /\ phase[c] \in {"connect", "subscribe"}
  /\ failures < MaxFailures
  /\ failures' = failures + 1
  /\ phase' = [phase EXCEPT ![c] = IF m_subscribe[c] = "dangling" THEN "undefined" ELSE "connect"]
  /\ m_subscribe' = [m_subscribe EXCEPT ![c] = IF @ = "null" THEN "null" ELSE "dangling"]
  /\ UNCHANGED <<netVars, socket, m_queue, m_idx, m_op_allowlist, stats, vkco, arrived, popped>>

setOpAllowList(c, ops) ==
  /\ phase[c] = "idle"
  /\ m_op_allowlist[c] = {}
  /\ m_op_allowlist' = [m_op_allowlist EXCEPT ![c] = ops]
  /\ UNCHANGED <<netVars, phase, m_subscribe, socket, m_queue, m_idx, stats, vkco, failures, arrived, popped>>
-------------------------------------------------------------------------------
(***************************************************************************)
(* The queue: q is [dq, idx, st].                                          *)
(***************************************************************************)
FifoPush(q, m) == [q EXCEPT !.dq = Append(@, m)]

FifoPop(q) == [q EXCEPT !.dq = Tail(@)]

\* Mutant: the old entry stays where it is.
LruPushKeeping(q, m) ==
  IF m \in q.idx
  THEN [q EXCEPT !.st = [@ EXCEPT !.pushed = @ + 1, !.dedup = @ + 1]]
  ELSE [dq |-> Append(q.dq, m), idx |-> q.idx \cup {m},
        st |-> [q.st EXCEPT !.pushed = @ + 1, !.depth = @ + 1,
                            !.hwm = IF q.st.depth + 1 > @ THEN q.st.depth + 1 ELSE @]]

LruPush(q, m) ==
  LET hit == m \in q.idx
      depth == IF hit THEN q.st.depth ELSE q.st.depth + 1
  IN [dq |-> Append(IF hit THEN Remove(q.dq, m) ELSE q.dq, m),
      idx |-> q.idx \cup {m},
      st |-> [q.st EXCEPT !.pushed = @ + 1,
                          !.dedup = IF hit THEN @ + 1 ELSE @,
                          !.depth = depth,
                          !.hwm = IF depth > @ THEN depth ELSE @]]

LruPop(q) ==
  [q EXCEPT !.dq = Tail(@), !.idx = @ \ {Head(q.dq)}, !.st = [@ EXCEPT !.depth = @ - 1]]

Push(c, q, m) == IF Policy[c] = "LruDedup" THEN LruPush(q, m) ELSE FifoPush(q, m)
PopQueue(c, q) == IF Policy[c] = "LruDedup" THEN LruPop(q) ELSE FifoPop(q)

Queue(c) == [dq |-> m_queue[c], idx |-> m_idx[c], st |-> stats[c]]

SetQueue(c, q) ==
  /\ m_queue' = [m_queue EXCEPT ![c] = q.dq]
  /\ m_idx' = [m_idx EXCEPT ![c] = q.idx]
  /\ stats' = [stats EXCEPT ![c] = q.st]

hasData(c) == Len(m_queue[c]) > 0
-------------------------------------------------------------------------------
(***************************************************************************)
(* Reading: all the replies that the connection holds are processed.       *)
(***************************************************************************)
peekOp(m) == IF m.op \in Quoted THEN "" ELSE m.op

admits(c, m) == m_op_allowlist[c] = {} \/ peekOp(m) \in m_op_allowlist[c]

processReply(c, q, m) ==
  LET r == [q EXCEPT !.st = [@ EXCEPT !.received = @ + 1]]
  IN IF admits(c, m) THEN Push(c, r, m) ELSE [r EXCEPT !.st = [@ EXCEPT !.dropped = @ + 1]]

readData(c) ==
  /\ SetQueue(c, FoldLeft(LAMBDA q, m : processReply(c, q, m), Queue(c), socket[c]))
  /\ arrived' = [arrived EXCEPT ![c] = @ \o SelectSeq(socket[c], LAMBDA m : admits(c, m))]
  /\ socket' = [socket EXCEPT ![c] = <<>>]

\* Select, or peek(), finds the connection readable.
peek(c) ==
  /\ phase[c] \in {"idle", "thrown"}
  /\ socket[c] # <<>>
  /\ readData(c)
  /\ phase' = [phase EXCEPT ![c] = "idle"]
  /\ UNCHANGED <<netVars, m_subscribe, m_op_allowlist, vkco, failures, popped>>

\* The connection fails: redisGetReply() reports it and readData() throws.
readDataThrows(c) ==
  /\ phase[c] \in {"idle", "pops", "thrown"}
  /\ failures < MaxFailures
  /\ failures' = failures + 1
  /\ phase' = [phase EXCEPT ![c] = "failed"]
  /\ UNCHANGED <<netVars, m_subscribe, socket, m_queue, m_idx, m_op_allowlist, stats, vkco, arrived, popped>>

Got(c, m) == Append(popped[c], [msg |-> m, at |-> Len(arrived[c])])

\* pop(): the message leaves the queue before it is parsed, so it is gone also if that throws.
pop(c) ==
  /\ phase[c] \in {"idle", "thrown"}
  /\ hasData(c)
  /\ SetQueue(c, PopQueue(c, Queue(c)))
  /\ popped' = [popped EXCEPT ![c] = Got(c, Head(m_queue[c]))]
  /\ UNCHANGED <<netVars, phase, m_subscribe, socket, m_op_allowlist, vkco, failures, arrived>>

\* pops() begins; it goes on as long as there is a message in the queue.
pops(c) ==
  /\ phase[c] \in {"idle", "thrown"}
  /\ hasData(c)
  /\ phase' = [phase EXCEPT ![c] = "pops"]
  /\ vkco' = [vkco EXCEPT ![c] = <<>>]
  /\ UNCHANGED <<netVars, m_subscribe, socket, m_queue, m_idx, m_op_allowlist, stats, failures, arrived, popped>>

\* One pop() of pops(); its exception leaves pops() too, with the rest still in the queue.
popsDrain(c) ==
  /\ phase[c] = "pops"
  /\ hasData(c)
  /\ SetQueue(c, PopQueue(c, Queue(c)))
  /\ popped' = [popped EXCEPT ![c] = Got(c, Head(m_queue[c]))]
  /\ IF Head(m_queue[c]).op \in Malformed
     THEN phase' = [phase EXCEPT ![c] = "thrown"] /\ UNCHANGED vkco
     ELSE vkco' = [vkco EXCEPT ![c] = Append(@, Head(m_queue[c]))] /\ UNCHANGED phase
  /\ UNCHANGED <<netVars, m_subscribe, socket, m_op_allowlist, failures, arrived>>

\* The queue is drained: enough popped, or nothing at the connection, ends the
\* call, and so does a read of nothing but messages that are not admitted.
popsPeek(c) ==
  /\ phase[c] = "pops"
  /\ ~hasData(c)
  /\ IF Len(vkco[c]) >= POP_BATCH_SIZE \/ socket[c] = <<>>
     THEN phase' = [phase EXCEPT ![c] = "idle"] /\ UNCHANGED <<socket, m_queue, m_idx, stats, arrived>>
     ELSE /\ readData(c)
          /\ phase' = [phase EXCEPT ![c] = IF m_queue'[c] = <<>> THEN "idle" ELSE "pops"]
  /\ UNCHANGED <<netVars, m_subscribe, m_op_allowlist, vkco, failures, popped>>
-------------------------------------------------------------------------------
\* What a consumer does by itself or when Select returns it.  After an exception out of pops() Select
\* need not return it before the next message, whatever is left in the queue.
Work(c) ==
  \/ subscribeConnect(c) \/ subscribe(c) \/ peek(c) \/ popsDrain(c) \/ popsPeek(c)
  \/ phase[c] = "idle" /\ pops(c)

Next ==
  \/ \E m \in Message, m_buffered \in BOOLEAN : send(m, m_buffered)
  \/ flush
  \/ \E c \in Consumer : Work(c) \/ pop(c) \/ pops(c) \/ subscribeWithRetry(c) \/ readDataThrows(c)
  \/ \E c \in Consumer, ops \in AllowLists : setOpAllowList(c, ops)

Spec == Init /\ [][Next]_vars
-------------------------------------------------------------------------------
\* The index at which m arrived last, 0 if it has not.
LastSeen(c, m) == Max({i \in DOMAIN arrived[c] : arrived[c][i] = m} \cup {0})

\* How much had arrived when m was popped last, 0 if it was not.
LastTaken(c, m) == Max({popped[c][i].at : i \in {j \in DOMAIN popped[c] : popped[c][j].msg = m}} \cup {0})

\* A Fifo consumer takes every message that it admits, once, in the order of the
\* channel: what was popped and what is queued make up what has arrived.
FifoOrder ==
  \A c \in Consumer : Policy[c] = "Fifo" =>
    arrived[c] = [i \in DOMAIN popped[c] |-> popped[c][i].msg] \o m_queue[c]

\* The LruDedup queue holds the payloads that arrived after they were popped last,
\* each once, in the order in which they were last seen, so that none is lost
\* by being collapsed and the drain order is the documented one.
LruIsLastSeen ==
  \A c \in Consumer : Policy[c] = "LruDedup" =>
    /\ ToSet(m_queue[c]) = {m \in Message : LastSeen(c, m) > LastTaken(c, m)}
    /\ \A i, j \in DOMAIN m_queue[c] : i < j => LastSeen(c, m_queue[c][i]) < LastSeen(c, m_queue[c][j])

\* The counters that telemetry reads add up: every reply was dropped or pushed, a push
\* is a hit or raised the depth, and the depth is what is left in the queue.
CountersAddUp ==
  \A c \in Consumer :
    LET s == stats[c] IN
    /\ s.received = s.dropped + Len(arrived[c])
    /\ Policy[c] = "LruDedup" => /\ s.pushed = Len(arrived[c]) /\ s.depth = Len(m_queue[c])
                                 /\ s.pushed = s.dedup + Len(popped[c]) + s.depth /\ s.depth <= s.hwm
                                 /\ m_idx[c] = ToSet(m_queue[c])

\* When pops() returns, other than by an exception, nothing is left in the queue: Select has
\* already dropped the consumer from its ready set and only a new reply would bring it back.
PopsEmpties == \A c \in Consumer : phase[c] = "pops" /\ phase'[c] = "idle" => m_queue'[c] = <<>>
\* Every pops() that returns has emptied the queue.
PopsLeavesNothing == [][PopsEmpties]_vars

\* The consumer is in the end subscribed (or its connection is lost, or it is
\* undefined), and a message at its connection is in the end read, and taken from the
\* queue unless an exception has ended pops() and nothing has come since.
AllRead ==
  \A c \in Consumer : \/ phase[c] \in {"failed", "undefined"}
                      \/ phase[c] = "idle" /\ socket[c] = <<>> /\ m_queue[c] = <<>>
                      \/ phase[c] = "thrown" /\ socket[c] = <<>>
\* Again and again every consumer that works has read all that was sent to it.
EventuallyRead == []<>AllRead
================================================================================
