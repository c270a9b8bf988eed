------------------------------ MODULE ZmqProofs ------------------------------
(***************************************************************************)
(* Proofs about the parts of MCZmq: the state tables over ZMQ, the         *)
(* one-to-one mode and the updater, and all three side by side.            *)
(***************************************************************************)
EXTENDS MCZmq, TLAPS

-------------------------------------------------------------------------------
\* Two sequences of the same length and with the same elements.
LEMMA SameSequence ==
  ASSUME NEW S, NEW s \in Seq(S), NEW t \in Seq(S), Len(s) = Len(t), \A i \in 1..Len(s) : s[i] = t[i]
  PROVE  s = t
<1>1. s = [i \in 1..Len(s) |-> s[i]] /\ t = [i \in 1..Len(t) |-> t[i]]
  OBVIOUS
<1> QED
  BY <1>1, Zenon
-------------------------------------------------------------------------------
(***************************************************************************)
(* The state tables over ZMQ.                                              *)
(***************************************************************************)
\* The registry, the poll thread and the consumers.
HandlerInv ==
  /\ server = "none" <=> thread = "none"
  /\ callee # NoHandler <=> thread \in {"call", "update"}
  /\ m_handlers # NoHandler => consumer[m_handlers] = "live"
  /\ HandlerAlive
  /\ thread \in {"none", "top", "poll"} => batch = <<>>
  /\ thread = "update" => batch # <<>>
  /\ \A j, k \in Consumer :
       j = k \/ consumer[j] \in {"none", "destroyed"} \/ consumer[k] \in {"none", "destroyed"}

\* The application.
AppInv ==
  /\ \A k \in Consumer :
       /\ consumer[k] # "live" => app[k] = AtSelect
       /\ app[k].limit = 0 => app[k] = AtSelect
       /\ app[k].limit > 0 => ready[k]
       /\ m_received[k] # <<>> => consumer[k] \in {"live", "detached"}
  /\ NoneStranded

\* The updaters of both sides.
UpdateInv ==
  /\ queued = IF thread = "update" THEN Append(updated, Head(batch)) ELSE updated
  /\ \A c \in Client :
       /\ m_sendbuffer[c] # <<>> => unwritten[c] = <<>>
       /\ accepted[c] = written[c] \o unwritten[c]

\* Operations of a client in the order of their numbers: in two sets, in a queue, in batches.
Before(S, T) == \A o \in S, p \in T : o[1] = p[1] => o[2] < p[2]

Sorted(q) == \A i, j \in DOMAIN q : i < j /\ q[i][1] = q[j][1] => q[i][2] < q[j][2]

Batches(p) ==
  /\ \A b \in DOMAIN p : Sorted(p[b])
  /\ \A a, b \in DOMAIN p : a < b => Before(Elements(p[a]), Elements(p[b]))

\* What is in the queues, whoever sent it.
Arrived == Elements(popped) \cup Elements(Rest) \cup (UNION {Elements(m_received[k]) : k \in Consumer})

\* Every queue on the way is in order,
QueuesInv ==
  /\ Sorted(popped) /\ Sorted(Rest)
  /\ \A k \in Consumer : Sorted(m_received[k])
  /\ \A c \in Client : Sorted(m_sendbuffer[c]) /\ Batches(pipe[c])

\* ... the queues are one behind the other,
WayInv ==
  /\ Before(Elements(popped), Elements(Rest))
  /\ \A k \in Consumer :
       Before(Elements(popped), Elements(m_received[k])) /\ Before(Elements(m_received[k]), Elements(Rest))
  /\ \A c \in Client : Before(Arrived, Carried(pipe[c]))
  /\ \A j, k \in Consumer : j = k \/ m_received[j] = <<>> \/ m_received[k] = <<>>

\* ... and what they hold is what was accepted and is not lost.
HeldInv ==
  /\ \A c \in Client :
       /\ \A o \in Carried(pipe[c]) \cup Elements(m_sendbuffer[c]) \cup Elements(accepted[c]) : o[1] = c /\ o[2] <= made[c]
       /\ Before(Elements(accepted[c]), Elements(m_sendbuffer[c]))
       /\ \A o \in Arrived : o[1] = c => o \in Elements(accepted[c]) \ lost
       /\ Carried(pipe[c]) \subseteq Elements(accepted[c]) \ lost
       /\ Elements(accepted[c]) \ lost \subseteq Arrived \cup Carried(pipe[c])
       /\ \A o \in lost : o[1] = c => o \in Elements(accepted[c])

ZmqInv == TypeOK /\ HandlerInv /\ AppInv /\ UpdateInv

OrderInv == QueuesInv /\ WayInv /\ HeldInv

\* The initial state.
LEMMA ZmqInit == Init => ZmqInv
<1> SUFFICES ASSUME Init
             PROVE  ZmqInv
  BY Zenon
<1>1. TypeOK
  BY ZmqAssumption DEF Init, TypeOK, AtSelect
<1>2. HandlerInv /\ AppInv /\ UpdateInv
  BY DEF Init, HandlerInv, AppInv, UpdateInv, HandlerAlive, NoneStranded, AtSelect
<1> QED
  BY <1>1, <1>2, Zenon DEF ZmqInv

\* A handler is called only while its consumer lives.
LEMMA HandlerStep ==
  ASSUME TypeOK, HandlerInv, Next
  PROVE  HandlerInv'
<1> DEFINE Goal == HandlerInv'
<1>1. ASSUME NEW c \in Client, NEW n \in 1..MaxBatch, SendMsg(c, n)
      PROVE  Goal
  BY <1>1, ZmqAssumption, Zenon DEF TypeOK, HandlerInv, HandlerAlive, clientVars, serverVars, appVars,
     StartMqPollThread, RegisterHandler, SendMsg
<1>2. ASSUME NEW c \in Client, SendSucceeds(c)
      PROVE  Goal
  BY <1>2, ZmqAssumption, Zenon DEF TypeOK, HandlerInv, HandlerAlive, clientVars, serverVars, appVars,
     StartMqPollThread, RegisterHandler, SendSucceeds
<1>3. ASSUME NEW c \in Client, SendFails(c)
      PROVE  Goal
  BY <1>3, ZmqAssumption, Zenon DEF TypeOK, HandlerInv, HandlerAlive, clientVars, serverVars, appVars,
     StartMqPollThread, RegisterHandler, SendFails
<1>4. ASSUME NEW c \in Client, UpdateProducer(c)
      PROVE  Goal
  BY <1>4, ZmqAssumption, Zenon DEF TypeOK, HandlerInv, HandlerAlive, clientVars, serverVars, appVars,
     StartMqPollThread, RegisterHandler, UpdateProducer
<1>5. ASSUME NEW c \in Client, Connect(c)
      PROVE  Goal
  BY <1>5, ZmqAssumption, Zenon DEF TypeOK, HandlerInv, HandlerAlive, clientVars, serverVars, appVars,
     StartMqPollThread, RegisterHandler, Connect
<1>6. ASSUME Bind
      PROVE  Goal
  BY <1>6, ZmqAssumption, Zenon DEF TypeOK, HandlerInv, HandlerAlive, clientVars, serverVars, appVars,
     StartMqPollThread, RegisterHandler, Bind
<1>7. ASSUME DestroyServer
      PROVE  Goal
  BY <1>7, ZmqAssumption, Zenon DEF TypeOK, HandlerInv, HandlerAlive, clientVars, serverVars, appVars,
     StartMqPollThread, RegisterHandler, DestroyServer
<1>8. ASSUME LoopTop
      PROVE  Goal
  BY <1>8, ZmqAssumption, Zenon DEF TypeOK, HandlerInv, HandlerAlive, clientVars, serverVars, appVars,
     StartMqPollThread, RegisterHandler, LoopTop
<1>9. ASSUME PollTimeout
      PROVE  Goal
  BY <1>9, ZmqAssumption, Zenon DEF TypeOK, HandlerInv, HandlerAlive, clientVars, serverVars, appVars,
     StartMqPollThread, RegisterHandler, PollTimeout
<1>10. ASSUME NEW c \in Client, Receive(c)
      PROVE  Goal
  BY <1>10, ZmqAssumption, Zenon DEF TypeOK, HandlerInv, HandlerAlive, clientVars, serverVars, appVars,
     StartMqPollThread, RegisterHandler, Receive
<1>11. ASSUME Dispatch
      PROVE  Goal
  BY <1>11, ZmqAssumption, Zenon DEF TypeOK, HandlerInv, HandlerAlive, clientVars, serverVars, appVars,
     StartMqPollThread, RegisterHandler, Dispatch
<1>12. ASSUME PushReceived
      PROVE  Goal
  BY <1>12, ZmqAssumption, Zenon DEF TypeOK, HandlerInv, HandlerAlive, clientVars, serverVars, appVars,
     StartMqPollThread, RegisterHandler, PushReceived
<1>13. ASSUME UpdateConsumer
      PROVE  Goal
  BY <1>13, ZmqAssumption, Zenon DEF TypeOK, HandlerInv, HandlerAlive, clientVars, serverVars, appVars,
     StartMqPollThread, RegisterHandler, UpdateConsumer
<1>14. ASSUME Notify
      PROVE  Goal
  BY <1>14, ZmqAssumption, Zenon DEF TypeOK, HandlerInv, HandlerAlive, clientVars, serverVars, appVars,
     StartMqPollThread, RegisterHandler, Notify
<1>15. ASSUME NEW k \in Consumer, NewConsumer(k)
      PROVE  Goal
  BY <1>15, ZmqAssumption, Zenon DEF TypeOK, HandlerInv, HandlerAlive, clientVars, serverVars, appVars,
     StartMqPollThread, RegisterHandler, NewConsumer
<1>16. ASSUME NEW k \in Consumer, RemoveHandler(k)
      PROVE  Goal
  BY <1>16, ZmqAssumption, Zenon DEF TypeOK, HandlerInv, HandlerAlive, clientVars, serverVars, appVars,
     StartMqPollThread, RegisterHandler, RemoveHandler
<1>17. ASSUME NEW k \in Consumer, DestroyConsumer(k)
      PROVE  Goal
  BY <1>17, ZmqAssumption, SMTT(30) DEF TypeOK, HandlerInv, HandlerAlive, clientVars, serverVars, appVars,
     StartMqPollThread, RegisterHandler, DestroyConsumer
<1>18. ASSUME NEW k \in Consumer, SelectReturns(k)
      PROVE  Goal
  BY <1>18, ZmqAssumption, Zenon DEF TypeOK, HandlerInv, HandlerAlive, clientVars, serverVars, appVars,
     StartMqPollThread, RegisterHandler, SelectReturns
<1>19. ASSUME NEW k \in Consumer, Pop(k)
      PROVE  Goal
  BY <1>19, ZmqAssumption, Zenon DEF TypeOK, HandlerInv, HandlerAlive, clientVars, serverVars, appVars,
     StartMqPollThread, RegisterHandler, Pop
<1> QED
  BY <1>1, <1>2, <1>3, <1>4, <1>5, <1>6, <1>7, <1>8, <1>9, <1>10, <1>11, <1>12, <1>13, <1>14, <1>15,
     <1>16, <1>17, <1>18, <1>19, Zenon DEF Next, Thread

\* No queue is left without a signal.
LEMMA AppStep ==
  ASSUME TypeOK, HandlerInv, AppInv, Next
  PROVE  AppInv'
<1> DEFINE Goal == AppInv'
<1>1. ASSUME NEW c \in Client, NEW n \in 1..MaxBatch, SendMsg(c, n)
      PROVE  Goal
  BY <1>1, ZmqAssumption, Zenon DEF TypeOK, HandlerInv, HandlerAlive, AppInv, NoneStranded, AtSelect,
     clientVars, serverVars, appVars, RegisterHandler, SendMsg
<1>2. ASSUME NEW c \in Client, SendSucceeds(c)
      PROVE  Goal
  BY <1>2, ZmqAssumption, Zenon DEF TypeOK, HandlerInv, HandlerAlive, AppInv, NoneStranded, AtSelect,
     clientVars, serverVars, appVars, RegisterHandler, SendSucceeds
<1>3. ASSUME NEW c \in Client, SendFails(c)
      PROVE  Goal
  BY <1>3, ZmqAssumption, Zenon DEF TypeOK, HandlerInv, HandlerAlive, AppInv, NoneStranded, AtSelect,
     clientVars, serverVars, appVars, RegisterHandler, SendFails
<1>4. ASSUME NEW c \in Client, UpdateProducer(c)
      PROVE  Goal
  BY <1>4, ZmqAssumption, Zenon DEF TypeOK, HandlerInv, HandlerAlive, AppInv, NoneStranded, AtSelect,
     clientVars, serverVars, appVars, RegisterHandler, UpdateProducer
<1>5. ASSUME NEW c \in Client, Connect(c)
      PROVE  Goal
  BY <1>5, ZmqAssumption, Zenon DEF TypeOK, HandlerInv, HandlerAlive, AppInv, NoneStranded, AtSelect,
     clientVars, serverVars, appVars, RegisterHandler, Connect
<1>6. ASSUME Bind
      PROVE  Goal
  BY <1>6, ZmqAssumption, Zenon DEF TypeOK, HandlerInv, HandlerAlive, AppInv, NoneStranded, AtSelect,
     clientVars, serverVars, appVars, RegisterHandler, Bind
<1>7. ASSUME DestroyServer
      PROVE  Goal
  BY <1>7, ZmqAssumption, Zenon DEF TypeOK, HandlerInv, HandlerAlive, AppInv, NoneStranded, AtSelect,
     clientVars, serverVars, appVars, RegisterHandler, DestroyServer
<1>8. ASSUME LoopTop
      PROVE  Goal
  BY <1>8, ZmqAssumption, Zenon DEF TypeOK, HandlerInv, HandlerAlive, AppInv, NoneStranded, AtSelect,
     clientVars, serverVars, appVars, RegisterHandler, LoopTop
<1>9. ASSUME PollTimeout
      PROVE  Goal
  BY <1>9, ZmqAssumption, Zenon DEF TypeOK, HandlerInv, HandlerAlive, AppInv, NoneStranded, AtSelect,
     clientVars, serverVars, appVars, RegisterHandler, PollTimeout
<1>10. ASSUME NEW c \in Client, Receive(c)
      PROVE  Goal
  BY <1>10, ZmqAssumption, Zenon DEF TypeOK, HandlerInv, HandlerAlive, AppInv, NoneStranded, AtSelect,
     clientVars, serverVars, appVars, RegisterHandler, Receive
<1>11. ASSUME Dispatch
      PROVE  Goal
  BY <1>11, ZmqAssumption, Zenon DEF TypeOK, HandlerInv, HandlerAlive, AppInv, NoneStranded, AtSelect,
     clientVars, serverVars, appVars, RegisterHandler, Dispatch
<1>12. ASSUME PushReceived
      PROVE  Goal
  BY <1>12, ZmqAssumption, Zenon DEF TypeOK, HandlerInv, HandlerAlive, AppInv, NoneStranded, AtSelect,
     clientVars, serverVars, appVars, RegisterHandler, PushReceived
<1>13. ASSUME UpdateConsumer
      PROVE  Goal
  BY <1>13, ZmqAssumption, Zenon DEF TypeOK, HandlerInv, HandlerAlive, AppInv, NoneStranded, AtSelect,
     clientVars, serverVars, appVars, RegisterHandler, UpdateConsumer
<1>14. ASSUME Notify
      PROVE  Goal
  BY <1>14, ZmqAssumption, Zenon DEF TypeOK, HandlerInv, HandlerAlive, AppInv, NoneStranded, AtSelect,
     clientVars, serverVars, appVars, RegisterHandler, Notify
<1>15. ASSUME NEW k \in Consumer, NewConsumer(k)
      PROVE  Goal
  BY <1>15, ZmqAssumption, Zenon DEF TypeOK, HandlerInv, HandlerAlive, AppInv, NoneStranded, AtSelect,
     clientVars, serverVars, appVars, RegisterHandler, NewConsumer
<1>16. ASSUME NEW k \in Consumer, RemoveHandler(k)
      PROVE  Goal
  BY <1>16, ZmqAssumption, Zenon DEF TypeOK, HandlerInv, HandlerAlive, AppInv, NoneStranded, AtSelect,
     clientVars, serverVars, appVars, RegisterHandler, RemoveHandler
<1>17. ASSUME NEW k \in Consumer, DestroyConsumer(k)
      PROVE  Goal
  BY <1>17, ZmqAssumption, Zenon DEF TypeOK, HandlerInv, HandlerAlive, AppInv, NoneStranded, AtSelect,
     clientVars, serverVars, appVars, RegisterHandler, DestroyConsumer
<1>18. ASSUME NEW k \in Consumer, SelectReturns(k)
      PROVE  Goal
  <2>1. /\ consumer[k] = "live"
        /\ ready' = [ready EXCEPT ![k] = m_received[k] # <<>>]
        /\ app' = [app EXCEPT ![k] = [count |-> Len(m_received[k]), limit |->
                     IF Len(m_received[k]) < m_popBatchSize THEN Len(m_received[k]) ELSE m_popBatchSize]]
        /\ fd' = [fd EXCEPT ![k] = FALSE]
        /\ UNCHANGED <<consumer, m_received, callee>>
    BY <1>18, Zenon DEF SelectReturns, serverVars
  <2>2. /\ m_received[k] \in Seq(Op) /\ Len(m_received[k]) \in Nat /\ m_popBatchSize \in Nat /\ m_popBatchSize > 0
        /\ m_received[k] = <<>> <=> Len(m_received[k]) = 0
    <3>1. m_received[k] \in Seq(Op)
      BY Zenon DEF TypeOK
    <3> QED
      BY <3>1, ZmqAssumption
  <2>3. \A j \in Consumer : j # k => app'[j] = app[j] /\ ready'[j] = ready[j] /\ fd'[j] = fd[j]
    BY <2>1, Zenon DEF TypeOK
  <2>a. /\ app'[k] = [count |-> Len(m_received[k]), limit |->
                     IF Len(m_received[k]) < m_popBatchSize THEN Len(m_received[k]) ELSE m_popBatchSize]
        /\ m_received[k] # <<>> => ready'[k]
    BY <2>1, Zenon DEF TypeOK
  <2>4. /\ app'[k].limit = 0 => m_received[k] = <<>> /\ app'[k] = AtSelect
        /\ app'[k].limit > 0 => ready'[k]
    <3>1. CASE Len(m_received[k]) = 0
      BY <2>2, <2>a, <3>1 DEF AtSelect
    <3>2. CASE Len(m_received[k]) # 0
      BY <2>2, <2>a, <3>2
    <3> QED
      BY <3>1, <3>2, Zenon
  <2>5. app'[k] = AtSelect => m_received[k] = <<>>
    BY <2>4 DEF AtSelect
  <2> QED
    BY <2>1, <2>3, <2>4, <2>5 DEF AppInv, NoneStranded
<1>19. ASSUME NEW k \in Consumer, Pop(k)
      PROVE  Goal
  <2>1. /\ app[k].limit > 0
        /\ m_received' = [m_received EXCEPT ![k] = Tail(m_received[k])]
        /\ app' = [app EXCEPT ![k] = IF app[k].limit = 1 THEN AtSelect
                                     ELSE [count |-> app[k].count, limit |-> app[k].limit - 1]]
        /\ UNCHANGED <<consumer, ready, callee>>
    BY <1>19, Zenon DEF Pop, serverVars
  <2>a. fd' = [fd EXCEPT ![k] = fd[k] \/ (app[k].limit = 1 /\ app[k].count > m_popBatchSize)]
    BY <1>19, Zenon DEF Pop
  <2>b. \A j \in Consumer : j # k => fd'[j] = fd[j]
    BY <2>a, Zenon DEF TypeOK
  <2>2. \A j \in Consumer : j # k => app'[j] = app[j] /\ m_received'[j] = m_received[j]
    BY <2>1, Zenon DEF TypeOK
  <2>3. /\ m_received[k] \in Seq(Op) /\ Len(m_received[k]) \in Nat /\ app[k].limit \in Nat /\ app[k].limit <= Len(m_received[k])
        /\ app[k] \in [count : Nat, limit : 0..m_popBatchSize]
    BY ZmqAssumption DEF TypeOK
  <2>4. m_received[k] # <<>> /\ consumer[k] = "live" /\ ready[k]
    BY <2>1, <2>3 DEF AppInv, AtSelect
  <2>5. app'[k] = AtSelect \/ (app'[k].limit = app[k].limit - 1 /\ app[k].limit # 1)
    BY <2>1, <2>3, Zenon DEF TypeOK
  <2>6. app'[k].limit = 0 => app'[k] = AtSelect
    BY <2>3, <2>5
  <2> QED
    BY <2>1, <2>2, <2>b, <2>4, <2>6 DEF AppInv, NoneStranded
<1> QED
  BY <1>1, <1>2, <1>3, <1>4, <1>5, <1>6, <1>7, <1>8, <1>9, <1>10, <1>11, <1>12, <1>13, <1>14, <1>15,
     <1>16, <1>17, <1>18, <1>19, Zenon DEF Next, Thread

\* The first element of a queue is put behind another.
LEMMA HandOn ==
  ASSUME NEW S, NEW w \in Seq(S), NEW u \in Seq(S), u # <<>>
  PROVE  Append(w, Head(u)) \o Tail(u) = w \o u
<1> DEFINE a == Append(w, Head(u)) \o Tail(u)
           b == w \o u
<1>1. /\ Len(w) \in Nat /\ Len(u) \in Nat /\ Len(u) > 0 /\ Head(u) = u[1] /\ Len(Tail(u)) = Len(u) - 1
      /\ \A i \in 1..Len(u) - 1 : Tail(u)[i] = u[i + 1]
  OBVIOUS
<1>2. a \in Seq(S) /\ b \in Seq(S) /\ Len(a) = Len(w) + Len(u) /\ Len(b) = Len(w) + Len(u)
  BY <1>1
<1>3. \A i \in 1..Len(w) + Len(u) : a[i] = b[i]
  BY <1>1
<1> QED
  BY <1>2, <1>3, SameSequence, Zenon

\* The updaters follow.
LEMMA UpdateStep ==
  ASSUME TypeOK, HandlerInv, UpdateInv, Next
  PROVE  UpdateInv'
<1> DEFINE Goal == UpdateInv'
<1>1. ASSUME NEW c \in Client, NEW n \in 1..MaxBatch, SendMsg(c, n)
      PROVE  Goal
  BY <1>1, Zenon DEF TypeOK, HandlerInv, UpdateInv, clientVars, serverVars, StartMqPollThread, SendMsg
<1>2. ASSUME NEW c \in Client, SendSucceeds(c)
      PROVE  Goal
  <2>1. /\ m_sendbuffer[c] # <<>> /\ unwritten[c] = <<>> /\ accepted[c] = written[c] \o <<>>
        /\ accepted' = [accepted EXCEPT ![c] = accepted[c] \o m_sendbuffer[c]]
        /\ unwritten' = [unwritten EXCEPT ![c] = m_sendbuffer[c]]
        /\ m_sendbuffer' = [m_sendbuffer EXCEPT ![c] = <<>>]
        /\ UNCHANGED <<written, queued, updated, thread, batch>>
    BY <1>2, Zenon DEF SendSucceeds, UpdateInv, serverVars
  <2>2. written[c] \in Seq(Op)
    BY Zenon DEF TypeOK
  <2>3. written[c] \o <<>> = written[c]
    BY <2>2
  <2> QED
    BY <2>1, <2>3, Zenon DEF UpdateInv, TypeOK
<1>3. ASSUME NEW c \in Client, SendFails(c)
      PROVE  Goal
  BY <1>3, Zenon DEF TypeOK, HandlerInv, UpdateInv, clientVars, serverVars, StartMqPollThread, SendFails
<1>4. ASSUME NEW c \in Client, UpdateProducer(c)
      PROVE  Goal
  <2>1. /\ unwritten[c] # <<>> /\ accepted[c] = written[c] \o unwritten[c]
        /\ written' = [written EXCEPT ![c] = Append(written[c], Head(unwritten[c]))]
        /\ unwritten' = [unwritten EXCEPT ![c] = Tail(unwritten[c])]
        /\ UNCHANGED <<m_sendbuffer, accepted, queued, updated, thread, batch>>
    BY <1>4, Zenon DEF UpdateProducer, UpdateInv, serverVars
  <2>2. written[c] \in Seq(Op) /\ unwritten[c] \in Seq(Op)
    BY Zenon DEF TypeOK
  <2>3. Append(written[c], Head(unwritten[c])) \o Tail(unwritten[c]) = written[c] \o unwritten[c]
    BY <2>1, <2>2, HandOn, Zenon
  <2> QED
    BY <2>1, <2>3, Zenon DEF UpdateInv, TypeOK
<1>5. ASSUME NEW c \in Client, Connect(c)
      PROVE  Goal
  BY <1>5, Zenon DEF TypeOK, HandlerInv, UpdateInv, clientVars, serverVars, StartMqPollThread, Connect
<1>6. ASSUME Bind
      PROVE  Goal
  BY <1>6, Zenon DEF TypeOK, HandlerInv, UpdateInv, clientVars, serverVars, StartMqPollThread, Bind
<1>7. ASSUME DestroyServer
      PROVE  Goal
  BY <1>7, Zenon DEF TypeOK, HandlerInv, UpdateInv, clientVars, serverVars, StartMqPollThread,
     DestroyServer
<1>8. ASSUME LoopTop
      PROVE  Goal
  BY <1>8, Zenon DEF TypeOK, HandlerInv, UpdateInv, clientVars, serverVars, StartMqPollThread, LoopTop
<1>9. ASSUME PollTimeout
      PROVE  Goal
  BY <1>9, Zenon DEF TypeOK, HandlerInv, UpdateInv, clientVars, serverVars, StartMqPollThread, PollTimeout
<1>10. ASSUME NEW c \in Client, Receive(c)
      PROVE  Goal
  BY <1>10, Zenon DEF TypeOK, HandlerInv, UpdateInv, clientVars, serverVars, StartMqPollThread, Receive
<1>11. ASSUME Dispatch
      PROVE  Goal
  BY <1>11, Zenon DEF TypeOK, HandlerInv, UpdateInv, clientVars, serverVars, StartMqPollThread, Dispatch
<1>12. ASSUME PushReceived
      PROVE  Goal
  BY <1>12, Zenon DEF TypeOK, HandlerInv, UpdateInv, clientVars, serverVars, StartMqPollThread,
     PushReceived
<1>13. ASSUME UpdateConsumer
      PROVE  Goal
  BY <1>13, Zenon DEF TypeOK, HandlerInv, UpdateInv, clientVars, serverVars, StartMqPollThread,
     UpdateConsumer
<1>14. ASSUME Notify
      PROVE  Goal
  BY <1>14, Zenon DEF TypeOK, HandlerInv, UpdateInv, clientVars, serverVars, StartMqPollThread, Notify
<1>15. ASSUME NEW k \in Consumer, NewConsumer(k)
      PROVE  Goal
  BY <1>15, Zenon DEF TypeOK, HandlerInv, UpdateInv, clientVars, serverVars, StartMqPollThread, NewConsumer
<1>16. ASSUME NEW k \in Consumer, RemoveHandler(k)
      PROVE  Goal
  BY <1>16, Zenon DEF TypeOK, HandlerInv, UpdateInv, clientVars, serverVars, StartMqPollThread,
     RemoveHandler
<1>17. ASSUME NEW k \in Consumer, DestroyConsumer(k)
      PROVE  Goal
  BY <1>17, Zenon DEF TypeOK, HandlerInv, UpdateInv, clientVars, serverVars, StartMqPollThread,
     DestroyConsumer
<1>18. ASSUME NEW k \in Consumer, SelectReturns(k)
      PROVE  Goal
  BY <1>18, Zenon DEF TypeOK, HandlerInv, UpdateInv, clientVars, serverVars, StartMqPollThread,
     SelectReturns
<1>19. ASSUME NEW k \in Consumer, Pop(k)
      PROVE  Goal
  BY <1>19, Zenon DEF TypeOK, HandlerInv, UpdateInv, clientVars, serverVars, StartMqPollThread, Pop
<1> QED
  BY <1>1, <1>2, <1>3, <1>4, <1>5, <1>6, <1>7, <1>8, <1>9, <1>10, <1>11, <1>12, <1>13, <1>14, <1>15,
     <1>16, <1>17, <1>18, <1>19, Zenon DEF Next, Thread

\* The operations of a queue and of batches.
LEMMA InQueue ==
  ASSUME NEW S, NEW q \in Seq(S)
  PROVE  Elements(q) \subseteq S
  BY DEF Elements

\* What batches carry is in one of them.
LEMMA InBatches ==
  ASSUME NEW p
  PROVE  \A o : o \in Carried(p) <=> \E b \in DOMAIN p : o \in Elements(p[b])
<1>1. ASSUME NEW o, o \in Carried(p)
      PROVE  \E b \in DOMAIN p : o \in Elements(p[b])
  BY <1>1, Zenon DEF Carried
<1>2. ASSUME NEW o, NEW b \in DOMAIN p, o \in Elements(p[b])
      PROVE  o \in Carried(p)
  BY <1>2, Zenon DEF Carried
<1> QED
  BY <1>1, <1>2, Zenon

\* Batches of operations carry operations.
LEMMA BatchesTyped ==
  ASSUME NEW S, NEW p \in Seq(Seq(S))
  PROVE  Carried(p) \subseteq S
<1> SUFFICES ASSUME NEW o \in Carried(p)
             PROVE  o \in S
  BY Zenon
<1>1. PICK b \in DOMAIN p : o \in Elements(p[b])
  BY InBatches, Zenon
<1>2. p[b] \in Seq(S)
  OBVIOUS
<1> QED
  BY <1>1, <1>2, InQueue, Zenon

\* Types, in four parts.
ClientTypes ==
  /\ m_sendbuffer \in [Client -> Seq(Op)] /\ unwritten \in [Client -> Seq(Op)]
  /\ tries \in [Client -> 0..MQ_MAX_RETRY]
  /\ m_connected \in [Client -> BOOLEAN]
  /\ made \in [Client -> 0..MaxOps]
  /\ accepted \in [Client -> Seq(Op)] /\ written \in [Client -> Seq(Op)]

ServerTypes ==
  /\ pipe \in [Client -> Seq(Seq(Op))]
  /\ server \in {"none", "running", "stopping"}
  /\ thread \in {"none", "top", "poll", "dispatch", "call", "update"}
  /\ batch \in Seq(Op)
  /\ {m_handlers, callee} \subseteq Consumer \cup {NoHandler}
  /\ consumer \in [Consumer -> {"none", "live", "detached", "destroyed"}]
  /\ faults \in 0..MaxFaults

ConsumerTypes ==
  /\ m_received \in [Consumer -> Seq(Op)]
  /\ {fd, ready} \subseteq [Consumer -> BOOLEAN]
  /\ app \in [Consumer -> [count : Nat, limit : 0..m_popBatchSize]]
  /\ \A k \in Consumer : app[k].limit <= Len(m_received[k])

HistoryTypes ==
  /\ queued \in Seq(Op) /\ updated \in Seq(Op) /\ popped \in Seq(Op)
  /\ lost \subseteq Op

\* The type invariant in four parts.
LEMMA TypesSplit == TypeOK <=> ClientTypes /\ ServerTypes /\ ConsumerTypes /\ HistoryTypes
  BY Zenon DEF TypeOK, ClientTypes, ServerTypes, ConsumerTypes, HistoryTypes

\* The same in the next state.
LEMMA TypesSplitNext == TypeOK' <=> ClientTypes' /\ ServerTypes' /\ ConsumerTypes' /\ HistoryTypes'
  BY Zenon DEF TypeOK, ClientTypes, ServerTypes, ConsumerTypes, HistoryTypes

\* Every step keeps the types of the clients' variables,
LEMMA ClientTypesStep ==
  ASSUME ClientTypes, Next
  PROVE  ClientTypes'
<1> DEFINE Goal == ClientTypes'
<1>1. ASSUME NEW c \in Client, NEW n \in 1..MaxBatch, SendMsg(c, n)
      PROVE  Goal
  <2>1. n \in Nat /\ made[c] \in 0..MaxOps /\ MaxOps \in Nat /\ made[c] + n <= MaxOps
    BY <1>1, ZmqAssumption DEF ClientTypes, SendMsg
  <2>2. \A i \in 1..n : <<c, made[c] + i>> \in Op
    BY <2>1 DEF Op
  <2>3. [i \in 1..n |-> <<c, made[c] + i>>] \in Seq(Op)
    BY <2>1, <2>2
  <2>4. made[c] + n \in 0..MaxOps /\ 0 \in 0..MQ_MAX_RETRY
    BY <2>1, ZmqAssumption
  <2> QED
    BY <1>1, <2>3, <2>4, Zenon DEF ClientTypes, SendMsg
<1>2. ASSUME NEW c \in Client, SendSucceeds(c)
      PROVE  Goal
  <2>1. m_sendbuffer[c] \in Seq(Op) /\ accepted[c] \in Seq(Op)
    BY Zenon DEF ClientTypes
  <2>2. accepted[c] \o m_sendbuffer[c] \in Seq(Op) /\ <<>> \in Seq(Op)
    BY <2>1
  <2> QED
    BY <1>2, <2>1, <2>2, Zenon DEF ClientTypes, SendSucceeds
<1>3. ASSUME NEW c \in Client, SendFails(c)
      PROVE  Goal
  <2>1. PICK again \in BOOLEAN, broken \in BOOLEAN :
          /\ m_connected' = [m_connected EXCEPT ![c] = @ /\ ~broken]
          /\ IF again /\ tries[c] < MQ_MAX_RETRY
             THEN tries' = [tries EXCEPT ![c] = @ + 1] /\ UNCHANGED m_sendbuffer
             ELSE m_sendbuffer' = [m_sendbuffer EXCEPT ![c] = <<>>] /\ UNCHANGED tries
    BY <1>3, Zenon DEF SendFails
  <2>2. m_connected' \in [Client -> BOOLEAN]
    BY <2>1, Zenon DEF ClientTypes
  <2>3. tries' \in [Client -> 0..MQ_MAX_RETRY] /\ m_sendbuffer' \in [Client -> Seq(Op)]
    <3>1. CASE again /\ tries[c] < MQ_MAX_RETRY
      <4>1. tries[c] \in 0..MQ_MAX_RETRY /\ MQ_MAX_RETRY \in Nat
        BY ZmqAssumption, Zenon DEF ClientTypes
      <4>2. tries[c] + 1 \in 0..MQ_MAX_RETRY
        BY <3>1, <4>1
      <4> QED
        BY <2>1, <3>1, <4>2, Zenon DEF ClientTypes
    <3>2. CASE ~(again /\ tries[c] < MQ_MAX_RETRY)
      <4>1. m_sendbuffer' = [m_sendbuffer EXCEPT ![c] = <<>>] /\ UNCHANGED tries
        BY <2>1, <3>2, Zenon
      <4> QED
        BY <4>1 DEF ClientTypes
    <3> QED
      BY <3>1, <3>2, Zenon
  <2> QED
    BY <1>3, <2>2, <2>3, Zenon DEF ClientTypes, SendFails
<1>4. ASSUME NEW c \in Client, UpdateProducer(c)
      PROVE  Goal
  <2>1. unwritten[c] \in Seq(Op) /\ written[c] \in Seq(Op) /\ unwritten[c] # <<>>
    BY <1>4, Zenon DEF ClientTypes, UpdateProducer
  <2>2. Tail(unwritten[c]) \in Seq(Op) /\ Append(written[c], Head(unwritten[c])) \in Seq(Op)
    BY <2>1
  <2> QED
    BY <1>4, <2>2, Zenon DEF ClientTypes, UpdateProducer
<1>5. ASSUME NEW c \in Client, Connect(c)
      PROVE  Goal
  BY <1>5, ZmqAssumption, Zenon DEF ClientTypes, clientVars, Connect
<1>6. ASSUME Bind
      PROVE  Goal
  BY <1>6, ZmqAssumption, Zenon DEF ClientTypes, clientVars, Bind
<1>7. ASSUME DestroyServer
      PROVE  Goal
  BY <1>7, ZmqAssumption, Zenon DEF ClientTypes, clientVars, DestroyServer
<1>8. ASSUME LoopTop
      PROVE  Goal
  BY <1>8, ZmqAssumption, Zenon DEF ClientTypes, clientVars, LoopTop
<1>9. ASSUME PollTimeout
      PROVE  Goal
  BY <1>9, ZmqAssumption, Zenon DEF ClientTypes, clientVars, PollTimeout
<1>10. ASSUME NEW c \in Client, Receive(c)
      PROVE  Goal
  BY <1>10, Zenon DEF ClientTypes, clientVars, Receive
<1>11. ASSUME Dispatch
      PROVE  Goal
  BY <1>11, ZmqAssumption, Zenon DEF ClientTypes, clientVars, Dispatch
<1>12. ASSUME PushReceived
      PROVE  Goal
  BY <1>12, ZmqAssumption, Zenon DEF ClientTypes, clientVars, PushReceived
<1>13. ASSUME UpdateConsumer
      PROVE  Goal
  BY <1>13, ZmqAssumption, Zenon DEF ClientTypes, clientVars, UpdateConsumer
<1>14. ASSUME Notify
      PROVE  Goal
  BY <1>14, ZmqAssumption, Zenon DEF ClientTypes, clientVars, Notify
<1>15. ASSUME NEW k \in Consumer, NewConsumer(k)
      PROVE  Goal
  BY <1>15, ZmqAssumption, Zenon DEF ClientTypes, clientVars, NewConsumer
<1>16. ASSUME NEW k \in Consumer, RemoveHandler(k)
      PROVE  Goal
  BY <1>16, ZmqAssumption, Zenon DEF ClientTypes, clientVars, RemoveHandler
<1>17. ASSUME NEW k \in Consumer, DestroyConsumer(k)
      PROVE  Goal
  BY <1>17, ZmqAssumption, Zenon DEF ClientTypes, clientVars, DestroyConsumer
<1>18. ASSUME NEW k \in Consumer, SelectReturns(k)
      PROVE  Goal
  BY <1>18, ZmqAssumption, Zenon DEF ClientTypes, clientVars, SelectReturns
<1>19. ASSUME NEW k \in Consumer, Pop(k)
      PROVE  Goal
  BY <1>19, ZmqAssumption, Zenon DEF ClientTypes, clientVars, Pop
<1> QED
  BY <1>1, <1>2, <1>3, <1>4, <1>5, <1>6, <1>7, <1>8, <1>9, <1>10, <1>11, <1>12, <1>13, <1>14, <1>15,
     <1>16, <1>17, <1>18, <1>19, Zenon DEF Next, Thread

\* ... of the server's,
LEMMA ServerTypesStep ==
  ASSUME ServerTypes, ClientTypes, HandlerInv, Next
  PROVE  ServerTypes'
<1> DEFINE Goal == ServerTypes'
<1>1. ASSUME NEW c \in Client, NEW n \in 1..MaxBatch, SendMsg(c, n)
      PROVE  Goal
  BY <1>1, ZmqAssumption, Zenon DEF ServerTypes, ClientTypes, serverVars, StartMqPollThread,
     RegisterHandler, SendMsg
<1>2. ASSUME NEW c \in Client, SendSucceeds(c)
      PROVE  Goal
  <2>1. /\ pipe \in [Client -> Seq(Seq(Op))] /\ m_sendbuffer[c] \in Seq(Op)
        /\ pipe' = [pipe EXCEPT ![c] = Append(@, m_sendbuffer[c])]
        /\ UNCHANGED <<server, thread, batch, callee, m_handlers, consumer, faults>>
    BY <1>2, Zenon DEF ServerTypes, ClientTypes, serverVars, SendSucceeds
  <2>2. Append(pipe[c], m_sendbuffer[c]) \in Seq(Seq(Op))
    BY <2>1
  <2>3. pipe' \in [Client -> Seq(Seq(Op))]
    BY <2>1, <2>2, Zenon
  <2> QED
    BY <2>1, <2>3, Zenon DEF ServerTypes
<1>3. ASSUME NEW c \in Client, SendFails(c)
      PROVE  Goal
  <2>1. UNCHANGED <<pipe, server, thread, batch, m_handlers, callee, consumer>>
    BY <1>3, Zenon DEF SendFails, serverVars
  <2>2. faults' = faults \/ (faults < MaxFaults /\ faults' = faults + 1)
    BY <1>3, Zenon DEF SendFails
  <2>3. faults \in 0..MaxFaults
    BY Zenon DEF ServerTypes
  <2>4. faults' \in 0..MaxFaults
    BY <2>2, <2>3, ZmqAssumption
  <2> QED
    BY <2>1, <2>4, Zenon DEF ServerTypes
<1>4. ASSUME NEW c \in Client, UpdateProducer(c)
      PROVE  Goal
  BY <1>4, ZmqAssumption, Zenon DEF ServerTypes, ClientTypes, serverVars, StartMqPollThread,
     RegisterHandler, UpdateProducer
<1>5. ASSUME NEW c \in Client, Connect(c)
      PROVE  Goal
  <2>1. <<>> \in Seq(Seq(Op))
    OBVIOUS
  <2> QED
    BY <1>5, <2>1, Zenon DEF ServerTypes, serverVars, Connect
<1>6. ASSUME Bind
      PROVE  Goal
  BY <1>6, ZmqAssumption, Zenon DEF ServerTypes, ClientTypes, serverVars, StartMqPollThread,
     RegisterHandler, Bind
<1>7. ASSUME DestroyServer
      PROVE  Goal
  BY <1>7, ZmqAssumption DEF ServerTypes, ClientTypes, serverVars, StartMqPollThread,
     RegisterHandler, DestroyServer
<1>8. ASSUME LoopTop
      PROVE  Goal
  <2>1. pipe' \in [Client -> Seq(Seq(Op))]
    <3>1. CASE server = "running"
      BY <1>8, <3>1, Zenon DEF ServerTypes, LoopTop
    <3>2. CASE server # "running"
      <4>1. PICK n \in [Client -> 0..MQ_WATERMARK] :
              /\ \A c \in Client : n[c] <= Len(pipe[c])
              /\ pipe' = [c \in Client |-> SubSeq(pipe[c], n[c] + 1, Len(pipe[c]))]
        BY <1>8, <3>2, Zenon DEF LoopTop
      <4>2. ASSUME NEW c \in Client
            PROVE  SubSeq(pipe[c], n[c] + 1, Len(pipe[c])) \in Seq(Seq(Op))
        <5>1. pipe[c] \in Seq(Seq(Op)) /\ n[c] \in Nat /\ n[c] <= Len(pipe[c])
          BY <4>1, ZmqAssumption DEF ServerTypes
        <5> QED
          BY <5>1
      <4> QED
        BY <4>1, <4>2, Zenon
    <3> QED
      BY <3>1, <3>2, Zenon
  <2> QED
    BY <1>8, <2>1, Zenon DEF ServerTypes, LoopTop
<1>9. ASSUME PollTimeout
      PROVE  Goal
  BY <1>9, ZmqAssumption, Zenon DEF ServerTypes, ClientTypes, serverVars, StartMqPollThread,
     RegisterHandler, PollTimeout
<1>10. ASSUME NEW c \in Client, Receive(c)
      PROVE  Goal
  <2>1. /\ pipe \in [Client -> Seq(Seq(Op))] /\ pipe[c] # <<>>
        /\ pipe' = [pipe EXCEPT ![c] = Tail(@)] /\ batch' = Head(pipe[c]) /\ thread' = "dispatch"
        /\ UNCHANGED <<server, callee, m_handlers, consumer, faults>>
    BY <1>10, Zenon DEF ServerTypes, Receive
  <2>2. Head(pipe[c]) \in Seq(Op) /\ Tail(pipe[c]) \in Seq(Seq(Op))
    BY <2>1
  <2>3. pipe' \in [Client -> Seq(Seq(Op))]
    BY <2>1, <2>2, Zenon
  <2> QED
    BY <2>1, <2>2, <2>3, Zenon DEF ServerTypes
<1>11. ASSUME Dispatch
      PROVE  Goal
  <2>1. batch' \in Seq(Op) /\ thread' \in {"none", "top", "poll", "dispatch", "call", "update"}
    <3>1. CASE m_handlers = NoHandler
      BY <1>11, <3>1 DEF Dispatch
    <3>2. CASE m_handlers # NoHandler
      BY <1>11, <3>2, Zenon DEF ServerTypes, Dispatch
    <3> QED
      BY <3>1, <3>2, Zenon
  <2> QED
    BY <1>11, <2>1, Zenon DEF ServerTypes, Dispatch
<1>12. ASSUME PushReceived
      PROVE  Goal
  BY <1>12, ZmqAssumption, Zenon DEF ServerTypes, ClientTypes, serverVars, StartMqPollThread,
     RegisterHandler, PushReceived
<1>13. ASSUME UpdateConsumer
      PROVE  Goal
  BY <1>13 DEF ServerTypes, HandlerInv, UpdateConsumer
<1>14. ASSUME Notify
      PROVE  Goal
  BY <1>14, ZmqAssumption, Zenon DEF ServerTypes, ClientTypes, serverVars, StartMqPollThread,
     RegisterHandler, Notify
<1>15. ASSUME NEW k \in Consumer, NewConsumer(k)
      PROVE  Goal
  BY <1>15, ZmqAssumption, Zenon DEF ServerTypes, ClientTypes, serverVars, StartMqPollThread,
     RegisterHandler, NewConsumer
<1>16. ASSUME NEW k \in Consumer, RemoveHandler(k)
      PROVE  Goal
  BY <1>16, ZmqAssumption, Zenon DEF ServerTypes, ClientTypes, serverVars, StartMqPollThread,
     RegisterHandler, RemoveHandler
<1>17. ASSUME NEW k \in Consumer, DestroyConsumer(k)
      PROVE  Goal
  BY <1>17, ZmqAssumption, Zenon DEF ServerTypes, ClientTypes, serverVars, StartMqPollThread,
     RegisterHandler, DestroyConsumer
<1>18. ASSUME NEW k \in Consumer, SelectReturns(k)
      PROVE  Goal
  BY <1>18, ZmqAssumption, Zenon DEF ServerTypes, ClientTypes, serverVars, StartMqPollThread,
     RegisterHandler, SelectReturns
<1>19. ASSUME NEW k \in Consumer, Pop(k)
      PROVE  Goal
  BY <1>19, ZmqAssumption, Zenon DEF ServerTypes, ClientTypes, serverVars, StartMqPollThread,
     RegisterHandler, Pop
<1> QED
  BY <1>1, <1>2, <1>3, <1>4, <1>5, <1>6, <1>7, <1>8, <1>9, <1>10, <1>11, <1>12, <1>13, <1>14, <1>15,
     <1>16, <1>17, <1>18, <1>19, Zenon DEF Next, Thread

\* ... of the consumers' and the application's,
LEMMA ConsumerTypesStep ==
  ASSUME ConsumerTypes, ServerTypes, HandlerInv, AppInv, Next
  PROVE  ConsumerTypes'
<1> DEFINE Goal == ConsumerTypes'
<1>1. ASSUME NEW c \in Client, NEW n \in 1..MaxBatch, SendMsg(c, n)
      PROVE  Goal
  BY <1>1, ZmqAssumption, Zenon DEF ConsumerTypes, ServerTypes, HandlerInv, AppInv, AtSelect, appVars,
     SendMsg
<1>2. ASSUME NEW c \in Client, SendSucceeds(c)
      PROVE  Goal
  BY <1>2, ZmqAssumption, Zenon DEF ConsumerTypes, ServerTypes, HandlerInv, AppInv, AtSelect, appVars,
     SendSucceeds
<1>3. ASSUME NEW c \in Client, SendFails(c)
      PROVE  Goal
  BY <1>3, ZmqAssumption, Zenon DEF ConsumerTypes, ServerTypes, HandlerInv, AppInv, AtSelect, appVars,
     SendFails
<1>4. ASSUME NEW c \in Client, UpdateProducer(c)
      PROVE  Goal
  BY <1>4, ZmqAssumption, Zenon DEF ConsumerTypes, ServerTypes, HandlerInv, AppInv, AtSelect, appVars,
     UpdateProducer
<1>5. ASSUME NEW c \in Client, Connect(c)
      PROVE  Goal
  BY <1>5, ZmqAssumption, Zenon DEF ConsumerTypes, ServerTypes, HandlerInv, AppInv, AtSelect, appVars,
     Connect
<1>6. ASSUME Bind
      PROVE  Goal
  BY <1>6, ZmqAssumption, Zenon DEF ConsumerTypes, ServerTypes, HandlerInv, AppInv, AtSelect, appVars, Bind
<1>7. ASSUME DestroyServer
      PROVE  Goal
  BY <1>7, ZmqAssumption, Zenon DEF ConsumerTypes, ServerTypes, HandlerInv, AppInv, AtSelect, appVars,
     DestroyServer
<1>8. ASSUME LoopTop
      PROVE  Goal
  BY <1>8, ZmqAssumption, Zenon DEF ConsumerTypes, ServerTypes, HandlerInv, AppInv, AtSelect, appVars,
     LoopTop
<1>9. ASSUME PollTimeout
      PROVE  Goal
  BY <1>9, ZmqAssumption, Zenon DEF ConsumerTypes, ServerTypes, HandlerInv, AppInv, AtSelect, appVars,
     PollTimeout
<1>10. ASSUME NEW c \in Client, Receive(c)
      PROVE  Goal
  BY <1>10, ZmqAssumption, Zenon DEF ConsumerTypes, ServerTypes, HandlerInv, AppInv, AtSelect, appVars,
     Receive
<1>11. ASSUME Dispatch
      PROVE  Goal
  BY <1>11, ZmqAssumption, Zenon DEF ConsumerTypes, ServerTypes, HandlerInv, AppInv, AtSelect, appVars,
     Dispatch
<1>12. ASSUME PushReceived
      PROVE  Goal
  <2>1. /\ m_received' = [m_received EXCEPT ![callee] = Append(@, Head(batch))]
        /\ UNCHANGED <<fd, ready, app>> /\ thread = "call" /\ batch # <<>>
    BY <1>12, Zenon DEF PushReceived, appVars
  <2>2. callee \in Consumer
    BY <2>1, Zenon DEF HandlerInv, ServerTypes
  <2>3. m_received \in [Consumer -> Seq(Op)] /\ Head(batch) \in Op
    BY <2>1 DEF ConsumerTypes, ServerTypes
  <2>4. /\ Append(m_received[callee], Head(batch)) \in Seq(Op)
        /\ Len(Append(m_received[callee], Head(batch))) = Len(m_received[callee]) + 1
        /\ Len(m_received[callee]) \in Nat
    BY <2>2, <2>3
  <2>5. m_received' \in [Consumer -> Seq(Op)]
    BY <2>1, <2>3, <2>4, Zenon
  <2>6. ASSUME NEW j \in Consumer PROVE app[j].limit <= Len(m_received'[j])
    <3>1. app[j].limit <= Len(m_received[j]) /\ app[j].limit \in Int
      BY ZmqAssumption DEF ConsumerTypes
    <3>2. m_received'[j] = IF j = callee THEN Append(m_received[callee], Head(batch)) ELSE m_received[j]
      BY <2>1, <2>3, Zenon
    <3> QED
      BY <2>4, <3>1, <3>2
  <2> QED
    BY <2>1, <2>5, <2>6, Zenon DEF ConsumerTypes
<1>13. ASSUME UpdateConsumer
      PROVE  Goal
  BY <1>13, Zenon DEF ConsumerTypes, appVars, UpdateConsumer
<1>14. ASSUME Notify
      PROVE  Goal
  BY <1>14, ZmqAssumption, Zenon DEF ConsumerTypes, ServerTypes, HandlerInv, AppInv, AtSelect, appVars,
     Notify
<1>15. ASSUME NEW k \in Consumer, NewConsumer(k)
      PROVE  Goal
  BY <1>15, ZmqAssumption, Zenon DEF ConsumerTypes, ServerTypes, HandlerInv, AppInv, AtSelect, appVars,
     NewConsumer
<1>16. ASSUME NEW k \in Consumer, RemoveHandler(k)
      PROVE  Goal
  BY <1>16, ZmqAssumption, Zenon DEF ConsumerTypes, ServerTypes, HandlerInv, AppInv, AtSelect, appVars,
     RemoveHandler
<1>17. ASSUME NEW k \in Consumer, DestroyConsumer(k)
      PROVE  Goal
  <2>1. m_received' = [m_received EXCEPT ![k] = <<>>] /\ consumer[k] = "detached" /\ UNCHANGED <<fd, ready, app>>
    BY <1>17, Zenon DEF DestroyConsumer, appVars
  <2>2. "detached" # "live"
    BY Zenon
  <2>3. app[k] = AtSelect
    BY <2>1, <2>2, Zenon DEF AppInv
  <2>4. app[k].limit <= Len(<<>>) /\ <<>> \in Seq(Op)
    BY <2>3 DEF AtSelect
  <2>5. m_received' \in [Consumer -> Seq(Op)] /\ \A j \in Consumer : app[j].limit <= Len(m_received'[j])
    BY <2>1, <2>4, Zenon DEF ConsumerTypes
  <2> QED
    BY <2>1, <2>5, Zenon DEF ConsumerTypes
<1>18. ASSUME NEW k \in Consumer, SelectReturns(k)
      PROVE  Goal
  BY <1>18, ZmqAssumption DEF ConsumerTypes, ServerTypes, HandlerInv, AppInv, AtSelect, appVars,
     SelectReturns
<1>19. ASSUME NEW k \in Consumer, Pop(k)
      PROVE  Goal
  <2>1. /\ m_received' = [m_received EXCEPT ![k] = Tail(@)]
        /\ app' = [app EXCEPT ![k] = IF @.limit = 1 THEN AtSelect ELSE [count |-> @.count, limit |-> @.limit - 1]]
        /\ fd' = [fd EXCEPT ![k] = @ \/ (app[k].limit = 1 /\ app[k].count > m_popBatchSize)]
        /\ ready' = ready /\ app[k].limit > 0
    BY <1>19, Zenon DEF Pop
  <2>2. /\ m_received[k] \in Seq(Op) /\ app[k].limit \in 0..m_popBatchSize /\ app[k].count \in Nat
        /\ app[k].limit <= Len(m_received[k]) /\ m_popBatchSize \in Nat
    BY ZmqAssumption, Zenon DEF ConsumerTypes
  <2>3. /\ Tail(m_received[k]) \in Seq(Op) /\ Len(Tail(m_received[k])) = Len(m_received[k]) - 1
    BY <2>1, <2>2
  <2>4. m_received' \in [Consumer -> Seq(Op)] /\ m_received'[k] = Tail(m_received[k])
    BY <2>1, <2>3, Zenon DEF ConsumerTypes
  <2>5. {fd', ready'} \subseteq [Consumer -> BOOLEAN]
    BY <2>1, Zenon DEF ConsumerTypes
  <2>6. (IF app[k].limit = 1 THEN AtSelect ELSE [count |-> app[k].count, limit |-> app[k].limit - 1])
          \in [count : Nat, limit : 0..m_popBatchSize]
    BY <2>1, <2>2 DEF AtSelect
  <2>7. /\ app' \in [Consumer -> [count : Nat, limit : 0..m_popBatchSize]]
        /\ app'[k] = IF app[k].limit = 1 THEN AtSelect ELSE [count |-> app[k].count, limit |-> app[k].limit - 1]
    BY <2>1, <2>6, Zenon DEF ConsumerTypes
  <2>8. app'[k].limit <= Len(m_received'[k])
    BY <2>1, <2>2, <2>3, <2>4, <2>7 DEF AtSelect
  <2>9. \A j \in Consumer : j # k => app'[j] = app[j] /\ m_received'[j] = m_received[j]
    BY <2>1, Zenon DEF ConsumerTypes
  <2>10. \A j \in Consumer : app[j].limit <= Len(m_received[j])
    BY Zenon DEF ConsumerTypes
  <2>11. \A j \in Consumer : app'[j].limit <= Len(m_received'[j])
    BY <2>8, <2>9, <2>10, Zenon
  <2> QED
    BY <2>4, <2>5, <2>7, <2>11, Zenon DEF ConsumerTypes
<1> QED
  BY <1>1, <1>2, <1>3, <1>4, <1>5, <1>6, <1>7, <1>8, <1>9, <1>10, <1>11, <1>12, <1>13, <1>14, <1>15,
     <1>16, <1>17, <1>18, <1>19, Zenon DEF Next, Thread

\* ... and of the histories.
LEMMA HistoryTypesStep ==
  ASSUME HistoryTypes, ServerTypes, ConsumerTypes, HandlerInv, AppInv, Next
  PROVE  HistoryTypes'
<1> DEFINE Goal == HistoryTypes'
<1>1. ASSUME NEW c \in Client, NEW n \in 1..MaxBatch, SendMsg(c, n)
      PROVE  Goal
  BY <1>1, ZmqAssumption, Zenon DEF HistoryTypes, ServerTypes, ConsumerTypes, HandlerInv, appVars, SendMsg
<1>2. ASSUME NEW c \in Client, SendSucceeds(c)
      PROVE  Goal
  BY <1>2, ZmqAssumption, Zenon DEF HistoryTypes, ServerTypes, ConsumerTypes, HandlerInv, appVars,
     SendSucceeds
<1>3. ASSUME NEW c \in Client, SendFails(c)
      PROVE  Goal
  BY <1>3, ZmqAssumption, Zenon DEF HistoryTypes, ServerTypes, ConsumerTypes, HandlerInv, appVars,
     SendFails
<1>4. ASSUME NEW c \in Client, UpdateProducer(c)
      PROVE  Goal
  BY <1>4, ZmqAssumption, Zenon DEF HistoryTypes, ServerTypes, ConsumerTypes, HandlerInv, appVars,
     UpdateProducer
<1>5. ASSUME NEW c \in Client, Connect(c)
      PROVE  Goal
  <2>1. Carried(pipe[c]) \subseteq Op
    BY BatchesTyped, Zenon DEF ServerTypes
  <2> QED
    BY <1>5, <2>1, Zenon DEF HistoryTypes, appVars, Connect
<1>6. ASSUME Bind
      PROVE  Goal
  BY <1>6, ZmqAssumption, Zenon DEF HistoryTypes, ServerTypes, ConsumerTypes, HandlerInv, appVars, Bind
<1>7. ASSUME DestroyServer
      PROVE  Goal
  BY <1>7, ZmqAssumption, Zenon DEF HistoryTypes, ServerTypes, ConsumerTypes, HandlerInv, appVars,
     DestroyServer
<1>8. ASSUME LoopTop
      PROVE  Goal
  <2>1. CASE server = "running"
    BY <1>8, <2>1, Zenon DEF HistoryTypes, appVars, LoopTop
  <2>2. CASE server # "running"
    <3>1. PICK n \in [Client -> 0..MQ_WATERMARK] :
            /\ \A c \in Client : n[c] <= Len(pipe[c])
            /\ lost' = lost \cup UNION {Carried(SubSeq(pipe[c], 1, n[c])) : c \in Client}
      BY <1>8, <2>2, Zenon DEF LoopTop
    <3>2. ASSUME NEW c \in Client
          PROVE  Carried(SubSeq(pipe[c], 1, n[c])) \subseteq Op
      <4>1. pipe[c] \in Seq(Seq(Op)) /\ n[c] \in Nat /\ n[c] <= Len(pipe[c])
        BY <3>1, ZmqAssumption DEF ServerTypes
      <4>2. SubSeq(pipe[c], 1, n[c]) \in Seq(Seq(Op))
        BY <4>1
      <4> QED
        BY <4>2, BatchesTyped, Zenon
    <3>3. lost' \subseteq Op
      <4>1. UNION {Carried(SubSeq(pipe[c], 1, n[c])) : c \in Client} \subseteq Op
        BY <3>2, Zenon
      <4> QED
        BY <3>1, <4>1, Zenon DEF HistoryTypes
    <3> QED
      BY <1>8, <3>3, Zenon DEF HistoryTypes, appVars, LoopTop
  <2> QED
    BY <2>1, <2>2, Zenon
<1>9. ASSUME PollTimeout
      PROVE  Goal
  BY <1>9, ZmqAssumption, Zenon DEF HistoryTypes, ServerTypes, ConsumerTypes, HandlerInv, appVars,
     PollTimeout
<1>10. ASSUME NEW c \in Client, Receive(c)
      PROVE  Goal
  BY <1>10, ZmqAssumption, Zenon DEF HistoryTypes, ServerTypes, ConsumerTypes, HandlerInv, appVars, Receive
<1>11. ASSUME Dispatch
      PROVE  Goal
  <2>1. Elements(batch) \subseteq Op
    BY InQueue, Zenon DEF ServerTypes
  <2> QED
    BY <1>11, <2>1, Zenon DEF HistoryTypes, appVars, Dispatch
<1>12. ASSUME PushReceived
      PROVE  Goal
  <2>1. queued' = Append(queued, Head(batch)) /\ batch # <<>> /\ UNCHANGED <<updated, popped, lost>>
    BY <1>12, Zenon DEF PushReceived, appVars
  <2>2. batch \in Seq(Op) /\ queued \in Seq(Op)
    BY Zenon DEF HistoryTypes, ServerTypes
  <2>3. queued' \in Seq(Op)
    BY <2>1, <2>2
  <2> QED
    BY <2>1, <2>3, Zenon DEF HistoryTypes
<1>13. ASSUME UpdateConsumer
      PROVE  Goal
  <2>1. updated' = Append(updated, Head(batch)) /\ thread = "update" /\ UNCHANGED <<queued, popped, lost>>
    BY <1>13, Zenon DEF UpdateConsumer, appVars
  <2>2. batch \in Seq(Op) /\ batch # <<>> /\ updated \in Seq(Op)
    BY <2>1, Zenon DEF HistoryTypes, ServerTypes, HandlerInv
  <2>3. updated' \in Seq(Op)
    BY <2>1, <2>2
  <2> QED
    BY <2>1, <2>3, Zenon DEF HistoryTypes
<1>14. ASSUME Notify
      PROVE  Goal
  BY <1>14, ZmqAssumption, Zenon DEF HistoryTypes, ServerTypes, ConsumerTypes, HandlerInv, appVars, Notify
<1>15. ASSUME NEW k \in Consumer, NewConsumer(k)
      PROVE  Goal
  BY <1>15, ZmqAssumption, Zenon DEF HistoryTypes, ServerTypes, ConsumerTypes, HandlerInv, appVars,
     NewConsumer
<1>16. ASSUME NEW k \in Consumer, RemoveHandler(k)
      PROVE  Goal
  BY <1>16, ZmqAssumption, Zenon DEF HistoryTypes, ServerTypes, ConsumerTypes, HandlerInv, appVars,
     RemoveHandler
<1>17. ASSUME NEW k \in Consumer, DestroyConsumer(k)
      PROVE  Goal
  <2>1. Elements(m_received[k]) \subseteq Op
    BY InQueue, Zenon DEF ConsumerTypes
  <2> QED
    BY <1>17, <2>1, Zenon DEF HistoryTypes, appVars, DestroyConsumer
<1>18. ASSUME NEW k \in Consumer, SelectReturns(k)
      PROVE  Goal
  BY <1>18, ZmqAssumption, Zenon DEF HistoryTypes, ServerTypes, ConsumerTypes, HandlerInv, appVars,
     SelectReturns
<1>19. ASSUME NEW k \in Consumer, Pop(k)
      PROVE  Goal
  <2>1. popped' = Append(popped, Head(m_received[k])) /\ app[k].limit > 0 /\ UNCHANGED <<queued, updated, lost>>
    BY <1>19, Zenon DEF Pop
  <2>2. m_received[k] \in Seq(Op) /\ app[k].limit <= Len(m_received[k]) /\ app[k].limit \in Int
    BY ZmqAssumption DEF ConsumerTypes
  <2>3. Head(m_received[k]) \in Op
    BY <2>1, <2>2
  <2>4. popped \in Seq(Op)
    BY Zenon DEF HistoryTypes
  <2>5. popped' \in Seq(Op)
    BY <2>1, <2>3, <2>4
  <2> QED
    BY <2>1, <2>5, Zenon DEF HistoryTypes
<1> QED
  BY <1>1, <1>2, <1>3, <1>4, <1>5, <1>6, <1>7, <1>8, <1>9, <1>10, <1>11, <1>12, <1>13, <1>14, <1>15,
     <1>16, <1>17, <1>18, <1>19, Zenon DEF Next, Thread

\* Every step keeps types, handlers, signals and updaters.
LEMMA ZmqStep ==
  ASSUME ZmqInv, Next
  PROVE  ZmqInv'
<1>1. TypeOK'
  BY ClientTypesStep, ServerTypesStep, ConsumerTypesStep, HistoryTypesStep, TypesSplit,
     TypesSplitNext, Zenon DEF ZmqInv
<1> QED
  BY <1>1, HandlerStep, AppStep, UpdateStep, Zenon DEF ZmqInv

-------------------------------------------------------------------------------
(***************************************************************************)
(* Queues and batches in order.                                            *)
(***************************************************************************)
\* Nothing.
LEMMA NoQueue == Elements(<<>>) = {} /\ Carried(<<>>) = {} /\ Sorted(<<>>) /\ Batches(<<>>)
<1>1. Elements(<<>>) = {} /\ Sorted(<<>>) /\ Batches(<<>>)
  BY DEF Elements, Sorted, Batches
<1>2. \A o : o \notin Carried(<<>>)
  BY InBatches
<1> QED
  BY <1>1, <1>2, Zenon

\* The first of a queue is before the others.
LEMMA QueueTail ==
  ASSUME NEW S, NEW q \in Seq(S), q # <<>>
  PROVE  /\ Head(q) \in S /\ Tail(q) \in Seq(S)
         /\ Elements(q) = {Head(q)} \cup Elements(Tail(q))
         /\ Sorted(q) => Sorted(Tail(q)) /\ Before({Head(q)}, Elements(Tail(q)))
<1>1. /\ Len(q) \in Nat /\ Len(q) > 0 /\ Head(q) = q[1] /\ DOMAIN q = 1..Len(q) /\ DOMAIN Tail(q) = 1..Len(q) - 1
      /\ Head(q) \in S /\ Tail(q) \in Seq(S)
      /\ \A i \in 1..Len(q) - 1 : Tail(q)[i] = q[i + 1]
  OBVIOUS
<1>2. Elements(q) = {Head(q)} \cup Elements(Tail(q))
  <2>1. ASSUME NEW i \in 1..Len(q)
        PROVE  q[i] \in {Head(q)} \cup Elements(Tail(q))
    <3>1. CASE i = 1
      BY <1>1, <3>1, Zenon
    <3>2. CASE i # 1
      <4>1. i - 1 \in 1..Len(q) - 1 /\ (i - 1) + 1 = i
        BY <1>1, <3>2
      <4>2. Tail(q)[i - 1] = q[i]
        BY <1>1, <4>1, Zenon
      <4> QED
        BY <1>1, <4>1, <4>2, Zenon DEF Elements
    <3> QED
      BY <3>1, <3>2, Zenon
  <2>2. Head(q) \in Elements(q)
    BY <1>1 DEF Elements
  <2>3. \A i \in 1..Len(q) - 1 : i + 1 \in 1..Len(q) /\ Tail(q)[i] = q[i + 1]
    BY <1>1
  <2>4. Elements(Tail(q)) \subseteq Elements(q)
    BY <1>1, <2>3 DEF Elements
  <2>5. Elements(q) \subseteq {Head(q)} \cup Elements(Tail(q))
    BY <1>1, <2>1, Zenon DEF Elements
  <2> QED
    BY <2>2, <2>4, <2>5, Zenon
<1>3. ASSUME Sorted(q)
      PROVE  Sorted(Tail(q)) /\ Before({Head(q)}, Elements(Tail(q)))
  <2>1. \A i \in 1..Len(q) - 1 : i + 1 \in 1..Len(q) /\ i + 1 > 1 /\ Tail(q)[i] = q[i + 1]
    BY <1>1
  <2>2. \A i, j \in 1..Len(q) - 1 : i < j => i + 1 < j + 1
    BY <1>1
  <2>3. Sorted(Tail(q))
    BY <1>1, <1>3, <2>1, <2>2 DEF Sorted
  <2>4. Before({Head(q)}, Elements(Tail(q)))
    BY <1>1, <1>3, <2>1 DEF Sorted, Before, Elements
  <2> QED
    BY <2>3, <2>4, Zenon
<1> QED
  BY <1>1, <1>2, <1>3, Zenon

\* One more at the end of a queue.
LEMMA QueueAppend ==
  ASSUME NEW S, NEW q \in Seq(S), NEW x \in S
  PROVE  /\ Elements(Append(q, x)) = Elements(q) \cup {x}
         /\ Sorted(q) /\ Before(Elements(q), {x}) => Sorted(Append(q, x))
<1> DEFINE p == Append(q, x)
<1>1. /\ Len(q) \in Nat /\ DOMAIN q = 1..Len(q) /\ DOMAIN p = 1..Len(q) + 1
      /\ p[Len(q) + 1] = x /\ \A i \in 1..Len(q) : p[i] = q[i]
  OBVIOUS
<1> HIDE DEF p
<1>2. Elements(p) = Elements(q) \cup {x}
  <2>1. \A i \in 1..Len(q) + 1 : i \in 1..Len(q) \/ i = Len(q) + 1
    BY <1>1
  <2>2. \A i \in 1..Len(q) : i \in 1..Len(q) + 1
    BY <1>1
  <2>3. Len(q) + 1 \in 1..Len(q) + 1
    BY <1>1
  <2>4. Elements(p) \subseteq Elements(q) \cup {x}
    BY <1>1, <2>1, Zenon DEF Elements
  <2>5. Elements(q) \cup {x} \subseteq Elements(p)
    BY <1>1, <2>2, <2>3, Zenon DEF Elements
  <2> QED
    BY <2>4, <2>5, Zenon
<1>3. ASSUME Sorted(q), Before(Elements(q), {x})
      PROVE  Sorted(p)
  <2> SUFFICES ASSUME NEW i \in DOMAIN p, NEW j \in DOMAIN p, i < j, p[i][1] = p[j][1]
               PROVE  p[i][2] < p[j][2]
    BY Zenon DEF Sorted
  <2>1. i \in 1..Len(q) /\ p[i] = q[i]
    BY <1>1
  <2>2. CASE j = Len(q) + 1
    <3>1. q[i] \in Elements(q)
      BY <1>1, <2>1, Zenon DEF Elements
    <3> QED
      BY <1>1, <1>3, <2>1, <2>2, <3>1, Zenon DEF Before
  <2>3. CASE j \in 1..Len(q)
    BY <1>1, <1>3, <2>1, <2>3, Zenon DEF Sorted
  <2> QED
    BY <1>1, <2>2, <2>3
<1> QED
  BY <1>2, <1>3, Zenon DEF p

\* What is in two queues, one behind the other.
LEMMA QueueConcat ==
  ASSUME NEW S, NEW q \in Seq(S), NEW p \in Seq(S)
  PROVE  Elements(q \o p) = Elements(q) \cup Elements(p)
<1>1. /\ Len(q) \in Nat /\ Len(p) \in Nat /\ DOMAIN q = 1..Len(q) /\ DOMAIN p = 1..Len(p)
      /\ DOMAIN (q \o p) = 1..Len(q) + Len(p)
      /\ \A i \in 1..Len(q) : (q \o p)[i] = q[i]
      /\ \A i \in 1..Len(p) : (q \o p)[Len(q) + i] = p[i]
  OBVIOUS
<1>2. \A i \in 1..Len(q) + Len(p) : i \in 1..Len(q) \/ (i - Len(q) \in 1..Len(p) /\ Len(q) + (i - Len(q)) = i)
  BY <1>1
<1>3. \A i \in 1..Len(q) : i \in 1..Len(q) + Len(p)
  BY <1>1
<1>4. \A i \in 1..Len(p) : Len(q) + i \in 1..Len(q) + Len(p)
  BY <1>1
<1>5. Elements(q \o p) \subseteq Elements(q) \cup Elements(p)
  <2> SUFFICES ASSUME NEW i \in 1..Len(q) + Len(p)
               PROVE  (q \o p)[i] \in Elements(q) \cup Elements(p)
    BY <1>1, Zenon DEF Elements
  <2>1. CASE i \in 1..Len(q)
    BY <1>1, <2>1, Zenon DEF Elements
  <2>2. CASE i - Len(q) \in 1..Len(p) /\ Len(q) + (i - Len(q)) = i
    <3>1. (q \o p)[i] = p[i - Len(q)]
      BY <1>1, <2>2, Zenon
    <3> QED
      BY <1>1, <2>2, <3>1, Zenon DEF Elements
  <2> QED
    BY <1>2, <2>1, <2>2, Zenon
<1>6. Elements(q) \cup Elements(p) \subseteq Elements(q \o p)
  BY <1>1, <1>3, <1>4, Zenon DEF Elements
<1> QED
  BY <1>5, <1>6, Zenon

\* The first batch is before the others.
LEMMA BatchesTail ==
  ASSUME NEW S, NEW p \in Seq(Seq(S)), p # <<>>
  PROVE  /\ Carried(p) = Elements(Head(p)) \cup Carried(Tail(p))
         /\ Batches(p) => Sorted(Head(p)) /\ Batches(Tail(p)) /\ Before(Elements(Head(p)), Carried(Tail(p)))
<1>1. /\ Len(p) \in Nat /\ Len(p) > 0 /\ Head(p) = p[1] /\ DOMAIN p = 1..Len(p) /\ DOMAIN Tail(p) = 1..Len(p) - 1
  OBVIOUS
<1>2. \A i \in 1..Len(p) - 1 : Tail(p)[i] = p[i + 1] /\ i + 1 \in 1..Len(p) /\ 1 < i + 1
  BY <1>1
<1>3. \A i \in 1..Len(p) : i = 1 \/ (i - 1 \in 1..Len(p) - 1 /\ (i - 1) + 1 = i)
  BY <1>1
<1>4. ASSUME NEW o
      PROVE  o \in Carried(p) <=> o \in Elements(Head(p)) \cup Carried(Tail(p))
  <2>1. ASSUME o \in Carried(p)
        PROVE  o \in Elements(Head(p)) \cup Carried(Tail(p))
    <3>1. PICK b \in 1..Len(p) : o \in Elements(p[b])
      BY <1>1, <2>1, InBatches, Zenon
    <3>2. CASE b = 1
      BY <1>1, <3>1, <3>2, Zenon
    <3>3. CASE b - 1 \in 1..Len(p) - 1 /\ (b - 1) + 1 = b
      <4>1. Tail(p)[b - 1] = p[b]
        BY <1>2, <3>3, Zenon
      <4> QED
        BY <1>1, <3>1, <3>3, <4>1, InBatches, Zenon
    <3> QED
      BY <1>3, <3>2, <3>3, Zenon
  <2>2. ASSUME o \in Elements(Head(p))
        PROVE  o \in Carried(p)
    <3>1. 1 \in DOMAIN p
      BY <1>1
    <3> QED
      BY <1>1, <2>2, <3>1, InBatches, Zenon
  <2>3. ASSUME o \in Carried(Tail(p))
        PROVE  o \in Carried(p)
    <3>1. PICK b \in 1..Len(p) - 1 : o \in Elements(Tail(p)[b])
      BY <1>1, <2>3, InBatches, Zenon
    <3>2. b + 1 \in DOMAIN p /\ o \in Elements(p[b + 1])
      BY <1>1, <1>2, <3>1, Zenon
    <3> QED
      BY <3>2, InBatches, Zenon
  <2> QED
    BY <2>1, <2>2, <2>3, Zenon
<1>5. ASSUME Batches(p)
      PROVE  Sorted(Head(p)) /\ Batches(Tail(p)) /\ Before(Elements(Head(p)), Carried(Tail(p)))
  <2>a. \A b \in 1..Len(p) : Sorted(p[b])
    BY <1>1, <1>5, Zenon DEF Batches
  <2>b. 1 \in 1..Len(p)
    BY <1>1
  <2>1. Sorted(Head(p)) /\ \A b \in 1..Len(p) - 1 : Sorted(Tail(p)[b])
    BY <1>1, <1>2, <2>a, <2>b, Zenon
  <2>2. ASSUME NEW a \in 1..Len(p) - 1, NEW b \in 1..Len(p) - 1, a < b
        PROVE  Before(Elements(Tail(p)[a]), Elements(Tail(p)[b]))
    <3>1. a + 1 \in 1..Len(p) /\ b + 1 \in 1..Len(p) /\ a + 1 < b + 1 /\ Tail(p)[a] = p[a + 1] /\ Tail(p)[b] = p[b + 1]
      BY <1>1, <1>2, <2>2
    <3> QED
      BY <1>1, <1>5, <3>1, Zenon DEF Batches
  <2>3. ASSUME NEW o \in Elements(Head(p)), NEW r \in Carried(Tail(p)), o[1] = r[1]
        PROVE  o[2] < r[2]
    <3>1. PICK b \in 1..Len(p) - 1 : r \in Elements(Tail(p)[b])
      BY <1>1, InBatches, Zenon
    <3>2. 1 \in DOMAIN p /\ b + 1 \in DOMAIN p /\ 1 < b + 1 /\ r \in Elements(p[b + 1]) /\ o \in Elements(p[1])
      BY <1>1, <1>2, <3>1
    <3> QED
      BY <1>5, <2>3, <3>2, Zenon DEF Batches, Before
  <2> QED
    BY <1>1, <2>1, <2>2, <2>3, Zenon DEF Batches, Before
<1> QED
  BY <1>4, <1>5, Zenon

\* One more batch.
LEMMA BatchesAppend ==
  ASSUME NEW S, NEW p \in Seq(Seq(S)), NEW q \in Seq(S)
  PROVE  /\ Carried(Append(p, q)) = Carried(p) \cup Elements(q)
         /\ Batches(p) /\ Sorted(q) /\ Before(Carried(p), Elements(q)) => Batches(Append(p, q))
<1> DEFINE r == Append(p, q)
<1>1. /\ Len(p) \in Nat /\ DOMAIN p = 1..Len(p) /\ DOMAIN r = 1..Len(p) + 1
      /\ r[Len(p) + 1] = q /\ \A b \in 1..Len(p) : r[b] = p[b]
  OBVIOUS
<1> HIDE DEF r
<1>2. \A b \in 1..Len(p) + 1 : b \in 1..Len(p) \/ b = Len(p) + 1
  BY <1>1
<1>3. \A b \in 1..Len(p) : b \in 1..Len(p) + 1 /\ b < Len(p) + 1
  BY <1>1
<1>4. Len(p) + 1 \in 1..Len(p) + 1
  BY <1>1
<1>5. \A o : o \in Carried(r) <=> o \in Carried(p) \cup Elements(q)
  <2>1. ASSUME NEW o, o \in Carried(r)
        PROVE  o \in Carried(p) \cup Elements(q)
    <3>1. PICK b \in 1..Len(p) + 1 : o \in Elements(r[b])
      BY <1>1, <2>1, InBatches, Zenon
    <3> QED
      BY <1>1, <1>2, <3>1, InBatches, Zenon
  <2>2. ASSUME NEW o, o \in Carried(p)
        PROVE  o \in Carried(r)
    <3>1. PICK b \in 1..Len(p) : o \in Elements(p[b])
      BY <1>1, <2>2, InBatches, Zenon
    <3>2. b \in DOMAIN r /\ o \in Elements(r[b])
      BY <1>1, <1>3, <3>1, Zenon
    <3> QED
      BY <3>2, InBatches, Zenon
  <2>3. ASSUME NEW o, o \in Elements(q)
        PROVE  o \in Carried(r)
    BY <1>1, <1>4, <2>3, InBatches, Zenon
  <2> QED
    BY <2>1, <2>2, <2>3, Zenon
<1>6. ASSUME Batches(p), Sorted(q), Before(Carried(p), Elements(q))
      PROVE  Batches(r)
  <2>1. \A b \in DOMAIN r : Sorted(r[b])
    BY <1>1, <1>2, <1>6, Zenon DEF Batches
  <2>2. ASSUME NEW a \in DOMAIN r, NEW b \in DOMAIN r, a < b
        PROVE  Before(Elements(r[a]), Elements(r[b]))
    <3>1. a \in 1..Len(p) /\ r[a] = p[a]
      BY <1>1, <2>2
    <3>2. CASE b \in 1..Len(p)
      BY <1>1, <1>6, <2>2, <3>1, <3>2, Zenon DEF Batches
    <3>3. CASE b = Len(p) + 1
      <4>1. Elements(p[a]) \subseteq Carried(p)
        BY <1>1, <3>1, InBatches, Zenon
      <4> QED
        BY <1>1, <1>6, <3>1, <3>3, <4>1, Zenon DEF Before
    <3> QED
      BY <1>1, <1>2, <3>2, <3>3, Zenon
  <2> QED
    BY <2>1, <2>2, Zenon DEF Batches
<1> QED
  BY <1>5, <1>6, Zenon DEF r

\* Batches cut in two.
LEMMA BatchesCut ==
  ASSUME NEW S, NEW p \in Seq(Seq(S)), NEW n \in 0..Len(p)
  PROVE  /\ Carried(p) = Carried(SubSeq(p, 1, n)) \cup Carried(SubSeq(p, n + 1, Len(p)))
         /\ Batches(p) => /\ Batches(SubSeq(p, n + 1, Len(p)))
                          /\ Before(Carried(SubSeq(p, 1, n)), Carried(SubSeq(p, n + 1, Len(p))))
<1> DEFINE x == SubSeq(p, 1, n)
           y == SubSeq(p, n + 1, Len(p))
<1>1. /\ Len(p) \in Nat /\ n \in Nat /\ n <= Len(p) /\ DOMAIN p = 1..Len(p)
      /\ DOMAIN x = 1..n /\ DOMAIN y = 1..Len(p) - n
      /\ \A b \in 1..n : x[b] = p[b]
      /\ \A b \in 1..Len(p) - n : y[b] = p[n + b]
  OBVIOUS
<1> HIDE DEF x, y
<1>2. \A b \in 1..Len(p) : b \in 1..n \/ (b - n \in 1..Len(p) - n /\ n + (b - n) = b)
  BY <1>1
<1>3. \A b \in 1..n : b \in 1..Len(p)
  BY <1>1
<1>4. \A b \in 1..Len(p) - n : n + b \in 1..Len(p)
  BY <1>1
<1>5. \A a \in 1..n, b \in 1..Len(p) - n : a < n + b
  BY <1>1
<1>6. \A o : o \in Carried(p) <=> o \in Carried(x) \cup Carried(y)
  <2>1. ASSUME NEW o, o \in Carried(p)
        PROVE  o \in Carried(x) \cup Carried(y)
    <3>1. PICK b \in 1..Len(p) : o \in Elements(p[b])
      BY <1>1, <2>1, InBatches, Zenon
    <3>2. CASE b \in 1..n
      <4>1. b \in DOMAIN x /\ o \in Elements(x[b])
        BY <1>1, <3>1, <3>2, Zenon
      <4> QED
        BY <4>1, InBatches, Zenon
    <3>3. CASE b - n \in 1..Len(p) - n /\ n + (b - n) = b
      <4>1. b - n \in DOMAIN y /\ y[b - n] = p[n + (b - n)]
        BY <1>1, <3>3, Zenon
      <4>2. o \in Elements(y[b - n])
        BY <3>1, <3>3, <4>1, Zenon
      <4> QED
        BY <4>1, <4>2, InBatches, Zenon
    <3> QED
      BY <1>2, <3>2, <3>3, Zenon
  <2>2. ASSUME NEW o, o \in Carried(x)
        PROVE  o \in Carried(p)
    <3>1. PICK b \in 1..n : o \in Elements(x[b])
      BY <1>1, <2>2, InBatches, Zenon
    <3>2. b \in DOMAIN p /\ o \in Elements(p[b])
      BY <1>1, <1>3, <3>1, Zenon
    <3> QED
      BY <3>2, InBatches, Zenon
  <2>3. ASSUME NEW o, o \in Carried(y)
        PROVE  o \in Carried(p)
    <3>1. PICK b \in 1..Len(p) - n : o \in Elements(y[b])
      BY <1>1, <2>3, InBatches, Zenon
    <3>2. n + b \in DOMAIN p /\ o \in Elements(p[n + b])
      BY <1>1, <1>4, <3>1, Zenon
    <3> QED
      BY <3>2, InBatches, Zenon
  <2> QED
    BY <2>1, <2>2, <2>3, Zenon
<1>7. ASSUME Batches(p)
      PROVE  Batches(y) /\ Before(Carried(x), Carried(y))
  <2>1. \A b \in DOMAIN y : Sorted(y[b])
    BY <1>1, <1>4, <1>7, Zenon DEF Batches
  <2>2. ASSUME NEW a \in DOMAIN y, NEW b \in DOMAIN y, a < b
        PROVE  Before(Elements(y[a]), Elements(y[b]))
    <3>1. n + a \in DOMAIN p /\ n + b \in DOMAIN p /\ y[a] = p[n + a] /\ y[b] = p[n + b]
      BY <1>1, <1>4, <2>2, Zenon
    <3>2. n + a < n + b
      <4>1. a \in 1..Len(p) - n /\ b \in 1..Len(p) - n
        BY <1>1, <2>2, Zenon
      <4> QED
        BY <1>1, <2>2, <4>1
    <3> QED
      BY <1>7, <3>1, <3>2, Zenon DEF Batches
  <2>3. ASSUME NEW o \in Carried(x), NEW r \in Carried(y), o[1] = r[1]
        PROVE  o[2] < r[2]
    <3>1. PICK a \in 1..n : o \in Elements(x[a])
      BY <1>1, InBatches, Zenon
    <3>2. PICK b \in 1..Len(p) - n : r \in Elements(y[b])
      BY <1>1, InBatches, Zenon
    <3>3. /\ a \in DOMAIN p /\ n + b \in DOMAIN p /\ a < n + b
          /\ o \in Elements(p[a]) /\ r \in Elements(p[n + b])
      BY <1>1, <1>3, <1>4, <1>5, <3>1, <3>2, Zenon
    <3> QED
      BY <1>7, <2>3, <3>3, Zenon DEF Batches, Before
  <2> QED
    BY <2>1, <2>2, <2>3, Zenon DEF Batches, Before
<1> QED
  BY <1>6, <1>7, Zenon DEF x, y

-------------------------------------------------------------------------------
(***************************************************************************)
(* The way of the operations.                                              *)
(***************************************************************************)
LEMMA InArrived ==
  \A o : o \in Arrived <=> \/ o \in Elements(popped) \/ o \in Elements(Rest)
                          \/ \E k \in Consumer : o \in Elements(m_received[k])
<1>1. \A o : o \in UNION {Elements(m_received[k]) : k \in Consumer}
                <=> \E k \in Consumer : o \in Elements(m_received[k])
  <2>1. ASSUME NEW o, o \in UNION {Elements(m_received[k]) : k \in Consumer}
        PROVE  \E k \in Consumer : o \in Elements(m_received[k])
    BY <2>1, Zenon
  <2>2. ASSUME NEW o, NEW k \in Consumer, o \in Elements(m_received[k])
        PROVE  o \in UNION {Elements(m_received[j]) : j \in Consumer}
    BY <2>2, Zenon
  <2> QED
    BY <2>1, <2>2, Zenon
<1> DEFINE U == UNION {Elements(m_received[k]) : k \in Consumer}
<1>2. Arrived = Elements(popped) \cup Elements(Rest) \cup U
  BY Zenon DEF Arrived
<1> HIDE DEF U
<1> QED
  BY <1>1, <1>2, Zenon DEF U

\* The same in the next state.
LEMMA InArrivedNext ==
  \A o : o \in Arrived' <=> \/ o \in Elements(popped') \/ o \in Elements(Rest')
                           \/ \E k \in Consumer : o \in Elements(m_received'[k])
<1>1. \A o : o \in UNION {Elements(m_received'[k]) : k \in Consumer}
                <=> \E k \in Consumer : o \in Elements(m_received'[k])
  <2>1. ASSUME NEW o, o \in UNION {Elements(m_received'[k]) : k \in Consumer}
        PROVE  \E k \in Consumer : o \in Elements(m_received'[k])
    BY <2>1, Zenon
  <2>2. ASSUME NEW o, NEW k \in Consumer, o \in Elements(m_received'[k])
        PROVE  o \in UNION {Elements(m_received'[j]) : j \in Consumer}
    BY <2>2, Zenon
  <2> QED
    BY <2>1, <2>2, Zenon
<1> DEFINE U == UNION {Elements(m_received'[k]) : k \in Consumer}
<1>2. Arrived' = Elements(popped') \cup Elements(Rest') \cup U
  BY Zenon DEF Arrived
<1> HIDE DEF U
<1> QED
  BY <1>1, <1>2, Zenon DEF U

\* A step that leaves the queues alone.
LEMMA OrderQuiet ==
  ASSUME OrderInv, UNCHANGED <<popped, m_received, Rest, pipe, m_sendbuffer, made, accepted, lost>>
  PROVE  OrderInv'
<1>1. Arrived' = Arrived
  BY Zenon DEF Arrived
<1> QED
  BY <1>1, Zenon DEF OrderInv, QueuesInv, WayInv, HeldInv

\* A step of the clients leaves what has arrived alone.
LEMMA OrderSendMsg ==
  ASSUME ZmqInv, OrderInv, NEW c \in Client, NEW n \in 1..MaxBatch, SendMsg(c, n)
  PROVE  OrderInv'
<1> DEFINE new == [i \in 1..n |-> <<c, made[c] + i>>]
<1>1. /\ m_sendbuffer' = [m_sendbuffer EXCEPT ![c] = new] /\ made' = [made EXCEPT ![c] = made[c] + n]
      /\ UNCHANGED <<popped, m_received, Rest, pipe, accepted, lost>>
  BY Zenon DEF SendMsg, serverVars, appVars, Rest
<1>a. made \in [Client -> 0..MaxOps] /\ m_sendbuffer \in [Client -> Seq(Op)]
  BY Zenon DEF ZmqInv, TypeOK
<1>2. made \in [Client -> Nat] /\ n \in Nat /\ m_sendbuffer \in [Client -> Seq(Op)]
  <2>1. \A d \in Client : made[d] \in Nat
    BY <1>a, ZmqAssumption
  <2> QED
    BY <1>a, <2>1, ZmqAssumption
<1>3. Sorted(new) /\ \A o \in Elements(new) : o[1] = c /\ o[2] <= made[c] + n /\ o[2] > made[c]
  BY <1>2 DEF Sorted, Elements
<1> HIDE DEF new
<1>4. Arrived' = Arrived
  BY <1>1, Zenon DEF Arrived
<1>5. QueuesInv' /\ WayInv'
  BY <1>1, <1>2, <1>3, <1>4, Zenon DEF OrderInv, QueuesInv, WayInv
<1>6. ASSUME NEW d \in Client
      PROVE  /\ \A o \in Carried(pipe[d]) \cup Elements(m_sendbuffer'[d]) \cup Elements(accepted[d]) :
                  o[1] = d /\ o[2] <= made'[d]
             /\ Before(Elements(accepted[d]), Elements(m_sendbuffer'[d]))
  <2>1. /\ \A o \in Carried(pipe[d]) \cup Elements(m_sendbuffer[d]) \cup Elements(accepted[d]) :
             o[1] = d /\ o[2] <= made[d]
        /\ Before(Elements(accepted[d]), Elements(m_sendbuffer[d]))
    BY Zenon DEF OrderInv, HeldInv
  <2>2. CASE d # c
    <3>1. m_sendbuffer'[d] = m_sendbuffer[d] /\ made'[d] = made[d]
      BY <1>1, <1>2, <2>2, Zenon
    <3> QED
      BY <2>1, <3>1, Zenon
  <2>3. CASE d = c
    <3>1. m_sendbuffer'[d] = new /\ made'[d] = made[c] + n /\ made[c] \in Nat
      BY <1>1, <1>2, <2>3, Zenon
    <3>2. Elements(accepted[c]) \subseteq Op /\ Carried(pipe[c]) \subseteq Op /\ Elements(new) \subseteq Client \X Nat
      <4>1. accepted[c] \in Seq(Op) /\ pipe[c] \in Seq(Seq(Op))
        BY Zenon DEF ZmqInv, TypeOK
      <4>2. Elements(new) \subseteq Client \X Nat
        BY <1>2 DEF Elements, new
      <4> QED
        BY <4>1, <4>2, InQueue, BatchesTyped, Zenon
    <3>3. \A o \in Op : o[2] \in Nat
      BY DEF Op
    <3>4. \A o \in Client \X Nat : o[2] \in Nat
      BY Zenon
    <3> QED
      BY <1>2, <1>3, <2>1, <2>3, <3>1, <3>2, <3>3, <3>4 DEF Before
  <2> QED
    BY <2>2, <2>3, Zenon
<1>7. HeldInv'
  BY <1>1, <1>4, <1>6, Zenon DEF OrderInv, HeldInv
<1> QED
  BY <1>5, <1>7, Zenon DEF OrderInv

\* The batch of a client goes to the end of its pipe.
LEMMA OrderSendSucceeds ==
  ASSUME ZmqInv, OrderInv, NEW c \in Client, SendSucceeds(c)
  PROVE  OrderInv'
<1> DEFINE new == m_sendbuffer[c]
<1>1. /\ pipe' = [pipe EXCEPT ![c] = Append(pipe[c], new)]
      /\ accepted' = [accepted EXCEPT ![c] = accepted[c] \o new]
      /\ m_sendbuffer' = [m_sendbuffer EXCEPT ![c] = <<>>]
      /\ UNCHANGED <<popped, m_received, Rest, made, lost>>
  BY Zenon DEF SendSucceeds, serverVars, appVars, Rest
<1>2. /\ pipe \in [Client -> Seq(Seq(Op))] /\ accepted \in [Client -> Seq(Op)]
      /\ m_sendbuffer \in [Client -> Seq(Op)] /\ new \in Seq(Op)
  BY Zenon DEF ZmqInv, TypeOK
<1> HIDE DEF new
<1>3. Arrived' = Arrived
  BY <1>1, Zenon DEF Arrived
<1>4. /\ Carried(pipe'[c]) = Carried(pipe[c]) \cup Elements(new)
      /\ Elements(accepted'[c]) = Elements(accepted[c]) \cup Elements(new)
      /\ m_sendbuffer'[c] = <<>>
      /\ \A d \in Client : d # c => pipe'[d] = pipe[d] /\ accepted'[d] = accepted[d] /\ m_sendbuffer'[d] = m_sendbuffer[d]
  BY <1>1, <1>2, BatchesAppend, QueueConcat
<1>5. /\ \A o \in Carried(pipe[c]) \cup Elements(new) \cup Elements(accepted[c]) : o[1] = c /\ o[2] <= made[c]
      /\ Before(Elements(accepted[c]), Elements(new))
      /\ \A o \in Arrived : o[1] = c => o \in Elements(accepted[c]) \ lost
      /\ Carried(pipe[c]) \subseteq Elements(accepted[c]) \ lost
      /\ Elements(accepted[c]) \ lost \subseteq Arrived \cup Carried(pipe[c])
      /\ \A o \in lost : o[1] = c => o \in Elements(accepted[c])
      /\ Sorted(new) /\ Batches(pipe[c]) /\ Before(Arrived, Carried(pipe[c]))
  BY Zenon DEF OrderInv, HeldInv, QueuesInv, WayInv, new
<1>6. Batches(pipe'[c])
  <2>1. Before(Carried(pipe[c]), Elements(new))
    BY <1>5, Zenon DEF Before
  <2> QED
    BY <1>1, <1>2, <1>5, <2>1, BatchesAppend, Zenon
<1>7. QueuesInv'
  <2>1. \A d \in Client : Sorted(m_sendbuffer'[d]) /\ Batches(pipe'[d])
    BY <1>4, <1>6, NoQueue, Zenon DEF OrderInv, QueuesInv
  <2> QED
    BY <1>1, <2>1, Zenon DEF OrderInv, QueuesInv
<1>8. Before(Arrived, Carried(pipe'[c]))
  BY <1>4, <1>5, ZenonT(30) DEF Before
<1>9. WayInv'
  <2>1. \A d \in Client : Before(Arrived', Carried(pipe'[d]))
    BY <1>3, <1>4, <1>8, Zenon DEF OrderInv, WayInv
  <2> QED
    BY <1>1, <2>1, Zenon DEF OrderInv, WayInv
<1>10. \A o \in Elements(new) : o \notin lost
  <2> SUFFICES ASSUME NEW o \in Elements(new), o \in lost
               PROVE  FALSE
    BY Zenon
  <2>1. o \in Elements(accepted[c])
    BY <1>5, Zenon
  <2>2. o[2] < o[2]
    BY <1>5, <2>1, Zenon DEF Before
  <2>3. o \in Op
    BY <1>2, InQueue, Zenon
  <2> QED
    BY <2>2, <2>3 DEF Op
<1>11. /\ \A o \in Carried(pipe'[c]) \cup Elements(m_sendbuffer'[c]) \cup Elements(accepted'[c]) : o[1] = c /\ o[2] <= made[c]
       /\ Before(Elements(accepted'[c]), Elements(m_sendbuffer'[c]))
       /\ \A o \in Arrived : o[1] = c => o \in Elements(accepted'[c]) \ lost
       /\ Carried(pipe'[c]) \subseteq Elements(accepted'[c]) \ lost
       /\ Elements(accepted'[c]) \ lost \subseteq Arrived \cup Carried(pipe'[c])
       /\ \A o \in lost : o[1] = c => o \in Elements(accepted'[c])
  BY <1>4, <1>5, <1>10, NoQueue, Zenon DEF Before
<1>12. ASSUME NEW d \in Client, d # c
       PROVE  /\ \A o \in Carried(pipe'[d]) \cup Elements(m_sendbuffer'[d]) \cup Elements(accepted'[d]) : o[1] = d /\ o[2] <= made[d]
              /\ Before(Elements(accepted'[d]), Elements(m_sendbuffer'[d]))
              /\ \A o \in Arrived : o[1] = d => o \in Elements(accepted'[d]) \ lost
              /\ Carried(pipe'[d]) \subseteq Elements(accepted'[d]) \ lost
              /\ Elements(accepted'[d]) \ lost \subseteq Arrived \cup Carried(pipe'[d])
              /\ \A o \in lost : o[1] = d => o \in Elements(accepted'[d])
  <2>1. pipe'[d] = pipe[d] /\ accepted'[d] = accepted[d] /\ m_sendbuffer'[d] = m_sendbuffer[d]
    BY <1>4, <1>12, Zenon
  <2> QED
    BY <2>1, Zenon DEF OrderInv, HeldInv
<1>13. HeldInv'
  BY <1>1, <1>3, <1>11, <1>12, Zenon DEF HeldInv
<1> QED
  BY <1>7, <1>9, <1>13, Zenon DEF OrderInv

\* A batch of which sendMsg throws was never accepted.
LEMMA OrderSendFails ==
  ASSUME ZmqInv, OrderInv, NEW c \in Client, SendFails(c)
  PROVE  OrderInv'
<1>1. UNCHANGED <<popped, m_received, Rest, pipe, made, accepted, lost>>
  BY Zenon DEF SendFails, serverVars, appVars, Rest
<1>2. UNCHANGED m_sendbuffer \/ m_sendbuffer' = [m_sendbuffer EXCEPT ![c] = <<>>]
  BY Zenon DEF SendFails
<1>3. \A d \in Client : m_sendbuffer'[d] = m_sendbuffer[d] \/ m_sendbuffer'[d] = <<>>
  BY <1>2, Zenon DEF ZmqInv, TypeOK
<1>4. Arrived' = Arrived
  BY <1>1, Zenon DEF Arrived
<1>5. QueuesInv' /\ WayInv'
  BY <1>1, <1>3, <1>4, NoQueue, Zenon DEF OrderInv, QueuesInv, WayInv
<1>6. \A d \in Client :
        /\ \A o \in Carried(pipe[d]) \cup Elements(m_sendbuffer'[d]) \cup Elements(accepted[d]) : o[1] = d /\ o[2] <= made[d]
        /\ Before(Elements(accepted[d]), Elements(m_sendbuffer'[d]))
  BY <1>3, NoQueue, Zenon DEF OrderInv, HeldInv, Before
<1>7. HeldInv'
  BY <1>1, <1>4, <1>6, Zenon DEF OrderInv, HeldInv
<1> QED
  BY <1>5, <1>7, Zenon DEF OrderInv

\* What a pipe loses is lost; the rest of it stays in order.
LEMMA OrderPipes ==
  ASSUME ZmqInv, OrderInv, UNCHANGED <<popped, m_received, Rest, m_sendbuffer, made, accepted>>,
         \A c \in Client : /\ Batches(pipe'[c])
                          /\ Carried(pipe'[c]) \subseteq Carried(pipe[c])
                          /\ \A o \in Carried(pipe[c]) : o \in lost' <=> o \notin Carried(pipe'[c]),
         lost \subseteq lost',
         \A o \in lost' : o \in lost \/ \E c \in Client : o \in Carried(pipe[c])
  PROVE  OrderInv'
<1>1. Arrived' = Arrived
  BY Zenon DEF Arrived
<1>2. QueuesInv'
  BY Zenon DEF OrderInv, QueuesInv
<1>3. WayInv'
  <2>1. \A c \in Client : Before(Arrived', Carried(pipe'[c]))
    BY <1>1, Zenon DEF OrderInv, WayInv, Before
  <2> QED
    BY <2>1, Zenon DEF OrderInv, WayInv
<1>4. ASSUME NEW c \in Client
      PROVE  /\ \A o \in Carried(pipe'[c]) \cup Elements(m_sendbuffer[c]) \cup Elements(accepted[c]) : o[1] = c /\ o[2] <= made[c]
             /\ Before(Elements(accepted[c]), Elements(m_sendbuffer[c]))
             /\ \A o \in Arrived : o[1] = c => o \in Elements(accepted[c]) \ lost'
             /\ Carried(pipe'[c]) \subseteq Elements(accepted[c]) \ lost'
             /\ Elements(accepted[c]) \ lost' \subseteq Arrived \cup Carried(pipe'[c])
             /\ \A o \in lost' : o[1] = c => o \in Elements(accepted[c])
  <2>1. /\ \A d \in Client : \A o \in Carried(pipe[d]) : o[1] = d
        /\ \A o \in Carried(pipe[c]) \cup Elements(m_sendbuffer[c]) \cup Elements(accepted[c]) : o[1] = c /\ o[2] <= made[c]
        /\ Before(Elements(accepted[c]), Elements(m_sendbuffer[c]))
        /\ \A o \in Arrived : o[1] = c => o \in Elements(accepted[c]) \ lost
        /\ Carried(pipe[c]) \subseteq Elements(accepted[c]) \ lost
        /\ Elements(accepted[c]) \ lost \subseteq Arrived \cup Carried(pipe[c])
        /\ \A o \in lost : o[1] = c => o \in Elements(accepted[c])
        /\ Before(Arrived, Carried(pipe[c]))
    BY Zenon DEF OrderInv, HeldInv, WayInv
  <2>2. \A o \in lost' : o[1] = c => o \in lost \/ o \in Carried(pipe[c])
    BY <2>1
  <2>3. \A o \in Carried(pipe[c]) : o \notin Arrived
    <3> SUFFICES ASSUME NEW o \in Carried(pipe[c]), o \in Arrived
                 PROVE  FALSE
      BY Zenon
    <3>1. o[2] < o[2] /\ o \in Op
      BY <2>1, BatchesTyped, Zenon DEF Before, ZmqInv, TypeOK
    <3> QED
      BY <3>1 DEF Op
  <2> QED
    BY <2>1, <2>2, <2>3, Zenon
<1>5. HeldInv'
  BY <1>1, <1>4, Zenon DEF HeldInv
<1> QED
  BY <1>2, <1>3, <1>5, Zenon DEF OrderInv

\* connect() of a broken client.
LEMMA OrderConnect ==
  ASSUME ZmqInv, OrderInv, NEW c \in Client, Connect(c)
  PROVE  OrderInv'
<1>1. /\ pipe' = [pipe EXCEPT ![c] = <<>>] /\ lost' = lost \cup Carried(pipe[c])
      /\ UNCHANGED <<popped, m_received, Rest, m_sendbuffer, made, accepted>>
  BY Zenon DEF Connect, serverVars, appVars, Rest
<1>2. /\ \A d \in Client : Batches(pipe[d]) /\ Carried(pipe[d]) \subseteq Elements(accepted[d]) \ lost
      /\ \A d \in Client : \A o \in Carried(pipe[d]) : o[1] = d
  BY Zenon DEF OrderInv, QueuesInv, HeldInv
<1>3. pipe'[c] = <<>> /\ \A d \in Client : d # c => pipe'[d] = pipe[d]
  BY <1>1, Zenon DEF ZmqInv, TypeOK
<1>4. ASSUME NEW d \in Client
      PROVE  /\ Batches(pipe'[d])
             /\ Carried(pipe'[d]) \subseteq Carried(pipe[d])
             /\ \A o \in Carried(pipe[d]) : o \in lost' <=> o \notin Carried(pipe'[d])
  <2>1. CASE d = c
    BY <1>1, <1>3, <2>1, NoQueue, Zenon
  <2>2. CASE d # c
    BY <1>1, <1>2, <1>3, <2>2, Zenon
  <2> QED
    BY <2>1, <2>2, Zenon
<1>5. lost \subseteq lost' /\ \A o \in lost' : o \in lost \/ \E d \in Client : o \in Carried(pipe[d])
  BY <1>1, Zenon
<1> QED
  BY <1>1, <1>4, <1>5, OrderPipes, Zenon

\* The sockets of a server are closed.
LEMMA OrderLoopTop ==
  ASSUME ZmqInv, OrderInv, LoopTop
  PROVE  OrderInv'
<1>1. /\ thread = "top" /\ thread' # "update" /\ UNCHANGED batch
      /\ UNCHANGED <<popped, m_received, m_sendbuffer, made, accepted>>
  BY Zenon DEF LoopTop, clientVars, appVars
<1>2. UNCHANGED Rest
  BY <1>1, Zenon DEF Rest
<1>3. CASE server = "running"
  BY <1>1, <1>2, <1>3, OrderQuiet, Zenon DEF LoopTop
<1>4. CASE server # "running"
  <2>1. PICK n \in [Client -> 0..MQ_WATERMARK] :
          /\ \A c \in Client : n[c] <= Len(pipe[c])
          /\ pipe' = [c \in Client |-> SubSeq(pipe[c], n[c] + 1, Len(pipe[c]))]
          /\ lost' = lost \cup UNION {Carried(SubSeq(pipe[c], 1, n[c])) : c \in Client}
    BY <1>4, Zenon DEF LoopTop
  <2>2. \A o : o \in lost' <=> o \in lost \/ \E c \in Client : o \in Carried(SubSeq(pipe[c], 1, n[c]))
    <3> DEFINE U == UNION {Carried(SubSeq(pipe[c], 1, n[c])) : c \in Client}
    <3>1. ASSUME NEW o, o \in U
          PROVE  \E c \in Client : o \in Carried(SubSeq(pipe[c], 1, n[c]))
      BY <3>1, Zenon
    <3>2. ASSUME NEW o, NEW c \in Client, o \in Carried(SubSeq(pipe[c], 1, n[c]))
          PROVE  o \in U
      BY <3>2, Zenon
    <3>3. lost' = lost \cup U
      BY <2>1, Zenon
    <3> HIDE DEF U
    <3> QED
      BY <3>1, <3>2, <3>3, Zenon
  <2>3. ASSUME NEW c \in Client
        PROVE  /\ Batches(pipe'[c])
               /\ Carried(pipe[c]) = Carried(SubSeq(pipe[c], 1, n[c])) \cup Carried(pipe'[c])
               /\ Before(Carried(SubSeq(pipe[c], 1, n[c])), Carried(pipe'[c]))
    <3>1. pipe[c] \in Seq(Seq(Op)) /\ n[c] \in 0..Len(pipe[c])
      <4>1. pipe[c] \in Seq(Seq(Op)) /\ n[c] \in 0..MQ_WATERMARK /\ MQ_WATERMARK \in Nat
        BY ZmqAssumption, Zenon DEF ZmqInv, TypeOK
      <4> QED
        BY <2>1, <4>1
    <3>2. Batches(pipe[c]) /\ pipe'[c] = SubSeq(pipe[c], n[c] + 1, Len(pipe[c]))
      <4>1. Batches(pipe[c])
        BY Zenon DEF OrderInv, QueuesInv
      <4>2. pipe'[c] = SubSeq(pipe[c], n[c] + 1, Len(pipe[c]))
        BY <2>1, Zenon
      <4> QED
        BY <4>1, <4>2, Zenon
    <3> QED
      BY <3>1, <3>2, BatchesCut, Zenon
  <2>4. \A c \in Client : \A o \in Carried(pipe[c]) : o[1] = c /\ o \notin lost /\ o \in Op
    <3>1. \A c \in Client : Carried(pipe[c]) \subseteq Op
      BY BatchesTyped, Zenon DEF ZmqInv, TypeOK
    <3> QED
      BY <3>1, Zenon DEF OrderInv, HeldInv
  <2>5. ASSUME NEW c \in Client, NEW o \in Carried(pipe[c])
        PROVE  o \in lost' <=> o \notin Carried(pipe'[c])
    <3>1. o \in lost' <=> o \in Carried(SubSeq(pipe[c], 1, n[c]))
      <4>1. \A d \in Client : o \in Carried(SubSeq(pipe[d], 1, n[d])) => d = c
        BY <2>3, <2>4, ZenonT(30)
      <4> QED
        BY <2>2, <2>4, <4>1, Zenon
    <3>2. ~(o \in Carried(SubSeq(pipe[c], 1, n[c])) /\ o \in Carried(pipe'[c]))
      <4>1. o[2] \in Nat
        BY <2>4 DEF Op
      <4> QED
        BY <2>3, <4>1 DEF Before
    <3> QED
      BY <2>3, <3>1, <3>2, Zenon
  <2>6. lost \subseteq lost' /\ \A o \in lost' : o \in lost \/ \E c \in Client : o \in Carried(pipe[c])
    BY <2>2, <2>3, Zenon
  <2>7. \A c \in Client : /\ Batches(pipe'[c])
                          /\ Carried(pipe'[c]) \subseteq Carried(pipe[c])
                          /\ \A o \in Carried(pipe[c]) : o \in lost' <=> o \notin Carried(pipe'[c])
    BY <2>3, <2>5, Zenon
  <2> QED
    BY <1>1, <1>2, <2>6, <2>7, OrderPipes, Zenon
<1> QED
  BY <1>3, <1>4, Zenon

\* The first batch of a pipe is received.
LEMMA OrderReceive ==
  ASSUME ZmqInv, OrderInv, NEW c \in Client, Receive(c)
  PROVE  OrderInv'
<1> DEFINE new == Head(pipe[c])
<1>1. /\ thread = "poll" /\ pipe[c] # <<>> /\ batch' = new /\ thread' = "dispatch"
      /\ pipe' = [pipe EXCEPT ![c] = Tail(pipe[c])]
      /\ UNCHANGED <<popped, m_received, m_sendbuffer, made, accepted, lost>>
  BY Zenon DEF Receive, clientVars, appVars
<1>2. Rest = <<>> /\ Rest' = new
  BY <1>1, Zenon DEF Rest, ZmqInv, HandlerInv
<1>3. pipe[c] \in Seq(Seq(Op)) /\ pipe \in [Client -> Seq(Seq(Op))]
  BY Zenon DEF ZmqInv, TypeOK
<1>4. /\ Carried(pipe[c]) = Elements(new) \cup Carried(pipe'[c])
      /\ Sorted(new) /\ Batches(pipe'[c]) /\ Before(Elements(new), Carried(pipe'[c]))
      /\ \A d \in Client : d # c => pipe'[d] = pipe[d]
  BY <1>1, <1>3, BatchesTail, Zenon DEF OrderInv, QueuesInv
<1> HIDE DEF new
<1>5. \A o : o \in Arrived' <=> o \in Arrived \/ o \in Elements(new)
  BY <1>1, <1>2, InArrived, InArrivedNext, NoQueue, Zenon
<1>6. \A d \in Client : Batches(pipe'[d])
  BY <1>4, Zenon DEF OrderInv, QueuesInv
<1>7. QueuesInv'
  BY <1>1, <1>2, <1>4, <1>6, Zenon DEF OrderInv, QueuesInv
<1>8. Before(Arrived, Elements(new))
  BY <1>4, Zenon DEF OrderInv, WayInv, Before
<1>9. \A d \in Client : \A o \in Carried(pipe[d]) : o[1] = d
  BY Zenon DEF OrderInv, HeldInv
<1>10. ASSUME NEW d \in Client
       PROVE  Before(Arrived', Carried(pipe'[d]))
  <2>1. Before(Arrived, Carried(pipe[d]))
    BY Zenon DEF OrderInv, WayInv
  <2>2. CASE d = c
    BY <1>4, <1>5, <2>1, <2>2, Zenon DEF Before
  <2>3. CASE d # c
    <3>1. \A o \in Elements(new) : o[1] = c
      BY <1>4, <1>9, Zenon
    <3>2. \A o \in Carried(pipe'[d]) : o[1] = d /\ o \in Carried(pipe[d])
      BY <1>4, <1>9, <2>3, Zenon
    <3> QED
      BY <1>5, <2>1, <2>3, <3>1, <3>2 DEF Before
  <2> QED
    BY <2>2, <2>3, Zenon
<1>11. WayInv'
  <2>1. Before(Elements(popped), Elements(new))
    BY <1>8, InArrived, Zenon DEF Before
  <2>2. \A k \in Consumer : Before(Elements(m_received[k]), Elements(new))
    BY <1>8, InArrived, Zenon DEF Before
  <2> QED
    BY <1>1, <1>2, <1>10, <2>1, <2>2, Zenon DEF OrderInv, WayInv
<1>12. ASSUME NEW d \in Client
       PROVE  /\ \A o \in Carried(pipe'[d]) \cup Elements(m_sendbuffer[d]) \cup Elements(accepted[d]) : o[1] = d /\ o[2] <= made[d]
              /\ Before(Elements(accepted[d]), Elements(m_sendbuffer[d]))
              /\ \A o \in Arrived' : o[1] = d => o \in Elements(accepted[d]) \ lost
              /\ Carried(pipe'[d]) \subseteq Elements(accepted[d]) \ lost
              /\ Elements(accepted[d]) \ lost \subseteq Arrived' \cup Carried(pipe'[d])
              /\ \A o \in lost : o[1] = d => o \in Elements(accepted[d])
  <2>1. /\ \A o \in Carried(pipe[d]) \cup Elements(m_sendbuffer[d]) \cup Elements(accepted[d]) : o[1] = d /\ o[2] <= made[d]
        /\ Before(Elements(accepted[d]), Elements(m_sendbuffer[d]))
        /\ \A o \in Arrived : o[1] = d => o \in Elements(accepted[d]) \ lost
        /\ Carried(pipe[d]) \subseteq Elements(accepted[d]) \ lost
        /\ Elements(accepted[d]) \ lost \subseteq Arrived \cup Carried(pipe[d])
        /\ \A o \in lost : o[1] = d => o \in Elements(accepted[d])
    BY Zenon DEF OrderInv, HeldInv
  <2>2. CASE d = c
    BY <1>4, <1>5, <2>1, <2>2, Zenon
  <2>3. CASE d # c
    <3>1. \A o \in Elements(new) : o[1] = c
      BY <1>4, <1>9, Zenon
    <3> QED
      BY <1>4, <1>5, <2>1, <2>3, <3>1, Zenon
  <2> QED
    BY <2>2, <2>3, Zenon
<1>13. HeldInv'
  BY <1>1, <1>12, Zenon DEF HeldInv
<1> QED
  BY <1>7, <1>11, <1>13, Zenon DEF OrderInv

\* What moves from one queue to the next stays in order.
LEMMA OrderMoves ==
  ASSUME OrderInv, UNCHANGED <<pipe, m_sendbuffer, made, accepted, lost>>, Arrived' = Arrived,
         Sorted(popped'), Sorted(Rest'), Before(Elements(popped'), Elements(Rest')),
         \A k \in Consumer :
           /\ Sorted(m_received'[k])
           /\ Before(Elements(popped'), Elements(m_received'[k]))
           /\ Before(Elements(m_received'[k]), Elements(Rest')),
         \A j, k \in Consumer : j = k \/ m_received'[j] = <<>> \/ m_received'[k] = <<>>
  PROVE  OrderInv'
<1>1. QueuesInv'
  BY Zenon DEF OrderInv, QueuesInv
<1>2. WayInv'
  BY Zenon DEF OrderInv, WayInv
<1>3. HeldInv'
  BY Zenon DEF OrderInv, HeldInv
<1> QED
  BY <1>1, <1>2, <1>3, Zenon DEF OrderInv

\* What leaves the queues otherwise is lost.
LEMMA OrderDrops ==
  ASSUME ZmqInv, OrderInv, UNCHANGED <<pipe, m_sendbuffer, made, accepted, popped>>,
         \A o : o \in Arrived' <=> o \in Arrived /\ o \notin lost',
         \A o : o \in lost' => o \in lost \/ o \in Arrived,
         lost \subseteq lost',
         Rest' = Rest \/ Rest' = <<>>,
         \A k \in Consumer : m_received'[k] = m_received[k] \/ m_received'[k] = <<>>
  PROVE  OrderInv'
<1>1. QueuesInv'
  BY NoQueue, Zenon DEF OrderInv, QueuesInv
<1>2. WayInv'
  <2>1. /\ Elements(Rest') \subseteq Elements(Rest)
        /\ \A k \in Consumer : Elements(m_received'[k]) \subseteq Elements(m_received[k])
    BY NoQueue, Zenon
  <2>2. /\ Before(Elements(popped'), Elements(Rest'))
        /\ \A k \in Consumer : /\ Before(Elements(popped'), Elements(m_received'[k]))
                               /\ Before(Elements(m_received'[k]), Elements(Rest'))
    BY <2>1, Zenon DEF OrderInv, WayInv, Before
  <2>3. \A c \in Client : Before(Arrived', Carried(pipe'[c]))
    BY Zenon DEF OrderInv, WayInv, Before
  <2>4. \A j, k \in Consumer : j = k \/ m_received'[j] = <<>> \/ m_received'[k] = <<>>
    BY Zenon DEF OrderInv, WayInv
  <2> QED
    BY <2>2, <2>3, <2>4, Zenon DEF WayInv
<1>3. ASSUME NEW c \in Client
      PROVE  /\ \A o \in Carried(pipe[c]) \cup Elements(m_sendbuffer[c]) \cup Elements(accepted[c]) : o[1] = c /\ o[2] <= made[c]
             /\ Before(Elements(accepted[c]), Elements(m_sendbuffer[c]))
             /\ \A o \in Arrived' : o[1] = c => o \in Elements(accepted[c]) \ lost'
             /\ Carried(pipe[c]) \subseteq Elements(accepted[c]) \ lost'
             /\ Elements(accepted[c]) \ lost' \subseteq Arrived' \cup Carried(pipe[c])
             /\ \A o \in lost' : o[1] = c => o \in Elements(accepted[c])
  <2>1. /\ \A o \in Carried(pipe[c]) \cup Elements(m_sendbuffer[c]) \cup Elements(accepted[c]) : o[1] = c /\ o[2] <= made[c]
        /\ Before(Elements(accepted[c]), Elements(m_sendbuffer[c]))
        /\ \A o \in Arrived : o[1] = c => o \in Elements(accepted[c]) \ lost
        /\ Carried(pipe[c]) \subseteq Elements(accepted[c]) \ lost
        /\ Elements(accepted[c]) \ lost \subseteq Arrived \cup Carried(pipe[c])
        /\ \A o \in lost : o[1] = c => o \in Elements(accepted[c])
        /\ Before(Arrived, Carried(pipe[c]))
    BY Zenon DEF OrderInv, HeldInv, WayInv
  <2>2. \A o \in Carried(pipe[c]) : o \notin Arrived
    <3>1. \A o \in Carried(pipe[c]) : o[2] \in Nat
      <4>1. Carried(pipe[c]) \subseteq Op
        BY BatchesTyped, Zenon DEF ZmqInv, TypeOK
      <4> QED
        BY <4>1 DEF Op
    <3> QED
      BY <2>1, <3>1 DEF Before
  <2> QED
    BY <2>1, <2>2, Zenon
<1>4. HeldInv'
  BY <1>3, Zenon DEF HeldInv
<1> QED
  BY <1>1, <1>2, <1>4, Zenon DEF OrderInv

\* What has arrived is of some client, and not lost.
LEMMA ArrivedTyped ==
  ASSUME ZmqInv, OrderInv
  PROVE  \A o \in Arrived : o \in Op /\ o[1] \in Client /\ o[2] \in Nat /\ o \notin lost
<1>1. Rest \in Seq(Op) /\ popped \in Seq(Op) /\ \A k \in Consumer : m_received[k] \in Seq(Op)
  <2>1. CASE thread = "update"
    BY <2>1 DEF Rest, ZmqInv, TypeOK, HandlerInv
  <2>2. CASE thread # "update"
    BY <2>2, Zenon DEF Rest, ZmqInv, TypeOK
  <2> QED
    BY <2>1, <2>2, Zenon
<1>2. /\ Elements(Rest) \subseteq Op /\ Elements(popped) \subseteq Op
      /\ \A k \in Consumer : Elements(m_received[k]) \subseteq Op
  BY <1>1, InQueue, Zenon
<1>3. \A o \in Arrived : o \in Op
  BY <1>2, InArrived, Zenon
<1>4. \A o \in Arrived : o[1] \in Client /\ o[2] \in Nat
  BY <1>3 DEF Op
<1> QED
  BY <1>3, <1>4, Zenon DEF OrderInv, HeldInv

\* A batch for a table that has no handler is dropped.
LEMMA OrderDispatch ==
  ASSUME ZmqInv, OrderInv, Dispatch
  PROVE  OrderInv'
<1>1. /\ thread = "dispatch" /\ Rest = batch
      /\ UNCHANGED <<pipe, m_sendbuffer, made, accepted, popped, m_received>>
  BY Zenon DEF Dispatch, clientVars, appVars, Rest
<1>2. CASE m_handlers # NoHandler
  <2>1. Rest' = Rest
    BY <1>1, <1>2, Zenon DEF Dispatch, Rest
  <2> QED
    BY <1>1, <1>2, <2>1, OrderQuiet, Zenon DEF Dispatch
<1>3. CASE m_handlers = NoHandler
  <2>1. Rest' = <<>> /\ lost' = lost \cup Elements(Rest)
    BY <1>1, <1>3, Zenon DEF Dispatch, Rest
  <2>2. ASSUME NEW o \in Elements(Rest)
        PROVE  o \notin Elements(popped) /\ \A k \in Consumer : o \notin Elements(m_received[k])
    <3>1. o[2] \in Nat
      BY ArrivedTyped, InArrived, Zenon
    <3> QED
      BY <3>1 DEF OrderInv, WayInv, Before
  <2>3. \A o : o \in Arrived' <=> o \in Arrived /\ o \notin lost'
    <3>1. \A o : o \in Arrived' <=> o \in Arrived /\ o \notin Elements(Rest)
      BY <1>1, <2>1, <2>2, InArrived, InArrivedNext, NoQueue, Zenon
    <3> QED
      BY <2>1, <3>1, ArrivedTyped, Zenon
  <2>4. lost \subseteq lost' /\ \A o : o \in lost' => o \in lost \/ o \in Arrived
    BY <2>1, InArrived, Zenon
  <2> QED
    BY <1>1, <2>1, <2>3, <2>4, OrderDrops, Zenon
<1> QED
  BY <1>2, <1>3, Zenon

\* What a consumer has when it is destroyed is dropped.
LEMMA OrderDestroyConsumer ==
  ASSUME ZmqInv, OrderInv, NEW k \in Consumer, DestroyConsumer(k)
  PROVE  OrderInv'
<1>1. /\ UNCHANGED <<pipe, m_sendbuffer, made, accepted, popped, Rest>>
      /\ lost' = lost \cup Elements(m_received[k])
      /\ m_received' = [m_received EXCEPT ![k] = <<>>]
  BY Zenon DEF DestroyConsumer, clientVars, appVars, serverVars, Rest
<1>2. m_received'[k] = <<>> /\ \A j \in Consumer : j # k => m_received'[j] = m_received[j]
  BY <1>1, Zenon DEF ZmqInv, TypeOK
<1>3. ASSUME NEW o \in Elements(m_received[k])
      PROVE  /\ o \notin Elements(popped) /\ o \notin Elements(Rest)
             /\ \A j \in Consumer : j # k => o \notin Elements(m_received[j])
  <2>1. o[2] \in Nat
    BY ArrivedTyped, InArrived, Zenon
  <2>2. o \notin Elements(popped) /\ o \notin Elements(Rest)
    BY <2>1 DEF OrderInv, WayInv, Before
  <2>3. \A j \in Consumer : j # k => m_received[j] = <<>>
    BY NoQueue, Zenon DEF OrderInv, WayInv
  <2> QED
    BY <2>2, <2>3, NoQueue, Zenon
<1>4. \A o : o \in Arrived' <=> o \in Arrived /\ o \notin Elements(m_received[k])
  <2>1. \A o : (\E j \in Consumer : o \in Elements(m_received'[j]))
                 <=> \E j \in Consumer : j # k /\ o \in Elements(m_received[j])
    BY <1>2, NoQueue, Zenon
  <2> QED
    BY <1>1, <1>3, <2>1, InArrived, InArrivedNext, Zenon
<1>5. \A o : o \in Arrived' <=> o \in Arrived /\ o \notin lost'
  BY <1>1, <1>4, ArrivedTyped, Zenon
<1>6. lost \subseteq lost' /\ \A o : o \in lost' => o \in lost \/ o \in Arrived
  BY <1>1, InArrived, Zenon
<1>7. \A j \in Consumer : m_received'[j] = m_received[j] \/ m_received'[j] = <<>>
  BY <1>2, Zenon
<1> QED
  BY <1>1, <1>5, <1>6, <1>7, OrderDrops, Zenon

\* An operation of the batch goes to the queue of the consumer that is called.
LEMMA OrderPush ==
  ASSUME ZmqInv, OrderInv, PushReceived
  PROVE  OrderInv'
<1> DEFINE x == Head(batch)
           q == m_received[callee]
<1>1. /\ thread = "call" /\ batch # <<>> /\ thread' = "update" /\ batch' = batch
      /\ m_received' = [m_received EXCEPT ![callee] = Append(q, x)]
      /\ UNCHANGED <<pipe, m_sendbuffer, made, accepted, popped, lost>>
  BY Zenon DEF PushReceived, clientVars, appVars
<1>2. Rest = batch /\ Rest' = Tail(batch)
  BY <1>1, Zenon DEF Rest
<1>3. callee \in Consumer /\ consumer[callee] = "live" /\ q \in Seq(Op) /\ batch \in Seq(Op)
  BY <1>1, Zenon DEF ZmqInv, TypeOK, HandlerInv, HandlerAlive
<1>4. \A j \in Consumer : j # callee => m_received[j] = <<>>
  BY <1>3, Zenon DEF ZmqInv, HandlerInv, AppInv
<1>5. m_received'[callee] = Append(q, x) /\ \A j \in Consumer : j # callee => m_received'[j] = <<>>
  BY <1>1, <1>3, <1>4, Zenon DEF ZmqInv, TypeOK
<1>6. /\ x \in Op /\ Tail(batch) \in Seq(Op) /\ Elements(batch) = {x} \cup Elements(Tail(batch))
      /\ Sorted(Tail(batch)) /\ Before({x}, Elements(Tail(batch)))
  BY <1>1, <1>2, <1>3, QueueTail, Zenon DEF OrderInv, QueuesInv
<1>7. Sorted(q) /\ Before(Elements(popped), Elements(q)) /\ Before(Elements(q), Elements(batch)) /\ Before(Elements(popped), Elements(batch))
  BY <1>2, <1>3, Zenon DEF OrderInv, QueuesInv, WayInv
<1> HIDE DEF x, q
<1>8. Elements(Append(q, x)) = Elements(q) \cup {x} /\ Sorted(Append(q, x))
  <2>1. Before(Elements(q), {x})
    BY <1>6, <1>7, Zenon DEF Before
  <2> QED
    BY <1>3, <1>6, <1>7, <2>1, QueueAppend
<1>9. /\ Before(Elements(popped), Elements(Append(q, x)))
      /\ Before(Elements(Append(q, x)), Elements(Tail(batch)))
      /\ Before(Elements(popped), Elements(Tail(batch)))
  BY <1>6, <1>7, <1>8, Zenon DEF Before
<1>10. \A j \in Consumer :
         /\ Sorted(m_received'[j])
         /\ Before(Elements(popped'), Elements(m_received'[j]))
         /\ Before(Elements(m_received'[j]), Elements(Rest'))
  <2>1. Before(Elements(popped'), {}) /\ Before({}, Elements(Rest'))
    BY Zenon DEF Before
  <2>2. ASSUME NEW j \in Consumer, j # callee
        PROVE  Sorted(m_received'[j]) /\ Elements(m_received'[j]) = {}
    BY <1>5, <2>2, NoQueue, Zenon
  <2> QED
    BY <1>1, <1>2, <1>5, <1>8, <1>9, <2>1, <2>2, Zenon
<1>11. Arrived' = Arrived
  <2>1. \A o : (\E j \in Consumer : o \in Elements(m_received[j])) <=> o \in Elements(q)
    BY <1>3, <1>4, NoQueue, Zenon DEF q
  <2>2. \A o : (\E j \in Consumer : o \in Elements(m_received'[j])) <=> o \in Elements(q) \/ o = x
    BY <1>3, <1>5, <1>8, NoQueue, Zenon
  <2>3. \A o : o \in Arrived' <=> o \in Arrived
    BY <1>1, <1>2, <1>6, <2>1, <2>2, InArrived, InArrivedNext, Zenon
  <2> QED
    BY <2>3, Zenon
<1>12. \A j, k \in Consumer : j = k \/ m_received'[j] = <<>> \/ m_received'[k] = <<>>
  BY <1>5, Zenon
<1>13. Sorted(popped') /\ Sorted(Rest') /\ Before(Elements(popped'), Elements(Rest'))
  BY <1>1, <1>2, <1>6, <1>9, Zenon DEF OrderInv, QueuesInv
<1> QED
  BY <1>1, <1>10, <1>11, <1>12, <1>13, OrderMoves, Zenon

\* The application gets the first operation of a queue.
LEMMA OrderPop ==
  ASSUME ZmqInv, OrderInv, NEW k \in Consumer, Pop(k)
  PROVE  OrderInv'
<1> DEFINE q == m_received[k]
           x == Head(q)
<1>1. /\ popped' = Append(popped, x) /\ m_received' = [m_received EXCEPT ![k] = Tail(q)]
      /\ UNCHANGED <<pipe, m_sendbuffer, made, accepted, Rest, lost>>
  BY Zenon DEF Pop, clientVars, serverVars, Rest
<1>2. q \in Seq(Op) /\ popped \in Seq(Op) /\ q # <<>>
  <2>1. /\ q \in Seq(Op) /\ popped \in Seq(Op) /\ app[k].limit <= Len(q)
        /\ app \in [Consumer -> [count : Nat, limit : 0..m_popBatchSize]] /\ app[k].limit > 0
    BY Zenon DEF ZmqInv, TypeOK, Pop
  <2>2. app[k].limit \in 0..m_popBatchSize
    BY <2>1, Zenon
  <2> QED
    BY <2>1, <2>2, ZmqAssumption
<1>3. \A j \in Consumer : j # k => m_received[j] = <<>>
  BY <1>2, Zenon DEF OrderInv, WayInv
<1>4. m_received'[k] = Tail(q) /\ \A j \in Consumer : j # k => m_received'[j] = <<>>
  BY <1>1, <1>3, Zenon DEF ZmqInv, TypeOK
<1>5. /\ x \in Op /\ Tail(q) \in Seq(Op) /\ Elements(q) = {x} \cup Elements(Tail(q))
      /\ Sorted(Tail(q)) /\ Before({x}, Elements(Tail(q)))
  BY <1>2, QueueTail, Zenon DEF OrderInv, QueuesInv
<1>6. /\ Sorted(popped) /\ Sorted(Rest) /\ Before(Elements(popped), Elements(q)) /\ Before(Elements(q), Elements(Rest))
      /\ Before(Elements(popped), Elements(Rest))
  BY Zenon DEF OrderInv, QueuesInv, WayInv
<1>7. \A o : (\E j \in Consumer : o \in Elements(m_received[j])) <=> o \in Elements(q)
  BY <1>3, NoQueue, Zenon
<1> HIDE DEF x, q
<1>8. Elements(Append(popped, x)) = Elements(popped) \cup {x} /\ Sorted(Append(popped, x))
  <2>1. Before(Elements(popped), {x})
    BY <1>5, <1>6, Zenon DEF Before
  <2> QED
    BY <1>2, <1>5, <1>6, <2>1, QueueAppend
<1>9. /\ Before(Elements(popped'), Elements(Tail(q)))
      /\ Before(Elements(Tail(q)), Elements(Rest'))
      /\ Before(Elements(popped'), Elements(Rest'))
  BY <1>1, <1>5, <1>6, <1>8, Zenon DEF Before
<1>10. \A j \in Consumer :
         /\ Sorted(m_received'[j])
         /\ Before(Elements(popped'), Elements(m_received'[j]))
         /\ Before(Elements(m_received'[j]), Elements(Rest'))
  <2>1. Before(Elements(popped'), {}) /\ Before({}, Elements(Rest'))
    BY Zenon DEF Before
  <2>2. ASSUME NEW j \in Consumer, j # k
        PROVE  Sorted(m_received'[j]) /\ Elements(m_received'[j]) = {}
    BY <1>4, <2>2, NoQueue, Zenon
  <2> QED
    BY <1>4, <1>5, <1>9, <2>1, <2>2, Zenon
<1>11. Arrived' = Arrived
  <2>1. \A o : (\E j \in Consumer : o \in Elements(m_received'[j])) <=> o \in Elements(Tail(q))
    BY <1>4, NoQueue, Zenon
  <2>2. \A o : o \in Arrived' <=> o \in Arrived
    BY <1>1, <1>5, <1>7, <1>8, <2>1, InArrived, InArrivedNext, Zenon
  <2> QED
    BY <2>2, Zenon
<1>12. \A i, j \in Consumer : i = j \/ m_received'[i] = <<>> \/ m_received'[j] = <<>>
  BY <1>4, Zenon
<1>13. Sorted(popped') /\ Sorted(Rest')
  BY <1>1, <1>6, <1>8, Zenon
<1> QED
  BY <1>1, <1>9, <1>10, <1>11, <1>12, <1>13, OrderMoves, Zenon

\* Nothing is on the way at first.
LEMMA OrderInit == Init => OrderInv
<1> SUFFICES ASSUME Init
             PROVE  OrderInv
  BY Zenon
<1>1. /\ popped = <<>> /\ Rest = <<>> /\ lost = {} /\ \A k \in Consumer : m_received[k] = <<>>
      /\ \A c \in Client : m_sendbuffer[c] = <<>> /\ pipe[c] = <<>> /\ accepted[c] = <<>>
  BY Zenon DEF Init, Rest
<1>2. \A o : o \notin Arrived
  BY <1>1, NoQueue, InArrived, Zenon
<1>3. QueuesInv
  BY <1>1, NoQueue, Zenon DEF QueuesInv
<1>4. WayInv
  BY <1>1, <1>2, NoQueue, Zenon DEF WayInv, Before
<1>5. HeldInv
  BY <1>1, <1>2, NoQueue, Zenon DEF HeldInv, Before
<1> QED
  BY <1>3, <1>4, <1>5, Zenon DEF OrderInv

\* Every step keeps the operations in order.
LEMMA OrderStep ==
  ASSUME ZmqInv, OrderInv, Next
  PROVE  OrderInv'
<1>1. CASE \E c \in Client : \E n \in 1..MaxBatch : SendMsg(c, n)
  BY <1>1, OrderSendMsg, Zenon
<1>2. CASE \E c \in Client : SendSucceeds(c) \/ SendFails(c) \/ Connect(c)
  BY <1>2, OrderSendSucceeds, OrderSendFails, OrderConnect, Zenon
<1>3. CASE \E c \in Client : UpdateProducer(c)
  BY <1>3, OrderQuiet, Zenon DEF UpdateProducer, serverVars, appVars, Rest
<1>4. CASE Bind \/ DestroyServer \/ PollTimeout
  <2>1. Rest' = Rest
    BY <1>4, Zenon DEF Bind, DestroyServer, PollTimeout, StartMqPollThread, Rest, ZmqInv, HandlerInv
  <2> QED
    BY <1>4, <2>1, OrderQuiet, Zenon DEF Bind, DestroyServer, PollTimeout, clientVars, appVars
<1>5. CASE LoopTop \/ Dispatch \/ PushReceived \/ \E c \in Client : Receive(c)
  BY <1>5, OrderLoopTop, OrderDispatch, OrderPush, OrderReceive, Zenon
<1>6. CASE UpdateConsumer \/ Notify
  <2>1. Rest' = Rest
    BY <1>6, Zenon DEF UpdateConsumer, Notify, Rest
  <2> QED
    BY <1>6, <2>1, OrderQuiet, Zenon DEF UpdateConsumer, Notify, clientVars, appVars
<1>7. CASE \E k \in Consumer : NewConsumer(k) \/ RemoveHandler(k) \/ SelectReturns(k)
  BY <1>7, OrderQuiet, Zenon DEF NewConsumer, RemoveHandler, SelectReturns, clientVars, serverVars,
     appVars, Rest
<1>8. CASE \E k \in Consumer : DestroyConsumer(k) \/ Pop(k)
  BY <1>8, OrderDestroyConsumer, OrderPop, Zenon
<1> QED
  BY <1>1, <1>2, <1>3, <1>4, <1>5, <1>6, <1>7, <1>8, Zenon DEF Next, Thread

\* Three queues and the batches behind them.
Behind(t, p) ==
  /\ DOMAIN (t \o p) = 1..Len(p) + 3
  /\ (t \o p)[1] = t[1] /\ (t \o p)[2] = t[2] /\ (t \o p)[3] = t[3]
  /\ \A b \in 1..Len(p) : (t \o p)[b + 3] = p[b]

\* The places of a sequence of batches behind three queues.
LEMMA ThreeMore ==
  ASSUME NEW T, NEW t \in Seq(T), NEW p \in Seq(T)
  PROVE  Len(t) = 3 => Behind(t, p)
<1>1. /\ Len(t) \in Nat /\ Len(p) \in Nat
      /\ DOMAIN (t \o p) = 1..Len(t) + Len(p)
      /\ \A i \in 1..Len(t) : (t \o p)[i] = t[i]
      /\ \A i \in 1..Len(p) : (t \o p)[Len(t) + i] = p[i]
  OBVIOUS
<1> DEFINE w == t \o p
<1> HAVE Len(t) = 3
<1> HIDE DEF w
<1>2. /\ Len(p) \in Nat /\ DOMAIN w = 1..3 + Len(p)
      /\ \A i \in 1..3 : w[i] = t[i]
      /\ \A i \in 1..Len(p) : w[3 + i] = p[i]
  BY <1>1, Zenon DEF w
<1>3. 3 + Len(p) = Len(p) + 3 /\ \A i \in 1..Len(p) : 3 + i = i + 3
  BY <1>2
<1>4. DOMAIN w = 1..Len(p) + 3 /\ w[1] = t[1] /\ w[2] = t[2] /\ w[3] = t[3]
  BY <1>2, <1>3
<1>5. \A b \in 1..Len(p) : w[b + 3] = p[b]
  BY <1>2, <1>3, Zenon
<1> QED
  BY <1>4, <1>5, Zenon DEF w, Behind

\* The queues of a way.
LEMMA WayQueues ==
  ASSUME NEW S, NEW q1 \in Seq(S), NEW q2 \in Seq(S), NEW q3 \in Seq(S), NEW p \in Seq(Seq(S))
  PROVE  /\ DOMAIN (<<q1, q2, q3>> \o p) = 1..Len(p) + 3
         /\ (<<q1, q2, q3>> \o p)[1] = q1 /\ (<<q1, q2, q3>> \o p)[2] = q2 /\ (<<q1, q2, q3>> \o p)[3] = q3
         /\ \A b \in 1..Len(p) : (<<q1, q2, q3>> \o p)[b + 3] = p[b]
<1> DEFINE t == <<q1, q2, q3>>
           T == Seq(S)
<1>1. t \in Seq(T) /\ Len(t) = 3 /\ t[1] = q1 /\ t[2] = q2 /\ t[3] = q3
  OBVIOUS
<1>2. p \in Seq(T)
  BY Zenon
<1> HIDE DEF t, T
<1>3. Behind(t, p)
  BY <1>1, <1>2, ThreeMore, Zenon
<1>4. /\ DOMAIN (t \o p) = 1..Len(p) + 3 /\ (t \o p)[1] = q1 /\ (t \o p)[2] = q2 /\ (t \o p)[3] = q3
      /\ \A b \in 1..Len(p) : (t \o p)[b + 3] = p[b]
  BY <1>1, <1>3, Zenon DEF Behind
<1> QED
  BY <1>4, Zenon DEF t

\* The order of operations along a way.
LEMMA WayInOrder ==
  ASSUME NEW c, NEW S, NEW q1 \in Seq(S), NEW q2 \in Seq(S), NEW q3 \in Seq(S), NEW p \in Seq(Seq(S)),
         Sorted(q1), Sorted(q2), Sorted(q3), Batches(p),
         Before(Elements(q1), Elements(q2)), Before(Elements(q1), Elements(q3)), Before(Elements(q2), Elements(q3)),
         Before(Elements(q1), Carried(p)), Before(Elements(q2), Carried(p)), Before(Elements(q3), Carried(p))
  PROVE  LET w == <<q1, q2, q3>> \o p
         IN  /\ Carried(w) = Elements(q1) \cup Elements(q2) \cup Elements(q3) \cup Carried(p)
             /\ \A a, b \in DOMAIN w : \A i \in DOMAIN w[a], j \in DOMAIN w[b] :
                  (a < b \/ (a = b /\ i < j)) /\ w[a][i][1] = c /\ w[b][j][1] = c => w[a][i][2] < w[b][j][2]
<1> DEFINE w == <<q1, q2, q3>> \o p
<1>1. /\ DOMAIN w = 1..Len(p) + 3 /\ w[1] = q1 /\ w[2] = q2 /\ w[3] = q3
      /\ \A b \in 1..Len(p) : w[b + 3] = p[b]
  BY WayQueues
<1>2. DOMAIN p = 1..Len(p) /\ Len(p) \in Nat
  OBVIOUS
<1> HIDE DEF w
<1>3. \A a \in DOMAIN w : a \in {1, 2, 3} \/ (a - 3 \in DOMAIN p /\ w[a] = p[a - 3])
  <2>1. ASSUME NEW a \in 1..Len(p) + 3, a \notin {1, 2, 3}
        PROVE  a - 3 \in 1..Len(p) /\ a = (a - 3) + 3
    BY <1>2, <2>1, SMTT(30)
  <2> QED
    BY <1>1, <1>2, <2>1, Zenon
<1>4. \A b \in DOMAIN p : b + 3 \in DOMAIN w /\ w[b + 3] = p[b]
  BY <1>1, <1>2
<1>5. {1, 2, 3} \subseteq DOMAIN w
  BY <1>1, <1>2
<1>6. Carried(w) = Elements(q1) \cup Elements(q2) \cup Elements(q3) \cup Carried(p)
  <2>1. /\ \A o : o \in Carried(w) <=> \E b \in DOMAIN w : o \in Elements(w[b])
        /\ \A o : o \in Carried(p) <=> \E b \in DOMAIN p : o \in Elements(p[b])
    BY InBatches, Zenon
  <2>2. ASSUME NEW o \in Carried(w)
        PROVE  o \in Elements(q1) \cup Elements(q2) \cup Elements(q3) \cup Carried(p)
    <3>1. PICK b \in DOMAIN w : o \in Elements(w[b])
      BY <2>1, Zenon
    <3>2. CASE b \in {1, 2, 3}
      BY <1>1, <3>1, <3>2, Zenon
    <3>3. CASE b \notin {1, 2, 3}
      BY <1>3, <2>1, <3>1, <3>3, Zenon
    <3> QED
      BY <3>2, <3>3, Zenon
  <2>3. \A o \in Elements(q1) \cup Elements(q2) \cup Elements(q3) \cup Carried(p) : o \in Carried(w)
    BY <1>1, <1>4, <1>5, <2>1, Zenon
  <2> QED
    BY <2>2, <2>3, Zenon
<1>7. \A a \in DOMAIN w : Sorted(w[a])
  BY <1>1, <1>3, Zenon DEF Batches
<1>8. \A b \in DOMAIN p : Elements(p[b]) \subseteq Carried(p)
  BY InBatches, Zenon
<1>9. ASSUME NEW a \in DOMAIN w, NEW b \in DOMAIN w, a < b
      PROVE  Before(Elements(w[a]), Elements(w[b]))
  <2>1. a \in Int /\ b \in Int /\ 1 <= a
    BY <1>1, <1>2, SMTT(30)
  <2>2. CASE b \in {1, 2, 3}
    BY <1>1, <1>9, <2>1, <2>2
  <2>3. CASE a \in {1, 2, 3} /\ b \notin {1, 2, 3}
    <3>1. Before(Elements(w[a]), Carried(p)) /\ Elements(w[b]) \subseteq Carried(p)
      BY <1>1, <1>3, <1>8, <2>3, Zenon
    <3> QED
      BY <3>1, Zenon DEF Before
  <2>4. CASE a \notin {1, 2, 3} /\ b \notin {1, 2, 3}
    <3>1. a - 3 \in DOMAIN p /\ b - 3 \in DOMAIN p /\ w[a] = p[a - 3] /\ w[b] = p[b - 3] /\ a - 3 < b - 3
      BY <1>3, <1>9, <2>1, <2>4
    <3> QED
      BY <3>1, Zenon DEF Batches
  <2>5. a \in {1, 2, 3} \/ b \notin {1, 2, 3}
    BY <1>9, <2>1
  <2> QED
    BY <2>2, <2>3, <2>4, <2>5, Zenon
<1>10. ASSUME NEW a \in DOMAIN w, NEW b \in DOMAIN w, NEW i \in DOMAIN w[a], NEW j \in DOMAIN w[b],
              a < b \/ (a = b /\ i < j), w[a][i][1] = c, w[b][j][1] = c
       PROVE  w[a][i][2] < w[b][j][2]
  <2>1. CASE a < b
    BY <1>9, <1>10, <2>1, Zenon DEF Before, Elements
  <2>2. CASE a = b /\ i < j
    BY <1>7, <1>10, <2>2, Zenon DEF Sorted
  <2> QED
    BY <1>10, <2>1, <2>2, Zenon
<1> QED
  BY <1>6, <1>10, Zenon DEF w

\* What the invariant promises.
LEMMA OrderPromises ==
  ASSUME ZmqInv, OrderInv
  PROVE  InOrderOnce
<1>1. ASSUME NEW c \in Client, NEW k \in Consumer
      PROVE  /\ Carried(Way(c, k)) = Elements(popped) \cup Elements(m_received[k]) \cup Elements(Rest) \cup Carried(pipe[c])
             /\ \A a, b \in DOMAIN Way(c, k) : \A i \in DOMAIN Way(c, k)[a], j \in DOMAIN Way(c, k)[b] :
                  (a < b \/ (a = b /\ i < j)) /\ Way(c, k)[a][i][1] = c /\ Way(c, k)[b][j][1] = c
                    => Way(c, k)[a][i][2] < Way(c, k)[b][j][2]
  <2>1. popped \in Seq(Op) /\ m_received[k] \in Seq(Op) /\ Rest \in Seq(Op) /\ pipe[c] \in Seq(Seq(Op))
    <3>1. CASE thread = "update"
      BY <3>1 DEF Rest, ZmqInv, TypeOK, HandlerInv
    <3>2. CASE thread # "update"
      BY <3>2, Zenon DEF Rest, ZmqInv, TypeOK
    <3> QED
      BY <3>1, <3>2, Zenon
  <2>2. Sorted(popped) /\ Sorted(m_received[k]) /\ Sorted(Rest) /\ Batches(pipe[c])
    BY Zenon DEF OrderInv, QueuesInv
  <2>3. /\ Before(Elements(popped), Elements(m_received[k])) /\ Before(Elements(popped), Elements(Rest))
        /\ Before(Elements(m_received[k]), Elements(Rest))
    BY Zenon DEF OrderInv, WayInv
  <2>4. /\ Before(Elements(popped), Carried(pipe[c])) /\ Before(Elements(m_received[k]), Carried(pipe[c]))
        /\ Before(Elements(Rest), Carried(pipe[c]))
    <3>1. Before(Arrived, Carried(pipe[c]))
      BY Zenon DEF OrderInv, WayInv
    <3> QED
      BY <3>1, InArrived, Zenon DEF Before
  <2> QED
    BY <2>1, <2>2, <2>3, <2>4, WayInOrder, Zenon DEF Way
<1>2. ASSUME NEW c \in Client
      PROVE  {o \in UNION {Carried(Way(c, k)) : k \in Consumer} : o[1] = c} = Elements(accepted[c]) \ lost
  <2> DEFINE U == UNION {Carried(Way(c, k)) : k \in Consumer}
  <2>1. ASSUME NEW o, o \in U
        PROVE  \E k \in Consumer : o \in Carried(Way(c, k))
    BY <2>1, Zenon
  <2>2. ASSUME NEW o, NEW k \in Consumer, o \in Carried(Way(c, k))
        PROVE  o \in U
    BY <2>2, Zenon
  <2> HIDE DEF U
  <2>3. \A o : o \in U <=> o \in Arrived \/ o \in Carried(pipe[c])
    <3>1. \A o \in U : o \in Arrived \/ o \in Carried(pipe[c])
      BY <1>1, <2>1, InArrived
    <3>2. \A o : o \in Arrived \/ o \in Carried(pipe[c]) => \E k \in Consumer : o \in Carried(Way(c, k))
      BY <1>1, InArrived, SomeConsumer, Zenon
    <3> QED
      BY <2>2, <3>1, <3>2, Zenon
  <2>4. {o \in U : o[1] = c} = Elements(accepted[c]) \ lost
    BY <2>3, Zenon DEF OrderInv, HeldInv
  <2> QED
    BY <2>4, Zenon DEF U
<1>3. \A j, k \in Consumer : j = k \/ m_received[j] = <<>> \/ m_received[k] = <<>>
  BY Zenon DEF OrderInv, WayInv
<1>4. \A c \in Client, k \in Consumer :
       \A a, b \in DOMAIN Way(c, k) :
         \A i \in DOMAIN Way(c, k)[a], j \in DOMAIN Way(c, k)[b] :
           LET o == Way(c, k)[a][i]  p == Way(c, k)[b][j]
           IN  (a < b \/ (a = b /\ i < j)) /\ o[1] = c /\ p[1] = c => o[2] < p[2]
  BY <1>1, Zenon
<1> QED
  BY <1>2, <1>3, <1>4, Zenon DEF InOrderOnce

\* Steps of the other parts.
LEMMA ZmqQuiet ==
  ASSUME ZmqInv, UNCHANGED vars
  PROVE  ZmqInv'
<1> USE DEF vars, clientVars, serverVars, appVars
<1>1. TypeOK'
  BY Zenon DEF ZmqInv, TypeOK
<1>2. HandlerInv'
  BY Zenon DEF ZmqInv, HandlerInv, HandlerAlive
<1>3. AppInv'
  BY Zenon DEF ZmqInv, AppInv, NoneStranded
<1>4. UpdateInv'
  BY Zenon DEF ZmqInv, UpdateInv
<1> QED
  BY <1>1, <1>2, <1>3, <1>4, Zenon DEF ZmqInv

\* What a consumer's updater has got is what was queued, but for the last.
LEMMA Followed ==
  ASSUME ZmqInv
  PROVE  UpdatersFollow
<1>1. updated \in Seq(Op) /\ batch \in Seq(Op)
  BY Zenon DEF ZmqInv, TypeOK
<1>2. updated = SubSeq(queued, 1, Len(updated)) /\ Len(queued) - Len(updated) <= 1
  <2>1. CASE thread = "update"
    <3>1. Head(batch) \in Op
      BY <1>1, <2>1 DEF ZmqInv, HandlerInv
    <3>2. queued = Append(updated, Head(batch))
      BY <2>1, Zenon DEF ZmqInv, UpdateInv
    <3>3. /\ queued \in Seq(Op) /\ Len(queued) = Len(updated) + 1 /\ Len(updated) \in Nat
          /\ \A i \in 1..Len(updated) : queued[i] = updated[i]
      BY <1>1, <3>1, <3>2
    <3>4. /\ SubSeq(queued, 1, Len(updated)) \in Seq(Op) /\ Len(SubSeq(queued, 1, Len(updated))) = Len(updated)
          /\ \A i \in 1..Len(updated) : SubSeq(queued, 1, Len(updated))[i] = queued[i]
      BY <3>3
    <3> QED
      BY <1>1, <3>3, <3>4, SameSequence
  <2>2. CASE thread # "update"
    <3>1. queued = updated
      BY <2>2, Zenon DEF ZmqInv, UpdateInv
    <3> QED
      BY <1>1, <3>1
  <2> QED
    BY <2>1, <2>2, Zenon
<1> QED
  BY <1>2, Zenon DEF UpdatersFollow, ZmqInv, UpdateInv
-------------------------------------------------------------------------------
(***************************************************************************)
(* The one-to-one mode: one message, which is the request, the request in  *)
(* the REP socket or its reply, goes round.                                *)
(***************************************************************************)
TokenInv ==
  /\ reqSocket = "ready" => request = 0 /\ reply = 0 /\ repSocket = 0 /\ answered = asked
  /\ request # 0 => request = asked /\ reply = 0 /\ repSocket = 0
  /\ reply # 0 => reply = asked /\ request = 0 /\ repSocket = 0
  /\ repSocket # 0 => repSocket = asked /\ request = 0 /\ reply = 0
  /\ pending # 0 => pending = repSocket

\* While the server is not being destroyed, m_allowZmqPoll is FALSE from the poll until the reply.
PollInv ==
  owner = "run" =>
    /\ pollThread \in {"poll", "handle"} => ~m_allowZmqPoll
    /\ pending # 0 => pollThread = "allow" /\ ~m_allowZmqPoll

SyncInv ==
  /\ Sync!TypeOK
  /\ owner # "run" => servers < MaxServers
  /\ TokenInv
  /\ PollInv

\* The initial state of the one-to-one mode.
LEMMA SyncInit == Sync!Init => SyncInv
  BY PartsAssumption DEF Sync!Init, SyncInv, Sync!TypeOK, TokenInv, PollInv

\* Every step of the one-to-one mode.
LEMMA SyncStep ==
  ASSUME SyncInv, Sync!Next
  PROVE  SyncInv'
<1> USE PartsAssumption DEF SyncInv, Sync!TypeOK
<1>1. CASE Sync!SendMsg
  BY <1>1 DEF TokenInv, PollInv, Sync!SendMsg, Sync!serverSide
<1>2. CASE Sync!WaitTimeout
  BY <1>2 DEF TokenInv, PollInv, Sync!WaitTimeout, Sync!serverSide
<1>3. CASE Sync!WaitReply
  BY <1>3, Zenon DEF TokenInv, PollInv, Sync!WaitReply, Sync!serverSide
<1>4. CASE Sync!PollTop
  BY <1>4, Zenon DEF TokenInv, PollInv, Sync!PollTop, Sync!clientSide
<1>5. CASE Sync!PollReceive
  BY <1>5, Zenon DEF TokenInv, PollInv, Sync!PollReceive, Sync!clientSide
<1>6. CASE Sync!PollNothing
  BY <1>6, Zenon DEF TokenInv, PollInv, Sync!PollNothing, Sync!clientSide
<1>7. CASE Sync!HandleRequest
  BY <1>7, Zenon DEF TokenInv, PollInv, Sync!HandleRequest, Sync!clientSide
<1>8. CASE Sync!Allow
  BY <1>8, Zenon DEF TokenInv, PollInv, Sync!Allow, Sync!clientSide
<1>9. CASE Sync!SendReply
  BY <1>9, Zenon DEF TokenInv, PollInv, Sync!SendReply, Sync!clientSide
<1>10. CASE Sync!DestroyAllow
  BY <1>10, Zenon DEF TokenInv, PollInv, Sync!DestroyAllow, Sync!clientSide
<1>11. CASE Sync!DestroyRun
  BY <1>11, Zenon DEF TokenInv, PollInv, Sync!DestroyRun, Sync!clientSide
<1>12. CASE Sync!DestroyJoin
  BY <1>12 DEF TokenInv, PollInv, Sync!DestroyJoin, Sync!clientSide
<1> QED
  BY <1>1, <1>2, <1>3, <1>4, <1>5, <1>6, <1>7, <1>8, <1>9, <1>10, <1>11, <1>12, Zenon
  DEF Sync!Next, Sync!PollThread, Sync!Destructor

\* A step of another part.
LEMMA SyncQuiet ==
  ASSUME SyncInv, UNCHANGED syncVars
  PROVE  SyncInv'
  BY Zenon DEF SyncInv, Sync!TypeOK, TokenInv, PollInv, syncVars

\* What the invariant of the one-to-one mode promises.
LEMMA SyncPromises == SyncInv => Sync!TypeOK /\ OneToOne
  BY Zenon DEF SyncInv, TokenInv, PollInv, OneToOne, Sync!ReplyMatches, Sync!SocketHandedOver
-------------------------------------------------------------------------------
INSTANCE WellFoundedInduction

(***************************************************************************)
(* The updater.  Effects is a recursive function, and what it computes is  *)
(* shown by induction over the naturals, in the form of the least element  *)
(* that a set of naturals has.                                             *)
(***************************************************************************)
\* A set of naturals that is not empty has a least element.
LEMMA LeastNatural ==
  ASSUME NEW T, T \subseteq Nat, T # {}
  PROVE  \E x \in T : \A y \in T : x <= y
<1>1. IsWellFoundedOn(OpToRel(<, Nat), Nat)
  BY NatLessThanWellFounded, Zenon
<1>2. PICK x \in T : \A y \in T : ~ (<<y, x>> \in OpToRel(<, Nat))
  BY <1>1, WFMin, Zenon
<1>3. ASSUME NEW y \in T, y < x
      PROVE  FALSE
  <2>1. <<y, x>> \in OpToRel(<, Nat)
    BY <1>3, Zenon DEF OpToRel
  <2> QED
    BY <1>2, <2>1, Zenon
<1> QED
  BY <1>3

\* Induction over the naturals.
LEMMA Induction ==
  ASSUME NEW S, 0 \in S, \A n \in Nat : n \in S => n + 1 \in S
  PROVE  Nat \subseteq S
<1> DEFINE T == Nat \ S
<1> SUFFICES ASSUME T # {}
             PROVE  FALSE
  BY Zenon
<1>1. PICK x \in T : \A y \in T : x <= y
  BY LeastNatural, Zenon
<1>2. x # 0 /\ x - 1 \in Nat /\ x - 1 \notin T
  BY <1>1
<1>3. (x - 1) + 1 \in S
  BY <1>2, Zenon
<1> QED
  BY <1>1, <1>3

\* The tables between the changes of a sequence.
Between(t, cs, a) ==
  /\ a = [i \in 0..Len(cs) |-> a[i]]
  /\ a[0] = t
  /\ \A i \in 1..Len(cs) : a[i] = Updater!Effect(a[i - 1], cs[i])

\* There are such tables.
LEMMA SomeBetween ==
  ASSUME NEW t, NEW cs \in Seq(Updater!Change)
  PROVE  \E a : Between(t, cs, a)
<1> DEFINE Good(n, a) == a[0] = t /\ \A i \in 1..n : a[i] = Updater!Effect(a[i - 1], cs[i])
           S == {n \in Nat : \E a : Good(n, a)}
<1>1. 0 \in S
  <2>1. Good(0, [i \in {0} |-> t])
    OBVIOUS
  <2> QED
    BY <2>1, Zenon
<1>2. ASSUME NEW n \in Nat, n \in S
      PROVE  n + 1 \in S
  <2>1. PICK a : Good(n, a)
    BY <1>2, Zenon
  <2> DEFINE b == [i \in 0..(n + 1) |-> IF i <= n THEN a[i] ELSE Updater!Effect(a[n], cs[n + 1])]
  <2>2. b[0] = t
    BY <2>1
  <2>3. ASSUME NEW i \in 1..(n + 1)
        PROVE  b[i] = Updater!Effect(b[i - 1], cs[i])
    <3>1. CASE i <= n
      <4>1. b[i] = a[i] /\ b[i - 1] = a[i - 1] /\ i \in 1..n
        BY <3>1
      <4> QED
        BY <2>1, <4>1, Zenon
    <3>2. CASE i = n + 1
      <4>1. b[i] = Updater!Effect(a[n], cs[n + 1]) /\ b[i - 1] = a[n]
        BY <3>2
      <4> QED
        BY <3>2, <4>1, Zenon
    <3> QED
      BY <3>1, <3>2
  <2>4. Good(n + 1, b)
    BY <2>2, <2>3, Zenon
  <2> HIDE DEF b
  <2>5. \E x : Good(n + 1, x)
    BY <2>4, Zenon
  <2> QED
    BY <2>5
<1> HIDE DEF S
<1>3. Nat \subseteq S
  BY <1>1, <1>2, Induction, Zenon
<1>4. Len(cs) \in S
  BY <1>3
<1>5. PICK a : Good(Len(cs), a)
  BY <1>4, Zenon DEF S
<1> DEFINE b == [i \in 0..Len(cs) |-> a[i]]
<1>6. Len(cs) \in Nat
  OBVIOUS
<1>7. b = [i \in 0..Len(cs) |-> b[i]] /\ b[0] = t
  BY <1>5, <1>6
<1>8. \A i \in 1..Len(cs) : b[i] = a[i] /\ b[i - 1] = a[i - 1]
  BY <1>6
<1>9. Between(t, cs, b)
  BY <1>5, <1>7, <1>8, Zenon DEF Between
<1> QED
  BY <1>9, Zenon

\* Effects is the last of them.
LEMMA LastOfBetween ==
  ASSUME NEW t, NEW cs \in Seq(Updater!Change), NEW a, Between(t, cs, a)
  PROVE  Updater!Effects(t, cs) = a[Len(cs)]
<1> DEFINE N == Len(cs)
           F(f) == [i \in 0..N |-> IF i = 0 THEN t ELSE Updater!Effect(f[i - 1], cs[i])]
           after == CHOOSE f : f = F(f)
<1>1. N \in Nat
  OBVIOUS
<1>2. Updater!Effects(t, cs) = after[N]
  BY Zenon DEF Updater!Effects
<1>3. a = F(a)
  BY <1>1 DEF Between
<1>4. after = F(after)
  BY <1>3, Zenon
<1> HIDE DEF after
<1> DEFINE S == {n \in Nat : n <= N => after[n] = a[n]}
<1>5. 0 \in S
  BY <1>1, <1>3, <1>4
<1>6. ASSUME NEW n \in Nat, n \in S
      PROVE  n + 1 \in S
  <2> SUFFICES ASSUME n + 1 <= N
               PROVE  after[n + 1] = a[n + 1]
    OBVIOUS
  <2>1. n + 1 \in 0..N /\ n + 1 # 0 /\ (n + 1) - 1 = n /\ after[n] = a[n]
    BY <1>1, <1>6
  <2>2. after[n + 1] = Updater!Effect(after[n], cs[n + 1])
    BY <1>4, <2>1, Zenon
  <2>3. a[n + 1] = Updater!Effect(a[n], cs[n + 1])
    BY <1>3, <2>1, Zenon
  <2> QED
    BY <2>1, <2>2, <2>3, Zenon
<1> HIDE DEF S
<1>7. N \in S
  BY <1>1, <1>5, <1>6, Induction, Zenon
<1> QED
  BY <1>1, <1>2, <1>7 DEF S

\* The changes of two sequences, one after the other.
LEMMA EffectsOfConcat ==
  ASSUME NEW t, NEW p \in Seq(Updater!Change), NEW q \in Seq(Updater!Change)
  PROVE  Updater!Effects(t, p \o q) = Updater!Effects(Updater!Effects(t, p), q)
<1>1. /\ Len(p) \in Nat /\ Len(q) \in Nat /\ p \o q \in Seq(Updater!Change) /\ Len(p \o q) = Len(p) + Len(q)
      /\ \A i \in 1..Len(p) : (p \o q)[i] = p[i]
      /\ \A i \in 1..Len(q) : (p \o q)[Len(p) + i] = q[i]
  OBVIOUS
<1>2. PICK a : Between(t, p \o q, a)
  BY <1>1, SomeBetween, Zenon
<1> DEFINE b == [i \in 0..Len(p) |-> a[i]]
           c == [i \in 0..Len(q) |-> a[Len(p) + i]]
<1>3. Between(t, p, b)
  <2>1. b = [i \in 0..Len(p) |-> b[i]] /\ b[0] = t
    BY <1>1, <1>2 DEF Between
  <2>2. ASSUME NEW i \in 1..Len(p)
        PROVE  b[i] = Updater!Effect(b[i - 1], p[i])
    <3>1. i \in 1..Len(p \o q) /\ b[i] = a[i] /\ b[i - 1] = a[i - 1] /\ (p \o q)[i] = p[i]
      BY <1>1
    <3> QED
      BY <1>2, <3>1, Zenon DEF Between
  <2> QED
    BY <2>1, <2>2, Zenon DEF Between
<1>4. Updater!Effects(t, p) = a[Len(p)]
  BY <1>1, <1>3, LastOfBetween
<1>5. Between(a[Len(p)], q, c)
  <2>1. c = [i \in 0..Len(q) |-> c[i]] /\ c[0] = a[Len(p)]
    BY <1>1
  <2>2. ASSUME NEW i \in 1..Len(q)
        PROVE  c[i] = Updater!Effect(c[i - 1], q[i])
    <3>1. /\ Len(p) + i \in 1..Len(p \o q) /\ c[i] = a[Len(p) + i] /\ c[i - 1] = a[(Len(p) + i) - 1]
          /\ (p \o q)[Len(p) + i] = q[i]
      BY <1>1
    <3> QED
      BY <1>2, <3>1, Zenon DEF Between
  <2> QED
    BY <2>1, <2>2, Zenon DEF Between
<1>6. Updater!Effects(a[Len(p)], q) = a[Len(p) + Len(q)]
  BY <1>1, <1>5, LastOfBetween
<1>7. Updater!Effects(t, p \o q) = a[Len(p) + Len(q)]
  BY <1>1, <1>2, LastOfBetween, ZenonT(30)
<1> QED
  BY <1>4, <1>6, <1>7, Zenon

\* No change.
LEMMA EffectsOfNone ==
  ASSUME NEW t
  PROVE  Updater!Effects(t, <<>>) = t
<1> DEFINE a == [i \in 0..0 |-> t]
<1>1. Between(t, <<>>, a) /\ <<>> \in Seq(Updater!Change) /\ Len(<<>>) = 0
  BY DEF Between
<1>2. Updater!Effects(t, <<>>) = a[0]
  BY <1>1, LastOfBetween, Zenon
<1> QED
  BY <1>2

\* One change.
LEMMA EffectsOfOne ==
  ASSUME NEW t, NEW c \in Updater!Change
  PROVE  Updater!Effects(t, <<c>>) = Updater!Effect(t, c)
<1> DEFINE b == [i \in 0..1 |-> IF i = 0 THEN t ELSE Updater!Effect(t, c)]
<1>1. <<c>> \in Seq(Updater!Change) /\ Len(<<c>>) = 1 /\ <<c>>[1] = c
  OBVIOUS
<1>2. Between(t, <<c>>, b)
  BY <1>1 DEF Between
<1>3. Updater!Effects(t, <<c>>) = b[1]
  BY <1>1, <1>2, LastOfBetween, Zenon
<1> QED
  BY <1>3


\* The first change of a sequence, and the others.
LEMMA EffectsOfFirst ==
  ASSUME NEW t, NEW q \in Seq(Updater!Change), q # <<>>
  PROVE  /\ Head(q) \in Updater!Change /\ Tail(q) \in Seq(Updater!Change)
         /\ Updater!Effects(t, q) = Updater!Effects(Updater!Effect(t, Head(q)), Tail(q))
<1>1. /\ Head(q) \in Updater!Change /\ Tail(q) \in Seq(Updater!Change) /\ <<Head(q)>> \in Seq(Updater!Change)
      /\ q = <<Head(q)>> \o Tail(q)
  OBVIOUS
<1>2. Updater!Effects(t, <<Head(q)>> \o Tail(q)) = Updater!Effects(Updater!Effects(t, <<Head(q)>>), Tail(q))
  BY <1>1, EffectsOfConcat, Zenon
<1> QED
  BY <1>1, <1>2, EffectsOfOne, Zenon

\* One more change.
LEMMA EffectsOfLast ==
  ASSUME NEW t, NEW q \in Seq(Updater!Change), NEW c \in Updater!Change
  PROVE  /\ Append(q, c) \in Seq(Updater!Change)
         /\ Updater!Effects(t, Append(q, c)) = Updater!Effect(Updater!Effects(t, q), c)
<1>1. Append(q, c) \in Seq(Updater!Change) /\ <<c>> \in Seq(Updater!Change) /\ Append(q, c) = q \o <<c>>
  OBVIOUS
<1>2. Updater!Effects(t, q \o <<c>>) = Updater!Effects(Updater!Effects(t, q), <<c>>)
  BY <1>1, EffectsOfConcat, Zenon
<1> QED
  BY <1>1, <1>2, EffectsOfOne, Zenon

\* A change of a table, key by key.
LEMMA EffectByKey ==
  ASSUME NEW t \in [Key -> Updater!Hash], NEW c \in Updater!Change
  PROVE  /\ Updater!Effect(t, c) \in [Key -> Updater!Hash]
         /\ c.key \in Key /\ c.fvs \in Updater!Hash /\ c.op \in {"SET", "HSET", "DEL", "unknown"}
         /\ \A k \in Key : k # c.key => Updater!Effect(t, c)[k] = t[k]
         /\ c.op = "SET" => Updater!Effect(t, c)[c.key] = c.fvs
         /\ c.op = "HSET" => Updater!Effect(t, c)[c.key] = Updater!HSet(t[c.key], c.fvs)
         /\ c.op = "DEL" => Updater!Effect(t, c)[c.key] = Updater!EmptyHash
         /\ c.op = "unknown" => Updater!Effect(t, c)[c.key] = t[c.key]
<1>1. c.key \in Key /\ c.fvs \in Updater!Hash /\ c.op \in {"SET", "HSET", "DEL", "unknown"}
  BY Zenon DEF Updater!Change
<1>2. t[c.key] \in Updater!Hash /\ Updater!EmptyHash \in Updater!Hash /\ Updater!HSet(t[c.key], c.fvs) \in Updater!Hash
  BY <1>1, Zenon DEF Updater!Hash, Updater!EmptyHash, Updater!HSet
<1>3. CASE c.op = "SET"
  BY <1>1, <1>2, <1>3, Zenon DEF Updater!Effect
<1>4. CASE c.op = "HSET"
  BY <1>1, <1>2, <1>4, Zenon DEF Updater!Effect
<1>5. CASE c.op = "DEL"
  BY <1>1, <1>2, <1>5, Zenon DEF Updater!Effect
<1>6. CASE c.op = "unknown"
  BY <1>1, <1>2, <1>6, Zenon DEF Updater!Effect
<1> QED
  BY <1>1, <1>3, <1>4, <1>5, <1>6, Zenon

\* HSET again with the same fields, and HSET of a hash that does not exist.
LEMMA HSetTwice ==
  ASSUME NEW h \in Updater!Hash, NEW u \in Updater!Hash
  PROVE  /\ Updater!HSet(Updater!HSet(h, u), u) = Updater!HSet(h, u)
         /\ Updater!HSet(Updater!EmptyHash, u) = u
  BY Zenon DEF Updater!Hash, Updater!HSet, Updater!EmptyHash

\* What is half written, and what is written and not yet popped, is what the first change makes.
UpdaterInv ==
  /\ Updater!TypeOK
  /\ Updater!UpdatesInOrder
  /\ worker \in {"write", "set", "pop"} => count > 0
  /\ worker = "set" => Updater!FrontChange.op = "SET" /\ table[Updater!FrontChange.key] = Updater!EmptyHash
  /\ worker = "pop" => Updater!Effect(table, Updater!FrontChange) = table

\* Nothing is queued at first.
LEMMA UpdaterInit == Updater!Init => UpdaterInv
<1> SUFFICES ASSUME Updater!Init
             PROVE  UpdaterInv
  BY Zenon
<1>1. Updater!EmptyHash \in Updater!Hash
  BY Zenon DEF Updater!Hash, Updater!EmptyHash
<1>2. Updater!TypeOK
  BY <1>1 DEF Updater!Init, Updater!TypeOK, Updater!WorkerPc
<1>3. Updater!UpdatesInOrder
  BY EffectsOfNone, Zenon DEF Updater!Init, Updater!UpdatesInOrder
<1> QED
  BY <1>2, <1>3, Zenon DEF UpdaterInv, Updater!Init

\* A step that leaves queue and table alone.
LEMMA UpdaterThreads ==
  ASSUME UpdaterInv, UNCHANGED <<m_dbUpdateDataQueue, table, expected>>,
         \/ Updater!UpdateNotify \/ Updater!Stop \/ Updater!StopNotify \/ Updater!Join
         \/ Updater!QueueSize \/ Updater!CheckRun \/ Updater!Wait \/ Updater!SpuriousWakeup
         \/ Updater!Finished
  PROVE  UpdaterInv'
<1>1. Updater!UpdatesInOrder'
  BY Zenon DEF UpdaterInv, Updater!UpdatesInOrder
<1>2. Len(m_dbUpdateDataQueue) \in Nat /\ count \in Nat /\ UNCHANGED Updater!FrontChange
  BY DEF UpdaterInv, Updater!TypeOK, Updater!FrontChange
<1>3. /\ u_owner' \in {"run", "notify", "stop", "join", "gone"} /\ u_runThread' \in BOOLEAN
      /\ \/ worker' = worker /\ count' = count
         \/ worker' \in {"size", "empty", "wait", "waiting", "end"} /\ count' = count
         \/ worker' = IF count' = 0 THEN "empty" ELSE "write"
      /\ count' = count \/ count' = Len(m_dbUpdateDataQueue)
  <2>1. CASE Updater!UpdateNotify \/ Updater!StopNotify
    BY <2>1, Zenon DEF UpdaterInv, Updater!TypeOK, Updater!UpdateNotify, Updater!StopNotify,
       Updater!NotifyAll
  <2>2. CASE Updater!Stop \/ Updater!Join
    BY <2>2, Zenon DEF UpdaterInv, Updater!TypeOK, Updater!Stop, Updater!Join
  <2>3. CASE Updater!Finished
    BY <2>3, Zenon DEF UpdaterInv, Updater!TypeOK, Updater!Finished, Updater!vars
  <2>4. CASE Updater!QueueSize
    BY <2>4, Zenon DEF UpdaterInv, Updater!TypeOK, Updater!QueueSize
  <2>5. CASE Updater!CheckRun \/ Updater!Wait \/ Updater!SpuriousWakeup
    BY <2>5, Zenon DEF UpdaterInv, Updater!TypeOK, Updater!CheckRun, Updater!Wait, Updater!SpuriousWakeup
  <2> QED
    BY <2>1, <2>2, <2>3, <2>4, <2>5, Zenon
<1>4. (worker' = worker /\ count' = count) \/ (worker' \notin {"set", "pop"} /\ (worker' = "write" => count' > 0))
  BY <1>2, <1>3
<1>6. Updater!TypeOK'
  BY <1>2, <1>3 DEF UpdaterInv, Updater!TypeOK, Updater!WorkerPc
<1>5. /\ (worker \in {"write", "set", "pop"} => count > 0)'
      /\ (worker = "set" => Updater!FrontChange.op = "SET" /\ table[Updater!FrontChange.key] = Updater!EmptyHash)'
      /\ (worker = "pop" => Updater!Effect(table, Updater!FrontChange) = table)'
  BY <1>2, <1>4, Zenon DEF UpdaterInv
<1> QED
  BY <1>1, <1>5, <1>6, Zenon DEF UpdaterInv

\* A call of update() adds its change at the end of the queue.
LEMMA UpdaterUpdate ==
  ASSUME UpdaterInv, NEW c \in Updater!Change, Updater!Update(c)
  PROVE  UpdaterInv'
<1> DEFINE q == m_dbUpdateDataQueue
<1>1. /\ q' = Append(q, c) /\ expected' = Updater!Effect(expected, c) /\ u_owner' = "notify"
      /\ UNCHANGED <<u_runThread, worker, count, table>>
  BY Zenon DEF Updater!Update
<1>2. /\ q \in Seq(Updater!Change) /\ table \in [Key -> Updater!Hash] /\ expected \in [Key -> Updater!Hash]
      /\ count \in 0..Len(q) /\ Len(q) \in Nat
  BY DEF UpdaterInv, Updater!TypeOK
<1>3. Updater!UpdatesInOrder'
  BY <1>1, <1>2, EffectsOfLast, Zenon DEF UpdaterInv, Updater!UpdatesInOrder
<1>4. q' \in Seq(Updater!Change) /\ Len(q') = Len(q) + 1 /\ (q # <<>> => Head(q') = Head(q))
  BY <1>1, <1>2, SMTT(30)
<1>5. count' \in 0..Len(q') /\ expected' \in [Key -> Updater!Hash]
  BY <1>1, <1>2, <1>4, EffectByKey
<1>6. Updater!TypeOK'
  BY <1>1, <1>4, <1>5, Zenon DEF UpdaterInv, Updater!TypeOK
<1>7. count > 0 => UNCHANGED Updater!FrontChange
  BY <1>2, <1>4 DEF Updater!FrontChange
<1> QED
  BY <1>1, <1>3, <1>6, <1>7, Zenon DEF UpdaterInv

\* Writing the first change of the queue, which is still in it, changes nothing in the outcome.
LEMMA UpdaterWrites ==
  ASSUME UpdaterInv, Updater!Write \/ Updater!WriteSet
  PROVE  UpdaterInv'
<1> DEFINE q == m_dbUpdateDataQueue
           c == Updater!FrontChange
<1>1. /\ q \in Seq(Updater!Change) /\ table \in [Key -> Updater!Hash] /\ expected \in [Key -> Updater!Hash]
      /\ count \in 0..Len(q) /\ Len(q) \in Nat /\ count > 0 /\ q # <<>> /\ c = Head(q) /\ c \in Updater!Change
  BY DEF UpdaterInv, Updater!TypeOK, Updater!Write, Updater!WriteSet, Updater!FrontChange
<1>2. UNCHANGED <<q, u_runThread, u_owner, count, expected>> /\ c' = c
  BY Zenon DEF Updater!Write, Updater!WriteSet, Updater!FrontChange
<1> HIDE DEF c, q
<1>3. c.key \in Key /\ c.fvs \in Updater!Hash /\ c.op \in {"SET", "HSET", "DEL", "unknown"} /\ table[c.key] \in Updater!Hash
  BY <1>1, EffectByKey, Zenon
<1>4. /\ table' \in [Key -> Updater!Hash] /\ \A k \in Key : k # c.key => table'[k] = table[k]
      /\ \/ c.op = "SET" /\ table'[c.key] = Updater!EmptyHash /\ worker' = "set"
         \/ c.op = "SET" /\ table'[c.key] = c.fvs /\ worker' = "pop"
         \/ c.op = "HSET" /\ table'[c.key] = Updater!HSet(table[c.key], c.fvs) /\ worker' = "pop"
         \/ c.op = "DEL" /\ table'[c.key] = Updater!EmptyHash /\ worker' = "pop"
         \/ c.op = "unknown" /\ table'[c.key] = table[c.key] /\ worker' = "pop"
  <2>1. Updater!EmptyHash \in Updater!Hash /\ Updater!HSet(table[c.key], c.fvs) \in Updater!Hash
    BY <1>3, Zenon DEF Updater!Hash, Updater!EmptyHash, Updater!HSet
  <2>2. CASE Updater!Write
    <3>1. CASE c.op = "HSET"
      BY <1>1, <1>3, <2>1, <2>2, <3>1, Zenon DEF Updater!Write, c
    <3>2. CASE c.op = "unknown"
      BY <1>1, <1>3, <2>1, <2>2, <3>2, Zenon DEF Updater!Write, c
    <3>3. CASE c.op \in {"SET", "DEL"}
      BY <1>1, <1>3, <2>1, <2>2, <3>3, Zenon DEF Updater!Write, c
    <3> QED
      BY <1>3, <3>1, <3>2, <3>3, Zenon
  <2>3. CASE Updater!WriteSet
    <3>1. c.op = "SET" /\ table[c.key] = Updater!EmptyHash
      BY <2>3, Zenon DEF UpdaterInv, Updater!WriteSet, c
    <3>2. Updater!HSet(table[c.key], c.fvs) = c.fvs
      BY <1>3, <2>1, <3>1, HSetTwice, Zenon
    <3> QED
      BY <1>1, <1>3, <2>1, <2>3, <3>1, <3>2, Zenon DEF Updater!WriteSet, c
  <2> QED
    BY <2>2, <2>3, Zenon
<1>5. Updater!Effect(table', c) = Updater!Effect(table, c)
  <2>1. /\ Updater!Effect(table', c) \in [Key -> Updater!Hash] /\ Updater!Effect(table, c) \in [Key -> Updater!Hash]
        /\ \A k \in Key : k # c.key => Updater!Effect(table', c)[k] = Updater!Effect(table, c)[k]
    BY <1>1, <1>4, EffectByKey, ZenonT(30)
  <2>2. Updater!Effect(table', c)[c.key] = Updater!Effect(table, c)[c.key]
    BY <1>1, <1>3, <1>4, EffectByKey, HSetTwice
  <2> QED
    BY <2>1, <2>2
<1>6. worker' = "pop" => Updater!Effect(table', c) = table'
  <2> SUFFICES ASSUME worker' = "pop"
               PROVE  Updater!Effect(table', c) = table'
    BY Zenon
  <2>1. Updater!Effect(table', c) \in [Key -> Updater!Hash] /\ \A k \in Key : k # c.key => Updater!Effect(table', c)[k] = table'[k]
    BY <1>1, <1>4, EffectByKey, ZenonT(30)
  <2>2. Updater!Effect(table', c)[c.key] = table'[c.key]
    BY <1>1, <1>3, <1>4, EffectByKey, HSetTwice
  <2> QED
    BY <1>4, <2>1, <2>2
<1>7. Updater!UpdatesInOrder'
  <2>1. Updater!Effects(table, q) = expected
    BY Zenon DEF UpdaterInv, Updater!UpdatesInOrder, q
  <2>2. Updater!Effects(table', q) = Updater!Effects(table, q)
    BY <1>1, <1>5, EffectsOfFirst
  <2> QED
    BY <1>2, <2>1, <2>2, Zenon DEF Updater!UpdatesInOrder, q
<1>8. Updater!TypeOK'
  BY <1>2, <1>4, Zenon DEF UpdaterInv, Updater!TypeOK, Updater!WorkerPc, q
<1> QED
  BY <1>1, <1>2, <1>4, <1>6, <1>7, <1>8, Zenon DEF UpdaterInv, c

\* The first change leaves the queue when the table has it.
LEMMA UpdaterPop ==
  ASSUME UpdaterInv, Updater!Pop
  PROVE  UpdaterInv'
<1> DEFINE q == m_dbUpdateDataQueue
<1>1. /\ worker = "pop" /\ q' = Tail(q) /\ count' = count - 1 /\ worker' = IF count' = 0 THEN "size" ELSE "write"
      /\ UNCHANGED <<u_runThread, u_owner, table, expected>>
  BY Zenon DEF Updater!Pop
<1>2. /\ q \in Seq(Updater!Change) /\ count \in 0..Len(q) /\ Len(q) \in Nat /\ count > 0 /\ q # <<>>
      /\ Updater!Effect(table, Head(q)) = table
  BY <1>1 DEF UpdaterInv, Updater!TypeOK, Updater!FrontChange
<1>3. q' \in Seq(Updater!Change) /\ Len(q') = Len(q) - 1
  BY <1>1, <1>2
<1>4. Updater!UpdatesInOrder'
  BY <1>1, <1>2, EffectsOfFirst, ZenonT(30) DEF UpdaterInv, Updater!UpdatesInOrder
<1>5. Updater!TypeOK'
  BY <1>1, <1>2, <1>3 DEF UpdaterInv, Updater!TypeOK, Updater!WorkerPc
<1> QED
  BY <1>1, <1>2, <1>4, <1>5 DEF UpdaterInv

\* Every step of the updater.
LEMMA UpdaterStep ==
  ASSUME UpdaterInv, Updater!Next
  PROVE  UpdaterInv'
<1>1. CASE \E c \in Updater!Change : Updater!Update(c)
  BY <1>1, UpdaterUpdate, Zenon
<1>2. CASE Updater!Write \/ Updater!WriteSet
  BY <1>2, UpdaterWrites, Zenon
<1>3. CASE Updater!Pop
  BY <1>3, UpdaterPop, Zenon
<1>4. CASE \/ Updater!UpdateNotify \/ Updater!Stop \/ Updater!StopNotify \/ Updater!Join
           \/ Updater!QueueSize \/ Updater!CheckRun \/ Updater!Wait \/ Updater!SpuriousWakeup
           \/ Updater!Finished
  <2>1. UNCHANGED <<m_dbUpdateDataQueue, table, expected>>
    BY <1>4, Zenon DEF Updater!UpdateNotify, Updater!Stop, Updater!StopNotify,
       Updater!Join, Updater!QueueSize, Updater!CheckRun, Updater!Wait, Updater!SpuriousWakeup, Updater!Finished,
       Updater!vars
  <2> QED
    BY <1>4, <2>1, UpdaterThreads, Zenon
<1> QED
  BY <1>1, <1>2, <1>3, <1>4, Zenon DEF Updater!Next, Updater!Owner, Updater!Worker

\* A step of another part.
LEMMA UpdaterQuiet ==
  ASSUME UpdaterInv, UNCHANGED updaterVars
  PROVE  UpdaterInv'
  BY Zenon DEF UpdaterInv, Updater!TypeOK, Updater!UpdatesInOrder, Updater!FrontChange, updaterVars
-------------------------------------------------------------------------------
\* The invariant of the three parts.
AllInv == ZmqInv /\ OrderInv /\ SyncInv /\ UpdaterInv

\* The three parts have no state in common, so each step keeps the invariants of the others.
LEMMA AllInvariant == SafeSpec => []AllInv
<1>1. AllInit => AllInv
  BY ZmqInit, OrderInit, SyncInit, UpdaterInit, Zenon DEF AllInit, AllInv
<1>2. ASSUME AllInv, [AllNext]_allVars
      PROVE  AllInv'
  <2>1. CASE ZmqPart(Next)
    BY <1>2, <2>1, ZmqStep, OrderStep, SyncQuiet, UpdaterQuiet, Zenon DEF ZmqPart, AllInv
  <2>2. ASSUME UNCHANGED vars
        PROVE  ZmqInv' /\ OrderInv'
    <3>1. UNCHANGED <<popped, m_received, Rest, pipe, m_sendbuffer, made, accepted, lost>>
      BY <2>2, Zenon DEF vars, clientVars, serverVars, appVars, Rest
    <3> QED
      BY <1>2, <2>2, <3>1, ZmqQuiet, OrderQuiet, Zenon DEF AllInv
  <2>3. CASE SyncPart(Sync!Next)
    BY <1>2, <2>2, <2>3, SyncStep, UpdaterQuiet, Zenon DEF SyncPart, AllInv
  <2>4. CASE UpdaterPart(Updater!Next)
    BY <1>2, <2>2, <2>4, SyncQuiet, UpdaterStep, Zenon DEF UpdaterPart, AllInv
  <2>5. CASE UNCHANGED allVars
    BY <1>2, <2>2, <2>5, SyncQuiet, UpdaterQuiet, Zenon DEF allVars, AllInv
  <2> QED
    BY <1>2, <2>1, <2>3, <2>4, <2>5, Zenon DEF AllNext
<1> QED
  BY <1>1, <1>2, PTL DEF SafeSpec

\* Every variable of the ZMQ tables, of the one-to-one mode and of the updater keeps its type; pops()
\* never means to take more than its queue holds (zmqconsumerstatetable.cpp, pops).
THEOREM ZmqTyped == SafeSpec => []AllTypeOK
<1>1. AllInv => AllTypeOK
  BY Zenon DEF AllInv, ZmqInv, SyncInv, UpdaterInv, AllTypeOK
<1> QED
  BY <1>1, AllInvariant, PTL

\* For any number of clients, consumers, retries and operations: what sendMsg took and nothing dropped
\* is on the way to the consumer, once and in the order of its client; a handler is called only while
\* its consumer lives; a queue that is not empty has a wakeup coming; and the updaters of both sides
\* follow the same history (zmqclient.cpp, zmqserver.cpp, zmqconsumerstatetable.cpp,
\* asyncdbupdater.cpp).
THEOREM OperationsAreInOrder == SafeSpec => []OperationsInOrder
<1>1. AllInv => OperationsInOrder
  <2> SUFFICES ASSUME AllInv
               PROVE  OperationsInOrder
    BY Zenon
  <2>1. InOrderOnce /\ UpdatersFollow
    BY OrderPromises, Followed, Zenon DEF AllInv
  <2>2. HandlerAlive /\ NoneStranded
    BY Zenon DEF AllInv, ZmqInv, HandlerInv, AppInv
  <2>3. Updater!UpdatesInOrder
    BY Zenon DEF AllInv, UpdaterInv
  <2> QED
    BY <2>1, <2>2, <2>3, Zenon DEF OperationsInOrder
<1> QED
  BY <1>1, AllInvariant, PTL

\* In the one-to-one mode a reply belongs to the request that was sent last, and the poll thread
\* does not use the socket while a reply is due, for any number of requests, timeouts and servers
\* (zmqclient.cpp wait, zmqserver.cpp mqPollThread and sendMsg).
THEOREM RepliesMatch == SafeSpec => []OneToOne
<1>1. AllInv => OneToOne
  BY SyncPromises, Zenon DEF AllInv
<1> QED
  BY <1>1, AllInvariant, PTL
===============================================================================
