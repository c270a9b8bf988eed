--------------------------- MODULE KeyOpQueueProofs ---------------------------
(***************************************************************************)
(* Proofs about KeyOpQueue for any keys, fields and batch size.            *)
(***************************************************************************)
EXTENDS KeyOpQueue, SequenceTheorems, WellFoundedInduction, TLAPS

-------------------------------------------------------------------------------
(***************************************************************************)
(* Sequences.                                                              *)
(***************************************************************************)
\* What remains of a sequence when its first n elements are gone.
LEMMA DropType ==
  ASSUME NEW S, NEW s \in Seq(S), NEW n \in 0..Len(s)
  PROVE  /\ SubSeq(s, n + 1, Len(s)) \in Seq(S)
         /\ Len(SubSeq(s, n + 1, Len(s))) = Len(s) - n
         /\ \A i \in 1..(Len(s) - n) : SubSeq(s, n + 1, Len(s))[i] = s[n + i]
<1>1. Len(s) \in Nat /\ \A i \in (n + 1)..Len(s) : s[i] \in S
  BY LenProperties, ElementOfSeq
<1>2. n + 1 \in Int /\ Len(s) \in Int
  BY <1>1
<1> QED
  BY <1>1, <1>2, SubSeqProperties

\* A batch without its first element, followed by the rest of the list, is the
\* list without its first element.
LEMMA TailAndRest ==
  ASSUME NEW S, NEW s \in Seq(S), NEW n \in 1..Len(s)
  PROVE  Tail(SubSeq(s, 1, n)) \o SubSeq(s, n + 1, Len(s)) = SubSeq(s, 2, Len(s))
<1>1. Len(s) \in Nat
  BY LenProperties, Zenon
<1>2. Tail(SubSeq(s, 1, n)) = SubSeq(s, 2, n)
  BY <1>1, HeadTailOfSubSeq
<1>3. 2 \in 1..(Len(s) + 1) /\ n \in (2 - 1)..Len(s) /\ Len(s) \in n..Len(s)
  BY <1>1
<1>4. SubSeq(s, 2, n) \o SubSeq(s, n + 1, Len(s)) = SubSeq(s, 2, Len(s))
  BY <1>3, ConcatAdjacentSubSeq, Zenon
<1> QED
  BY <1>2, <1>4, Zenon

\* Removing the first element of the first of two sequences.
LEMMA TailOfConcat ==
  ASSUME NEW S, NEW s \in Seq(S), NEW t \in Seq(S), s # <<>>
  PROVE  Tail(s) \o t = SubSeq(s \o t, 2, Len(s \o t))
<1>1. Len(s) \in Nat \ {0} /\ Len(t) \in Nat
  BY EmptySeq, LenProperties, Zenon
<1>2. /\ s \o t \in Seq(S)
      /\ Len(s \o t) = Len(s) + Len(t)
  BY ConcatProperties, Zenon
<1>3. s \o t # <<>>
  BY <1>1, <1>2, EmptySeq
<1>4. Tail(s \o t) = SubSeq(s \o t, 2, Len(s \o t))
  BY <1>2, <1>3, TailIsSubSeq, Zenon
<1>5. Tail(s) \o t = Tail(s \o t)
  <2>1. /\ Tail(s) \in Seq(S) /\ Len(Tail(s)) = Len(s) - 1
        /\ \A i \in 1..Len(Tail(s)) : Tail(s)[i] = s[i + 1]
    BY HeadTailProperties, Zenon
  <2>2. /\ Tail(s \o t) \in Seq(S) /\ Len(Tail(s \o t)) = Len(s) + Len(t) - 1
        /\ \A i \in 1..Len(Tail(s \o t)) : Tail(s \o t)[i] = (s \o t)[i + 1]
    BY <1>2, <1>3, HeadTailProperties
  <2>3. /\ Tail(s) \o t \in Seq(S) /\ Len(Tail(s) \o t) = Len(s) + Len(t) - 1
    BY <1>1, <2>1, ConcatProperties
  <2>4. ASSUME NEW i \in 1..Len(Tail(s) \o t)
        PROVE  (Tail(s) \o t)[i] = Tail(s \o t)[i]
    <3>1. (Tail(s) \o t)[i] = IF i <= Len(s) - 1 THEN Tail(s)[i] ELSE t[i - (Len(s) - 1)]
      BY <1>1, <2>1, <2>3, ConcatProperties
    <3>2. (s \o t)[i + 1] = IF i + 1 <= Len(s) THEN s[i + 1] ELSE t[i + 1 - Len(s)]
      BY <1>1, <2>3, ConcatProperties
    <3> QED
      BY <1>1, <2>1, <2>2, <2>3, <3>1, <3>2
  <2> QED
    BY <2>2, <2>3, <2>4, SeqEqual, Zenon
<1> QED
  BY <1>4, <1>5, Zenon

\* The elements of the second of two sequences.
LEMMA DropFirst ==
  ASSUME NEW S, NEW s \in Seq(S), NEW t \in Seq(S)
  PROVE  t = SubSeq(s \o t, Len(s) + 1, Len(s \o t))
<1>1. Len(s) \in Nat /\ Len(t) \in Nat /\ t \in [1..Len(t) -> S]
  BY LenProperties, Zenon
<1>2. /\ s \o t \in Seq(S)
      /\ Len(s \o t) = Len(s) + Len(t)
      /\ \A i \in 1..Len(t) : (s \o t)[Len(s) + i] = t[i]
  BY <1>1, ConcatProperties
<1>3. Len(s) \in 0..Len(s \o t)
  BY <1>1, <1>2
<1> DEFINE u == SubSeq(s \o t, Len(s) + 1, Len(s \o t))
<1>4. u \in Seq(S) /\ Len(u) = Len(t) /\ \A i \in 1..Len(t) : u[i] = t[i]
  BY <1>1, <1>2, <1>3, DropType
<1> QED
  BY <1>4, SeqEqual, Zenon
-------------------------------------------------------------------------------
(***************************************************************************)
(* Every waiting operation is announced.  A running consumer has a         *)
(* non-negative counter, and m_buffer is only used by pop() in the loop.   *)
(***************************************************************************)
Looping == consumer \in {"idle", "popping"}

QueueInv ==
  /\ queue \in Seq(Op)
  /\ m_buffer \in Seq(Op)
  /\ channel \in Nat
  /\ m_queueLength \in Int
  /\ Looping => m_queueLength \in Nat
  /\ ~Looping \/ api # "pop" => m_buffer = <<>>
  /\ OperationsAnnounced

\* What LRANGE returns is a beginning of the list, and nothing only if the list
\* is empty.
LEMMA TakenType ==
  ASSUME queue \in Seq(Op)
  PROVE  \E n \in 0..Len(queue) :
           /\ Taken = SubSeq(queue, 1, n)
           /\ Taken \in Seq(Op)
           /\ Len(Taken) = n
           /\ Len(queue) > 0 => n > 0
<1>1. Len(queue) \in Nat
  BY LenProperties, Zenon
<1> DEFINE n == Min({POP_BATCH_SIZE, Len(queue)})
<1>2. n \in {POP_BATCH_SIZE, Len(queue)} /\ n <= POP_BATCH_SIZE /\ n <= Len(queue)
  <2>1. \E x \in {POP_BATCH_SIZE, Len(queue)} : \A y \in {POP_BATCH_SIZE, Len(queue)} : x =< y
    BY <1>1, KeyOpQueueAssumption
  <2> QED
    BY <2>1, Zenon DEF Min
<1>3. n \in 0..Len(queue) /\ (Len(queue) > 0 => n > 0)
  BY <1>1, <1>2, KeyOpQueueAssumption
<1>4. Taken = SubSeq(queue, 1, n)
  BY Zenon DEF Taken
<1> HIDE DEF n
<1>5. Taken \in Seq(Op) /\ Len(Taken) = n
  <2>1. \A i \in 1..n : queue[i] \in Op
    BY <1>1, <1>3, ElementOfSeq
  <2>2. n \in Int /\ 1 \in Int
    BY <1>1, <1>3
  <2> QED
    BY <1>1, <1>3, <1>4, <2>1, <2>2, SubSeqProperties
<1> QED
  BY <1>3, <1>4, <1>5, Zenon

\* The script leaves the rest of the list.
LEMMA PopsScriptQueue ==
  ASSUME queue \in Seq(Op), PopsScript
  PROVE  \E n \in 0..Len(queue) :
           /\ Taken = SubSeq(queue, 1, n) /\ Taken \in Seq(Op) /\ Len(Taken) = n
           /\ Len(queue) > 0 => n > 0
           /\ queue' = SubSeq(queue, n + 1, Len(queue))
           /\ queue' \in Seq(Op) /\ Len(queue') = Len(queue) - n
<1>1. PICK n \in 0..Len(queue) :
        /\ Taken = SubSeq(queue, 1, n) /\ Taken \in Seq(Op) /\ Len(Taken) = n
        /\ Len(queue) > 0 => n > 0
  BY TakenType, Zenon
<1>2. queue' = SubSeq(queue, n + 1, Len(queue))
  BY <1>1, Zenon DEF PopsScript
<1>3. queue' \in Seq(Op) /\ Len(queue') = Len(queue) - n
  BY <1>2, DropType, Zenon
<1> QED
  BY <1>1, <1>2, <1>3, Zenon

\* Length of what waits.
LEMMA WaitingLength ==
  ASSUME NEW b \in Seq(Op), NEW q \in Seq(Op)
  PROVE  Len(b \o q) = Len(b) + Len(q) /\ Len(b) \in Nat /\ Len(q) \in Nat
BY ConcatProperties, LenProperties, Zenon

\* Each pop uses up one notification and takes at least one operation if there
\* is one.
LEMMA QueueStep == QueueInv /\ [Next]_vars => QueueInv'
<1> SUFFICES ASSUME QueueInv, [Next]_vars
             PROVE  QueueInv'
  BY Zenon
<1>a. Len(Waiting) = Len(m_buffer) + Len(queue) /\ Len(m_buffer) \in Nat /\ Len(queue) \in Nat
  BY WaitingLength, Zenon DEF QueueInv, Waiting
<1>b. Looping => Len(m_buffer) + Len(queue) <= Pending /\ Pending \in Nat
  BY <1>a DEF QueueInv, OperationsAnnounced, Looping, Pending
<1>c. ASSUME queue' \in Seq(Op), m_buffer' \in Seq(Op), Looping',
             Len(m_buffer') + Len(queue') <= Pending'
      PROVE  OperationsAnnounced'
  BY <1>c, WaitingLength, Zenon DEF OperationsAnnounced, Waiting
<1>1. ASSUME NEW o \in Operations, Enqueue(o)
      PROVE  QueueInv'
  <2>1. queue' \in Seq(Op) /\ Len(queue') = Len(queue) + 1
    BY <1>1, AppendProperties, Zenon DEF Enqueue, Operations, QueueInv
  <2>2. UNCHANGED <<consumer, m_queueLength, m_buffer, api>> /\ channel' \in Nat
    BY <1>1 DEF Enqueue, QueueInv
  <2>3. Looping => Pending' = Pending + 1
    BY <1>1 DEF Enqueue, Pending, Subscribed, Looping, QueueInv
  <2>4. Looping' => Len(m_buffer') + Len(queue') <= Pending'
    BY <1>a, <1>b, <2>1, <2>2, <2>3 DEF Looping
  <2>5. OperationsAnnounced'
    BY <1>c, <2>1, <2>2, <2>4, Zenon DEF QueueInv, OperationsAnnounced, Looping
  <2> QED
    BY <2>1, <2>2, <2>5, Zenon DEF QueueInv, Looping
<1>2. CASE Watch \/ Subscribe
  BY <1>2 DEF Watch, Subscribe, QueueInv, Looping, OperationsAnnounced
<1>3. CASE Exec
  <2>1. CASE watchDirty
    BY <1>3, <2>1, Zenon DEF Exec, QueueInv, Looping, OperationsAnnounced
  <2>2. CASE ~watchDirty
    <3>1. m_queueLength' = Len(queue) /\ UNCHANGED <<queue, m_buffer, api, channel>>
      BY <1>3, <1>a, <2>2 DEF Exec
    <3>2. m_buffer = <<>> /\ Len(m_buffer) = 0
      BY <1>3, Zenon DEF Exec, QueueInv, Looping
    <3>3. Looping' /\ Pending' = channel + Len(queue)
      BY <1>3, <1>a, <2>2, <3>1 DEF Exec, Looping, Pending, QueueInv
    <3>4. OperationsAnnounced'
      BY <1>a, <1>c, <3>1, <3>2, <3>3 DEF QueueInv
    <3> QED
      BY <1>a, <3>1, <3>2, <3>4 DEF QueueInv
  <2> QED
    BY <2>1, <2>2, Zenon
<1>4. CASE Select
  <2>1. UNCHANGED <<queue, m_buffer, api>> /\ Looping /\ Looping'
    BY <1>4, Zenon DEF Select, Looping
  <2>2. channel' \in Nat /\ m_queueLength' \in Nat /\ Pending' = Pending
    BY <1>4 DEF Select, Pending, QueueInv, Looping
  <2>3. OperationsAnnounced'
    BY <1>b, <1>c, <2>1, <2>2, Zenon DEF QueueInv
  <2> QED
    BY <2>1, <2>2, <2>3 DEF QueueInv
<1>5. CASE Pops
  <2>1. PICK n \in 0..Len(queue) :
          /\ Len(queue) > 0 => n > 0
          /\ queue' \in Seq(Op) /\ Len(queue') = Len(queue) - n
    BY <1>5, PopsScriptQueue, Zenon DEF Pops, QueueInv
  <2>2. Looping /\ Looping' /\ UNCHANGED <<m_buffer, api, channel, m_queueLength>>
    BY <1>5, Zenon DEF Pops, Looping
  <2>3. Pending = Pending' + 1 /\ Pending' \in Nat /\ Len(m_buffer) = 0
    BY <1>5, <2>2 DEF Pops, Pending, QueueInv
  <2>4. OperationsAnnounced'
    BY <1>a, <1>b, <1>c, <2>1, <2>2, <2>3 DEF QueueInv
  <2> QED
    BY <2>1, <2>2, <2>4, Zenon DEF QueueInv
<1>6. CASE Pop
  <2>1. Looping /\ Looping' /\ api = "pop" /\ UNCHANGED <<api, channel, m_queueLength>>
    BY <1>6, Zenon DEF Pop, Looping
  <2>2. Pending = Pending' + 1 /\ Pending' \in Nat
    BY <1>6, <2>1 DEF Pop, Pending, QueueInv
  <2>3. /\ queue' \in Seq(Op) /\ m_buffer' \in Seq(Op)
        /\ Len(m_buffer') + Len(queue') <= Pending'
    <3>1. CASE m_buffer # <<>>
      <4>1. m_buffer' \in Seq(Op) /\ Len(m_buffer') = Len(m_buffer) - 1 /\ queue' = queue
        BY <1>6, <3>1, HeadTailProperties, Zenon DEF Pop, QueueInv
      <4> QED
        BY <1>a, <1>b, <2>1, <2>2, <4>1 DEF QueueInv
    <3>2. CASE m_buffer = <<>>
      <4>1. PopsScript /\ m_buffer' = IF ScriptFails \/ Taken = <<>> THEN <<>> ELSE Tail(Taken)
        BY <1>6, <3>2, Zenon DEF Pop
      <4>2. PICK n \in 0..Len(queue) :
              /\ Taken \in Seq(Op) /\ Len(Taken) = n
              /\ Len(queue) > 0 => n > 0
              /\ queue' \in Seq(Op) /\ Len(queue') = Len(queue) - n
        BY <4>1, PopsScriptQueue, Zenon DEF QueueInv
      <4>3. CASE m_buffer' = <<>>
        BY <1>a, <1>b, <2>1, <2>2, <4>2, <4>3
      <4>4. CASE m_buffer' = Tail(Taken) /\ Taken # <<>>
        <5>1. m_buffer' \in Seq(Op) /\ Len(m_buffer') = n - 1
          BY <4>2, <4>4, HeadTailProperties, Zenon
        <5> QED
          BY <1>a, <1>b, <2>1, <2>2, <4>2, <5>1
      <4> QED
        BY <4>1, <4>3, <4>4, Zenon
    <3> QED
      BY <3>1, <3>2, Zenon
  <2>4. OperationsAnnounced'
    BY <1>c, <2>1, <2>3, Zenon
  <2> QED
    BY <2>1, <2>3, <2>4, Zenon DEF QueueInv
<1>7. CASE Exit
  BY <1>7 DEF Exit, QueueInv, Looping, OperationsAnnounced
<1>8. CASE UNCHANGED vars
  BY <1>8, Zenon DEF vars, QueueInv, Looping, OperationsAnnounced, Waiting, Pending
<1> QED
  BY <1>1, <1>2, <1>3, <1>4, <1>5, <1>6, <1>7, <1>8, Zenon DEF Next

\* The list is empty and nobody listens at the beginning.
LEMMA QueueInit == Init => QueueInv
BY DEF Init, QueueInv, Looping, OperationsAnnounced

\* Whatever is pushed during the consumer's constructor, and whatever batches it
\* takes, a running consumer has a notification for every operation that waits.
THEOREM EveryOperationAnnounced == Spec => []OperationsAnnounced
<1>1. QueueInv => OperationsAnnounced
  BY Zenon DEF QueueInv
<1> QED
  BY <1>1, QueueInit, QueueStep, PTL DEF Spec
-------------------------------------------------------------------------------
(***************************************************************************)
(* Refinement.                                                             *)
(***************************************************************************)
\* A step puts one operation at the end of what waits, takes some from its
\* front, or leaves it alone.
LEMMA FifoStep == QueueInv /\ [Next]_vars => [Abstract!Next]_Waiting
<1> SUFFICES ASSUME QueueInv, [Next]_vars, Waiting' # Waiting
             PROVE  Abstract!Next
  BY Zenon
<1>a. queue \in Seq(Op) /\ m_buffer \in Seq(Op)
  BY Zenon DEF QueueInv
<1>b. Len(Waiting) = Len(m_buffer) + Len(queue) /\ Len(m_buffer) \in Nat /\ Len(queue) \in Nat
  BY <1>a, WaitingLength, Zenon DEF Waiting
<1>c. ASSUME NEW n \in 1..Len(Waiting), Waiting' = SubSeq(Waiting, n + 1, Len(Waiting))
      PROVE  Abstract!Next
  BY <1>c, Zenon DEF Abstract!Next, Abstract!Take
<1>d. m_buffer = <<>> => Waiting = queue
  BY <1>a, ConcatEmptySeq, Zenon DEF Waiting
<1>1. ASSUME NEW o \in Operations, Enqueue(o)
      PROVE  Abstract!Next
  <2>1. o \in Op /\ queue' = Append(queue, o) /\ m_buffer' = m_buffer
    BY <1>1, Zenon DEF Enqueue, Operations
  <2>2. Append(queue, o) = queue \o <<o>> /\ <<o>> \in Seq(Op)
    BY <1>a, <2>1, AppendIsConcat
  <2>3. m_buffer \o queue \in Seq(Op)
    BY <1>a, ConcatProperties, Zenon
  <2>4. m_buffer \o (queue \o <<o>>) = (m_buffer \o queue) \o <<o>>
    BY <1>a, <2>2, ConcatAssociative
  <2>5. (m_buffer \o queue) \o <<o>> = Append(m_buffer \o queue, o)
    BY <2>1, <2>3, AppendIsConcat, Zenon
  <2>6. Waiting' = Append(Waiting, o)
    BY <2>1, <2>2, <2>4, <2>5, Zenon DEF Waiting
  <2> QED
    BY <2>1, <2>6, Zenon DEF Abstract!Next, Abstract!Put
<1>2. CASE Pops
  <2>1. m_buffer = <<>> /\ m_buffer' = <<>>
    BY <1>2, Zenon DEF Pops, QueueInv
  <2>2. PICK n \in 0..Len(queue) :
          queue' \in Seq(Op) /\ queue' = SubSeq(queue, n + 1, Len(queue))
    BY <1>2, <1>a, PopsScriptQueue, Zenon DEF Pops
  <2>3. Waiting = queue /\ Waiting' = queue'
    BY <1>d, <2>1, <2>2, ConcatEmptySeq, Zenon DEF Waiting
  <2>4. n # 0
    BY <1>a, <2>2, <2>3, SubSeqFull
  <2>5. n \in 1..Len(Waiting)
    BY <1>b, <2>3, <2>4
  <2>6. Waiting' = SubSeq(Waiting, n + 1, Len(Waiting))
    BY <2>2, <2>3, Zenon
  <2> QED
    BY <1>c, <2>5, <2>6, Zenon
<1>3. CASE Pop
  <2>1. CASE m_buffer # <<>>
    <3>1. m_buffer' = Tail(m_buffer) /\ queue' = queue
      BY <1>3, <2>1, Zenon DEF Pop
    <3>2. Waiting' = SubSeq(Waiting, 2, Len(Waiting))
      BY <1>a, <2>1, <3>1, TailOfConcat, Zenon DEF Waiting
    <3>3. Len(m_buffer) > 0
      BY <1>a, <2>1, EmptySeq
    <3> QED
      BY <1>b, <1>c, <3>2, <3>3
  <2>2. CASE m_buffer = <<>>
    <3>1. PopsScript /\ m_buffer' = IF ScriptFails \/ Taken = <<>> THEN <<>> ELSE Tail(Taken)
      BY <1>3, <2>2, Zenon DEF Pop
    <3>2. PICK n \in 0..Len(queue) :
            /\ Taken = SubSeq(queue, 1, n) /\ Taken \in Seq(Op) /\ Len(Taken) = n
            /\ queue' = SubSeq(queue, n + 1, Len(queue)) /\ queue' \in Seq(Op)
      BY <1>a, <3>1, PopsScriptQueue, Zenon
    <3>3. CASE m_buffer' = <<>>
      <4>1. Waiting = queue /\ Waiting' = queue'
        BY <1>d, <2>2, <3>2, <3>3, ConcatEmptySeq, Zenon DEF Waiting
      <4>2. n # 0
        BY <1>a, <3>2, <4>1, SubSeqFull
      <4>3. n \in 1..Len(Waiting)
        BY <1>b, <4>1, <4>2
      <4>4. Waiting' = SubSeq(Waiting, n + 1, Len(Waiting))
        BY <3>2, <4>1, Zenon
      <4> QED
        BY <1>c, <4>3, <4>4, Zenon
    <3>4. CASE m_buffer' = Tail(Taken) /\ Taken # <<>>
      <4>1. n \in 1..Len(queue)
        BY <1>b, <3>2, <3>4, EmptySeq
      <4>2. Waiting' = SubSeq(queue, 2, Len(queue))
        BY <1>a, <3>2, <3>4, <4>1, TailAndRest, Zenon DEF Waiting
      <4>3. 1 \in 1..Len(Waiting) /\ 1 + 1 = 2
        BY <1>b, <1>d, <2>2, <4>1
      <4>4. Waiting' = SubSeq(Waiting, 1 + 1, Len(Waiting))
        BY <1>d, <2>2, <4>2, <4>3, Zenon
      <4> QED
        BY <1>c, <4>3, <4>4, Zenon
    <3> QED
      BY <3>1, <3>3, <3>4, Zenon
  <2> QED
    BY <2>1, <2>2, Zenon
<1>4. CASE Exit
  <2>1. m_buffer' = <<>> /\ queue' = queue
    BY <1>4, Zenon DEF Exit
  <2>2. Waiting' = queue
    BY <1>a, <2>1, ConcatEmptySeq, Zenon DEF Waiting
  <2>3. queue = SubSeq(Waiting, Len(m_buffer) + 1, Len(Waiting))
    BY <1>a, DropFirst, Zenon DEF Waiting
  <2>4. Len(m_buffer) # 0
    BY <1>a, <1>d, <2>2, EmptySeq, Zenon
  <2> QED
    BY <1>b, <1>c, <2>2, <2>3, <2>4
<1>5. CASE UNCHANGED <<queue, m_buffer>>
  BY <1>5, Zenon DEF Waiting
<1> QED
  BY <1>1, <1>2, <1>3, <1>4, <1>5, Zenon DEF Next, Watch, Subscribe, Exec, Select, vars

\* The list, together with what pop() has put aside, is a FIFO: the consumer's
\* batches, its restarts and refused operations remove from the front only.
THEOREM QueueIsFifo == Spec => ImplementsFifo
<1>1. Init => Abstract!Init
  BY DEF Init, Abstract!Init, Waiting
<1> QED
  BY <1>1, QueueInit, QueueStep, FifoStep, PTL DEF Spec, ImplementsFifo, Abstract!Spec
-------------------------------------------------------------------------------
(***************************************************************************)
(* What the script does to the table.  Effects is a recursive function,    *)
(* and what it computes is shown by induction over the naturals, in the    *)
(* form of the least element that a set of naturals has.                   *)
(***************************************************************************)
\* A set of naturals that is not empty has a least element.
LEMMA LeastNatural ==
  ASSUME NEW T, T \subseteq Nat, T # {}
  PROVE  \E x \in T : \A y \in T : x <= y
<1>1. IsWellFoundedOn(OpToRel(<, Nat), Nat)
  BY NatLessThanWellFounded, Zenon
<1>2. PICK x \in T : \A y \in T : ~ (<<y, x>> \in OpToRel(<, Nat))
  BY <1>1, WFMin, Zenon
<1>3. ASSUME NEW y \in T, y < x
      PROVE  FALSE
  <2>1. <<y, x>> \in OpToRel(<, Nat)
    BY <1>3, Zenon DEF OpToRel
  <2> QED
    BY <1>2, <2>1, Zenon
<1> QED
  BY <1>3

\* Induction over the naturals.
LEMMA Induction ==
  ASSUME NEW S, 0 \in S, \A n \in Nat : n \in S => n + 1 \in S
  PROVE  Nat \subseteq S
<1> DEFINE T == Nat \ S
<1> SUFFICES ASSUME T # {}
             PROVE  FALSE
  BY Zenon
<1>1. PICK x \in T : \A y \in T : x <= y
  BY LeastNatural, Zenon
<1>2. x # 0 /\ x - 1 \in Nat /\ x - 1 \notin T
  BY <1>1
<1>3. (x - 1) + 1 \in S
  BY <1>2, Zenon
<1> QED
  BY <1>1, <1>3

\* The tables between the operations of a sequence.
Between(t, ops, a) ==
  /\ a = [i \in 0..Len(ops) |-> a[i]]
  /\ a[0] = t
  /\ \A i \in 1..Len(ops) : a[i] = Effect(a[i - 1], ops[i])

\* There are such tables.
LEMMA SomeBetween ==
  ASSUME NEW t, NEW ops \in Seq(Op)
  PROVE  \E a : Between(t, ops, a)
<1> DEFINE Good(n, a) == a[0] = t /\ \A i \in 1..n : a[i] = Effect(a[i - 1], ops[i])
           S == {n \in Nat : \E a : Good(n, a)}
<1>1. 0 \in S
  <2>1. Good(0, [i \in {0} |-> t])
    OBVIOUS
  <2> QED
    BY <2>1, Zenon
<1>2. ASSUME NEW n \in Nat, n \in S
      PROVE  n + 1 \in S
  <2>1. PICK a : Good(n, a)
    BY <1>2, Zenon
  <2> DEFINE b == [i \in 0..(n + 1) |-> IF i <= n THEN a[i] ELSE Effect(a[n], ops[n + 1])]
  <2>2. b[0] = t
    BY <2>1
  <2>3. ASSUME NEW i \in 1..(n + 1)
        PROVE  b[i] = Effect(b[i - 1], ops[i])
    <3>1. CASE i <= n
      <4>1. b[i] = a[i] /\ b[i - 1] = a[i - 1] /\ i \in 1..n
        BY <3>1
      <4> QED
        BY <2>1, <4>1, Zenon
    <3>2. CASE i = n + 1
      <4>1. b[i] = Effect(a[n], ops[n + 1]) /\ b[i - 1] = a[n]
        BY <3>2
      <4> QED
        BY <3>2, <4>1, Zenon
    <3> QED
      BY <3>1, <3>2
  <2>4. Good(n + 1, b)
    BY <2>2, <2>3, Zenon
  <2> HIDE DEF b
  <2>5. \E x : Good(n + 1, x)
    BY <2>4, Zenon
  <2> QED
    BY <2>5
<1> HIDE DEF S
<1>3. Nat \subseteq S
  BY <1>1, <1>2, Induction, Zenon
<1>4. Len(ops) \in S
  BY <1>3, LenProperties, Zenon
<1>5. PICK a : Good(Len(ops), a)
  BY <1>4, Zenon DEF S
<1> DEFINE b == [i \in 0..Len(ops) |-> a[i]]
<1>6. Len(ops) \in Nat
  BY LenProperties, Zenon
<1>7. b = [i \in 0..Len(ops) |-> b[i]] /\ b[0] = t
  BY <1>5, <1>6
<1>8. \A i \in 1..Len(ops) : b[i] = a[i] /\ b[i - 1] = a[i - 1]
  BY <1>6
<1>9. Between(t, ops, b)
  BY <1>5, <1>7, <1>8, Zenon DEF Between
<1> QED
  BY <1>9, Zenon

\* Effects is the last of them.
LEMMA LastOfBetween ==
  ASSUME NEW t, NEW ops \in Seq(Op), NEW a, Between(t, ops, a)
  PROVE  Effects(t, ops) = a[Len(ops)]
<1> DEFINE N == Len(ops)
           F(f) == [i \in 0..N |-> IF i = 0 THEN t ELSE Effect(f[i - 1], ops[i])]
           after == CHOOSE f : f = F(f)
<1>1. N \in Nat
  BY LenProperties, Zenon
<1>2. Effects(t, ops) = after[N]
  BY Zenon DEF Effects
<1>3. a = F(a)
  BY <1>1 DEF Between
<1>4. after = F(after)
  BY <1>3, Zenon
<1> HIDE DEF after
<1> DEFINE S == {n \in Nat : n <= N => after[n] = a[n]}
<1>5. 0 \in S
  BY <1>1, <1>3, <1>4
<1>6. ASSUME NEW n \in Nat, n \in S
      PROVE  n + 1 \in S
  <2> SUFFICES ASSUME n + 1 <= N
               PROVE  after[n + 1] = a[n + 1]
    OBVIOUS
  <2>1. n + 1 \in 0..N /\ n + 1 # 0 /\ (n + 1) - 1 = n /\ after[n] = a[n]
    BY <1>1, <1>6
  <2>2. after[n + 1] = Effect(after[n], ops[n + 1])
    BY <1>4, <2>1, Zenon
  <2>3. a[n + 1] = Effect(a[n], ops[n + 1])
    BY <1>3, <2>1, Zenon
  <2> QED
    BY <2>1, <2>2, <2>3, Zenon
<1> HIDE DEF S
<1>7. N \in S
  BY <1>1, <1>5, <1>6, Induction, Zenon
<1> QED
  BY <1>1, <1>2, <1>7 DEF S

\* The operations of two sequences, one after the other.
LEMMA EffectsOfConcat ==
  ASSUME NEW t, NEW p \in Seq(Op), NEW q \in Seq(Op)
  PROVE  Effects(t, p \o q) = Effects(Effects(t, p), q)
<1>1. /\ Len(p) \in Nat /\ Len(q) \in Nat /\ p \o q \in Seq(Op) /\ Len(p \o q) = Len(p) + Len(q)
      /\ \A i \in 1..Len(p) : (p \o q)[i] = p[i]
      /\ \A i \in 1..Len(q) : (p \o q)[Len(p) + i] = q[i]
  BY ConcatProperties, LenProperties
<1>2. PICK a : Between(t, p \o q, a)
  BY <1>1, SomeBetween, Zenon
<1> DEFINE b == [i \in 0..Len(p) |-> a[i]]
           c == [i \in 0..Len(q) |-> a[Len(p) + i]]
<1>3. Between(t, p, b)
  <2>1. b = [i \in 0..Len(p) |-> b[i]] /\ b[0] = t
    BY <1>1, <1>2 DEF Between
  <2>2. ASSUME NEW i \in 1..Len(p)
        PROVE  b[i] = Effect(b[i - 1], p[i])
    <3>1. i \in 1..Len(p \o q) /\ b[i] = a[i] /\ b[i - 1] = a[i - 1] /\ (p \o q)[i] = p[i]
      BY <1>1
    <3> QED
      BY <1>2, <3>1, Zenon DEF Between
  <2> QED
    BY <2>1, <2>2, Zenon DEF Between
<1>4. Effects(t, p) = a[Len(p)]
  BY <1>1, <1>3, LastOfBetween
<1>5. Between(a[Len(p)], q, c)
  <2>1. c = [i \in 0..Len(q) |-> c[i]] /\ c[0] = a[Len(p)]
    BY <1>1
  <2>2. ASSUME NEW i \in 1..Len(q)
        PROVE  c[i] = Effect(c[i - 1], q[i])
    <3>1. /\ Len(p) + i \in 1..Len(p \o q) /\ c[i] = a[Len(p) + i] /\ c[i - 1] = a[(Len(p) + i) - 1]
          /\ (p \o q)[Len(p) + i] = q[i]
      BY <1>1
    <3> QED
      BY <1>2, <3>1, Zenon DEF Between
  <2> QED
    BY <2>1, <2>2, Zenon DEF Between
<1>6. Effects(a[Len(p)], q) = a[Len(p) + Len(q)]
  BY <1>1, <1>5, LastOfBetween
<1>7. Effects(t, p \o q) = a[Len(p) + Len(q)]
  BY <1>1, <1>2, LastOfBetween, Zenon
<1> QED
  BY <1>4, <1>6, <1>7, Zenon

\* No operation.
LEMMA EffectsOfNone ==
  ASSUME NEW t
  PROVE  Effects(t, <<>>) = t
<1> DEFINE a == [i \in 0..0 |-> t]
<1>1. Between(t, <<>>, a) /\ <<>> \in Seq(Op) /\ Len(<<>>) = 0
  BY DEF Between
<1>2. Effects(t, <<>>) = a[0]
  BY <1>1, LastOfBetween, Zenon
<1> QED
  BY <1>2

\* One operation.
LEMMA EffectsOfOne ==
  ASSUME NEW t, NEW o \in Op
  PROVE  Effects(t, <<o>>) = Effect(t, o)
<1> DEFINE b == [i \in 0..1 |-> IF i = 0 THEN t ELSE Effect(t, o)]
<1>1. <<o>> \in Seq(Op) /\ Len(<<o>>) = 1 /\ <<o>>[1] = o
  OBVIOUS
<1>2. Between(t, <<o>>, b)
  BY <1>1 DEF Between
<1>3. Effects(t, <<o>>) = b[1]
  BY <1>1, <1>2, LastOfBetween, Zenon
<1> QED
  BY <1>3

TableInv == QueueInv /\ TableFollowsQueue

\* The script takes operations from the front of the list and applies them, all of them unless it
\* meets one that it does not know.
LEMMA PopsScriptFollows ==
  ASSUME TableInv, PopsScript, expected' = expected
  PROVE  TableFollowsQueue'
<1> SUFFICES ASSUME m_modifyRedis, ~refused'
             PROVE  Effects(table', queue') = expected
  BY Zenon DEF TableFollowsQueue
<1>1. ~refused /\ ~ScriptFails /\ queue \in Seq(Op)
  BY Zenon DEF PopsScript, TableInv, QueueInv
<1>2. Effects(table, queue) = expected
  BY <1>1, Zenon DEF TableInv, TableFollowsQueue
<1>3. PICK n \in 0..Len(queue) :
        /\ Taken = SubSeq(queue, 1, n) /\ Taken \in Seq(Op)
        /\ queue' = SubSeq(queue, n + 1, Len(queue)) /\ queue' \in Seq(Op)
  BY <1>1, PopsScriptQueue, Zenon
<1>4. table' = Effects(table, Taken)
  BY <1>1, Zenon DEF PopsScript
<1>5. Taken \o queue' = queue
  <2>1. Len(queue) \in Nat
    BY <1>1, LenProperties, Zenon
  <2>2. 1 \in 1..(Len(queue) + 1) /\ n \in (1 - 1)..Len(queue) /\ Len(queue) \in n..Len(queue)
    BY <2>1
  <2>3. SubSeq(queue, 1, n) \o SubSeq(queue, n + 1, Len(queue)) = SubSeq(queue, 1, Len(queue))
    BY <1>1, <2>2, ConcatAdjacentSubSeq, Zenon
  <2> QED
    BY <1>1, <1>3, <2>3, SubSeqFull, Zenon
<1>6. Effects(table, Taken \o queue') = Effects(Effects(table, Taken), queue')
  BY <1>3, EffectsOfConcat, Zenon
<1> QED
  BY <1>2, <1>4, <1>5, <1>6, Zenon

\* Every step keeps table and list together.
LEMMA TableStep == TableInv /\ [Next]_vars => TableInv'
<1> SUFFICES ASSUME TableInv, [Next]_vars
             PROVE  TableInv'
  BY Zenon
<1>1. QueueInv'
  BY QueueStep, Zenon DEF TableInv
<1>2. ASSUME NEW o \in Operations, Enqueue(o)
      PROVE  TableFollowsQueue'
  <2>1. /\ o \in Op /\ queue \in Seq(Op) /\ queue' = Append(queue, o) /\ expected' = Effect(expected, o)
        /\ table' = table /\ refused' = refused
    BY <1>2, Zenon DEF Enqueue, Operations, TableInv, QueueInv
  <2>2. queue' = queue \o <<o>> /\ <<o>> \in Seq(Op)
    BY <2>1, AppendIsConcat
  <2>3. Effects(table, queue \o <<o>>) = Effects(Effects(table, queue), <<o>>)
    BY <2>1, <2>2, EffectsOfConcat, Zenon
  <2>4. \A t : Effects(t, <<o>>) = Effect(t, o)
    BY <2>1, EffectsOfOne, Zenon
  <2> QED
    BY <2>1, <2>2, <2>3, <2>4, Zenon DEF TableInv, TableFollowsQueue
<1>3. ASSUME PopsScript, expected' = expected
      PROVE  TableFollowsQueue'
  BY <1>3, PopsScriptFollows, Zenon
<1>4. ASSUME UNCHANGED <<queue, table, expected, refused>>
      PROVE  TableFollowsQueue'
  BY <1>4, Zenon DEF TableInv, TableFollowsQueue
<1>5. TableFollowsQueue'
  BY <1>2, <1>3, <1>4, Zenon DEF Next, Watch, Subscribe, Exec, Select, Pops, Pop, Exit, vars
<1> QED
  BY <1>1, <1>5, Zenon DEF TableInv

\* The table with the operations of the list applied to it is what all the calls of ProducerTable
\* amount to, whatever batches consumer_table_pops.lua takes, as long as it knows the operations.
THEOREM TableIsFollowed == Spec => []TableFollowsQueue
<1>1. Init => TableInv
  <2>1. Init => TableFollowsQueue
    BY EffectsOfNone, Zenon DEF Init, TableFollowsQueue
  <2> QED
    BY <2>1, QueueInit, Zenon DEF TableInv
<1>2. TableInv => TableFollowsQueue
  BY Zenon DEF TableInv
<1> QED
  BY <1>1, <1>2, TableStep, PTL DEF Spec
===============================================================================
