------------------------------- MODULE MCSelect -------------------------------
(***************************************************************************)
(* Instances of Select and of Notifications, with a consumer of each       *)
(* policy, for TLC.  They have no state in common: "part" says which one   *)
(* moves in a behaviour.                                                   *)
(***************************************************************************)
EXTENDS Select, TLC

CONSTANTS s1, s2, s3, c1, c2, Quoted, Malformed, POP_BATCH_SIZE, MaxSent, MaxFailures

VARIABLES part, pipe, sent, phase, m_subscribe, socket, m_queue, m_idx, m_op_allowlist, stats, vkco, failures,
          arrived, popped

\* One object of each kind; the consumer table has the lowest priority, and two
\* compete for the highest.
Kinds == (s1 :> "counter") @@ (s2 :> "buffer") @@ (s3 :> "plain")
Priorities == (s1 :> 0) @@ (s2 :> 100) @@ (s3 :> 100)

\* Two operations, one of them with data that differ, and one that needs an escape; and a message
\* of another publisher without an operation.
Messages == {[op |-> "a", data |-> 1], [op |-> "a", data |-> 2], [op |-> "q", data |-> 1], [op |-> "", data |-> 1]}

Lru == INSTANCE Notifications WITH Consumer <- {c1}, Policy <- (c1 :> "LruDedup"), Message <- Messages,
                                   AllowLists <- {{"a"}}
Fifo == INSTANCE Notifications WITH Consumer <- {c2}, Policy <- (c2 :> "Fifo"), Message <- Messages,
                                    AllowLists <- {{"a"}}

selectVars == <<m_objects, m_ready, lastUsed, unread, cached, broken, result>>
noteVars == <<pipe, sent, phase, m_subscribe, socket, m_queue, m_idx, m_op_allowlist, stats, vkco, failures,
              arrived, popped>>
allVars == <<part, selectVars, noteVars>>

AllInit ==
  /\ Init
  /\ \/ part \in {"select", "lru"} /\ Lru!Init
     \/ part = "fifo" /\ Fifo!Init
  /\ part # "select" => lastUsed = (s1 :> 1) @@ (s2 :> 2) @@ (s3 :> 3) /\ cached[s1] = 0

SelectPart(A) == part = "select" /\ A /\ UNCHANGED <<part, noteVars>>
LruPart(A) == part = "lru" /\ A /\ UNCHANGED <<part, selectVars>>
FifoPart(A) == part = "fifo" /\ A /\ UNCHANGED <<part, selectVars>>

AllNext == SelectPart(Next) \/ LruPart(Lru!Next) \/ FifoPart(Fifo!Next)

\* The application keeps calling select(), or the consumer of notifications.
AllSpec ==
  /\ AllInit /\ [][AllNext]_allVars
  /\ WF_allVars(SelectPart(Loop))
  /\ WF_allVars(LruPart(Lru!Work(c1))) /\ WF_allVars(FifoPart(Fifo!Work(c2)))

\* Every variable of the parts has its type.
AllTypeOK == TypeOK /\ IF part = "fifo" THEN Fifo!TypeOK ELSE Lru!TypeOK

\* Notifications: a Fifo consumer gets what it admits, once and in order; an LruDedup queue is
\* ordered by last-seen time and loses nothing; the counters of either add up.
QueueAsPromised ==
  /\ part = "fifo" => Fifo!FifoOrder /\ Fifo!CountersAddUp
  /\ part = "lru" => Lru!LruIsLastSeen /\ Lru!CountersAddUp

\* Select serves equals in turn; consumers of notifications get subscribed and read what is there,
\* and pops() returns with an empty queue.
EventuallyServed ==
  /\ NoStarvation
  /\ []<>(part = "select" \/ IF part = "fifo" THEN Fifo!AllRead ELSE Lru!AllRead)
  /\ [][IF part = "fifo" THEN Fifo!PopsEmpties ELSE Lru!PopsEmpties]_allVars
===============================================================================
