---------------------------- MODULE AsyncDBUpdater ----------------------------
(***************************************************************************)
(* AsyncDBUpdater (asyncdbupdater.cpp): update() queues a change, and a    *)
(* thread of its own writes the queued changes to the table.  The thread   *)
(* reads the queue's size under a mutex, and when it is 0 waits on a       *)
(* condition variable with a mutex that nobody else uses, so a             *)
(* notification can come between the two.  The destructor asks the thread  *)
(* to stop and joins it.  The steps are those between which the other      *)
(* thread can run.                                                         *)
(***************************************************************************)
EXTENDS Integers, Sequences, Hashes

CONSTANTS Key,
          MaxQueue,    \* bound: changes in the queue
          Destroyed    \* the owner destroys the object at some point

VARIABLES
  m_dbUpdateDataQueue,
  m_runThread,
  owner,      \* the calling thread: "run", "notify", "stop", "join" or "gone"
  worker,     \* the updater's thread: see WorkerPc
  count,      \* entries of the present round of the loop still to be written
  table,      \* the table in Redis
  expected    \* history: what the calls of update() amount to

vars == <<m_dbUpdateDataQueue, m_runThread, owner, worker, count, table, expected>>

\* "size": before queueSize(); "empty": it was 0; "wait": before the wait();
\* "waiting": in it; "write": at the front element; "set": between the del()
\* and the set() of a SET; "pop": before the pop(); "end": the thread is done.
WorkerPc == {"size", "empty", "wait", "waiting", "write", "set", "pop", "end"}

Change == [key : Key, op : {"SET", "HSET", "DEL", "unknown"}, fvs : Hash \ {EmptyHash}]

\* Types; the thread never counts more changes than the queue holds.
TypeOK ==
  /\ m_dbUpdateDataQueue \in Seq(Change)
  /\ m_runThread \in BOOLEAN
  /\ owner \in {"run", "notify", "stop", "join", "gone"}
  /\ worker \in WorkerPc
  /\ count \in 0..Len(m_dbUpdateDataQueue)
  /\ table \in [Key -> Hash]
  /\ expected \in [Key -> Hash]

Init ==
  /\ m_dbUpdateDataQueue = <<>>
  /\ m_runThread = TRUE
  /\ owner = "run"
  /\ worker = "size"
  /\ count = 0
  /\ table = [k \in Key |-> EmptyHash]
  /\ expected = table

\* What a change does to a table.
Effect(t, c) ==
  [t EXCEPT ![c.key] = CASE c.op = "SET" -> c.fvs
                         [] c.op = "HSET" -> HSet(@, c.fvs)
                         [] c.op = "DEL" -> EmptyHash
                         [] c.op = "unknown" -> @]

\* What changes do one after the other.
Effects(t, cs) ==
  LET after[i \in 0..Len(cs)] == IF i = 0 THEN t ELSE Effect(after[i - 1], cs[i])
  IN  after[Len(cs)]
-------------------------------------------------------------------------------
(***************************************************************************)
(* The owner.                                                              *)
(***************************************************************************)
\* update(): the push, under the mutex; then the notification.
Update(c) ==
  /\ owner = "run"
  /\ Len(m_dbUpdateDataQueue) < MaxQueue
  /\ m_dbUpdateDataQueue' = Append(m_dbUpdateDataQueue, c)
  /\ expected' = Effect(expected, c)
  /\ owner' = "notify"
  /\ UNCHANGED <<m_runThread, worker, count, table>>

\* notify_all() reaches the thread only if it is in wait().
NotifyAll == worker' = IF worker = "waiting" THEN "size" ELSE worker

UpdateNotify ==
  /\ owner = "notify"
  /\ NotifyAll
  /\ owner' = "run"
  /\ UNCHANGED <<m_dbUpdateDataQueue, m_runThread, count, table, expected>>

\* The destructor: m_runThread, notification, join.
Stop ==
  /\ Destroyed
  /\ owner = "run"
  /\ m_runThread' = FALSE
  /\ owner' = "stop"
  /\ UNCHANGED <<m_dbUpdateDataQueue, worker, count, table, expected>>

StopNotify ==
  /\ owner = "stop"
  /\ NotifyAll
  /\ owner' = "join"
  /\ UNCHANGED <<m_dbUpdateDataQueue, m_runThread, count, table, expected>>

Join ==
  /\ owner = "join"
  /\ worker = "end"
  /\ owner' = "gone"
  /\ UNCHANGED <<m_dbUpdateDataQueue, m_runThread, worker, count, table, expected>>
-------------------------------------------------------------------------------
(***************************************************************************)
(* The thread.                                                             *)
(***************************************************************************)
QueueSize ==
  /\ worker = "size"
  /\ count' = Len(m_dbUpdateDataQueue)
  /\ worker' = IF count' = 0 THEN "empty" ELSE "write"
  /\ UNCHANGED <<m_dbUpdateDataQueue, m_runThread, owner, table, expected>>

\* "Check if there still data in queue before exit": m_runThread is read after
\* the size.
CheckRun ==
  /\ worker = "empty"
  /\ worker' = IF m_runThread THEN "wait" ELSE "end"
  /\ UNCHANGED <<m_dbUpdateDataQueue, m_runThread, owner, count, table, expected>>

Wait ==
  /\ worker = "wait"
  /\ worker' = "waiting"
  /\ UNCHANGED <<m_dbUpdateDataQueue, m_runThread, owner, count, table, expected>>

\* wait() may return without a notification, but need not.
SpuriousWakeup ==
  /\ worker = "waiting"
  /\ worker' = "size"
  /\ UNCHANGED <<m_dbUpdateDataQueue, m_runThread, owner, count, table, expected>>

FrontChange == Head(m_dbUpdateDataQueue)

\* SET deletes the entry first: "Table::set() does not remove the no longer
\* existed fields"; HSET merges; DEL deletes; another
\* operation is logged and dropped.
Write ==
  /\ worker = "write"
  /\ worker' = IF FrontChange.op = "SET" THEN "set" ELSE "pop"
  /\ table' = [table EXCEPT ![FrontChange.key] = CASE FrontChange.op = "HSET" -> HSet(@, FrontChange.fvs)
                                                   [] FrontChange.op = "unknown" -> @
                                                   [] FrontChange.op \in {"SET", "DEL"} -> EmptyHash]
  /\ UNCHANGED <<m_dbUpdateDataQueue, m_runThread, owner, count, expected>>

WriteSet ==
  /\ worker = "set"
  /\ worker' = "pop"
  /\ table' = [table EXCEPT ![FrontChange.key] = HSet(@, FrontChange.fvs)]
  /\ UNCHANGED <<m_dbUpdateDataQueue, m_runThread, owner, count, expected>>

\* Mutant: count is not decremented against the queue (one round too many).
PopTooOften ==
  /\ worker = "pop"
  /\ m_dbUpdateDataQueue' = Tail(m_dbUpdateDataQueue)
  /\ count' = count
  /\ worker' = IF m_dbUpdateDataQueue' = <<>> THEN "size" ELSE "write"
  /\ UNCHANGED <<m_runThread, owner, table, expected>>

Pop ==
  /\ worker = "pop"
  /\ m_dbUpdateDataQueue' = Tail(m_dbUpdateDataQueue)
  /\ count' = count - 1
  /\ worker' = IF count' = 0 THEN "size" ELSE "write"
  /\ UNCHANGED <<m_runThread, owner, table, expected>>
-------------------------------------------------------------------------------
Owner == (\E c \in Change : Update(c)) \/ UpdateNotify \/ Stop \/ StopNotify \/ Join

Worker == QueueSize \/ CheckRun \/ Wait \/ Write \/ WriteSet \/ Pop

\* The owner is gone and the thread has ended.
Finished == owner = "gone" /\ UNCHANGED vars

Next == Owner \/ Worker \/ SpuriousWakeup \/ Finished

Spec == Init /\ [][Next]_vars

\* The operating system runs both threads; nothing makes a spurious wakeup happen.
FairSpec == /\ Spec
            /\ WF_vars(Worker)
            /\ WF_vars(UpdateNotify) /\ WF_vars(StopNotify) /\ WF_vars(Join)
-------------------------------------------------------------------------------
\* The table and the queued changes, applied in order, are what the calls of
\* update() amount to, also in the middle of the del() and set() of a SET and
\* between a write and the pop() of its element.
UpdatesInOrder == Effects(table, m_dbUpdateDataQueue) = expected

\* "Check if there still data in queue before exit": when the thread has ended,
\* every change that was queued has been written.
NothingLeftAtExit == worker = "end" => m_dbUpdateDataQueue = <<>>

\* A change queued while the thread is in wait() is taken up: the notification that
\* follows the push gets the thread to write.
WaitingThreadWrites ==
  (worker = "waiting" /\ owner = "notify" /\ m_dbUpdateDataQueue # <<>>) ~> (worker = "pop")

\* "wait notification, when data come, continue to check queue size again": a
\* change that was queued is written, even if no other change follows it.
EveryUpdateWritten ==
  []<><<\E c \in Change : Update(c)>>_vars \/ <>[](m_dbUpdateDataQueue = <<>>)
===============================================================================
