----------------------------- MODULE RestartWaiter -----------------------------
(***************************************************************************)
(* RestartWaiter over RedisTableWaiter (restart_waiter.cpp,                *)
(* redis_table_waiter.cpp): an application waits for the end of a warm or  *)
(* fast reboot, that is for the knob WARM_RESTART_ENABLE_TABLE|system of   *)
(* STATE_DB, which it follows with a SubscriberStateTable.  Others wait    *)
(* until a key of the table is set or deleted.                             *)
(***************************************************************************)
EXTENDS Integers, Sequences

CONSTANT MaxChanges   \* bound: changes of the knobs

None == "none"
Knob == {None, "true", "false"}
Boot == {"advanced", "warm", "fast"}

VARIABLES
  system,         \* the knob of the system
  fast,           \* FAST_RESTART_ENABLE_TABLE|system
  changes,
  waiter,         \* "idle", "fast", "advanced", "hget", "exists", "subscribe", "wait", "done"
  kind,           \* which call: for the end of a kind of boot, for a "set" or a "del" of the key
  events,         \* m_keyspace_event_buffer, and what is on the way to it
  buffer,         \* m_buffer: the value of a SET, or "DEL"
  expired,        \* maxWaitSec is over
  result,         \* what the waiter returned
  over            \* since the call, there was a time without the reboot it waits for, with the key, or without it

dbVars == <<system, fast, changes>>
vars == <<system, fast, changes, waiter, kind, events, buffer, expired, result, over>>

\* Every variable has its type.
TypeOK ==
  /\ system \in Knob /\ fast \in Knob /\ changes \in 0..MaxChanges
  /\ waiter \in {"idle", "fast", "advanced", "hget", "exists", "subscribe", "wait", "done"}
  /\ kind \in Boot \cup {"set", "del"}
  /\ events \in Seq({"SET", "DEL"}) /\ buffer \in Seq(Knob \cup {"DEL"}) /\ expired \in BOOLEAN /\ result \in BOOLEAN /\ over \in BOOLEAN

Init ==
  /\ system \in Knob /\ fast \in Knob /\ changes = 0
  /\ waiter = "idle" /\ kind = "warm" /\ events = <<>> /\ buffer = <<>> /\ expired = FALSE
  /\ result = FALSE /\ over = FALSE
-------------------------------------------------------------------------------
Change == changes < MaxChanges /\ changes' = changes + 1

\* No reboot of the kind that a call of kind k waits for; the key is there, or it is gone.
Over(k, sys, fst) ==
  CASE k = "set" -> sys # None
    [] k = "del" -> sys = None
    [] OTHER -> sys # "true" \/ (k = "warm" /\ fst = "true") \/ (k = "fast" /\ fst # "true")

\* The scripts that reboot the system.  An event goes to a waiter that is subscribed.
SetSystem(v) ==
  /\ Change /\ v \in Knob \ {system}
  /\ system' = v
  /\ events' = IF waiter = "wait" THEN Append(events, IF v = None THEN "DEL" ELSE "SET") ELSE events
  /\ over' = (over \/ Over(kind, v, fast))
  /\ UNCHANGED <<fast, waiter, kind, buffer, expired, result>>

SetFast(v) ==
  /\ Change /\ v \in Knob \ {fast}
  /\ fast' = v
  /\ over' = (over \/ Over(kind, system, v))
  /\ UNCHANGED <<system, waiter, kind, events, buffer, expired, result>>
-------------------------------------------------------------------------------
(***************************************************************************)
(* The waiter.                                                             *)
(***************************************************************************)
Returns(b) == waiter' = "done" /\ result' = b

Call(k, first) ==
  /\ waiter \in {"idle", "done"}
  /\ kind' = k /\ waiter' = first
  /\ events' = <<>> /\ buffer' = <<>> /\ expired' = FALSE /\ result' = FALSE
  /\ over' = Over(k, system, fast)
  /\ UNCHANGED dbVars

\* waitAdvancedBootDone(), waitWarmBootDone() and waitFastBootDone().
waitBootDone(k) == Call(k, IF k = "advanced" THEN "advanced" ELSE "fast")

\* waitWarmBootDone() does not wait for a fast boot, and waitFastBootDone() only for one.
isFastBootInProgress ==
  /\ waiter = "fast"
  /\ IF (fast = "true") = (kind = "warm") THEN Returns(TRUE) ELSE waiter' = "advanced" /\ UNCHANGED result
  /\ UNCHANGED <<dbVars, kind, events, buffer, expired, over>>

isAdvancedBootInProgress ==
  /\ waiter = "advanced"
  /\ IF system = "true" THEN waiter' = "hget" /\ UNCHANGED result ELSE Returns(TRUE)
  /\ UNCHANGED <<dbVars, kind, events, buffer, expired, over>>

\* doWait(): waitUntilFieldSet() looks at the field first.
waitUntilFieldSet ==
  /\ waiter = "hget"
  /\ IF system = "false" THEN Returns(TRUE) ELSE waiter' = "subscribe" /\ UNCHANGED result
  /\ UNCHANGED <<dbVars, kind, events, buffer, expired, over>>

\* waitUntilKeySet() looks for the key first.
waitUntilKeySet ==
  /\ waiter = "exists" /\ kind = "set"
  /\ IF system # None THEN Returns(TRUE) ELSE waiter' = "subscribe" /\ UNCHANGED result
  /\ UNCHANGED <<dbVars, kind, events, buffer, expired, over>>

\* And so does waitUntilKeyDel().
waitUntilKeyDel ==
  /\ waiter = "exists" /\ kind = "del"
  /\ IF system = None THEN Returns(TRUE) ELSE waiter' = "subscribe" /\ UNCHANGED result
  /\ UNCHANGED <<dbVars, kind, events, buffer, expired, over>>

\* waitUntil() constructs a SubscriberStateTable, which hands out what is there as well.
subscribe ==
  /\ waiter = "subscribe"
  /\ waiter' = "wait" /\ buffer' = IF system # None THEN <<system>> ELSE <<>>
  /\ UNCHANGED <<dbVars, kind, events, expired, result, over>>

\* checkFunc of a call of kind k.
checkFunc(k, kco) ==
  CASE k = "set" -> kco \notin {None, "DEL"}
    [] k = "del" -> kco = "DEL"
    [] OTHER -> kco = "false"

\* pops(): the events as entries, a SET with the value of now; it is outdated if there is none.
Popped ==
  IF buffer # <<>> THEN buffer
  ELSE SelectSeq([i \in DOMAIN events |-> IF events[i] = "DEL" THEN "DEL" ELSE system], LAMBDA kco : kco # None)

\* A pop() and the check of its entry, if there is one; the time is looked at after it.
waitUntil ==
  /\ waiter = "wait" /\ (events # <<>> \/ buffer # <<>>)
  /\ buffer' = IF Popped = <<>> THEN <<>> ELSE Tail(Popped)
  /\ events' = IF buffer # <<>> THEN events ELSE <<>>
  /\ IF Popped # <<>> /\ checkFunc(kind, Head(Popped)) THEN Returns(TRUE)
     ELSE IF expired THEN Returns(FALSE) ELSE UNCHANGED <<waiter, result>>
  /\ UNCHANGED <<dbVars, kind, expired, over>>

\* The time is over.
Expire ==
  /\ waiter = "wait" /\ ~expired
  /\ expired' = TRUE
  /\ UNCHANGED <<dbVars, waiter, kind, events, buffer, result, over>>

\* select() comes back without an object: the time is over, or a signal has come.
waitUntilTimeout ==
  /\ waiter = "wait" /\ events = <<>> /\ buffer = <<>> /\ expired
  /\ Returns(FALSE)
  /\ UNCHANGED <<dbVars, kind, events, buffer, expired, over>>
-------------------------------------------------------------------------------
WaiterStep == \/ isFastBootInProgress \/ isAdvancedBootInProgress \/ waitUntilFieldSet
              \/ waitUntilKeySet \/ waitUntilKeyDel \/ subscribe
              \/ waitUntil \/ waitUntilTimeout

Next ==
  \/ \E v \in Knob : SetSystem(v) \/ SetFast(v)
  \/ Expire \/ WaiterStep
  \/ \E k \in Boot : waitBootDone(k)
  \/ \E k \in {"set", "del"} : Call(k, "exists")

Spec == Init /\ [][Next]_vars
FairSpec == Spec /\ WF_vars(WaiterStep)
-------------------------------------------------------------------------------
\* A waiter returns TRUE only if, at some time since it was called, there was
\* no reboot of its kind going on, the key was there, or it was gone.
TrueMeansOver == waiter = "done" /\ result => over

\* The end of the reboot, or the key, wakes the waiter, and not only its time
\* limit.  It is not so for the removal of a key: a DEL between EXISTS and the
\* subscription is not seen.
WakesUp ==
  LET waits == waiter \in {"subscribe", "wait"} /\ ((kind = "set" /\ system # None) \/ (kind \in Boot /\ system = "false"))
  IN waits ~> ~waits
================================================================================
