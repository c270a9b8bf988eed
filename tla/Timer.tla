--------------------------------- MODULE Timer ---------------------------------
(***************************************************************************)
(* SelectableTimer (selectabletimer.cpp): a timerfd that one thread sets   *)
(* and a thread in Select reads.                                           *)
(***************************************************************************)
EXTENDS Integers

CONSTANTS Interval,    \* intervals, 0 and Invalid among them
          Invalid,     \* one that timerfd_settime() refuses
          MaxCalls     \* bound: calls, and expirations that are counted

VARIABLES
  m_interval, m_running, m_mutex,
  armed,       \* the timer of the kernel: its interval, 0 if it is disarmed
  expired,     \* expirations since the last read
  pc,          \* of the calling thread: "idle", "start", "stop" or "reset"
  reader,      \* of the thread in Select: "idle", or "read" in readData()
  reported,    \* expirations that readData() has reported
  missed,      \* expirations that a stop() has discarded
  fired,       \* expirations
  refused,     \* timerfd_settime() has refused an interval
  calls

vars == <<m_interval, m_running, m_mutex, armed, expired, pc, reader, reported, missed, fired, refused, calls>>

\* Every variable has its type.
TypeOK ==
  /\ m_interval \in Interval /\ m_running \in BOOLEAN /\ m_mutex \in BOOLEAN /\ armed \in Interval \ {Invalid}
  /\ expired \in 0..MaxCalls /\ pc \in {"idle", "start", "stop", "reset"} /\ reader \in {"idle", "read"}
  /\ reported \in 0..MaxCalls /\ missed \in 0..MaxCalls /\ fired \in 0..MaxCalls /\ calls \in 0..MaxCalls

Init ==
  /\ m_interval \in Interval /\ m_running = FALSE /\ m_mutex = FALSE /\ armed = 0 /\ expired = 0
  /\ pc = "idle" /\ reader = "idle" /\ reported = 0 /\ missed = 0 /\ fired = 0 /\ refused = FALSE /\ calls = 0

Budget == calls < MaxCalls /\ calls' = calls + 1

call(o) ==
  /\ pc = "idle" /\ Budget /\ pc' = o
  /\ UNCHANGED <<m_interval, m_running, m_mutex, armed, expired, reader, reported, missed, fired, refused>>

\* setInterval(): the next start() uses it.
setInterval(i) ==
  /\ pc = "idle" /\ Budget /\ m_interval' = i
  /\ UNCHANGED <<m_running, m_mutex, armed, expired, pc, reader, reported, missed, fired, refused>>

\* start(): an exception leaves the mutex locked. Arming clears the expirations.
start ==
  /\ pc = "start" /\ ~m_mutex
  /\ pc' = "idle"
  /\ refused' = (refused \/ (~m_running /\ m_interval = Invalid))
  /\ CASE m_running -> UNCHANGED <<m_running, m_mutex, armed, expired, missed>>
       [] ~m_running /\ m_interval = Invalid -> m_mutex' = TRUE /\ UNCHANGED <<m_running, armed, expired, missed>>
       [] OTHER -> /\ m_running' = TRUE /\ armed' = m_interval /\ UNCHANGED m_mutex
                   /\ missed' = missed + expired /\ expired' = 0
  /\ UNCHANGED <<m_interval, reader, reported, fired, calls>>

\* stop(), which reset() calls first.
stop ==
  /\ pc \in {"stop", "reset"} /\ ~m_mutex
  /\ pc' = IF pc = "reset" THEN "start" ELSE "idle"
  /\ IF m_running
     THEN m_running' = FALSE /\ armed' = 0 /\ missed' = missed + expired /\ expired' = 0
     ELSE UNCHANGED <<m_running, armed, missed, expired>>
  /\ UNCHANGED <<m_interval, m_mutex, reader, reported, fired, refused, calls>>

\* The interval passes; a timer of interval 0 is disarmed.
Expire ==
  /\ armed # 0 /\ fired < MaxCalls
  /\ expired' = expired + 1 /\ fired' = fired + 1
  /\ UNCHANGED <<m_interval, m_running, m_mutex, armed, pc, reader, reported, missed, refused, calls>>

\* epoll_wait() says that the timer is readable, readData() is called,
Readable ==
  /\ reader = "idle" /\ expired > 0
  /\ reader' = "read"
  /\ UNCHANGED <<m_interval, m_running, m_mutex, armed, expired, pc, reported, missed, fired, refused, calls>>

\* and reads the number of expirations; the descriptor blocks when there is none.
readData ==
  /\ reader = "read" /\ expired > 0
  /\ reader' = "idle" /\ reported' = reported + expired /\ expired' = 0
  /\ UNCHANGED <<m_interval, m_running, m_mutex, armed, pc, missed, fired, refused, calls>>

Next == \/ \E o \in {"start", "stop", "reset"} : call(o)
        \/ \E i \in Interval : setInterval(i)
        \/ start \/ stop \/ Expire \/ Readable \/ readData

Spec == Init /\ [][Next]_vars
FairSpec == Spec /\ WF_vars(start) /\ WF_vars(stop) /\ WF_vars(Expire) /\ WF_vars(Readable) /\ WF_vars(readData)
-------------------------------------------------------------------------------
\* m_running says whether the kernel's timer is set, and a reader counts every
\* expiration but those of before a stop().
CountsTicks == /\ reported + missed + expired = fired
               /\ ~m_running => armed = 0 /\ expired = 0

\* start(), stop() and reset() return, until an interval is refused: the
\* exception of start() leaves the mutex locked, and the next call waits for ever.
TimerCallsReturn == pc # "idle" ~> pc = "idle" \/ refused

\* An expiration is reported, or discarded by a stop(), however the calls of
\* another thread fall between the wake-up of Select and readData().
TicksReported == expired > 0 ~> expired = 0
===============================================================================
