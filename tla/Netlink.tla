-------------------------------- MODULE Netlink --------------------------------
(***************************************************************************)
(* Netlink messages (netlink.cpp, nfnetlink.cpp), the handlers that are    *)
(* registered for them (netdispatcher.cpp) and the cache of interface      *)
(* names (linkcache.cpp).  One thread reads the socket, others register    *)
(* handlers and ask for names, the kernel changes interfaces.              *)
(***************************************************************************)
EXTENDS Integers, Sequences, FiniteSets

CONSTANTS Index,       \* interface indices
          Name,        \* interface names
          QueueSize,   \* messages that the socket's buffer holds
          MaxChanges   \* bound: changes of the kernel and of the handlers

NoName == "none"
Number == "number"    \* ifindexToName() gives the index as a string

VARIABLES
  kernel,     \* per index: the name of the interface, NoName if there is none
  queue,      \* how many messages wait in the socket
  member,     \* registerGroup() was called
  overflow,   \* the kernel has dropped a message and not yet said so
  parsed, raw,       \* a handler is registered in m_handlers, in m_rawhandlers (of one message type)
  pc,         \* of the reading thread: "idle", "handle" (a message is taken), "raw"
  handled,    \* how the last message was handled: "no", "parsed", "raw" or "dropped"
  everParsed, alwaysParsed, alwaysRaw,   \* history of the handlers while it was
  cache,      \* m_link_cache
  asking,     \* the index ifindexToName() is asked for, or 0
  step,       \* "idle", "refill" or "again"
  answer,     \* what it gave last: a name, Number or NoName
  had,        \* history: the names the interface had since the cache was filled last
  refilled,   \* history: the last call filled the cache
  changes

linkVars == <<cache, asking, step, answer, refilled>>
msgVars == <<pc, handled, everParsed, alwaysParsed, alwaysRaw>>
vars == <<kernel, queue, member, overflow, parsed, raw, pc, handled, everParsed, alwaysParsed, alwaysRaw,
          cache, asking, step, answer, had, refilled, changes>>

\* Every variable has its type.
TypeOK ==
  /\ kernel \in [Index -> Name \cup {NoName}] /\ cache \in [Index -> Name \cup {NoName}] /\ queue \in 0..QueueSize
  /\ member \in BOOLEAN /\ overflow \in BOOLEAN /\ parsed \in BOOLEAN /\ raw \in BOOLEAN
  /\ pc \in {"idle", "handle", "raw"} /\ handled \in {"no", "parsed", "raw", "dropped"}
  /\ asking \in Index \cup {0} /\ step \in {"idle", "refill", "again"} /\ answer \in Name \cup {NoName, Number}
  /\ changes \in 0..MaxChanges

Init ==
  /\ kernel \in [Index -> Name \cup {NoName}] /\ queue = 0 /\ member = FALSE /\ overflow = FALSE
  /\ parsed = FALSE /\ raw = FALSE /\ pc = "idle" /\ handled = "no"
  /\ everParsed = FALSE /\ alwaysParsed = FALSE /\ alwaysRaw = FALSE
  /\ cache = kernel /\ asking = 0 /\ step = "idle" /\ answer = NoName
  /\ had = [i \in Index |-> {kernel[i]}] /\ refilled = FALSE /\ changes = 0

Budget == changes < MaxChanges /\ changes' = changes + 1

\* n messages arrive, as many as the buffer takes.
Arrive(n) ==
  /\ queue' = IF ~member THEN queue ELSE IF queue + n > QueueSize THEN QueueSize ELSE queue + n
  /\ overflow' = (overflow \/ (member /\ queue + n > QueueSize))

\* The kernel adds, renames or removes an interface and tells the group.
KernelChange(i, n) ==
  /\ Budget /\ kernel[i] # n
  /\ kernel' = [kernel EXCEPT ![i] = n] /\ had' = [had EXCEPT ![i] = @ \cup {n}] /\ Arrive(1)
  /\ UNCHANGED <<member, parsed, raw, msgVars, linkVars>>

registerGroup ==
  /\ ~member /\ member' = TRUE
  /\ UNCHANGED <<kernel, queue, overflow, parsed, raw, msgVars, linkVars, had, changes>>

\* One message per interface.
dumpRequest ==
  /\ member /\ Budget /\ Arrive(Cardinality({i \in Index : kernel[i] # NoName}))
  /\ UNCHANGED <<kernel, member, parsed, raw, msgVars, linkVars, had>>
-------------------------------------------------------------------------------
(***************************************************************************)
(* NetDispatcher: every call holds the mutex, the two look-ups of          *)
(* onNetlinkMessage() each for itself.                                     *)
(***************************************************************************)
\* The handlers become p and r while a message may be between its look-ups.
Handlers(p, r) ==
  /\ parsed' = p /\ raw' = r
  /\ everParsed' = (everParsed \/ p) /\ alwaysParsed' = (alwaysParsed /\ p) /\ alwaysRaw' = (alwaysRaw /\ r)
  /\ UNCHANGED <<kernel, queue, member, overflow, pc, handled, linkVars, had>>

\* The calls throw when there is a handler already, or none.
registerMessageHandler == Budget /\ ~parsed /\ Handlers(TRUE, raw)
registerRawMessageHandler == Budget /\ ~raw /\ Handlers(parsed, TRUE)
unregisterMessageHandler == Budget /\ parsed /\ Handlers(FALSE, raw)
unregisterRawMessageHandler == Budget /\ raw /\ Handlers(parsed, FALSE)

\* readData(), called by Select when the socket is readable: a message is taken, or the kernel
\* reports a loss (NLE_NOMEM).  (NLE_INTR only repeats the call; the parts of a dump are read in one
\* call, like messages that follow each other.)
readData ==
  /\ pc = "idle" /\ (queue > 0 \/ overflow)
  /\ IF overflow
     THEN overflow' = FALSE /\ UNCHANGED <<queue, msgVars>>
     ELSE /\ pc' = "handle" /\ queue' = queue - 1 /\ handled' = "no" /\ UNCHANGED overflow
          /\ everParsed' = parsed /\ alwaysParsed' = parsed /\ alwaysRaw' = raw
  /\ UNCHANGED <<kernel, member, parsed, raw, linkVars, had, changes>>

\* onNetlinkMessage(): getCallback()
onNetlinkMessage ==
  /\ pc = "handle"
  /\ IF parsed THEN handled' = "parsed" /\ pc' = "idle" ELSE pc' = "raw" /\ UNCHANGED handled
  /\ UNCHANGED <<kernel, queue, member, overflow, parsed, raw, everParsed, alwaysParsed, alwaysRaw, linkVars, had, changes>>

\* onNetlinkMessageRaw(): getRawCallback()
onNetlinkMessageRaw ==
  /\ pc = "raw"
  /\ handled' = (IF raw THEN "raw" ELSE "dropped") /\ pc' = "idle"
  /\ UNCHANGED <<kernel, queue, member, overflow, parsed, raw, everParsed, alwaysParsed, alwaysRaw, linkVars, had, changes>>
-------------------------------------------------------------------------------
(***************************************************************************)
(* LinkCache::ifindexToName(), and getLinkByName(), which is alike.        *)
(***************************************************************************)
ifindexToName(i) ==
  /\ step = "idle" /\ Budget /\ refilled' = FALSE
  /\ IF cache[i] # NoName
     THEN answer' = cache[i] /\ asking' = i /\ UNCHANGED step
     ELSE answer' = NoName /\ asking' = i /\ step' = "refill"
  /\ UNCHANGED <<kernel, queue, member, overflow, parsed, raw, msgVars, cache, had>>

\* nl_cache_refill(), whose result nobody looks at.
nl_cache_refill(ok) ==
  /\ step = "refill" /\ step' = "again"
  /\ IF ok THEN cache' = kernel /\ had' = [i \in Index |-> {kernel[i]}] ELSE UNCHANGED <<cache, had>>
  /\ refilled' = ok
  /\ UNCHANGED <<kernel, queue, member, overflow, parsed, raw, msgVars, asking, answer, changes>>

\* Mutant: the name is looked up without filling the cache.
ifindexToNameAgainEmpty ==
  /\ step = "again" /\ step' = "idle"
  /\ answer' = Number
  /\ UNCHANGED <<kernel, queue, member, overflow, parsed, raw, msgVars, cache, asking, had, refilled, changes>>

ifindexToNameAgain ==
  /\ step = "again" /\ step' = "idle"
  /\ answer' = IF cache[asking] # NoName THEN cache[asking] ELSE Number
  /\ UNCHANGED <<kernel, queue, member, overflow, parsed, raw, msgVars, cache, asking, had, refilled, changes>>

Reader == readData \/ onNetlinkMessage \/ onNetlinkMessageRaw
Asker == ifindexToNameAgain \/ \E ok \in BOOLEAN : nl_cache_refill(ok)

Next ==
  \/ \E i \in Index : ifindexToName(i) \/ \E n \in Name \cup {NoName} : KernelChange(i, n)
  \/ registerGroup \/ dumpRequest
  \/ registerMessageHandler \/ registerRawMessageHandler \/ unregisterMessageHandler \/ unregisterRawMessageHandler
  \/ Reader \/ Asker

Spec == Init /\ [][Next]_vars
FairSpec == Spec /\ WF_vars(Reader) /\ WF_vars(Asker)
-------------------------------------------------------------------------------
\* A parsed handler that is registered all the time gets the message and no raw
\* handler does; a raw handler alone gets it; it is dropped only if neither was there all the
\* time.  (A parsed handler that comes between the look-ups is passed over.)
RightHandler ==
  /\ handled = "raw" \/ handled = "dropped" => ~alwaysParsed
  /\ handled = "dropped" => ~alwaysRaw
  /\ handled = "parsed" => everParsed

\* A name is given only if the interface had it since the cache was filled last,
\* and the number only if a filled cache did not know the index, or could not be filled.
NameWasTrue ==
  step = "idle" /\ asking # 0 =>
    /\ (answer \in Name => answer \in had[asking])
    /\ (answer = Number /\ refilled => NoName \in had[asking])

\* What arrives is read to the end, also across a loss that the kernel reports.
SocketDrained == []<>(queue = 0 /\ ~overflow)
===============================================================================
