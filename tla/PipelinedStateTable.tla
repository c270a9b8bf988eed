------------------------- MODULE PipelinedStateTable -------------------------
(***************************************************************************)
(* A ProducerStateTable on a RedisPipeline (redispipeline.h): calls append *)
(* commands to hiredis' output buffer, and flush() writes the buffer,      *)
(* reads one reply per command and, if a channel was added to the          *)
(* pipeline, publishes once at the end.  A buffered table flushes when     *)
(* COMMAND_MAX commands wait or when the application says so; with         *)
(* m_flushPub its scripts leave the publishing to the pipeline.  Redis     *)
(* executes the commands one by one, so the consumer of StateTable, which  *)
(* has its own connection, runs between them.                              *)
(***************************************************************************)
EXTENDS StateTable, Sequences

CONSTANTS COMMAND_MAX,
          FlushPubErrors  \* a producer with m_flushPub may also meet error replies

VARIABLES
  m_flushPub,  \* a parameter of the producer's constructor
  m_buffered,
  luaPub,      \* the loaded scripts publish
  m_channels,  \* the pipeline knows the channel of the table
  pubChannel,  \* it has a script to publish on it (m_shaPub is not empty)
  reload,      \* "no", or what setBuffered() loads after the flush: "channel" or "scripts"
  obuf,        \* commands appended, not written to the socket
  wire,        \* commands written, not executed
  replies,     \* replies not read
  flush,       \* "no", "replies" (in the loop of flush()) or "publish"
  cutShort     \* history: a producer stopped before the publish of a flush

setupVars == <<m_flushPub, m_buffered, luaPub, m_channels, pubChannel, reload>>
pipeVars == <<setupVars, obuf, wire, replies, flush, cutShort>>
allVars == <<vars, pipeVars>>

Command == [op : {"set", "del", "clear"}, keys : SUBSET Key, fvs : Hash, pub : BOOLEAN]

m_remaining == Len(obuf) + Len(wire) + Len(replies)

PipeTypeOK ==
  /\ TypeOK
  /\ {m_flushPub, m_buffered, luaPub, m_channels, pubChannel, cutShort} \subseteq BOOLEAN
  /\ reload \in {"no", "channel", "scripts"}
  /\ obuf \in Seq(Command) /\ wire \in Seq(Command) /\ replies \in Seq({"ok", "error"})
  /\ flush \in {"no", "replies", "publish"}
  /\ m_remaining <= COMMAND_MAX

\* The constructor; reloadRedisScript() adds the channel if both flags are set, and attaches
\* luaPub to the scripts otherwise.
PipeInit ==
  /\ Init
  /\ m_flushPub \in BOOLEAN
  /\ m_buffered \in BOOLEAN
  /\ pubChannel = (m_buffered /\ m_flushPub) /\ m_channels = pubChannel /\ luaPub = ~pubChannel
  /\ reload = "no"
  /\ obuf = <<>> /\ wire = <<>> /\ replies = <<>>
  /\ flush = "no"
  /\ cutShort = FALSE
-------------------------------------------------------------------------------
(***************************************************************************)
(* The producer.                                                           *)
(***************************************************************************)
\* Mutant: mayflush() compares with > instead of >=.
PushLate(c, now) ==
  /\ flush = "no" /\ reload = "no"
  /\ obuf' = Append(obuf, c)
  /\ flush' = IF now \/ m_remaining + 1 > COMMAND_MAX THEN "replies" ELSE "no"
  /\ UNCHANGED <<vars, setupVars, wire, replies, cutShort>>

\* push() of a command without an interesting reply, followed by flush() if now.
Push(c, now) ==
  /\ flush = "no" /\ reload = "no"
  /\ obuf' = Append(obuf, c)
  /\ flush' = IF now \/ m_remaining + 1 >= COMMAND_MAX THEN "replies" ELSE "no"
  /\ UNCHANGED <<vars, setupVars, wire, replies, cutShort>>

PipeSet(S) ==
  \E u \in Update : Push([op |-> "set", keys |-> S, fvs |-> u, pub |-> luaPub],
                         ~m_buffered)

PipeDel(S) ==
  Push([op |-> "del", keys |-> S, fvs |-> EmptyHash, pub |-> luaPub], ~m_buffered)

PipeClear ==
  Push([op |-> "clear", keys |-> {}, fvs |-> EmptyHash, pub |-> FALSE], TRUE)

\* flush() does nothing when no reply is missing.
Flush ==
  /\ flush = "no" /\ reload = "no"
  /\ m_remaining > 0
  /\ flush' = "replies"
  /\ UNCHANGED <<vars, setupVars, obuf, wire, replies, cutShort>>

\* reloadRedisScript(): luaPub is attached unless both flags are set, and the pipeline gets a script
\* to publish with for a channel that is new to it.  What it has got it keeps.
Load(what) ==
  /\ pubChannel' = (pubChannel \/ what = "channel")
  /\ luaPub' = (~m_flushPub \/ ~m_buffered')
  /\ reload' = "no"

\* Loading the first script flushes the pipeline before anything else.
LoadAfterFlush(what) ==
  IF m_remaining > 0
  THEN flush' = "replies" /\ reload' = what /\ UNCHANGED <<pubChannel, luaPub>>
  ELSE Load(what) /\ UNCHANGED flush

\* Mutant: the scripts change, the pipeline is not told of the channel.
SetBufferedNoChannel(b) ==
  /\ flush = "no" /\ reload = "no"
  /\ m_buffered' = b
  /\ LoadAfterFlush("scripts")
  /\ UNCHANGED <<vars, m_flushPub, m_channels, obuf, wire, replies, cutShort>>

\* setBuffered(): the flag is set and a new channel noted before the flush, in which an error reply
\* may end setBuffered().
SetBuffered(b) ==
  /\ flush = "no" /\ reload = "no"
  /\ m_buffered' = b
  /\ m_channels' = (m_channels \/ (b /\ m_flushPub))
  /\ LoadAfterFlush(IF m_channels' = m_channels THEN "scripts" ELSE "channel")
  /\ UNCHANGED <<vars, m_flushPub, obuf, wire, replies, cutShort>>

\* The flush of setBuffered() has ended well.
Reload ==
  /\ flush = "no" /\ reload # "no"
  /\ UNCHANGED <<vars, m_flushPub, m_buffered, m_channels, obuf, wire, replies, flush, cutShort>>
  /\ Load(reload)

\* redisGetReply() without a complete reply at hand writes the output buffer.
WriteOut ==
  /\ flush = "replies"
  /\ obuf # <<>>
  /\ wire' = wire \o obuf
  /\ obuf' = <<>>
  /\ UNCHANGED <<vars, setupVars, replies, flush, cutShort>>

\* pop(): after the last reply flush() goes on to publish(); a reply of the wrong
\* type makes checkReplyType() throw, out of pop(), flush() and the call.
PopReply ==
  /\ flush = "replies"
  /\ replies # <<>>
  /\ replies' = Tail(replies)
  /\ flush' = IF Head(replies) = "error" THEN "no"
              ELSE IF m_remaining = 1 THEN "publish" ELSE "replies"
  /\ reload' = IF Head(replies) = "error" THEN "no" ELSE reload
  /\ UNCHANGED <<vars, m_flushPub, m_buffered, luaPub, m_channels, pubChannel, obuf, wire, cutShort>>

\* publish()
PublishOnce ==
  /\ flush = "publish"
  /\ Room
  /\ Publish(pubChannel)
  /\ flush' = "no"
  /\ UNCHANGED <<redisVars, watchDirty, consumerVars, expected>>
  /\ UNCHANGED <<setupVars, obuf, wire, replies, cutShort>>

\* The process stops; Redis drops what it had not executed, and a new process
\* starts with the constructor.
ProducerExit ==
  /\ cutShort' = (cutShort \/ (pubChannel /\ (m_remaining > 0 \/ flush = "publish")))
  /\ m_buffered' \in BOOLEAN
  /\ pubChannel' = (m_buffered' /\ m_flushPub) /\ m_channels' = pubChannel' /\ luaPub' = ~pubChannel'
  /\ reload' = "no"
  /\ obuf' = <<>> /\ wire' = <<>> /\ replies' = <<>>
  /\ flush' = "no"
  /\ UNCHANGED <<vars, m_flushPub>>
-------------------------------------------------------------------------------
(***************************************************************************)
(* Redis executes the producer's commands in order.                        *)
(***************************************************************************)
Script(c) ==
  \/ c.op = "set" /\ SetScript([k \in c.keys |-> c.fvs], c.pub)
  \/ c.op = "del" /\ DelScript(c.keys, c.pub)
  \/ c.op = "clear" /\ ClearScript

Execute ==
  /\ wire # <<>>
  /\ Room
  /\ Script(Head(wire))
  /\ wire' = Tail(wire)
  /\ replies' = Append(replies, "ok")
  /\ UNCHANGED <<consumerVars, setupVars, obuf, flush, cutShort>>

\* The script is refused (out of memory, script not loaded) and changes nothing.
Refuse ==
  /\ m_flushPub => FlushPubErrors
  /\ wire # <<>>
  /\ wire' = Tail(wire)
  /\ replies' = Append(replies, "error")
  /\ UNCHANGED <<vars, setupVars, obuf, flush, cutShort>>
-------------------------------------------------------------------------------
PipeNext ==
  \/ \E S \in Batch : PipeSet(S) \/ PipeDel(S)
  \/ PipeClear \/ Flush \/ (\E b \in BOOLEAN : SetBuffered(b)) \/ Reload
  \/ WriteOut \/ PopReply \/ PublishOnce \/ ProducerExit
  \/ Execute \/ Refuse
  \/ (Consume \/ Exit) /\ UNCHANGED pipeVars

PipeSpec == PipeInit /\ [][PipeNext]_allVars
-------------------------------------------------------------------------------
\* "let pipeline do publish once per flush": when the pipeline has nothing left
\* to do and select() has nothing left to return, no key waits in T_KEY_SET or in
\* m_buffer; one publish was enough for all the commands of a flush, unless a
\* producer process stopped between its commands and that publish.
QuietPipelineLeavesNothing ==
  ~cutShort /\ flush = "no" /\ m_remaining = 0 /\ consumer = "idle" /\ channel = 0 /\ m_queueLength = 0
    => keySet = {} /\ m_buffer = {}
==============================================================================
