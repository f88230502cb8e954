---------------------------- MODULE PulsarConsumer ----------------------------
(***************************************************************************)
(* The consumer wrapper of mqwrapper/pulsar/pulsar_consumer.go: the         *)
(* goroutine that Chan starts, Seek with its skip flag, and Close with its  *)
(* attempts to unsubscribe, on top of a consumer of the pulsar library and  *)
(* its broker (external).  Messages are the offsets of their topic.         *)
(***************************************************************************)
EXTENDS Naturals, Sequences

CONSTANTS
    MaxMsgs,            \* bound on the messages of the topic
    MsgChannelSize,     \* capacity of msgChannel
    ReceiverQueueSize,  \* what the library reads ahead
    Attempts,           \* attempts of Close to unsubscribe
    MaxRestarts,        \* bound on the restarts of the process
    SeekAfterChan       \* the caller may seek a consumer it already reads

ASSUME PulsarAssumption ==
    /\ {MaxMsgs, MaxRestarts} \subseteq Nat
    /\ {MsgChannelSize, ReceiverQueueSize, Attempts} \subseteq Nat \ {0}
    /\ SeekAfterChan \in BOOLEAN

VARIABLES
    \* external: the topic, the subscription, the library's consumer and its channel
    published, acked, subscribed, open, readPos, receiveCh, receiveClosed,
    \* fields of Consumer
    hasSeek, AtLatest, skip, msgChannel, msgClosed, closeCh,
    \* the goroutine of Chan, and the message it holds
    gpc, held,
    \* the caller: inside Seek, reading; Close and its attempts
    apc, target, cpc, attempts,
    \* history: the offset the reader has to get first, what it got, restarts
    from, got, restarts

queueVars == <<subscribed, open, readPos, receiveCh, receiveClosed>>
flagVars  == <<hasSeek, AtLatest, skip>>
chanVars  == <<msgChannel, msgClosed, gpc, held>>
closeVars == <<closeCh, cpc, attempts>>
readVars  == <<acked, from, got>>
vars == <<published, queueVars, flagVars, chanVars, closeVars, readVars, apc, target, restarts>>

\* A consumer as Subscribe makes it, at the position pos of its subscription.
Fresh(pos) ==
    /\ subscribed' = TRUE /\ open' = TRUE
    /\ readPos' = pos /\ receiveCh' = <<>> /\ receiveClosed' = FALSE
    /\ hasSeek' = FALSE /\ skip' = FALSE
    /\ msgChannel' = <<>> /\ msgClosed' = FALSE /\ gpc' = "off" /\ held' = 0
    /\ closeCh' = FALSE /\ cpc' = "none" /\ attempts' = 0
    /\ apc' = "idle" /\ target' = [off |-> 0, inclusive |-> TRUE]
    /\ from' = pos + 1 /\ got' = <<>>

\* A new subscription stands behind the last message if it was made with position
\* Latest, else the library chooses.
Init ==
    /\ published \in 0..MaxMsgs
    /\ acked = 0 /\ restarts = 0
    /\ subscribed = TRUE /\ open = TRUE
    /\ AtLatest \in BOOLEAN
    /\ readPos \in IF AtLatest THEN {published} ELSE {0, published}
    /\ receiveCh = <<>> /\ receiveClosed = FALSE
    /\ hasSeek = FALSE /\ skip = FALSE
    /\ msgChannel = <<>> /\ msgClosed = FALSE /\ gpc = "off" /\ held = 0
    /\ closeCh = FALSE /\ cpc = "none" /\ attempts = 0
    /\ apc = "idle" /\ target = [off |-> 0, inclusive |-> TRUE]
    /\ from = readPos + 1 /\ got = <<>>
-------------------------------------------------------------------------------
(* External: the topic grows, the library reads ahead, its Seek repositions *)
(* it and drops what it has read ahead.                                     *)

Publish ==
    /\ published < MaxMsgs
    /\ published' = published + 1
    /\ UNCHANGED <<queueVars, flagVars, chanVars, closeVars, readVars, apc, target, restarts>>

Prefetch ==
    /\ open /\ subscribed /\ ~receiveClosed
    /\ readPos < published /\ Len(receiveCh) < ReceiverQueueSize
    /\ receiveCh' = Append(receiveCh, readPos + 1)
    /\ readPos' = readPos + 1
    /\ UNCHANGED <<published, subscribed, open, receiveClosed, flagVars, chanVars, closeVars,
                   readVars, apc, target, restarts>>

QueueClose ==
    /\ ~receiveClosed
    /\ receiveClosed' = TRUE
    /\ UNCHANGED <<published, subscribed, open, readPos, receiveCh, flagVars, chanVars,
                   closeVars, readVars, apc, target, restarts>>

\* The message at off is the next one the library delivers.
queueSeek(off) == readPos' = off - 1 /\ receiveCh' = <<>>
-------------------------------------------------------------------------------
(* Chan and its goroutine *)

ChanAlwaysEarliest ==                                              \* mutant
    /\ gpc = "off" /\ apc = "idle"
    /\ queueSeek(1)
    /\ gpc' = "select"
    /\ UNCHANGED <<published, acked, subscribed, open, receiveClosed, flagVars, msgChannel,
                   msgClosed, held, closeVars, from, got, apc, target, restarts>>

\* The first call.  A consumer that was not positioned starts at the very first
\* message, whatever its subscription has acknowledged; an error is ignored, and
\* the consumer starts where its subscription stands.
Chan ==
    /\ gpc = "off" /\ apc = "idle"
    /\ \/ /\ ~hasSeek /\ ~AtLatest
          /\ \/ queueSeek(1) /\ from' = 1
             \/ UNCHANGED <<readPos, receiveCh, from>>
       \/ /\ hasSeek \/ AtLatest
          /\ UNCHANGED <<from, readPos, receiveCh>>
    /\ gpc' = "select"
    /\ UNCHANGED <<published, acked, subscribed, open, receiveClosed, flagVars, msgChannel,
                   msgClosed, held, closeVars, got, apc, target, restarts>>

Take ==
    /\ gpc = "select" /\ receiveCh # <<>>
    /\ held' = Head(receiveCh) /\ receiveCh' = Tail(receiveCh)
    /\ gpc' = "skip?"
    /\ UNCHANGED <<published, subscribed, open, readPos, receiveClosed, flagVars, msgChannel,
                   msgClosed, closeVars, readVars, apc, target, restarts>>

\* Mutant: the flag is not reset.
SkipAll ==
    /\ gpc = "skip?"
    /\ gpc' = IF skip THEN "select" ELSE "send"
    /\ UNCHANGED <<published, queueVars, hasSeek, AtLatest, skip, msgChannel, msgClosed, held,
                   closeVars, readVars, apc, target, restarts>>

Skip ==
    /\ gpc = "skip?"
    /\ gpc' = IF skip THEN "select" ELSE "send"
    /\ skip' = FALSE
    /\ UNCHANGED <<published, queueVars, hasSeek, AtLatest, msgChannel, msgClosed, held,
                   closeVars, readVars, apc, target, restarts>>

SendUnbounded ==                                                   \* mutant
    /\ gpc = "send"
    /\ msgChannel' = Append(msgChannel, held)
    /\ gpc' = "select"
    /\ UNCHANGED <<published, queueVars, flagVars, msgClosed, held, closeVars, readVars, apc,
                   target, restarts>>

Send ==
    /\ gpc = "send"
    /\ \/ /\ Len(msgChannel) < MsgChannelSize
          /\ msgChannel' = Append(msgChannel, held)
       \/ closeCh /\ UNCHANGED msgChannel
    /\ gpc' = "select"
    /\ UNCHANGED <<published, queueVars, flagVars, msgClosed, held, closeVars, readVars, apc,
                   target, restarts>>

\* The library closed its channel: the goroutine ends and leaves msgChannel open.
ReceiveClosed ==
    /\ gpc = "select" /\ receiveClosed /\ receiveCh = <<>>
    /\ gpc' = "exit"
    /\ UNCHANGED <<published, queueVars, flagVars, msgChannel, msgClosed, held, closeVars,
                   readVars, apc, target, restarts>>

\* Mutant: msgChannel stays open.
StopOpen ==
    /\ gpc = "select" /\ closeCh
    /\ gpc' = "exit"
    /\ UNCHANGED <<published, queueVars, flagVars, msgChannel, msgClosed, held, closeVars,
                   readVars, apc, target, restarts>>

Stop ==
    /\ gpc = "select" /\ closeCh
    /\ msgClosed' = TRUE /\ gpc' = "exit"
    /\ UNCHANGED <<published, queueVars, flagVars, msgChannel, held, closeVars, readVars, apc,
                   target, restarts>>
-------------------------------------------------------------------------------
(* Seek: the library's Seek, then the flags. *)

\* A position that is already written.  The answer of a Seek that failed may have
\* been lost after it took effect; its caller tries again or closes.
SeekQueue(off, inclusive) ==
    /\ apc \in {"idle", "failed"} /\ cpc = "none"
    /\ gpc = "off" \/ SeekAfterChan
    /\ \/ /\ queueSeek(off)
          /\ apc' = "sought" /\ target' = [off |-> off, inclusive |-> inclusive]
       \/ /\ queueSeek(off) \/ UNCHANGED <<readPos, receiveCh>>
          /\ apc' = "failed" /\ UNCHANGED target
    /\ UNCHANGED <<published, subscribed, open, receiveClosed, flagVars, chanVars, closeVars,
                   readVars, restarts>>

\* Mutant: inclusive and exclusive exchanged.
SeekFlagsSwapped ==
    /\ apc = "sought" /\ apc' = "idle"
    /\ hasSeek' = TRUE
    /\ skip' = target.inclusive
    /\ from' = IF target.inclusive THEN target.off ELSE target.off + 1
    /\ got' = <<>>
    /\ UNCHANGED <<published, acked, queueVars, AtLatest, chanVars, closeVars, target, restarts>>

SeekFlags ==
    /\ apc = "sought" /\ apc' = "idle"
    /\ hasSeek' = TRUE
    /\ skip' = ~target.inclusive
    /\ from' = IF target.inclusive THEN target.off ELSE target.off + 1
    /\ got' = <<>>
    /\ UNCHANGED <<published, acked, queueVars, AtLatest, chanVars, closeVars, target, restarts>>
-------------------------------------------------------------------------------
(* The reader, its process, and Close *)

\* The stream takes a message and acknowledges it.  It has stopped reading when it
\* calls Close (closeRWMutex); a reader that went on could see a gap, as the
\* goroutine may drop a message for closeCh and pass on the next.
Read ==
    /\ msgChannel # <<>> /\ apc = "idle" /\ cpc = "none"
    /\ got' = Append(got, Head(msgChannel))
    /\ acked' = Head(msgChannel)
    /\ msgChannel' = Tail(msgChannel)
    /\ UNCHANGED <<published, queueVars, flagVars, msgClosed, gpc, held, closeVars, from, apc,
                   target, restarts>>

\* The process dies and subscribes again: the subscription has kept what was
\* acknowledged, unless Close had removed it.
Restart ==
    /\ restarts < MaxRestarts
    /\ restarts' = restarts + 1
    /\ Fresh(IF subscribed THEN acked ELSE 0)
    /\ UNCHANGED <<published, acked, AtLatest>>

Close ==
    /\ cpc = "none" /\ apc # "sought"
    /\ cpc' = "unsubscribe"
    /\ UNCHANGED <<published, queueVars, flagVars, chanVars, closeCh, attempts, readVars, apc,
                   target, restarts>>

\* One attempt: done and closed; reported missing or cut off, which counts as done
\* but leaves the library's consumer; or failed, with or without effect.
Unsubscribe ==
    /\ cpc = "unsubscribe"
    /\ \/ subscribed /\ subscribed' = FALSE /\ open' = FALSE /\ cpc' = "close" /\ UNCHANGED attempts
       \/ cpc' = "close" /\ UNCHANGED <<subscribed, open, attempts>>
       \/ /\ subscribed' \in {subscribed, FALSE} /\ UNCHANGED open
          /\ attempts' = attempts + 1
          /\ cpc' = IF attempts' = Attempts THEN "panic" ELSE "unsubscribe"
    /\ UNCHANGED <<published, readPos, receiveCh, receiveClosed, flagVars, chanVars, closeCh,
                   readVars, apc, target, restarts>>

CloseDone ==
    /\ cpc = "close"
    /\ closeCh' = TRUE /\ cpc' = "done"
    /\ UNCHANGED <<published, queueVars, flagVars, chanVars, attempts, readVars, apc, target,
                   restarts>>
-------------------------------------------------------------------------------
goroutine == Take \/ Skip \/ Send \/ ReceiveClosed \/ Stop

Next ==
    \/ Publish \/ Prefetch \/ QueueClose
    \/ Chan \/ goroutine
    \/ \E off \in 1..published, inclusive \in BOOLEAN : SeekQueue(off, inclusive)
    \/ SeekFlags \/ Read \/ Restart
    \/ Close \/ Unsubscribe \/ CloseDone

Spec == Init /\ [][Next]_vars

\* The library delivers, the goroutine runs, the reader reads, a Close goes on.
FairSpec ==
    /\ Spec
    /\ WF_vars(Prefetch) /\ WF_vars(goroutine) /\ WF_vars(Read)
    /\ WF_vars(SeekFlags) /\ WF_vars(Unsubscribe) /\ WF_vars(CloseDone)
-------------------------------------------------------------------------------
(* Properties *)

\* The flags, where everyone is, what is on its way within its sizes, and the counters.
Flags ==
    /\ hasSeek \in BOOLEAN /\ AtLatest \in BOOLEAN /\ skip \in BOOLEAN
    /\ subscribed \in BOOLEAN /\ open \in BOOLEAN /\ receiveClosed \in BOOLEAN
    /\ msgClosed \in BOOLEAN /\ closeCh \in BOOLEAN
Places ==
    /\ gpc \in {"off", "select", "skip?", "send", "exit"}
    /\ apc \in {"idle", "sought", "failed"}
    /\ cpc \in {"none", "unsubscribe", "close", "done", "panic"}
Queues ==
    /\ published \in 0..MaxMsgs /\ readPos \in 0..published
    /\ receiveCh \in Seq(1..published) /\ Len(receiveCh) <= ReceiverQueueSize
    /\ msgChannel \in Seq(1..published) /\ Len(msgChannel) <= MsgChannelSize
    /\ got \in Seq(1..published)
    /\ gpc \in {"skip?", "send"} => held # 0
Counters ==
    /\ acked \in 0..published /\ held \in 0..published /\ from \in 1..(published + 1)
    /\ target \in [off : Nat, inclusive : BOOLEAN]
    /\ cpc \in {"none", "unsubscribe"} => attempts < Attempts
    /\ attempts \in 0..Attempts /\ restarts \in 0..MaxRestarts
TypeOK == Flags /\ Places /\ Queues /\ Counters

\* Whatever the subscription had acknowledged, the library has read ahead and the
\* skip flag has been through, the reader sees a cursor: it is positioned by Seek
\* (inclusive or exclusive), by Chan at the earliest message, or by the
\* subscription, and from there gets every message once and in order.
RC == INSTANCE ReadCursor WITH
         cursor <- IF got = <<>> THEN from - 1 ELSE got[Len(got)],
         reading <- got # <<>>
IsCursor == RC!Spec

\* The message the goroutine holds, and all messages on their way: from those read to
\* those the library has read ahead.
Holding  == IF gpc \in {"skip?", "send"} THEN <<held>> ELSE <<>>
Pipeline == got \o msgChannel \o Holding \o receiveCh

\* The messages of s follow each other, the first of them lo.
Run(s, lo) == \A i \in DOMAIN s : s[i] = lo + i - 1

\* Until Close drops messages, nothing is missing, doubled or out of order between
\* reader and library, and the reader begins at its position: a Seek is not undone by
\* the Seek of Chan, and skip is set as long as exactly one message too many is on its
\* way.
InFlight ==
    ~closeCh /\ apc = "idle" =>
        LET first == readPos + 1 - Len(Pipeline)
        IN Run(Pipeline, first) /\ from = IF skip THEN first + 1 ELSE first

\* Nothing has left the library before Chan, nothing reaches the reader while skip is
\* set, and a Seek under way finds the library at its target, with no Close beside it.
Settled ==
    /\ gpc = "off" => msgChannel = <<>> /\ got = <<>>
    /\ gpc = "off" /\ ~hasSeek => ~skip
    /\ skip => msgChannel = <<>> /\ got = <<>> /\ gpc # "send"
    /\ apc # "idle" => gpc = "off"
    /\ apc = "sought" => /\ cpc = "none" /\ target.off \in 1..published
                         /\ readPos + 1 - Len(receiveCh) = target.off
                         /\ Run(receiveCh, target.off)
    /\ closeCh => cpc = "done"

\* The invariant of the consumer: queues within their sizes and acknowledgements within
\* what was published (TypeOK), messages on their way from Chan and Seek to the reader
\* in one unbroken run (InFlight), and what each of its parties may find (Settled).
ConsumerInv == TypeOK /\ InFlight /\ Settled

\* A message at or after the position reaches a reader that reads on, unless the
\* library or the caller closes the consumer or the process is restarted.
Delivered ==
    \A n \in 1..MaxMsgs :
        (gpc # "off" /\ apc = "idle" /\ from <= n /\ n <= published)
            ~> (\E i \in DOMAIN got : got[i] = n) 
               \/ receiveClosed \/ cpc # "none" \/ gpc = "off"

\* After Close a reader that waits on msgChannel is let go: the channel is closed,
\* even when the goroutine was held up by a full msgChannel.  Not so when the
\* library has closed its channel before: the goroutine is gone by then.
CloseReleases == (closeCh /\ gpc # "off") ~> (msgClosed \/ receiveClosed \/ gpc = "off")
===============================================================================
