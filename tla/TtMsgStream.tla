----------------------------- MODULE TtMsgStream -----------------------------
(***************************************************************************)
(* MqTtMsgStream (pkg/mq/msgstream/mq_msgstream.go): a reader of several    *)
(* topics that hands out message packs cut at common time ticks, its       *)
(* start-up (AsConsumer, Seek, Chan), its shutdown (Close) and the program  *)
(* that reads it, stops, and resumes from the EndPositions of the last pack *)
(* it took.                                                                *)
(*                                                                         *)
(* Goroutines: the program (apc), bufMsgPackToChannel (gpc), one            *)
(* consumeToTtMsg per channel of a round (workers), and Close (cpc).        *)
(***************************************************************************)
EXTENDS MsgLog, FiniteSets, FiniteSetsExt

CONSTANTS
    Topics,             \* the logs a behaviour may start with
    ReceiveBufSize,     \* capacity of receiveBuf
    EnablePursuitMode,  \* MQCfg.EnablePursuitMode
    PursuitBufferSize,  \* MQCfg.PursuitBufferSize
    IgnoreBadPosition,  \* MQCfg.IgnoreBadPosition
    EarlyChan,          \* the program may call Chan before it has subscribed
    AllowClose,         \* the program may close a stream that did not fail
    MaxCrashes          \* bound on the restarts of the program

ASSUME TopicsAssumption == Topics \subseteq Topic
ASSUME BoundsAssumption ==
    /\ ReceiveBufSize \in Nat \ {0}
    /\ PursuitBufferSize \in Nat
    /\ MaxCrashes \in Nat
    /\ {EnablePursuitMode, IgnoreBadPosition, EarlyChan, AllowClose} \subseteq BOOLEAN

\* A MsgPosition: MsgID (0 when empty) and Timestamp.
Position == [off : Nat, ts : Nat]
NilPos   == [off |-> -1, ts |-> 0]
\* One that Seek accepts: its MsgID is not empty.
SeekPos  == [off : Nat \ {0}, ts : Nat]
\* What the program seeks to before it has taken any pack.
FirstPos == [off |-> 1, ts |-> 0]

\* A slice of messages is kept as the run of chunks it was appended in: a chunk
\* holds messages of one channel, in log order.
Chunk   == [chan : Channels, offs : SUBSET Nat]
MsgPack == [begin : Nat, end : Nat, msgs : Seq(Chunk),
            startPos : [Channels -> Position \cup {NilPos}],
            endPos : [Channels -> SeekPos \cup {NilPos}]]

VARIABLES
    topic,          \* the logs; a message not yet published is one not yet read
    \* the stream's fields
    consumers, chanMsgBuf, chanMsgPos, chanTtMsgTime, lastTimeStamp,
    token, syncClosed,  \* syncConsumer: holds its one value, is closed
    consumerLock,       \* free, or who holds it
    cancelled, closed,  \* ms.ctx is done; ms.closed # 0
    sent, recvd,        \* packs put into receiveBuf so far, and taken out of it
    \* the consumer's cursor: offset of the last message it handed out
    cursor,
    \* bufMsgPackToChannel and its local variables
    gpc, workers, chanTtMsgSync, toMerge,
    timeTickBuf, startPositions, endPositions, endTs,
    \* Close
    cpc,
    \* the program: where it is, channels still to seek, the channel being sought
    apc, seekTodo, seekChan,
    \* what survives a restart: the saved positions and what was processed
    checkpoint, applied, crashes,
    \* history: where this incarnation's consumers were positioned
    base

streamVars == <<consumers, chanMsgBuf, chanMsgPos, chanTtMsgTime>>
localVars  == <<chanTtMsgSync, toMerge, timeTickBuf, startPositions, endPositions,
                endTs>>
closeVars  == <<syncClosed, cancelled, closed, cpc>>
seekVars   == <<seekTodo, seekChan, base>>
savedVars  == <<checkpoint, applied, crashes>>
vars == <<topic, streamVars, lastTimeStamp, token, consumerLock, sent, recvd, cursor,
          gpc, workers, localVars, closeVars, apc, seekVars, savedVars>>

Msg(c, o) == topic[c][o]

\* The messages of a run of chunks, as pairs of channel and offset.
Refs(msgs) == UNION {{msgs[k].chan} \X msgs[k].offs : k \in DOMAIN msgs}

-------------------------------------------------------------------------------
(* A stream as NewMqTtMsgStream makes it, for a program that has started. *)

Init ==
    /\ topic \in Topics
    /\ consumers = {}
    /\ chanMsgBuf = [c \in Channels |-> {}]
    /\ chanMsgPos = [c \in Channels |-> NilPos]
    /\ chanTtMsgTime = [c \in Channels |-> 0]
    /\ lastTimeStamp = 0
    /\ token = FALSE /\ syncClosed = FALSE
    /\ consumerLock = "free"
    /\ cancelled = FALSE /\ closed = FALSE
    /\ sent = <<>> /\ recvd = 0
    /\ cursor = [c \in Channels |-> 0]
    /\ gpc = "off" /\ workers = {}
    /\ chanTtMsgSync = [c \in Channels |-> FALSE]
    /\ toMerge = {} /\ timeTickBuf = <<>>
    /\ startPositions = [c \in Channels |-> NilPos]
    /\ endPositions = [c \in Channels |-> NilPos]
    /\ endTs = 0
    /\ cpc = "none"
    /\ apc = "new" /\ seekTodo = {} /\ seekChan = {}
    /\ base = [c \in Channels |-> FirstPos]
    /\ checkpoint = [c \in Channels |-> FirstPos]
    /\ applied = {}
    /\ crashes = 0
-------------------------------------------------------------------------------
(* The program's calls: AsConsumer, Seek, Chan, and reading the packs. *)

\* addConsumer for channel c, with the position its caller leaves in chanMsgPos.
addConsumer(c, pos) ==
    /\ token' = (token \/ consumers = {})
    /\ consumers' = consumers \cup {c}
    /\ chanMsgBuf' = [chanMsgBuf EXCEPT ![c] = {}]
    /\ chanMsgPos' = [chanMsgPos EXCEPT ![c] = pos]
    /\ chanTtMsgTime' = [chanTtMsgTime EXCEPT ![c] = 0]

\* AsConsumer, one channel of its loop.  A subscription starts at the earliest
\* message.  A program does not begin to subscribe to a stream it is closing: the
\* send on the closed syncConsumer would panic.
AsConsumer(c) ==
    /\ apc = "new" /\ ~closed
    /\ consumers = {} => ~syncClosed
    /\ c \in Channels \ consumers
    /\ consumerLock = "free"
    /\ addConsumer(c, [off |-> 0, ts |-> lastTimeStamp])
    /\ UNCHANGED <<topic, lastTimeStamp, consumerLock, sent, recvd, cursor, gpc, workers,
                   localVars, closeVars, apc, seekVars, savedVars>>

\* AsConsumer returns; the program that has to resume calls Seek, one that reads
\* from the start may leave it out.
Subscribed ==
    /\ apc = "new" /\ consumers = Channels
    /\ \/ /\ gpc = "off" /\ consumerLock = "free"
          /\ apc' = "seek"
          /\ consumerLock' = "program"
          /\ seekTodo' = Channels
       \/ /\ crashes = 0
          /\ apc' = "ready"
          /\ UNCHANGED <<consumerLock, seekTodo>>
    /\ UNCHANGED <<topic, streamVars, lastTimeStamp, token, sent, recvd, cursor, gpc,
                   workers, localVars, closeVars, seekChan, base, savedVars>>

\* Seek, the next position of its loop.  The consumer is positioned at the saved
\* MsgID; where that id cannot be decoded and IgnoreBadPosition is set, at the
\* latest message, or nowhere if that cannot be told either.
\* The message at the id itself is the next one read (Seek with inclusive true).
seekExclusive(off) == off                                          \* mutant
seekInclusive(off) == off - 1
latestOff(c) == IF topic[c] = <<>> THEN 1 ELSE Len(topic[c])
SeekChannel(c) ==
    /\ apc = "seek" /\ seekChan = {} /\ c \in seekTodo
    /\ ~closed /\ checkpoint[c].off > 0
    /\ \E off \in {checkpoint[c].off}
                  \cup IF IgnoreBadPosition THEN {latestOff(c), 1} ELSE {} :
          /\ base' = [base EXCEPT ![c] = [off |-> off, ts |-> checkpoint[c].ts]]
          /\ cursor' = [cursor EXCEPT ![c] = seekInclusive(off)]
    /\ addConsumer(c, checkpoint[c])
    /\ seekChan' = {c} /\ seekTodo' = seekTodo \ {c}
    /\ UNCHANGED <<topic, lastTimeStamp, consumerLock, sent, recvd, gpc, workers, localVars,
                   closeVars, apc, savedVars>>

\* Seek, one message of the loop that skips what the position already covers.
SeekMsg(c) ==
    /\ apc = "seek" /\ c \in seekChan
    /\ cursor[c] < Len(topic[c])
    /\ LET o == cursor[c] + 1
           m == Msg(c, o)
           mp == chanMsgPos[c]
       IN /\ cursor' = [cursor EXCEPT ![c] = o]
          /\ \/ /\ m.type = "Bad"
                /\ apc' = "seekErr" /\ consumerLock' = "free"
                /\ UNCHANGED <<chanMsgBuf, seekChan>>
             \/ /\ isTimeTick(m) /\ m.begin >= mp.ts
                /\ seekChan' = {}
                /\ UNCHANGED <<apc, consumerLock, chanMsgBuf>>
             \/ /\ m.type # "Bad" /\ ~(isTimeTick(m) /\ m.begin >= mp.ts)
                /\ chanMsgBuf' = IF m.begin > mp.ts
                                 THEN [chanMsgBuf EXCEPT ![c] = @ \cup {o}]
                                 ELSE chanMsgBuf
                /\ UNCHANGED <<apc, consumerLock, seekChan>>
    /\ UNCHANGED <<topic, consumers, chanMsgPos, chanTtMsgTime, lastTimeStamp, token, sent,
                   recvd, gpc, workers, localVars, closeVars, seekTodo, base, savedVars>>

\* Seek returns: after the last position, or with an error (the position has no
\* MsgID, the queue refused it in every attempt, or the stream's context ended).
SeekReturn ==
    /\ apc = "seek"
    /\ \/ seekTodo = {} /\ seekChan = {} /\ apc' = "ready"
       \/ seekChan = {} /\ seekTodo # {} /\ apc' = "seekErr"
       \/ seekChan # {} /\ cancelled /\ apc' = "seekErr"
    /\ consumerLock' = "free"
    /\ UNCHANGED <<topic, streamVars, lastTimeStamp, token, sent, recvd, cursor, gpc, workers,
                   localVars, closeVars, seekVars, savedVars>>

\* The first call of Chan starts bufMsgPackToChannel.
Chan ==
    /\ gpc = "off"
    /\ apc = "ready" \/ (EarlyChan /\ apc = "new" /\ crashes = 0)
    /\ gpc' = "start"
    /\ UNCHANGED <<topic, streamVars, lastTimeStamp, token, consumerLock, sent, recvd, cursor,
                   workers, localVars, closeVars, apc, seekVars, savedVars>>

\* The program takes a pack, processes it and saves its EndPositions (external:
\* both at once, as the owner of a checkpoint does).
Receive ==
    /\ apc = "ready"
    /\ recvd < Len(sent)
    /\ LET pack == sent[recvd + 1]
       IN /\ applied' = applied \cup Refs(pack.msgs)
          /\ checkpoint' = [c \in Channels |-> IF pack.endPos[c] = NilPos THEN checkpoint[c]
                                               ELSE pack.endPos[c]]
    /\ recvd' = recvd + 1
    /\ UNCHANGED <<topic, streamVars, lastTimeStamp, token, consumerLock, sent, cursor, gpc,
                   workers, localVars, closeVars, apc, seekVars, crashes>>

\* receiveBuf is closed and drained: the program's loop ends.
ReceiveClosed ==
    /\ apc = "ready" /\ closed /\ recvd = Len(sent)
    /\ apc' = "stopped"
    /\ UNCHANGED <<topic, streamVars, lastTimeStamp, token, consumerLock, sent, recvd, cursor,
                   gpc, workers, localVars, closeVars, seekVars, savedVars>>

\* The process dies at any point and is started again.
Crash ==
    /\ crashes < MaxCrashes
    /\ crashes' = crashes + 1
    /\ consumers' = {}
    /\ chanMsgBuf' = [c \in Channels |-> {}]
    /\ chanMsgPos' = [c \in Channels |-> NilPos]
    /\ chanTtMsgTime' = [c \in Channels |-> 0]
    /\ lastTimeStamp' = 0
    /\ token' = FALSE /\ syncClosed' = FALSE
    /\ consumerLock' = "free"
    /\ cancelled' = FALSE /\ closed' = FALSE
    /\ sent' = <<>> /\ recvd' = 0
    /\ cursor' = [c \in Channels |-> 0]
    /\ gpc' = "off" /\ workers' = {}
    /\ chanTtMsgSync' = [c \in Channels |-> FALSE]
    /\ toMerge' = {} /\ timeTickBuf' = <<>>
    /\ startPositions' = [c \in Channels |-> NilPos]
    /\ endPositions' = [c \in Channels |-> NilPos]
    /\ endTs' = 0
    /\ cpc' = "none"
    /\ apc' = "new" /\ seekTodo' = {} /\ seekChan' = {}
    /\ base' = [c \in Channels |-> FirstPos]
    /\ UNCHANGED <<topic, checkpoint, applied>>
-------------------------------------------------------------------------------
(* bufMsgPackToChannel *)

\* closeRWMutex: the goroutine reads from BufStart to its return.
ReadLocked == gpc \in {"sync", "loop", "cont", "lock", "wait", "merge", "send", "stamp"}

BufStart ==
    /\ gpc = "start"
    /\ cpc # "locking"   \* a waiting writer keeps new readers out
    /\ gpc' = IF closed THEN "exit" ELSE "sync"
    /\ UNCHANGED <<topic, streamVars, lastTimeStamp, token, consumerLock, sent, recvd, cursor,
                   workers, localVars, closeVars, apc, seekVars, savedVars>>

\* Block on syncConsumer until addConsumer, or until Close closes it.
BufSync ==
    /\ gpc = "sync"
    /\ token \/ syncClosed
    /\ gpc' = IF token THEN "loop" ELSE "exit"
    /\ token' = FALSE
    /\ UNCHANGED <<topic, streamVars, lastTimeStamp, consumerLock, sent, recvd, cursor,
                   workers, localVars, closeVars, apc, seekVars, savedVars>>

\* The head of the outer loop: return if the context is done, else a new pack.
BufLoop ==
    /\ gpc = "loop"
    /\ IF cancelled
       THEN gpc' = "exit" /\ UNCHANGED <<timeTickBuf, startPositions, endPositions, endTs>>
       ELSE /\ gpc' = "cont"
            /\ timeTickBuf' = <<>>
            /\ startPositions' = [c \in Channels |-> NilPos]
            /\ endPositions' = [c \in Channels |-> NilPos]
            /\ endTs' = 0
    /\ UNCHANGED <<topic, streamVars, lastTimeStamp, token, consumerLock, sent, recvd, cursor,
                   workers, chanTtMsgSync, toMerge, closeVars, apc, seekVars, savedVars>>

\* size: what the cuts for this pack have put into timeTickBuf, copies included.
size == MapThenSumSet(LAMBDA r : Msg(r[1], r[2]).size, Refs(timeTickBuf))

\* Whether endTs lags the clock by more than PursuitLag is left open.
continueBuffering(lagging) ==
    /\ ~cancelled
    /\ \/ endTs = 0
       \/ EnablePursuitMode /\ size <= PursuitBufferSize /\ lagging

BufContinue ==
    /\ gpc = "cont"
    /\ \E lagging \in BOOLEAN :
          gpc' = IF continueBuffering(lagging) THEN "lock"
                 ELSE IF endTs > 0 THEN "send" ELSE "loop"
    /\ UNCHANGED <<topic, streamVars, lastTimeStamp, token, consumerLock, sent, recvd, cursor,
                   workers, localVars, closeVars, apc, seekVars, savedVars>>

\* Take consumerLock and start a consumeToTtMsg for each channel behind.
BufRound ==
    /\ gpc = "lock" /\ consumerLock = "free"
    /\ consumerLock' = "stream"
    /\ workers' = {c \in consumers : ~chanTtMsgSync[c]}
    /\ gpc' = "wait"
    /\ UNCHANGED <<topic, streamVars, lastTimeStamp, token, sent, recvd, cursor, localVars,
                   closeVars, apc, seekVars, savedVars>>

\* consumeToTtMsg: one message of channel c; a tick ends the goroutine.
ConsumeMsg(c) ==
    /\ c \in workers
    /\ cursor[c] < Len(topic[c])
    /\ LET o == cursor[c] + 1
           m == Msg(c, o)
       IN /\ cursor' = [cursor EXCEPT ![c] = o]
          /\ chanMsgBuf' = IF m.type = "Bad" THEN chanMsgBuf
                           ELSE [chanMsgBuf EXCEPT ![c] = @ \cup {o}]
          /\ IF isTimeTick(m)
             THEN /\ chanTtMsgTime' = [chanTtMsgTime EXCEPT ![c] = m.begin]
                  /\ workers' = workers \ {c}
             ELSE UNCHANGED <<chanTtMsgTime, workers>>
    /\ UNCHANGED <<topic, consumers, chanMsgPos, lastTimeStamp, token, consumerLock, sent,
                   recvd, gpc, localVars, closeVars, apc, seekVars, savedVars>>

\* Mutant: consumeToTtMsg waits for messages only.
ConsumeDeaf(c) == c \in workers /\ FALSE

\* consumeToTtMsg sees the context done.
ConsumeStop(c) ==
    /\ c \in workers /\ cancelled
    /\ workers' = workers \ {c}
    /\ UNCHANGED <<topic, streamVars, lastTimeStamp, token, consumerLock, sent, recvd, cursor,
                   gpc, localVars, closeVars, apc, seekVars, savedVars>>

\* allChanReachSameTtMsg: whether the last ticks of all channels agree (and on what),
\* and if not, who is ahead and need not read in the next round.
allChanReachSomeTtMsg == \A c \in consumers : chanTtMsgTime[c] > 0   \* mutant
allChanReachSameTtMsg == \A c, d \in consumers : chanTtMsgTime[c] = chanTtMsgTime[d]
currTs == chanTtMsgTime[CHOOSE c \in consumers : TRUE]
atMaxTime(c) == \A d \in consumers : chanTtMsgTime[d] <= chanTtMsgTime[c]
keptTtMsgSync ==                                                   \* mutant
    [c \in Channels |-> IF c \in consumers THEN atMaxTime(c) ELSE chanTtMsgSync[c]]
nextTtMsgSync ==
    [c \in Channels |-> IF c \in consumers THEN ~allChanReachSameTtMsg /\ atMaxTime(c)
                        ELSE chanTtMsgSync[c]]

\* All goroutines of the round are back: either another round, or cut at the tick.
BufTick ==
    /\ gpc = "wait" /\ workers = {}
    /\ chanTtMsgSync' = nextTtMsgSync
    /\ IF allChanReachSameTtMsg /\ currTs > lastTimeStamp
       THEN /\ endTs' = currTs
            /\ toMerge' = {c \in consumers : chanMsgBuf[c] # {}}
            /\ gpc' = "merge"
            /\ UNCHANGED consumerLock
       ELSE /\ gpc' = "cont" /\ consumerLock' = "free"
            /\ UNCHANGED <<endTs, toMerge>>
    /\ UNCHANGED <<topic, streamVars, lastTimeStamp, token, sent, recvd, cursor, workers,
                   timeTickBuf, startPositions, endPositions, closeVars, apc, seekVars,
                   savedVars>>

\* Cut the buffer of channel c at endTs.  A buffer is a set of offsets: it is
\* filled in log order and read in log order, so tempBuffer[0] is its minimum and
\* the last tick its maximum.
tempBufferAt(c) == {o \in chanMsgBuf[c] :                           \* mutant
                       ~isTimeTick(Msg(c, o)) /\ Msg(c, o).end >= endTs}
tempBuffer(c) == {o \in chanMsgBuf[c] : ~isTimeTick(Msg(c, o)) /\ Msg(c, o).end > endTs}
readyBefore(c) == {o \in chanMsgBuf[c] :                            \* mutant
                      ~isTimeTick(Msg(c, o)) /\ Msg(c, o).end < endTs}
readyMsgs(c) == {o \in chanMsgBuf[c] : ~isTimeTick(Msg(c, o)) /\ Msg(c, o).end <= endTs}
ttMsgs(c) == {o \in chanMsgBuf[c] : isTimeTick(Msg(c, o))}
newPosAtTick(c) ==                                                 \* mutant
    IF ttMsgs(c) # {} THEN [off |-> Max(ttMsgs(c)), ts |-> endTs] ELSE NilPos
newPosHeld(c) ==                                                   \* mutant
    IF tempBuffer(c) # {} THEN [off |-> Min(tempBuffer(c)), ts |-> endTs] ELSE NilPos
newPosSameId(c) == [off |-> chanMsgPos[c].off, ts |-> endTs]        \* mutant
newPos(c) ==
    CASE tempBuffer(c) # {} -> [off |-> Min(tempBuffer(c)), ts |-> endTs]
      [] tempBuffer(c) = {} /\ ttMsgs(c) # {} -> [off |-> Max(ttMsgs(c)), ts |-> endTs]
      [] OTHER -> NilPos

\* The loop over chanMsgBuf visits the channels in any order.
BufMerge(c) ==
    /\ gpc = "merge" /\ c \in toMerge
    /\ startPositions' = [startPositions EXCEPT ![c] = IF @ = NilPos THEN chanMsgPos[c] ELSE @]
    /\ timeTickBuf' = Append(timeTickBuf, [chan |-> c, offs |-> readyMsgs(c)])
    /\ chanMsgBuf' = [chanMsgBuf EXCEPT ![c] = tempBuffer(c)]
    /\ endPositions' = [endPositions EXCEPT ![c] = IF newPos(c) = NilPos THEN @ ELSE newPos(c)]
    /\ chanMsgPos' = [chanMsgPos EXCEPT ![c] = newPos(c)]
    /\ toMerge' = toMerge \ {c}
    /\ UNCHANGED <<topic, consumers, chanTtMsgTime, lastTimeStamp, token, consumerLock, sent,
                   recvd, cursor, gpc, workers, chanTtMsgSync, endTs, closeVars, apc, seekVars,
                   savedVars>>

BufMerged ==
    /\ gpc = "merge" /\ toMerge = {}
    /\ consumerLock' = "free"
    /\ gpc' = "cont"
    /\ UNCHANGED <<topic, streamVars, lastTimeStamp, token, sent, recvd, cursor, workers,
                   localVars, closeVars, apc, seekVars, savedVars>>

\* Mutant: copies stay.
NeverDuplicated(msgs, k, o) == FALSE

\* A DML message is dropped when a message before it in the pack has its id.
Duplicated(msgs, k, o) ==
    /\ isDMLMsg(Msg(msgs[k].chan, o))
    /\ \E j \in 1..k : \E p \in msgs[j].offs :
          /\ j < k \/ p < o
          /\ Msg(msgs[j].chan, p).id = Msg(msgs[k].chan, o).id
uniqueMsgs(msgs) ==
    [k \in DOMAIN msgs |->
        [chan |-> msgs[k].chan, offs |-> {o \in msgs[k].offs : ~Duplicated(msgs, k, o)}]]

BufSend ==
    /\ gpc = "send"
    /\ \/ /\ Len(sent) - recvd < ReceiveBufSize
          /\ sent' = Append(sent, [begin |-> lastTimeStamp, end |-> endTs,
                                   msgs |-> uniqueMsgs(timeTickBuf),
                                   startPos |-> startPositions, endPos |-> endPositions])
          /\ gpc' = "stamp"
       \/ /\ cancelled
          /\ gpc' = "exit"
          /\ UNCHANGED sent
    /\ UNCHANGED <<topic, streamVars, lastTimeStamp, token, consumerLock, recvd, cursor,
                   workers, localVars, closeVars, apc, seekVars, savedVars>>

\* Mutant: lastTimeStamp is left behind.
BufNoStamp ==
    /\ gpc = "stamp" /\ gpc' = "loop"
    /\ UNCHANGED <<topic, streamVars, lastTimeStamp, token, consumerLock, sent, recvd, cursor,
                   workers, localVars, closeVars, apc, seekVars, savedVars>>

BufStamp ==
    /\ gpc = "stamp"
    /\ lastTimeStamp' = endTs
    /\ gpc' = "loop"
    /\ UNCHANGED <<topic, streamVars, token, consumerLock, sent, recvd, cursor, workers,
                   localVars, closeVars, apc, seekVars, savedVars>>
-------------------------------------------------------------------------------
(* Close: the tick stream closes syncConsumer, then the base stream cancels *)
(* the context, waits for its readers and closes the rest.                 *)

CloseSync ==
    /\ cpc = "none"
    /\ \/ apc = "seekErr"
       \/ AllowClose /\ (apc # "new" \/ gpc # "off")
    /\ syncClosed' = TRUE /\ cpc' = "cancel"
    /\ UNCHANGED <<topic, streamVars, lastTimeStamp, token, consumerLock, sent, recvd, cursor,
                   gpc, workers, localVars, cancelled, closed, apc, seekVars, savedVars>>

CloseCancel ==
    /\ cpc = "cancel"
    /\ cancelled' = TRUE /\ cpc' = "locking"
    /\ UNCHANGED <<topic, streamVars, lastTimeStamp, token, consumerLock, sent, recvd, cursor,
                   gpc, workers, localVars, syncClosed, closed, apc, seekVars, savedVars>>

\* Mutant: Close does not wait for the readers of closeRWMutex.
CloseUnlocked ==
    /\ cpc = "locking"
    /\ closed' = TRUE /\ cpc' = "done"
    /\ UNCHANGED <<topic, streamVars, lastTimeStamp, token, consumerLock, sent, recvd, cursor,
                   gpc, workers, localVars, syncClosed, cancelled, apc, seekVars, savedVars>>

CloseLocked ==
    /\ cpc = "locking" /\ ~ReadLocked
    /\ closed' = TRUE /\ cpc' = "done"
    /\ UNCHANGED <<topic, streamVars, lastTimeStamp, token, consumerLock, sent, recvd, cursor,
                   gpc, workers, localVars, syncClosed, cancelled, apc, seekVars, savedVars>>

\* Nothing is left to do once Close has returned and the program has seen it.
Terminated ==
    /\ cpc = "done" /\ apc \in {"new", "seekErr", "stopped"} /\ gpc \in {"off", "exit"}
    /\ UNCHANGED vars
-------------------------------------------------------------------------------
Program == \/ \E c \in Channels : AsConsumer(c) \/ SeekChannel(c) \/ SeekMsg(c)
           \/ Subscribed \/ SeekReturn \/ Chan \/ Receive \/ ReceiveClosed

consumeToTtMsg(c) == ConsumeMsg(c) \/ ConsumeStop(c)

bufMsgPackToChannel ==
    \/ BufStart \/ BufSync \/ BufLoop \/ BufContinue \/ BufRound \/ BufTick
    \/ \E c \in Channels : BufMerge(c)
    \/ BufMerged \/ BufSend \/ BufStamp

Close == CloseSync \/ CloseCancel \/ CloseLocked

Next == \/ Program \/ bufMsgPackToChannel \/ Close \/ Crash \/ Terminated
        \/ \E c \in Channels : consumeToTtMsg(c)

Spec == Init /\ [][Next]_vars

\* The goroutines of the stream are scheduled fairly, and a Close that was called
\* goes on.
StreamFairness == /\ WF_vars(bufMsgPackToChannel)
                  /\ \A c \in Channels : WF_vars(consumeToTtMsg(c))
                  /\ WF_vars(CloseCancel \/ CloseLocked)

\* The program keeps calling and reading, and closes a stream whose Seek failed.
ProgramFairness == WF_vars(Program \/ (apc = "seekErr" /\ CloseSync))

StreamFairSpec == Spec /\ StreamFairness

FairSpec == StreamFairSpec /\ ProgramFairness
-------------------------------------------------------------------------------
(* Properties *)

TypeOK ==
    /\ consumers \subseteq Channels
    /\ chanMsgBuf \in [Channels -> SUBSET Nat]
    /\ \A c \in Channels : chanMsgBuf[c] \subseteq 1..cursor[c]
    /\ chanMsgPos \in [Channels -> Position \cup {NilPos}]
    /\ chanTtMsgTime \in [Channels -> Nat]
    /\ lastTimeStamp \in Nat
    /\ token \in BOOLEAN /\ syncClosed \in BOOLEAN
    /\ cancelled \in BOOLEAN /\ closed \in BOOLEAN
    /\ consumerLock \in {"free", "stream", "program"}
    /\ recvd \in 0..Len(sent)
    /\ cursor \in [Channels -> Nat]
    /\ gpc \in {"off", "start", "sync", "loop", "cont", "lock", "wait", "merge", "send",
                "stamp", "exit"}
    /\ workers \subseteq consumers /\ toMerge \subseteq consumers
    /\ chanTtMsgSync \in [Channels -> BOOLEAN]
    /\ startPositions \in [Channels -> Position \cup {NilPos}]
    /\ endPositions \in [Channels -> SeekPos \cup {NilPos}]
    /\ timeTickBuf \in Seq(Chunk) /\ sent \in Seq(MsgPack)
    /\ endTs \in Nat
    /\ cpc \in {"none", "cancel", "locking", "done"}
    /\ apc \in {"new", "seek", "ready", "seekErr", "stopped"}
    /\ seekTodo \subseteq Channels /\ seekChan \subseteq Channels
    /\ checkpoint \in [Channels -> SeekPos] /\ base \in [Channels -> SeekPos]
    /\ applied \subseteq Channels \X Nat
    /\ crashes \in 0..MaxCrashes

\* What this incarnation has to deliver of channel c.
Wanted(c) == {o \in DataOf(topic[c]) :
                 o >= base[c].off /\ Msg(c, o).begin > base[c].ts}

\* Every pack holds exactly the messages of all channels between its two ticks,
\* up to copies: nothing that was read is lost when the buffers are cut
\* (bufMsgPackToChannel), and no pack anticipates the next one.
PackContents ==
    \A k \in DOMAIN sent :
        StandsFor(topic, Refs(sent[k].msgs),
                  UNION {{c} \X {o \in Wanted(c) : /\ sent[k].begin < Msg(c, o).end
                                                   /\ Msg(c, o).end <= sent[k].end} :
                            c \in Channels})

\* The packs of a stream follow one another without gap: each begins at the tick
\* and at the positions where the one before it ended, and carries an end position
\* at its own tick for every channel.
PackChain ==
    \A k \in DOMAIN sent :
        /\ sent[k].begin < sent[k].end
        /\ \A c \in Channels : /\ sent[k].endPos[c] # NilPos
                               /\ sent[k].endPos[c].ts = sent[k].end
        /\ k > 1 => /\ sent[k].begin = sent[k - 1].end
                    /\ sent[k].startPos = sent[k - 1].endPos

\* The positions of a pack are resume points: seeking to its EndPositions yields
\* exactly the messages that come after the pack, those held back in tempBuffer
\* included.
ResumeExact ==
    \A k \in DOMAIN sent : \A c \in Channels :
        LET pos == sent[k].endPos[c]
        IN {o \in DataOf(topic[c]) : o >= pos.off /\ Msg(c, o).begin > pos.ts}
              = {o \in Wanted(c) : Msg(c, o).end > sent[k].end}

\* Across restarts, what the program has processed is what lies before its saved
\* positions, each DML message once.
AppliedExact ==
    /\ StandsFor(topic, applied,
                 UNION {{c} \X {o \in DataOf(topic[c]) : Msg(c, o).end <= checkpoint[c].ts} :
                           c \in Channels})
    /\ NoCopies(topic, applied)

\* No message is handed to the program a second time, whether in one run or after
\* a restart.
NoRedelivery ==
    [][recvd' = recvd + 1 => Refs(sent[recvd + 1].msgs) \cap applied = {}]_vars

\* A position is never nil when the next cut clones it as start position.
PositionsSet == \A c \in consumers : chanMsgPos[c] # NilPos

\* Close closes receiveBuf only when no goroutine can send on it any more.
NoSendOnClosed == closed => ~ReadLocked /\ workers = {}

\* A Close that was called returns, whether or not the program still reads.
CloseReturns == cpc # "none" ~> cpc = "done"

\* The ticks all channels carry, past the first one of a channel (which the Seek
\* to FirstPos uses up).
ReachableTicks ==
    {t \in UNION {{Msg(c, o).begin : o \in DOMAIN topic[c]} : c \in Channels} :
        \A c \in Channels : \E i, j \in DOMAIN topic[c] :
            i < j /\ isTimeTick(Msg(c, i)) /\ isTimeTick(Msg(c, j)) /\ Msg(c, j).begin = t}

\* A program that reads gets to every tick all channels carry, however the ticks
\* of the channels are interleaved, unless the stream is closed.
TicksDelivered ==
    apc = "ready" ~> \/ cpc # "none"
                     \/ \A t \in ReachableTicks, c \in Channels : checkpoint[c].ts >= t

\* The stream with its restarts implements the delivery of the log tick by tick:
\* what the program has processed grows by exactly the messages of the next window.
TD == INSTANCE TickDelivery WITH upto <- [c \in Channels |-> checkpoint[c].ts]
Implements == TD!Spec
-------------------------------------------------------------------------------
(* The invariant behind these properties, in the parts its proof needs. *)

\* Control: who runs when and who holds which lock.
ControlInv ==
    /\ token => consumers # {}
    /\ gpc \in {"loop", "cont", "lock", "wait", "merge", "send", "stamp"} => consumers # {}
    /\ workers # {} => gpc = "wait"
    /\ toMerge # {} => gpc = "merge"
    /\ consumerLock = "stream" <=> gpc \in {"wait", "merge"}
    /\ consumerLock = "program" <=> apc = "seek"
    /\ apc = "seek" => gpc = "off"
    /\ closed => gpc \in {"off", "start", "exit"}

\* The messages of channel c this incarnation still has to read.
Unread(c) == {o \in DOMAIN topic[c] : o > cursor[c]}

\* One channel of a stream that reads: its buffer holds exactly the wanted messages
\* between its position and its cursor, whatever is unread is younger than the
\* position and than the last tick, and the tick ahead of the position is buffered.
ChannelInv(c) ==
    /\ base[c].off <= cursor[c] + 1
    /\ chanMsgPos[c] # NilPos /\ chanMsgPos[c].ts >= base[c].ts
    /\ chanMsgBuf[c] \ ttMsgs(c) =
          {o \in Wanted(c) : o <= cursor[c] /\ Msg(c, o).end > chanMsgPos[c].ts}
    /\ \A o \in Unread(c) :
          /\ isData(Msg(c, o)) => Msg(c, o).begin > chanTtMsgTime[c]
          /\ isTimeTick(Msg(c, o)) => Msg(c, o).begin >= chanTtMsgTime[c]
          /\ c \notin seekChan =>
                /\ isData(Msg(c, o)) => Msg(c, o).begin > chanMsgPos[c].ts
                /\ isTimeTick(Msg(c, o)) => Msg(c, o).begin >= chanMsgPos[c].ts
    /\ chanTtMsgTime[c] = 0 \/ chanTtMsgTime[c] >= chanMsgPos[c].ts
    /\ chanTtMsgTime[c] > chanMsgPos[c].ts => ttMsgs(c) # {}

\* Start-up in the documented order: subscribe, seek, then read.
StartInv ==
    /\ apc \in {"new", "seek", "seekErr"} => gpc = "off"
    /\ apc \in {"seek", "ready", "stopped"} => consumers = Channels
    /\ gpc # "off" => seekChan = {}
    /\ \A c, d \in seekChan : c = d
    /\ apc \in {"new", "ready"} => seekChan = {}
    /\ gpc = "off" => lastTimeStamp = 0 /\ endTs = 0
    /\ apc = "new" => \A c \in Channels : cursor[c] = 0 /\ base[c] = FirstPos
    /\ apc \in {"new", "seek"} =>
          \A c \in consumers : chanMsgPos[c].ts = base[c].ts /\ chanTtMsgTime[c] = 0

\* The cut in progress is made at the last tick of every channel, which is where
\* the channels already cut, and those with nothing to cut, have their position.
CutInv ==
    gpc = "merge" =>
        /\ endTs > 0
        /\ \A c \in consumers : chanTtMsgTime[c] = endTs
        /\ \A c \in toMerge : chanMsgBuf[c] # {}
        /\ \A c \in consumers \ toMerge : chanMsgPos[c].ts = endTs

ReaderInv == StartInv /\ CutInv /\ \A c \in consumers : ChannelInv(c)

\* A tick of channel c.
TickOf(c, t) == \E i \in DOMAIN topic[c] : isTimeTick(Msg(c, i)) /\ Msg(c, i).begin = t

\* A buffer begins at or behind the base of its channel, and the last tick of a
\* channel is one of its log.
MarkInv ==
    \A c \in consumers : /\ \A o \in chanMsgBuf[c] : o >= base[c].off
                         /\ chanTtMsgTime[c] > 0 => TickOf(c, chanTtMsgTime[c])

LastPack == sent[Len(sent)]

\* pos is where the pack being gathered starts in channel c: the end of the pack
\* before it, or the position that was sought.
Begins(c, pos) == IF sent = <<>> THEN pos.ts = base[c].ts ELSE pos = LastPack.endPos[c]

\* What the pack being gathered holds of channel c.
Gathered(c) ==
    {o \in Wanted(c) : lastTimeStamp < Msg(c, o).end /\ Msg(c, o).end <= chanMsgPos[c].ts}

\* Channel c has been cut for the pack being gathered, or not yet.
Touched(c)   == /\ startPositions[c] # NilPos /\ Begins(c, startPositions[c])
                /\ endPositions[c] = chanMsgPos[c]
Untouched(c) == /\ startPositions[c] = NilPos /\ endPositions[c] = NilPos
                /\ Begins(c, chanMsgPos[c])

\* From the start of a pack to its send: it holds what lies between the end of the
\* pack before it and the cut of each channel, and all channels are cut at one tick.
GatherInv ==
    gpc \in {"cont", "lock", "wait", "merge", "send"} =>
        /\ Refs(timeTickBuf) = UNION {{c} \X Gathered(c) : c \in Channels}
        /\ \A c \in Channels : /\ chanMsgPos[c].ts >= lastTimeStamp
                               /\ Untouched(c) \/ Touched(c)
                               /\ c \notin toMerge /\ endTs > 0 =>
                                     Touched(c) /\ chanMsgPos[c].ts = endTs
                               /\ endTs > 0 => TickOf(c, endTs)
                               /\ endTs = 0 => Untouched(c)
        /\ endTs > 0 => endTs > lastTimeStamp
        /\ gpc = "send" => endTs > 0

\* Between two packs, and before the first.
PhaseInv ==
    /\ sent = <<>> => lastTimeStamp = 0
    /\ sent # <<>> /\ gpc # "stamp" => lastTimeStamp = LastPack.end
    /\ gpc \in {"off", "start", "sync"} => sent = <<>>
    /\ gpc \in {"off", "start", "sync", "loop"} =>
          /\ \A c \in consumers : Begins(c, chanMsgPos[c])
          /\ sent = <<>> => \A c \in Channels : endPositions[c] = NilPos
    /\ gpc = "stamp" => /\ sent # <<>> /\ LastPack.end = endTs
                        /\ \A c \in consumers : chanMsgPos[c] = LastPack.endPos[c]

\* Before its first cut a channel still holds a tick it has read.
FreshInv ==
    \A c \in consumers :
        sent = <<>> /\ endPositions[c] = NilPos /\ chanTtMsgTime[c] > 0 => ttMsgs(c) # {}

\* The packs sent so far.
PacksInv ==
    /\ PackChain /\ PackContents
    /\ \A k \in DOMAIN sent :
          /\ k = 1 => sent[k].begin = 0
          /\ \A c \in Channels : TickOf(c, sent[k].end) /\ sent[k].end >= base[c].ts
          /\ NoCopies(topic, Refs(sent[k].msgs))

DeliveryInv == MarkInv /\ GatherInv /\ PhaseInv /\ FreshInv /\ PacksInv

\* What a Seek to pos reads of channel c.
ResumesAt(c, pos) == {o \in DataOf(topic[c]) : o >= pos.off /\ Msg(c, o).begin > pos.ts}

\* It reads the messages after the tick of pos, all of them and no others.
ExactPoint(log, pos) ==
    {o \in DataOf(log) : o >= pos.off /\ log[o].begin > pos.ts}
        = {o \in DataOf(log) : log[o].end > pos.ts}

\* The end positions gathered for the next pack are resume points already.
PointsInv ==
    /\ \A c \in Channels : endPositions[c] # NilPos =>
          ResumesAt(c, endPositions[c]) = {o \in Wanted(c) : Msg(c, o).end > endPositions[c].ts}
    /\ ResumeExact

\* The saved positions are resume points at one tick, and where this incarnation
\* started, until it has taken a pack.
SavedInv ==
    /\ \A c \in Channels : ExactPoint(topic[c], checkpoint[c]) /\ ExactPoint(topic[c], base[c])
    /\ \A c, d \in Channels : checkpoint[c].ts = checkpoint[d].ts
    /\ apc \in {"new", "seek", "seekErr"} => recvd = 0
    /\ crashes = 0 /\ recvd = 0 => \A c \in Channels : checkpoint[c] = FirstPos
    /\ apc = "seek" => \A c \in Channels \ seekTodo : base[c] = checkpoint[c]
    /\ apc \in {"ready", "stopped"} /\ recvd = 0 => base = checkpoint
    /\ recvd > 0 => checkpoint = sent[recvd].endPos

\* The invariant of packs, positions and restarts: what bufMsgPackToChannel gathers is
\* a gapless run of windows cut at ticks, the positions it hands out and the program
\* saves are resume points, and a restart begins at the saved ones.
StreamInv == DeliveryInv /\ PointsInv /\ SavedInv
-------------------------------------------------------------------------------
(* For TLC: two channels with short logs that the producers may write.  They     *)
(* differ in what makes cutting hard: data ahead of the tick before it, copies,  *)
(* ticks only one channel has, repeated ticks, rows of several timestamps,       *)
(* unreadable messages.                                                          *)

TT(t) == [type |-> "TimeTick", id |-> 0, begin |-> t, end |-> t, size |-> 1]
DML(type, id, t) == [type |-> type, id |-> id, begin |-> t, end |-> t, size |-> 1]
Ins(id, t) == DML("Insert", id, t)
Del(id, t) == DML("Delete", id, t)
Drop(id, t) == DML("DropCollection", id, t)
Rows(id, b, e) == [type |-> "Insert", id |-> id, begin |-> b, end |-> e, size |-> 1]
Bad == [type |-> "Bad", id |-> 0, begin |-> 0, end |-> 0, size |-> 0]

LogsA == {
    <<Ins(1, 2), TT(1), Ins(2, 2), TT(2), TT(3)>>,
    <<TT(1), Ins(1, 3), Ins(2, 2), TT(2), Ins(1, 3), TT(3)>>,
    <<TT(1), TT(1), Ins(1, 2), TT(2), Del(2, 3), TT(3)>>,
    <<TT(1), Rows(2, 2, 3), TT(3)>>}
LogsB == {
    <<TT(1), Del(3, 2), TT(2), Drop(4, 3), TT(3)>>,
    <<Ins(3, 1), TT(1), Del(4, 3), TT(3)>>,
    <<Ins(3, 3), TT(1), Bad, TT(2), Ins(1, 3), TT(3)>>}

\* Every log of up to four messages of this pool that the producers may write and
\* that ends with a tick.
Pool == {TT(1), TT(2), TT(3), Ins(3, 1), Del(4, 2), Ins(1, 3)}
ShortLogs == {l \in UNION {[1..n -> Pool] : n \in 2..4} :
                 isTimeTick(l[Len(l)]) /\ TickPromise(l)}

TopicsOf(X, Y) ==
    {t \in {[c \in Channels |-> IF c = "a" THEN x ELSE y] : x \in X, y \in Y} : CopiesAgree(t)}

MCTopics == TopicsOf(LogsA, LogsB \cup ShortLogs)
MCFewTopics == TopicsOf(LogsA, LogsB)

\* A message whose rows lie on both sides of a tick.
SpanLogs == {<<TT(1), Rows(1, 2, 3), TT(2), TT(3)>>, <<TT(1), Rows(1, 2, 3), TT(1), TT(2), TT(3)>>}
MCSpanTopics == TopicsOf(SpanLogs, LogsB)
===============================================================================
