--------------------------- MODULE TtDeliveryProofs ---------------------------
(***************************************************************************)
(* What the packs of a tick stream hold, that they chain, and that the      *)
(* positions they carry are exact resume points, also across restarts: the  *)
(* stream implements TickDelivery.  For every set of channels, every log    *)
(* that keeps the producers' promise and every setting of the constants     *)
(* other than EarlyChan; where a restart is involved, for streams that      *)
(* refuse a bad position, and logs in which no message has rows on both     *)
(* sides of a tick of its channel.                                         *)
(***************************************************************************)
EXTENDS TtMsgStreamProofs

-------------------------------------------------------------------------------
(* Runs of chunks, and the messages they refer to. *)

\* A message of a run is one of some chunk.
LEMMA RefsMember ==
    ASSUME NEW msgs, NEW c, NEW o
    PROVE  <<c, o>> \in Refs(msgs) <=> \E k \in DOMAIN msgs : msgs[k].chan = c /\ o \in msgs[k].offs
  BY DEF Refs

\* Appending a chunk adds its messages.
LEMMA RefsAppend ==
    ASSUME NEW msgs \in Seq(Chunk), NEW chunk \in Chunk, NEW c, NEW o
    PROVE  <<c, o>> \in Refs(Append(msgs, chunk)) <=>
              <<c, o>> \in Refs(msgs) \/ (chunk.chan = c /\ o \in chunk.offs)
  <1> DEFINE new == Append(msgs, chunk)
  <1>1. /\ DOMAIN new = DOMAIN msgs \cup {Len(msgs) + 1} /\ new[Len(msgs) + 1] = chunk
        /\ \A k \in DOMAIN msgs : new[k] = msgs[k]
    OBVIOUS
  <1>2. <<c, o>> \in Refs(new) <=> \E k \in DOMAIN new : new[k].chan = c /\ o \in new[k].offs
    BY RefsMember
  <1>3. <<c, o>> \in Refs(msgs) <=> \E k \in DOMAIN msgs : msgs[k].chan = c /\ o \in msgs[k].offs
    BY RefsMember
  <1> QED
    <2> HIDE DEF new
    <2>1. <<c, o>> \in Refs(new) <=> <<c, o>> \in Refs(msgs) \/ (chunk.chan = c /\ o \in chunk.offs)
      BY <1>1, <1>2, <1>3
    <2> QED
      BY <2>1 DEF new

\* A message that is referred to is one of a channel.
LEMMA RefsPairs ==
    ASSUME NEW msgs \in Seq(Chunk), NEW r \in Refs(msgs)
    PROVE  \E c \in Channels, o \in Nat : r = <<c, o>>
  BY RefsType

\* Dropping copies drops messages only.
LEMMA UniqueMember ==
    ASSUME NEW msgs \in Seq(Chunk), NEW c, NEW o
    PROVE  <<c, o>> \in Refs(uniqueMsgs(msgs)) <=>
              \E k \in DOMAIN msgs : /\ msgs[k].chan = c /\ o \in msgs[k].offs
                                     /\ ~Duplicated(msgs, k, o)
  <1> DEFINE new == uniqueMsgs(msgs)
  <1>1. DOMAIN new = DOMAIN msgs
    BY DEF uniqueMsgs
  <1>2. \A k \in DOMAIN msgs : /\ new[k].chan = msgs[k].chan
                               /\ new[k].offs = {p \in msgs[k].offs : ~Duplicated(msgs, k, p)}
    BY DEF uniqueMsgs
  <1>3. <<c, o>> \in Refs(new) <=> \E k \in DOMAIN new : new[k].chan = c /\ o \in new[k].offs
    BY RefsMember
  <1> QED
    <2> HIDE DEF new
    <2>1. <<c, o>> \in Refs(new) <=>
             \E k \in DOMAIN msgs : msgs[k].chan = c /\ o \in msgs[k].offs /\ ~Duplicated(msgs, k, o)
      BY <1>1, <1>2, <1>3
    <2> QED
      BY <2>1 DEF new

\* The first message of an id in a run is not dropped.
LEMMA FirstKept ==
    ASSUME NEW msgs \in Seq(Chunk), NEW k \in DOMAIN msgs, NEW o \in msgs[k].offs
    PROVE  \E j \in DOMAIN msgs, p \in Nat :
              /\ p \in msgs[j].offs /\ ~Duplicated(msgs, j, p)
              /\ Msg(msgs[j].chan, p).id = Msg(msgs[k].chan, o).id
  <1> DEFINE id == Msg(msgs[k].chan, o).id
             has(j) == {p \in msgs[j].offs : Msg(msgs[j].chan, p).id = id}
             K == {j \in DOMAIN msgs : has(j) # {}}
  <1>1. \A j \in DOMAIN msgs : msgs[j].offs \subseteq Nat
    <2>1. \A j \in DOMAIN msgs : msgs[j] \in Chunk
      OBVIOUS
    <2> QED
      BY <2>1 DEF Chunk
  <1>2. K \subseteq Nat /\ K # {}
    OBVIOUS
  <1>3. PICK j0 \in K : \A j \in K : j0 <= j
    BY <1>2, MinProperty
  <1>4. has(j0) \subseteq Nat /\ has(j0) # {}
    BY <1>1, <1>3
  <1>5. PICK p0 \in has(j0) : \A p \in has(j0) : p0 <= p
    <2> HIDE DEF has
    <2> QED
      BY <1>4, MinProperty
  <1>6. /\ j0 \in DOMAIN msgs /\ p0 \in msgs[j0].offs /\ Msg(msgs[j0].chan, p0).id = id
        /\ p0 \in Nat /\ j0 \in Nat
    BY <1>3, <1>4, <1>5
  <1>7. ASSUME NEW j \in 1..j0, NEW p \in msgs[j].offs, j < j0 \/ p < p0,
               Msg(msgs[j].chan, p).id = id
        PROVE  FALSE
    <2>1. j \in DOMAIN msgs /\ j \in Nat /\ p \in Nat
      <3>1. j \in DOMAIN msgs
        BY <1>6
      <3> QED
        BY <1>1, <3>1
    <2>2. p \in has(j) /\ j \in K
      BY <1>7, <2>1
    <2>3. j = j0
      BY <1>3, <1>6, <2>1, <2>2
    <2>4. p0 <= p /\ p < p0
      BY <1>5, <1>7, <2>1, <2>2, <2>3
    <2> QED
      BY <1>6, <2>1, <2>4
  <1>8. ~Duplicated(msgs, j0, p0)
    <2> HIDE DEF id, has, K
    <2> QED
      BY <1>6, <1>7 DEF Duplicated
  <1> HIDE DEF has, K
  <1> QED
    BY <1>6, <1>8

\* A pack without its copies stands for what was gathered.
LEMMA UniqueStandsFor ==
    ASSUME NEW msgs \in Seq(Chunk)
    PROVE  StandsFor(topic, Refs(uniqueMsgs(msgs)), Refs(msgs))
  <1> DEFINE D == Refs(uniqueMsgs(msgs))
             S == Refs(msgs)
  <1>1. ASSUME NEW r \in D PROVE r \in S
    <2>1. PICK c \in Channels, o \in Nat : r = <<c, o>>
      BY UniqueMsgsType, RefsPairs
    <2> QED
      BY <2>1, UniqueMember, RefsMember
  <1>2. ASSUME NEW r \in S, r \notin D
        PROVE  isDMLMsg(topic[r[1]][r[2]]) /\ \E d \in D : topic[d[1]][d[2]].id = topic[r[1]][r[2]].id
    <2>1. PICK c \in Channels, o \in Nat : r = <<c, o>>
      BY RefsPairs
    <2>2. PICK k \in DOMAIN msgs : msgs[k].chan = c /\ o \in msgs[k].offs
      BY <2>1, RefsMember
    <2>3. Duplicated(msgs, k, o)
      BY <1>2, <2>1, <2>2, UniqueMember
    <2>4. isDMLMsg(Msg(c, o))
      BY <2>2, <2>3 DEF Duplicated
    <2>5. PICK j \in DOMAIN msgs, p \in Nat :
              /\ p \in msgs[j].offs /\ ~Duplicated(msgs, j, p)
              /\ Msg(msgs[j].chan, p).id = Msg(c, o).id
      BY <2>2, FirstKept
    <2>6. <<msgs[j].chan, p>> \in D
      BY <2>5, UniqueMember
    <2> QED
      BY <2>1, <2>4, <2>5, <2>6 DEF Msg
  <1> HIDE DEF D, S
  <1> QED
    BY <1>1, <1>2 DEF StandsFor, D, S

\* ... and holds a DML message once.
LEMMA UniqueNoCopies ==
    ASSUME NEW msgs \in Seq(Chunk), CopiesAgree(topic),
           \A c, o : <<c, o>> \in Refs(msgs) => c \in Channels /\ o \in DataOf(topic[c])
    PROVE  NoCopies(topic, Refs(uniqueMsgs(msgs)))
  <1> DEFINE D == Refs(uniqueMsgs(msgs))
  <1> SUFFICES ASSUME NEW r \in D, NEW s \in D, isDMLMsg(topic[r[1]][r[2]]),
                      topic[r[1]][r[2]].id = topic[s[1]][s[2]].id
               PROVE  r = s
    BY DEF NoCopies
  <1>1. PICK c \in Channels, o \in Nat : r = <<c, o>>
    BY UniqueMsgsType, RefsPairs
  <1>2. PICK d \in Channels, p \in Nat : s = <<d, p>>
    BY UniqueMsgsType, RefsPairs
  <1>3. PICK k \in DOMAIN msgs : msgs[k].chan = c /\ o \in msgs[k].offs /\ ~Duplicated(msgs, k, o)
    BY <1>1, UniqueMember
  <1>4. PICK j \in DOMAIN msgs : msgs[j].chan = d /\ p \in msgs[j].offs /\ ~Duplicated(msgs, j, p)
    BY <1>2, UniqueMember
  <1>5. o \in DataOf(topic[c]) /\ p \in DataOf(topic[d])
    BY <1>3, <1>4, RefsMember
  <1>6. /\ isDMLMsg(Msg(c, o)) /\ isDMLMsg(Msg(d, p)) /\ Msg(c, o).id = Msg(d, p).id
    <2>1. isDMLMsg(Msg(c, o)) /\ Msg(c, o).id = Msg(d, p).id
      BY <1>1, <1>2 DEF Msg
    <2>2. Msg(c, o).type = Msg(d, p).type
      BY <1>5, <2>1 DEF CopiesAgree, Msg
    <2> QED
      BY <2>1, <2>2 DEF isDMLMsg
  <1>7. k \in Nat /\ j \in Nat /\ k \in 1..k /\ j \in 1..j
    OBVIOUS
  <1>8. ~(j \in 1..k /\ (j < k \/ p < o))
    BY <1>3, <1>4, <1>6 DEF Duplicated
  <1>9. ~(k \in 1..j /\ (k < j \/ o < p))
    BY <1>3, <1>4, <1>6 DEF Duplicated
  <1>10. j = k
    BY <1>7, <1>8, <1>9
  <1>11. o = p
    BY <1>7, <1>8, <1>9, <1>10
  <1> QED
    BY <1>1, <1>2, <1>3, <1>4, <1>10, <1>11
-------------------------------------------------------------------------------
(* Marks of the channels. *)


\* A step that leaves the marks of a channel alone keeps them.
LEMMA MarkFrame ==
    ASSUME NEW c \in Channels, topic' = topic, base'[c] = base[c],
           chanMsgBuf'[c] \subseteq chanMsgBuf[c], chanTtMsgTime'[c] = chanTtMsgTime[c],
           \A o \in chanMsgBuf[c] : o >= base[c].off,
           chanTtMsgTime[c] > 0 => TickOf(c, chanTtMsgTime[c])
    PROVE  /\ \A o \in chanMsgBuf'[c] : o >= base'[c].off
           /\ chanTtMsgTime'[c] > 0 => TickOf(c, chanTtMsgTime[c])'
  <1>1. \A t : TickOf(c, t) => \E i \in DOMAIN topic'[c] : isTimeTick(topic'[c][i]) /\ topic'[c][i].begin = t
    BY DEF TickOf, Msg
  <1>2. TickOf(c, chanTtMsgTime[c])' <=>
           \E i \in DOMAIN topic'[c] : isTimeTick(topic'[c][i]) /\ topic'[c][i].begin = chanTtMsgTime'[c]
    BY DEF TickOf, Msg
  <1> QED
    BY <1>1, <1>2

\* Every step keeps the marks.
LEMMA MarkStep == ReaderHyp /\ MarkInv /\ [Next]_vars => MarkInv'
  <1> SUFFICES ASSUME ReaderHyp, MarkInv, [Next]_vars, NEW c \in consumers'
               PROVE  /\ \A o \in chanMsgBuf'[c] : o >= base'[c].off
                      /\ chanTtMsgTime'[c] > 0 => TickOf(c, chanTtMsgTime[c])'
    BY DEF MarkInv
  <1> DEFINE Idle == UNCHANGED <<topic, consumers, chanMsgBuf, chanTtMsgTime, base>>
  <1>a. TypeInv /\ TypeOK /\ StartInv /\ CutInv
    BY DEF ReaderHyp, ReaderInv, TypeInv
  <1>b. \A d \in consumers : /\ ChannelInv(d) /\ d \in Channels
                             /\ \A o \in chanMsgBuf[d] : o >= base[d].off
                             /\ chanTtMsgTime[d] > 0 => TickOf(d, chanTtMsgTime[d])
    BY <1>a DEF ReaderHyp, ReaderInv, TypeOK, MarkInv
  <1>1. CASE \E d \in Channels : AsConsumer(d) \/ SeekChannel(d)
    <2> PICK d \in Channels : AsConsumer(d) \/ SeekChannel(d)
      BY <1>1
    <2>1. /\ consumers' = consumers \cup {d} /\ topic' = topic
          /\ chanMsgBuf' = [chanMsgBuf EXCEPT ![d] = {}]
          /\ chanTtMsgTime' = [chanTtMsgTime EXCEPT ![d] = 0]
      BY DEF AsConsumer, SeekChannel, addConsumer
    <2>2. CASE c = d
      BY <1>a, <2>1, <2>2 DEF TypeOK
    <2>3. CASE c # d
      <3>1. c \in consumers /\ chanMsgBuf'[c] = chanMsgBuf[c] /\ chanTtMsgTime'[c] = chanTtMsgTime[c]
        BY <1>a, <1>b, <2>1, <2>3 DEF TypeOK
      <3>2. base'[c] = base[c]
        BY <1>a, <1>b, <2>3, <3>1 DEF AsConsumer, SeekChannel, seekVars, TypeOK
      <3> QED
        BY <1>b, <2>1, <3>1, <3>2, MarkFrame
    <2> QED
      BY <2>2, <2>3
  <1>2. CASE \E d \in Channels : SeekMsg(d) \/ ConsumeMsg(d)
    <2> PICK d \in Channels : SeekMsg(d) \/ ConsumeMsg(d)
      BY <1>2
    <2> DEFINE o == cursor[d] + 1
    <2>1. consumers' = consumers /\ topic' = topic /\ base' = base /\ cursor[d] < Len(topic[d])
      BY DEF SeekMsg, ConsumeMsg, seekVars
    <2>2. /\ \/ chanMsgBuf' = chanMsgBuf
             \/ chanMsgBuf' = [chanMsgBuf EXCEPT ![d] = chanMsgBuf[d] \cup {o}]
          /\ \/ chanTtMsgTime' = chanTtMsgTime
             \/ isTimeTick(Msg(d, o)) /\ chanTtMsgTime' = [chanTtMsgTime EXCEPT ![d] = Msg(d, o).begin]
      BY DEF SeekMsg, ConsumeMsg
    <2>3. c \in consumers /\ d \in consumers
      BY <1>a, <2>1 DEF SeekMsg, ConsumeMsg, StartInv, TypeOK
    <2>4. CASE c # d
      BY <1>a, <1>b, <2>1, <2>2, <2>3, <2>4, MarkFrame DEF TypeOK
    <2>5. CASE c = d
      <3>1. base[c].off <= o /\ o \in DOMAIN topic[c]
        BY <1>a, <1>b, <2>1, <2>3, <2>5, LogFacts DEF ChannelInv, TypeOK
      <3>2. chanMsgBuf'[c] \subseteq chanMsgBuf[c] \cup {o}
        BY <1>a, <2>2, <2>5 DEF TypeOK
      <3>3. \A x \in chanMsgBuf'[c] : x >= base'[c].off
        BY <1>b, <2>1, <2>3, <3>1, <3>2
      <3>4. TickOf(c, chanTtMsgTime[c])' <=>
               \E i \in DOMAIN topic[c] : isTimeTick(Msg(c, i)) /\ Msg(c, i).begin = chanTtMsgTime'[c]
        BY <2>1 DEF TickOf, Msg
      <3>5. chanTtMsgTime'[c] = chanTtMsgTime[c]
            \/ (isTimeTick(Msg(c, o)) /\ Msg(c, o).begin = chanTtMsgTime'[c])
        BY <1>a, <2>2, <2>5 DEF TypeOK
      <3>6. chanTtMsgTime'[c] > 0 => TickOf(c, chanTtMsgTime[c])'
        BY <1>b, <2>3, <3>1, <3>4, <3>5 DEF TickOf
      <3> QED
        BY <3>3, <3>6
    <2> QED
      BY <2>4, <2>5
  <1>3. CASE \E d \in Channels : BufMerge(d)
    <2> PICK d \in Channels : BufMerge(d)
      BY <1>3
    <2>1. /\ consumers' = consumers /\ topic' = topic /\ base' = base
          /\ chanTtMsgTime' = chanTtMsgTime
          /\ chanMsgBuf' = [chanMsgBuf EXCEPT ![d] = tempBuffer(d)]
      BY DEF BufMerge, seekVars
    <2>2. tempBuffer(d) \subseteq chanMsgBuf[d]
      BY DEF tempBuffer
    <2>3. c \in consumers /\ chanMsgBuf'[c] \subseteq chanMsgBuf[c]
      BY <1>a, <1>b, <2>1, <2>2 DEF TypeOK
    <2> QED
      BY <1>b, <2>1, <2>3, MarkFrame
  <1>4. CASE Crash
    BY <1>4 DEF Crash
  <1>5. CASE Idle
    BY <1>b, <1>5, MarkFrame
  <1>6. \/ Subscribed \/ SeekReturn \/ Chan \/ Receive \/ ReceiveClosed \/ BufStart
        \/ BufSync \/ BufLoop \/ BufContinue \/ BufRound \/ BufTick \/ BufMerged
        \/ BufSend \/ BufStamp \/ CloseSync \/ CloseCancel \/ CloseLocked \/ Terminated
        \/ (\E d \in Channels : ConsumeStop(d)) \/ UNCHANGED vars
        => Idle
    BY DEF Subscribed, SeekReturn, Chan, Receive, ReceiveClosed, BufStart, BufSync, BufLoop,
       BufContinue, BufRound, BufTick, BufMerged, BufSend, BufStamp, CloseSync, CloseCancel,
       CloseLocked, Terminated, ConsumeStop, vars, streamVars, seekVars
  <1> QED
    BY <1>1, <1>2, <1>3, <1>4, <1>5, <1>6
    DEF Next, Program, bufMsgPackToChannel, consumeToTtMsg, Close
-------------------------------------------------------------------------------
(* Packs: what a step that does not gather leaves alone. *)

packVars == <<topic, consumers, base, chanMsgPos, lastTimeStamp, sent, startPositions,
              endPositions, timeTickBuf, endTs>>

\* Where the packs, the positions and the buffer of the pack stay, so does what is
\* said of them.
LEMMA PackFrame ==
    ASSUME UNCHANGED packVars
    PROVE  /\ LastPack' = LastPack /\ Refs(timeTickBuf)' = Refs(timeTickBuf)
           /\ \A c : /\ Gathered(c)' = Gathered(c) /\ Wanted(c)' = Wanted(c)
                     /\ Touched(c)' <=> Touched(c)
                     /\ Untouched(c)' <=> Untouched(c)
                     /\ Begins(c, chanMsgPos[c])' <=> Begins(c, chanMsgPos[c])
                     /\ TickOf(c, endTs)' <=> TickOf(c, endTs)
           /\ PacksInv' <=> PacksInv
  <1> USE DEF packVars
  <1>1. LastPack' = LastPack /\ Refs(timeTickBuf)' = Refs(timeTickBuf)
    BY DEF LastPack
  <1>2. \A c : Wanted(c)' = Wanted(c) /\ Gathered(c)' = Gathered(c)
    BY DEF Wanted, Gathered, Msg
  <1>3. \A c, t : TickOf(c, t) <=> \E i \in DOMAIN topic'[c] : isTimeTick(topic'[c][i]) /\ topic'[c][i].begin = t
    BY DEF TickOf, Msg
  <1>4. \A c : /\ Touched(c)' <=> Touched(c)
               /\ Untouched(c)' <=> Untouched(c)
               /\ Begins(c, chanMsgPos[c])' <=> Begins(c, chanMsgPos[c])
    BY <1>1 DEF Touched, Untouched, Begins
  <1>5. \A c : TickOf(c, endTs)' <=> TickOf(c, endTs)
    BY DEF TickOf, Msg
  <1>6. PackContents' <=> PackContents
    BY <1>2 DEF PackContents, StandsFor, Msg
  <1>7. PackChain' <=> PackChain
    BY DEF PackChain
  <1>8. PacksInv' <=> PacksInv
    BY <1>6, <1>7 DEF PacksInv, TickOf, Msg, NoCopies, Refs
  <1> QED
    BY <1>1, <1>2, <1>4, <1>5, <1>8

\* The moves of bufMsgPackToChannel in such a step.
QuietMove ==
    \/ gpc' = gpc /\ toMerge' = toMerge
    \/ gpc \in {"off", "start", "sync"} /\ gpc' \in {"start", "sync", "loop"}
    \/ gpc # "stamp" /\ gpc' = "exit"
    \/ gpc = "cont" /\ gpc' = "lock" /\ toMerge' = toMerge
    \/ gpc = "cont" /\ gpc' = "send" /\ endTs > 0 /\ toMerge' = toMerge
    \/ gpc = "cont" /\ gpc' = "loop" /\ endTs = 0
    \/ gpc = "lock" /\ gpc' = "wait" /\ toMerge' = toMerge
    \/ gpc = "wait" /\ gpc' = "cont" /\ toMerge' = toMerge
    \/ gpc = "merge" /\ gpc' = "cont" /\ toMerge = {} /\ toMerge' = {}

QuietStep == UNCHANGED packVars /\ QuietMove

\* Such a step keeps what is known between two packs ...
LEMMA QuietPhase ==
    ASSUME ReaderHyp, GatherInv, PhaseInv, QuietStep
    PROVE  PhaseInv'
  <1>1. UNCHANGED packVars /\ QuietMove
    BY DEF QuietStep
  <1>2. /\ LastPack' = LastPack
        /\ \A c : Begins(c, chanMsgPos[c])' <=> Begins(c, chanMsgPos[c])
    BY <1>1, PackFrame
  <1>3. UNCHANGED <<consumers, chanMsgPos, lastTimeStamp, sent, endPositions, endTs>>
    BY <1>1 DEF packVars
  <1>4. /\ gpc' = "stamp" <=> gpc = "stamp"
        /\ gpc' \in {"off", "start", "sync"} => gpc \in {"off", "start", "sync"}
        /\ gpc' = "loop" => gpc \in {"off", "start", "sync", "loop"} \/ (gpc = "cont" /\ endTs = 0)
    BY <1>1 DEF QuietMove
  <1>5. gpc = "cont" /\ endTs = 0 => \A c \in Channels : /\ endPositions[c] = NilPos
                                                         /\ Begins(c, chanMsgPos[c])
    BY DEF GatherInv, Untouched
  <1>6. consumers \subseteq Channels
    BY DEF ReaderHyp, TypeInv, TypeOK
  <1>7. gpc' \in {"off", "start", "sync", "loop"} =>
          /\ \A c \in consumers' : Begins(c, chanMsgPos[c])'
          /\ sent' = <<>> => \A c \in Channels : endPositions'[c] = NilPos
    BY <1>2, <1>3, <1>4, <1>5, <1>6 DEF PhaseInv
  <1> QED
    BY <1>2, <1>3, <1>4, <1>7 DEF PhaseInv

\* ... and what is known of the pack being gathered.
LEMMA QuietGather ==
    ASSUME ReaderHyp, GatherInv, QuietStep
    PROVE  GatherInv'
  <1>1. UNCHANGED packVars /\ QuietMove
    BY DEF QuietStep
  <1>2. /\ Refs(timeTickBuf)' = Refs(timeTickBuf)
        /\ \A c : /\ Gathered(c)' = Gathered(c)
                  /\ Touched(c)' <=> Touched(c)
                  /\ Untouched(c)' <=> Untouched(c)
                  /\ TickOf(c, endTs)' <=> TickOf(c, endTs)
    BY <1>1, PackFrame
  <1>3. UNCHANGED <<chanMsgPos, lastTimeStamp, endTs>>
    BY <1>1 DEF packVars
  <1>4. gpc' \in {"cont", "lock", "wait", "merge", "send"} =>
          /\ gpc \in {"cont", "lock", "wait", "merge", "send"} /\ toMerge' = toMerge
          /\ gpc' = "send" => gpc = "send" \/ endTs > 0
    BY <1>1 DEF QuietMove
  <1> QED
    BY <1>2, <1>3, <1>4 DEF GatherInv

\* The steps that leave the packs and the positions alone.
LEMMA QuietSteps ==
    ASSUME ReaderHyp,
           \/ \E c \in Channels : SeekMsg(c) \/ ConsumeMsg(c) \/ ConsumeStop(c)
           \/ Subscribed \/ SeekReturn \/ Chan \/ Receive \/ ReceiveClosed
           \/ BufStart \/ BufSync \/ BufContinue \/ BufRound \/ BufMerged
           \/ (BufLoop /\ gpc' = "exit") \/ (BufTick /\ gpc' = "cont")
           \/ (BufSend /\ gpc' = "exit")
           \/ CloseSync \/ CloseCancel \/ CloseLocked \/ Terminated \/ UNCHANGED vars
    PROVE  QuietStep
  <1> USE DEF QuietStep, QuietMove, packVars, streamVars, localVars, seekVars
  <1>0. endTs \in Nat /\ gpc # "merge" => toMerge = {}
    BY DEF ReaderHyp, TypeInv, TypeOK, ControlInv
  <1>1. CASE \E c \in Channels : SeekMsg(c) \/ ConsumeMsg(c) \/ ConsumeStop(c)
    BY <1>1 DEF SeekMsg, ConsumeMsg, ConsumeStop
  <1>2. CASE Subscribed \/ SeekReturn \/ Receive \/ ReceiveClosed
    BY <1>2 DEF Subscribed, SeekReturn, Receive, ReceiveClosed
  <1>3. CASE Chan \/ BufStart \/ BufSync
    BY <1>3 DEF Chan, BufStart, BufSync
  <1>4. CASE BufContinue
    <2>1. endTs = 0 \/ endTs > 0
      BY DEF ReaderHyp, TypeInv, TypeOK
    <2> QED
      BY <1>4, <2>1 DEF BufContinue
  <1>5. CASE BufRound \/ BufMerged
    BY <1>5 DEF BufRound, BufMerged
  <1>6. CASE BufLoop /\ gpc' = "exit"
    BY <1>6 DEF BufLoop
  <1>7. CASE BufTick /\ gpc' = "cont"
    BY <1>7 DEF BufTick
  <1>8. CASE BufSend /\ gpc' = "exit"
    BY <1>8 DEF BufSend
  <1>9. CASE CloseSync \/ CloseCancel \/ CloseLocked
    BY <1>9 DEF CloseSync, CloseCancel, CloseLocked
  <1>10. CASE Terminated \/ UNCHANGED vars
    BY <1>10 DEF Terminated, vars
  <1> QED
    BY <1>1, <1>2, <1>3, <1>4, <1>5, <1>6, <1>7, <1>8, <1>9, <1>10
-------------------------------------------------------------------------------
(* The steps that make a pack. *)

DeliveryHyp == ReaderHyp /\ DeliveryInv

\* Once bufMsgPackToChannel runs, all channels are subscribed.
LEMMA AllSubscribed ==
    ASSUME ReaderHyp, gpc # "off"
    PROVE  consumers = Channels
  BY DEF ReaderHyp, ReaderInv, StartInv, TypeInv, TypeOK

\* What is wanted is data behind the base.
LEMMA WantedFacts ==
    ASSUME TypeInv, NEW c \in Channels, NEW o \in Wanted(c)
    PROVE  /\ o \in DataOf(topic[c]) /\ o \in DOMAIN topic[c] /\ o \in Nat /\ isData(Msg(c, o))
           /\ Msg(c, o).begin \in Nat /\ Msg(c, o).end \in Nat /\ base[c].ts \in Nat
           /\ Msg(c, o).begin <= Msg(c, o).end /\ Msg(c, o).begin > base[c].ts
  <1>1. o \in DOMAIN topic[c] /\ isData(Msg(c, o)) /\ Msg(c, o).begin > base[c].ts
    BY DEF Wanted, DataOf, Msg
  <1>2. Msg(c, o).begin <= Msg(c, o).end
    BY <1>1, LogFacts DEF TickPromise, Msg
  <1>3. base[c].ts \in Nat
    BY DEF TypeInv, TypeOK, SeekPos
  <1> QED
    BY <1>1, <1>2, <1>3, LogFacts DEF Wanted

\* A union over the channels.
LEMMA ByChannel ==
    ASSUME NEW S(_), NEW c, NEW o
    PROVE  <<c, o>> \in UNION {{d} \X S(d) : d \in Channels} <=> c \in Channels /\ o \in S(c)
  OBVIOUS

\* A new pack begins empty, where the one before it ended.
LEMMA LoopStep ==
    ASSUME DeliveryHyp, BufLoop, gpc' = "cont"
    PROVE  GatherInv' /\ PhaseInv' /\ PacksInv'
  <1>a. ReaderHyp /\ TypeInv /\ TypeOK /\ PhaseInv /\ PacksInv
    BY DEF DeliveryHyp, DeliveryInv, ReaderHyp, TypeInv
  <1>b. consumers = Channels /\ gpc = "loop"
    BY <1>a, AllSubscribed DEF BufLoop
  <1>1. /\ UNCHANGED <<topic, consumers, base, chanMsgPos, lastTimeStamp, sent, toMerge>>
        /\ timeTickBuf' = <<>> /\ endTs' = 0
        /\ \A c \in Channels : startPositions'[c] = NilPos /\ endPositions'[c] = NilPos
    BY DEF BufLoop, streamVars, seekVars
  <1>2. LastPack' = LastPack /\ PacksInv'
    <2>1. \A c : Wanted(c)' = Wanted(c)
      BY <1>1 DEF Wanted, Msg
    <2>2. PackContents' /\ PackChain'
      BY <1>a, <1>1, <2>1 DEF PacksInv, PackContents, PackChain, StandsFor, Msg
    <2> QED
      BY <1>a, <1>1, <2>2 DEF PacksInv, TickOf, Msg, NoCopies, Refs, LastPack
  <1>3. \A c \in Channels : Untouched(c)'
    BY <1>a, <1>b, <1>1, <1>2 DEF PhaseInv, Begins, Untouched
  <1>4. ASSUME NEW c \in Channels
        PROVE  /\ chanMsgPos[c].ts >= lastTimeStamp
               /\ \A o \in Wanted(c) : Msg(c, o).end <= chanMsgPos[c].ts => ~(lastTimeStamp < Msg(c, o).end)
    <2>1. lastTimeStamp \in Nat /\ base[c].ts \in Nat /\ sent \in Seq(MsgPack)
      BY <1>a DEF TypeOK, SeekPos
    <2>2. CASE sent = <<>>
      <3>1. lastTimeStamp = 0 /\ chanMsgPos[c].ts = base[c].ts
        BY <1>a, <1>b, <2>2 DEF PhaseInv, Begins
      <3> QED
        BY <1>a, <2>1, <3>1, WantedFacts
    <2>3. CASE sent # <<>>
      <3>1. Len(sent) \in DOMAIN sent
        BY <2>1, <2>3
      <3>2. lastTimeStamp = LastPack.end /\ chanMsgPos[c] = LastPack.endPos[c]
        BY <1>a, <1>b, <2>3 DEF PhaseInv, Begins
      <3>3. LastPack.endPos[c].ts = LastPack.end
        BY <1>a, <3>1 DEF PacksInv, PackChain, LastPack
      <3> QED
        BY <1>a, <2>1, <3>2, <3>3, WantedFacts
    <2> QED
      BY <2>2, <2>3
  <1>5. \A c \in Channels : Gathered(c)' = {}
    <2>1. \A c \in Channels : Gathered(c)' = Gathered(c)
      BY <1>1 DEF Gathered, Wanted, Msg
    <2> QED
      BY <1>4, <2>1 DEF Gathered
  <1>6. Refs(timeTickBuf)' = {}
    BY <1>1 DEF Refs
  <1>7. GatherInv'
    BY <1>1, <1>3, <1>4, <1>5, <1>6 DEF GatherInv, BufLoop
  <1>8. PhaseInv'
    BY <1>a, <1>b, <1>1, <1>2 DEF PhaseInv, BufLoop
  <1> QED
    BY <1>2, <1>7, <1>8

\* At a cut the channels with an empty buffer have been cut before, at the same tick.
LEMMA TickStep ==
    ASSUME DeliveryHyp, BufTick, gpc' = "merge"
    PROVE  GatherInv' /\ PhaseInv' /\ PacksInv'
  <1>a. ReaderHyp /\ TypeInv /\ TypeOK /\ ReaderInv /\ GatherInv /\ PhaseInv /\ PacksInv /\ FreshInv /\ MarkInv
    BY DEF DeliveryHyp, DeliveryInv, ReaderHyp, TypeInv
  <1>b. consumers = Channels /\ gpc = "wait"
    BY <1>a, AllSubscribed DEF BufTick
  <1>1. /\ UNCHANGED <<topic, consumers, base, chanMsgPos, lastTimeStamp, sent, startPositions,
                       endPositions, timeTickBuf, chanMsgBuf, chanTtMsgTime>>
        /\ toMerge' = {c \in consumers : chanMsgBuf[c] # {}}
        /\ endTs' = currTs /\ currTs > lastTimeStamp
    BY DEF BufTick, streamVars, seekVars
  <1>2. CutInv'
    BY <1>a, TickCut
  <1>3. /\ endTs' > 0 /\ \A c \in Channels : chanTtMsgTime[c] = endTs'
        /\ \A c \in Channels \ toMerge' : chanMsgPos[c].ts = endTs'
    BY <1>b, <1>1, <1>2 DEF CutInv
  <1>4. /\ LastPack' = LastPack
        /\ \A c : /\ Gathered(c)' = Gathered(c) /\ Wanted(c)' = Wanted(c)
                  /\ Touched(c)' <=> Touched(c)
                  /\ Untouched(c)' <=> Untouched(c)
    BY <1>1 DEF LastPack, Gathered, Wanted, Msg, Touched, Untouched, Begins
  <1>5. PacksInv'
    <2>1. PackContents' /\ PackChain'
      BY <1>a, <1>1, <1>4 DEF PacksInv, PackContents, PackChain, StandsFor, Msg
    <2> QED
      BY <1>a, <1>1, <2>1 DEF PacksInv, TickOf, Msg, NoCopies, Refs
  <1>6. \A c \in Channels : TickOf(c, endTs)'
    <2>1. \A c \in Channels : TickOf(c, chanTtMsgTime[c])
      BY <1>a, <1>b, <1>3 DEF MarkInv
    <2> QED
      BY <1>1, <1>3, <2>1 DEF TickOf, Msg
  <1>7. ASSUME NEW c \in Channels, c \notin toMerge' PROVE Touched(c)
    <2>1. ttMsgs(c) = {} /\ chanMsgPos[c].ts = currTs /\ chanTtMsgTime[c] > 0
      BY <1>b, <1>1, <1>3, <1>7 DEF ttMsgs
    <2>2. SUFFICES ASSUME Untouched(c) PROVE FALSE
      BY <1>a, <1>b DEF GatherInv
    <2>3. CASE sent = <<>>
      BY <1>a, <1>b, <2>1, <2>2, <2>3 DEF FreshInv, Untouched
    <2>4. CASE sent # <<>>
      <3>1. Len(sent) \in DOMAIN sent
        BY <1>a, <2>4 DEF TypeOK
      <3>2. LastPack.endPos[c].ts = lastTimeStamp
        BY <1>a, <1>b, <2>4, <3>1 DEF PhaseInv, PacksInv, PackChain, LastPack
      <3>3. chanMsgPos[c] = LastPack.endPos[c]
        BY <2>2, <2>4 DEF Untouched, Begins
      <3>4. lastTimeStamp \in Nat
        BY <1>a DEF TypeOK
      <3> QED
        BY <1>1, <2>1, <3>2, <3>3, <3>4
    <2> QED
      BY <2>3, <2>4
  <1>8. GatherInv'
    <2>1. /\ Refs(timeTickBuf)' = UNION {{c} \X Gathered(c)' : c \in Channels}
          /\ \A c \in Channels : /\ chanMsgPos'[c].ts >= lastTimeStamp'
                                 /\ Untouched(c)' \/ Touched(c)'
      BY <1>a, <1>b, <1>1, <1>4 DEF GatherInv, Refs
    <2>2. endTs' > lastTimeStamp' /\ endTs' # 0
      BY <1>1, <1>3
    <2> QED
      BY <1>1, <1>3, <1>4, <1>6, <1>7, <2>1, <2>2 DEF GatherInv
  <1>9. PhaseInv'
    BY <1>a, <1>b, <1>1, <1>4 DEF PhaseInv
  <1> QED
    BY <1>5, <1>8, <1>9

\* Cutting channel c moves to the pack what lies between its position and the tick.
LEMMA MergeGathers ==
    ASSUME DeliveryHyp, NEW c \in Channels, BufMerge(c)
    PROVE  /\ Gathered(c)' = Gathered(c) \cup readyMsgs(c)
           /\ readyMsgs(c) \subseteq Nat
           /\ chanMsgPos'[c].ts = endTs /\ endTs >= lastTimeStamp
  <1>a. ReaderHyp /\ TypeInv /\ TypeOK /\ ReaderInv /\ GatherInv
    BY DEF DeliveryHyp, DeliveryInv, ReaderHyp, TypeInv
  <1>b. consumers = Channels /\ gpc = "merge" /\ ChannelInv(c)
    BY <1>a, AllSubscribed DEF BufMerge, ReaderInv
  <1>1. UNCHANGED <<topic, base, lastTimeStamp>> /\ chanMsgPos'[c].ts = endTs
    BY <1>a, <1>b, BufMergeChannel DEF BufMerge, seekVars
  <1>2. chanTtMsgTime[c] = endTs /\ endTs > 0 /\ chanMsgPos[c].ts >= lastTimeStamp
    BY <1>a, <1>b DEF ReaderInv, CutInv, GatherInv
  <1>3. endTs \in Nat /\ chanMsgPos[c].ts \in Nat /\ lastTimeStamp \in Nat /\ cursor[c] \in Nat
    BY <1>a, <1>b DEF TypeOK, ChannelInv, Position
  <1>4. endTs >= chanMsgPos[c].ts
    BY <1>b, <1>2, <1>3 DEF ChannelInv
  <1>5. readyMsgs(c) = {o \in Wanted(c) : chanMsgPos[c].ts < Msg(c, o).end /\ Msg(c, o).end <= endTs}
    <2>1. readyMsgs(c) = {o \in chanMsgBuf[c] \ ttMsgs(c) : Msg(c, o).end <= endTs}
      BY DEF readyMsgs, ttMsgs
    <2>2. chanMsgBuf[c] \ ttMsgs(c)
             = {o \in Wanted(c) : o <= cursor[c] /\ Msg(c, o).end > chanMsgPos[c].ts}
      BY <1>b DEF ChannelInv
    <2>3. ASSUME NEW o \in Wanted(c), Msg(c, o).end <= endTs PROVE o <= cursor[c]
      <3>1. SUFFICES ASSUME o > cursor[c] PROVE FALSE
        BY <1>a, <1>3, WantedFacts
      <3>2. o \in Unread(c) /\ isData(Msg(c, o))
        BY <1>a, <3>1, WantedFacts DEF Unread
      <3>3. Msg(c, o).begin > endTs
        BY <1>b, <1>2, <3>2 DEF ChannelInv
      <3> QED
        BY <1>a, <1>3, <2>3, <3>3, WantedFacts
    <2>4. \A o \in Wanted(c) : Msg(c, o).end \in Nat
      BY <1>a, WantedFacts
    <2> QED
      BY <1>3, <2>1, <2>2, <2>3, <2>4
  <1>6. Gathered(c)' = {o \in Wanted(c) : lastTimeStamp < Msg(c, o).end /\ Msg(c, o).end <= endTs}
    BY <1>1 DEF Gathered, Wanted, Msg
  <1>7. Gathered(c)' = Gathered(c) \cup readyMsgs(c)
    <2>1. \A o \in Wanted(c) : Msg(c, o).end \in Nat
      BY <1>a, WantedFacts
    <2> QED
      BY <1>2, <1>3, <1>4, <1>5, <1>6, <2>1 DEF Gathered
  <1>8. readyMsgs(c) \subseteq Nat
    BY <1>a, <1>5, WantedFacts
  <1> QED
    BY <1>1, <1>2, <1>3, <1>4, <1>7, <1>8

LEMMA MergeStep ==
    ASSUME DeliveryHyp, NEW c \in Channels, BufMerge(c)
    PROVE  GatherInv' /\ PhaseInv' /\ PacksInv'
  <1>a. ReaderHyp /\ TypeInv /\ TypeOK /\ ReaderInv /\ GatherInv /\ PhaseInv /\ PacksInv
    BY DEF DeliveryHyp, DeliveryInv, ReaderHyp, TypeInv
  <1>b. consumers = Channels /\ gpc = "merge" /\ gpc' = "merge" /\ c \in toMerge /\ ChannelInv(c)
    BY <1>a, AllSubscribed DEF BufMerge, ReaderInv
  <1>1. /\ UNCHANGED <<topic, consumers, base, lastTimeStamp, sent, endTs>>
        /\ toMerge' = toMerge \ {c}
        /\ timeTickBuf' = Append(timeTickBuf, [chan |-> c, offs |-> readyMsgs(c)])
        /\ chanMsgPos' = [chanMsgPos EXCEPT ![c] = newPos(c)]
        /\ startPositions' = [startPositions EXCEPT ![c] = IF @ = NilPos THEN chanMsgPos[c] ELSE @]
        /\ endPositions' = [endPositions EXCEPT ![c] = IF newPos(c) = NilPos THEN @ ELSE newPos(c)]
    BY DEF BufMerge, seekVars
  <1>2. chanMsgPos'[c] # NilPos /\ chanMsgPos'[c].ts = endTs
    BY <1>a, <1>b, BufMergeChannel
  <1>3. endTs > 0 /\ endTs > lastTimeStamp /\ endTs \in Nat /\ lastTimeStamp \in Nat
    BY <1>a, <1>b DEF ReaderInv, CutInv, GatherInv, TypeOK
  <1>4. LastPack' = LastPack /\ \A d : Wanted(d)' = Wanted(d)
    BY <1>1 DEF LastPack, Wanted, Msg
  <1>5. \A d \in Channels \ {c} : /\ Gathered(d)' = Gathered(d)
                                  /\ Touched(d)' <=> Touched(d)
                                  /\ Untouched(d)' <=> Untouched(d)
                                  /\ chanMsgPos'[d] = chanMsgPos[d]
    <2> SUFFICES ASSUME NEW d \in Channels \ {c}
                 PROVE  /\ Gathered(d)' = Gathered(d)
                        /\ Touched(d)' <=> Touched(d)
                        /\ Untouched(d)' <=> Untouched(d)
                        /\ chanMsgPos'[d] = chanMsgPos[d]
      OBVIOUS
    <2>1. /\ chanMsgPos'[d] = chanMsgPos[d] /\ startPositions'[d] = startPositions[d]
          /\ endPositions'[d] = endPositions[d]
      BY <1>a, <1>1 DEF TypeOK
    <2>2. Gathered(d)' = Gathered(d)
      BY <1>1, <1>4, <2>1 DEF Gathered, Msg
    <2> QED
      BY <1>1, <1>4, <2>1, <2>2 DEF Touched, Untouched, Begins
  <1>6. Touched(c)'
    <2>1. chanMsgPos'[c] = newPos(c) /\ endPositions'[c] = newPos(c)
      BY <1>a, <1>1, <1>2 DEF TypeOK
    <2>2. startPositions'[c] = IF startPositions[c] = NilPos THEN chanMsgPos[c] ELSE startPositions[c]
      BY <1>a, <1>1 DEF TypeOK
    <2>3. chanMsgPos[c] # NilPos
      BY <1>b DEF ChannelInv
    <2>4. Begins(c, startPositions'[c]) /\ startPositions'[c] # NilPos
      BY <1>a, <1>b, <2>2, <2>3 DEF GatherInv, Touched, Untouched
    <2>5. Begins(c, startPositions[c])' <=> Begins(c, startPositions'[c])
      BY <1>1, <1>4 DEF Begins
    <2> QED
      BY <2>1, <2>4, <2>5 DEF Touched
  <1>7. Refs(timeTickBuf)' = UNION {{d} \X Gathered(d)' : d \in Channels}
    <2>1. readyMsgs(c) \subseteq Nat /\ Gathered(c)' = Gathered(c) \cup readyMsgs(c)
      BY MergeGathers
    <2>2. [chan |-> c, offs |-> readyMsgs(c)] \in Chunk /\ timeTickBuf \in Seq(Chunk) /\ timeTickBuf' \in Seq(Chunk)
      BY <1>a, <1>1, <2>1 DEF Chunk, TypeOK
    <2>3. ASSUME NEW d, NEW o
          PROVE  <<d, o>> \in Refs(timeTickBuf)' <=> <<d, o>> \in UNION {{e} \X Gathered(e)' : e \in Channels}
      <3>1. <<d, o>> \in Refs(timeTickBuf') <=>
               <<d, o>> \in Refs(timeTickBuf) \/ (c = d /\ o \in readyMsgs(c))
        BY <1>1, <2>2, RefsAppend
      <3>2. Refs(timeTickBuf)' = Refs(timeTickBuf')
        BY DEF Refs
      <3>3. <<d, o>> \in Refs(timeTickBuf) <=> d \in Channels /\ o \in Gathered(d)
        BY <1>a, <1>b DEF GatherInv
      <3>4. d \in Channels => Gathered(d)' = IF d = c THEN Gathered(c) \cup readyMsgs(c) ELSE Gathered(d)
        BY <1>5, <2>1
      <3> QED
        BY <3>1, <3>2, <3>3, <3>4
    <2>4. \A r \in Refs(timeTickBuf)' : \E d, o : r = <<d, o>>
      BY <2>2, RefsType DEF Refs
    <2>5. \A r \in UNION {{e} \X Gathered(e)' : e \in Channels} : \E d, o : r = <<d, o>>
      OBVIOUS
    <2> QED
      BY <2>3, <2>4, <2>5
  <1>8. GatherInv'
    <2>1. \A d \in Channels : /\ chanMsgPos'[d].ts >= lastTimeStamp'
                              /\ Untouched(d)' \/ Touched(d)'
                              /\ d \notin toMerge' => Touched(d)' /\ chanMsgPos'[d].ts = endTs'
      BY <1>a, <1>b, <1>1, <1>2, <1>3, <1>5, <1>6 DEF GatherInv
    <2>2. \A d \in Channels : TickOf(d, endTs)'
      BY <1>a, <1>b, <1>1, <1>3 DEF GatherInv, TickOf, Msg
    <2> QED
      BY <1>b, <1>1, <1>3, <1>7, <2>1, <2>2 DEF GatherInv
  <1>9. PacksInv'
    <2>1. PackContents' /\ PackChain'
      BY <1>a, <1>1, <1>4 DEF PacksInv, PackContents, PackChain, StandsFor, Msg
    <2> QED
      BY <1>a, <1>1, <2>1 DEF PacksInv, TickOf, Msg, NoCopies, Refs
  <1>10. PhaseInv'
    BY <1>a, <1>b, <1>1, <1>4 DEF PhaseInv
  <1> QED
    BY <1>8, <1>9, <1>10

\* A pack holds what it has to.
Complete(pack) ==
    StandsFor(topic, Refs(pack.msgs),
              UNION {{c} \X {o \in Wanted(c) : /\ pack.begin < Msg(c, o).end
                                               /\ Msg(c, o).end <= pack.end} : c \in Channels})

\* What the pack being sent holds, and where it begins and ends.
LEMMA SentPack ==
    ASSUME DeliveryHyp, gpc = "send", NEW pack,
           pack = [begin |-> lastTimeStamp, end |-> endTs, msgs |-> uniqueMsgs(timeTickBuf),
                   startPos |-> startPositions, endPos |-> endPositions]
    PROVE  /\ pack.begin < pack.end
           /\ \A c \in Channels : /\ pack.endPos[c] # NilPos /\ pack.endPos[c].ts = pack.end
                                  /\ pack.endPos[c] = chanMsgPos[c]
                                  /\ TickOf(c, pack.end) /\ pack.end >= base[c].ts
           /\ IF sent = <<>> THEN pack.begin = 0
              ELSE pack.begin = LastPack.end /\ pack.startPos = LastPack.endPos
           /\ NoCopies(topic, Refs(pack.msgs))
           /\ Complete(pack)
  <1>a. ReaderHyp /\ TypeInv /\ TypeOK /\ ReaderInv /\ GatherInv /\ PhaseInv /\ PacksInv
    BY DEF DeliveryHyp, DeliveryInv, ReaderHyp, TypeInv
  <1>b. consumers = Channels /\ \A c \in Channels : ChannelInv(c) /\ c \notin toMerge
    BY <1>a, AllSubscribed DEF ReaderInv, TypeInv, ControlInv
  <1>1. endTs > 0 /\ endTs > lastTimeStamp /\ endTs \in Nat /\ lastTimeStamp \in Nat
    BY <1>a DEF GatherInv, TypeOK
  <1>2. \A c \in Channels : /\ Touched(c) /\ chanMsgPos[c].ts = endTs /\ TickOf(c, endTs)
                            /\ chanMsgPos[c] # NilPos /\ chanMsgPos[c].ts >= base[c].ts
    BY <1>a, <1>b, <1>1 DEF GatherInv, ChannelInv
  <1>3. \A c \in Channels : Begins(c, startPositions[c]) /\ endPositions[c] = chanMsgPos[c]
    BY <1>2 DEF Touched
  <1>4. sent = <<>> => lastTimeStamp = 0
    BY <1>a DEF PhaseInv
  <1>5. ASSUME sent # <<>>
        PROVE  lastTimeStamp = LastPack.end /\ startPositions = LastPack.endPos
    <2>1. LastPack \in MsgPack
      BY <1>a, <1>5 DEF TypeOK, LastPack
    <2>2. \A c \in Channels : startPositions[c] = LastPack.endPos[c]
      BY <1>3, <1>5 DEF Begins
    <2>3. startPositions = [c \in Channels |-> startPositions[c]]
      BY <1>a DEF TypeOK
    <2>4. LastPack.endPos = [c \in Channels |-> LastPack.endPos[c]]
      BY <2>1 DEF MsgPack
    <2> QED
      BY <1>a, <1>5, <2>2, <2>3, <2>4 DEF PhaseInv
  <1>6. Refs(timeTickBuf) = UNION {{c} \X Gathered(c) : c \in Channels} /\ timeTickBuf \in Seq(Chunk)
    BY <1>a DEF GatherInv, TypeOK
  <1>7. \A c \in Channels : Gathered(c) = {o \in Wanted(c) : lastTimeStamp < Msg(c, o).end
                                                              /\ Msg(c, o).end <= endTs}
    BY <1>2 DEF Gathered
  <1>8. StandsFor(topic, Refs(uniqueMsgs(timeTickBuf)), Refs(timeTickBuf))
    BY <1>6, UniqueStandsFor
  <1>9. NoCopies(topic, Refs(uniqueMsgs(timeTickBuf)))
    <2>1. CopiesAgree(topic)
      BY <1>a, TopicsAssumption DEF TypeInv, Topic
    <2>2. \A c, o : <<c, o>> \in Refs(timeTickBuf) => c \in Channels /\ o \in DataOf(topic[c])
      BY <1>a, <1>6, WantedFacts DEF Gathered
    <2> QED
      BY <1>6, <2>1, <2>2, UniqueNoCopies
  <1>10. Refs(timeTickBuf) = UNION {{c} \X {o \in Wanted(c) : /\ lastTimeStamp < Msg(c, o).end
                                                              /\ Msg(c, o).end <= endTs} : c \in Channels}
    BY <1>6, <1>7
  <1>11. /\ pack.begin = lastTimeStamp /\ pack.end = endTs /\ pack.msgs = uniqueMsgs(timeTickBuf)
         /\ pack.startPos = startPositions /\ pack.endPos = endPositions
    OBVIOUS
  <1> QED
    BY ONLY <1>1, <1>2, <1>3, <1>4, <1>5, <1>8, <1>9, <1>10, <1>11 DEF Complete

LEMMA SendStep ==
    ASSUME DeliveryHyp, BufSend, gpc' = "stamp"
    PROVE  GatherInv' /\ PhaseInv' /\ PacksInv'
  <1> DEFINE pack == [begin |-> lastTimeStamp, end |-> endTs, msgs |-> uniqueMsgs(timeTickBuf),
                      startPos |-> startPositions, endPos |-> endPositions]
             n == Len(sent)
  <1>a. ReaderHyp /\ TypeInv /\ TypeOK /\ PhaseInv /\ PacksInv
    BY DEF DeliveryHyp, DeliveryInv, ReaderHyp, TypeInv
  <1>b. consumers = Channels /\ gpc = "send"
    BY <1>a, AllSubscribed DEF BufSend
  <1>1. /\ UNCHANGED <<topic, consumers, base, chanMsgPos, lastTimeStamp, endTs>>
        /\ sent' = Append(sent, pack)
    BY DEF BufSend, streamVars, localVars, seekVars
  <1>2. sent \in Seq(MsgPack) /\ n \in Nat
    BY <1>a DEF TypeOK
  <1> HIDE DEF pack
  <1>3. /\ DOMAIN sent' = DOMAIN sent \cup {n + 1} /\ sent'[n + 1] = pack /\ Len(sent') = n + 1
        /\ \A k \in DOMAIN sent : sent'[k] = sent[k] /\ k \in 1..n
        /\ DOMAIN sent = 1..n
    BY <1>1, <1>2
  <1>4. LastPack' = pack /\ sent' # <<>>
    BY <1>1, <1>2, <1>3 DEF LastPack
  <1>5. /\ pack.begin < pack.end
        /\ \A c \in Channels : /\ pack.endPos[c] # NilPos /\ pack.endPos[c].ts = pack.end
                               /\ pack.endPos[c] = chanMsgPos[c]
                               /\ TickOf(c, pack.end) /\ pack.end >= base[c].ts
        /\ IF sent = <<>> THEN pack.begin = 0
           ELSE pack.begin = LastPack.end /\ pack.startPos = LastPack.endPos
        /\ NoCopies(topic, Refs(pack.msgs))
        /\ Complete(pack)
    BY <1>b, SentPack DEF pack
  <1>6. n = 0 <=> sent = <<>>
    BY <1>2
  <1>7. PackChain'
    <2> SUFFICES ASSUME NEW k \in DOMAIN sent'
                 PROVE  /\ sent'[k].begin < sent'[k].end
                        /\ \A c \in Channels : /\ sent'[k].endPos[c] # NilPos
                                               /\ sent'[k].endPos[c].ts = sent'[k].end
                        /\ k > 1 => /\ sent'[k].begin = sent'[k - 1].end
                                    /\ sent'[k].startPos = sent'[k - 1].endPos
      BY DEF PackChain
    <2>1. CASE k \in DOMAIN sent
      <3>1. k > 1 => k - 1 \in DOMAIN sent
        BY <1>2, <1>3, <2>1
      <3> QED
        BY <1>a, <1>3, <2>1, <3>1 DEF PacksInv, PackChain
    <2>2. CASE k = n + 1
      <3>1. k > 1 => n \in DOMAIN sent /\ sent # <<>> /\ k - 1 = n
        BY <1>2, <1>3, <1>6, <2>2
      <3>2. k > 1 => sent'[k - 1] = LastPack
        BY <1>3, <3>1 DEF LastPack
      <3>3. sent'[k] = pack
        BY <1>3, <2>2
      <3>4. pack.begin < pack.end /\ \A c \in Channels : pack.endPos[c] # NilPos /\ pack.endPos[c].ts = pack.end
        BY <1>5
      <3>5. k > 1 => pack.begin = LastPack.end /\ pack.startPos = LastPack.endPos
        BY <1>5, <3>1
      <3> HIDE DEF pack
      <3> QED
        BY ONLY <3>2, <3>3, <3>4, <3>5
    <2> QED
      BY <1>3, <2>1, <2>2
  <1>8. PackContents'
    <2>1. \A c : Wanted(c)' = Wanted(c)
      BY <1>1 DEF Wanted, Msg
    <2> SUFFICES ASSUME NEW k \in DOMAIN sent' PROVE Complete(sent'[k])
      <3>1. \A c, o : Msg(c, o)' = Msg(c, o)
        BY <1>1 DEF Msg
      <3>2. ASSUME NEW k \in DOMAIN sent', Complete(sent'[k])
            PROVE  StandsFor(topic', Refs(sent'[k].msgs),
                             UNION {{c} \X {o \in Wanted(c)' : /\ sent'[k].begin < Msg(c, o)'.end
                                                              /\ Msg(c, o)'.end <= sent'[k].end} : c \in Channels})
        <4> DEFINE b == sent'[k].begin
                   e == sent'[k].end
        <4> HIDE DEF b, e
        <4>2. \A c \in Channels : {o \in Wanted(c)' : b < Msg(c, o)'.end /\ Msg(c, o)'.end <= e}
                                 = {o \in Wanted(c) : b < Msg(c, o).end /\ Msg(c, o).end <= e}
          BY ONLY <2>1, <3>1
        <4>3. UNION {{c} \X {o \in Wanted(c)' : b < Msg(c, o)'.end /\ Msg(c, o)'.end <= e} : c \in Channels}
              = UNION {{c} \X {o \in Wanted(c) : b < Msg(c, o).end /\ Msg(c, o).end <= e} : c \in Channels}
          <5> DEFINE L(c) == {o \in Wanted(c)' : b < Msg(c, o)'.end /\ Msg(c, o)'.end <= e}
                     R(c) == {o \in Wanted(c) : b < Msg(c, o).end /\ Msg(c, o).end <= e}
          <5>1. \A c \in Channels : L(c) = R(c)
            BY ONLY <4>2
          <5> HIDE DEF L, R
          <5>2. {{c} \X L(c) : c \in Channels} = {{c} \X R(c) : c \in Channels}
            BY ONLY <5>1
          <5> QED
            BY ONLY <5>2, Zenon DEF L, R
        <4> QED
          BY <1>1, <3>2, <4>3, Zenon DEF Complete, b, e
      <3> QED
        BY <3>2, Zenon DEF PackContents
    <2>2. CASE k \in DOMAIN sent
      <3>1. Complete(sent[k])
        BY <1>a, <2>2 DEF PacksInv, PackContents, Complete
      <3> QED
        BY <1>3, <2>2, <3>1
    <2>3. CASE k = n + 1
      BY <1>3, <1>5, <2>3
    <2> QED
      BY <1>3, <2>2, <2>3
  <1>9. ASSUME NEW k \in DOMAIN sent'
        PROVE  /\ k = 1 => sent'[k].begin = 0
               /\ \A c \in Channels : TickOf(c, sent'[k].end) /\ sent'[k].end >= base[c].ts
               /\ NoCopies(topic, Refs(sent'[k].msgs))
    <2>1. CASE k \in DOMAIN sent
      BY <1>a, <1>3, <2>1 DEF PacksInv
    <2>2. CASE k = n + 1
      BY <1>2, <1>3, <1>5, <1>6, <2>2
    <2> QED
      BY <1>3, <2>1, <2>2
  <1>10. PacksInv'
    BY <1>1, <1>7, <1>8, <1>9 DEF PacksInv, TickOf, Msg, NoCopies, Refs
  <1>11. PhaseInv'
    <2>1. pack.end = endTs
      BY DEF pack
    <2> QED
      BY <1>b, <1>1, <1>4, <1>5, <2>1 DEF PhaseInv, BufSend
  <1>12. GatherInv'
    BY DEF GatherInv
  <1> QED
    BY <1>10, <1>11, <1>12

LEMMA StampStep ==
    ASSUME DeliveryHyp, BufStamp
    PROVE  GatherInv' /\ PhaseInv' /\ PacksInv'
  <1>a. ReaderHyp /\ TypeInv /\ TypeOK /\ PhaseInv /\ PacksInv
    BY DEF DeliveryHyp, DeliveryInv, ReaderHyp, TypeInv
  <1>1. /\ UNCHANGED <<topic, consumers, base, chanMsgPos, sent, endTs>>
        /\ gpc = "stamp" /\ gpc' = "loop" /\ lastTimeStamp' = endTs
    BY DEF BufStamp, streamVars, localVars, seekVars
  <1>2. LastPack' = LastPack /\ \A c : Wanted(c)' = Wanted(c)
    BY <1>1 DEF LastPack, Wanted, Msg
  <1>3. PacksInv'
    <2>1. PackContents' /\ PackChain'
      BY <1>a, <1>1, <1>2 DEF PacksInv, PackContents, PackChain, StandsFor, Msg
    <2> QED
      BY <1>a, <1>1, <2>1 DEF PacksInv, TickOf, Msg, NoCopies, Refs
  <1>4. PhaseInv'
    BY <1>a, <1>1, <1>2 DEF PhaseInv, Begins
  <1> QED
    BY <1>1, <1>3, <1>4 DEF GatherInv

\* A stream that has sent nothing starts where its channels are positioned.
LEMMA StartsAtBase ==
    ASSUME DeliveryHyp, NEW c \in Channels, AsConsumer(c) \/ SeekChannel(c)
    PROVE  GatherInv' /\ PhaseInv' /\ PacksInv'
  <1>a. ReaderHyp /\ TypeOK /\ ReaderInv /\ StartInv /\ PhaseInv
    BY DEF DeliveryHyp, DeliveryInv, ReaderHyp, ReaderInv, TypeInv
  <1>1. /\ gpc = "off" /\ gpc' = "off" /\ lastTimeStamp = 0
        /\ UNCHANGED <<lastTimeStamp, sent, endPositions>>
        /\ consumers' = consumers \cup {c}
    BY <1>a DEF AsConsumer, SeekChannel, addConsumer, StartInv, localVars
  <1>2. sent = <<>> /\ \A d \in Channels : endPositions[d] = NilPos
    BY <1>a, <1>1 DEF PhaseInv
  <1>3. chanMsgPos'[c].ts = base'[c].ts
    <2>1. CASE AsConsumer(c)
      BY <1>a, <1>1, <2>1 DEF AsConsumer, addConsumer, seekVars, StartInv, TypeOK, FirstPos
    <2>2. CASE SeekChannel(c)
      BY <1>a, <2>2 DEF SeekChannel, addConsumer, TypeOK
    <2> QED
      BY <2>1, <2>2
  <1>4. \A d \in consumers : d # c => chanMsgPos'[d] = chanMsgPos[d] /\ base'[d] = base[d]
    <2>1. chanMsgPos' = [chanMsgPos EXCEPT ![c] = chanMsgPos'[c]]
      BY <1>a DEF AsConsumer, SeekChannel, addConsumer, TypeOK
    <2>2. base' = [base EXCEPT ![c] = base'[c]]
      BY <1>a DEF AsConsumer, SeekChannel, seekVars, TypeOK
    <2> QED
      BY <1>a, <2>1, <2>2 DEF TypeOK
  <1>5. \A d \in consumers' : Begins(d, chanMsgPos[d])'
    BY <1>a, <1>1, <1>2, <1>3, <1>4 DEF PhaseInv, Begins
  <1>6. PhaseInv'
    BY <1>1, <1>2, <1>5 DEF PhaseInv
  <1>7. PacksInv'
    BY <1>1, <1>2 DEF PacksInv, PackChain, PackContents
  <1> QED
    BY <1>1, <1>6, <1>7 DEF GatherInv

\* Before its first cut a channel holds on to the ticks it reads.
LEMMA FreshStep ==
    ASSUME DeliveryHyp, [Next]_vars
    PROVE  FreshInv'
  <1> SUFFICES ASSUME NEW c \in consumers', sent' = <<>>, endPositions'[c] = NilPos, chanTtMsgTime'[c] > 0
               PROVE  ttMsgs(c)' # {}
    BY DEF FreshInv
  <1> DEFINE Same == UNCHANGED <<topic, consumers, chanMsgBuf, chanTtMsgTime, sent, endPositions>>
  <1>a. ReaderHyp /\ TypeInv /\ TypeOK /\ ReaderInv /\ PhaseInv /\ GatherInv /\ FreshInv
    BY DEF DeliveryHyp, DeliveryInv, ReaderHyp, TypeInv
  <1>b. \A d \in consumers : sent = <<>> /\ endPositions[d] = NilPos /\ chanTtMsgTime[d] > 0 => ttMsgs(d) # {}
    BY <1>a DEF FreshInv
  <1>1. CASE \E d \in Channels : AsConsumer(d) \/ SeekChannel(d)
    <2> PICK d \in Channels : AsConsumer(d) \/ SeekChannel(d)
      BY <1>1
    <2>1. /\ consumers' = consumers \cup {d} /\ UNCHANGED <<topic, sent, endPositions>>
          /\ chanMsgBuf' = [chanMsgBuf EXCEPT ![d] = {}]
          /\ chanTtMsgTime' = [chanTtMsgTime EXCEPT ![d] = 0]
      BY DEF AsConsumer, SeekChannel, addConsumer, localVars
    <2>2. c # d /\ c \in consumers /\ c \in Channels
      BY <1>a, <2>1 DEF TypeOK
    <2>3. chanMsgBuf'[c] = chanMsgBuf[c] /\ chanTtMsgTime'[c] = chanTtMsgTime[c]
      BY <1>a, <2>1, <2>2 DEF TypeOK
    <2> QED
      BY <1>b, <2>1, <2>2, <2>3 DEF ttMsgs, Msg
  <1>2. CASE \E d \in Channels : SeekMsg(d) \/ ConsumeMsg(d)
    <2> PICK d \in Channels : SeekMsg(d) \/ ConsumeMsg(d)
      BY <1>2
    <2> DEFINE o == cursor[d] + 1
    <2>1. UNCHANGED <<consumers, topic, sent, endPositions>>
      BY DEF SeekMsg, ConsumeMsg, localVars
    <2>2. /\ \/ chanMsgBuf' = chanMsgBuf
             \/ chanMsgBuf' = [chanMsgBuf EXCEPT ![d] = chanMsgBuf[d] \cup {o}]
          /\ \/ chanTtMsgTime' = chanTtMsgTime
             \/ /\ isTimeTick(Msg(d, o)) /\ chanTtMsgTime' = [chanTtMsgTime EXCEPT ![d] = Msg(d, o).begin]
                /\ chanMsgBuf' = [chanMsgBuf EXCEPT ![d] = chanMsgBuf[d] \cup {o}]
      BY DEF SeekMsg, ConsumeMsg, isTimeTick
    <2>3. c \in consumers /\ c \in Channels
      BY <1>a, <2>1 DEF TypeOK
    <2>a. chanMsgBuf \in [Channels -> SUBSET Nat]
      BY <1>a DEF TypeOK
    <2>4. chanMsgBuf[c] \subseteq chanMsgBuf'[c]
      <3>1. CASE chanMsgBuf' = chanMsgBuf
        BY ONLY <3>1
      <3>2. CASE chanMsgBuf' = [chanMsgBuf EXCEPT ![d] = chanMsgBuf[d] \cup {o}]
        BY ONLY <2>a, <2>3, <3>2
      <3> QED
        BY ONLY <2>2, <3>1, <3>2
    <2>5. ttMsgs(c) \subseteq ttMsgs(c)'
      BY <2>1, <2>4 DEF ttMsgs, Msg
    <2>6. CASE chanTtMsgTime'[c] = chanTtMsgTime[c]
      BY <1>b, <2>1, <2>3, <2>5, <2>6
    <2>7. CASE chanTtMsgTime'[c] # chanTtMsgTime[c]
      <3>1. c = d /\ isTimeTick(Msg(d, o)) /\ o \in chanMsgBuf'[c]
        BY <1>a, <2>2, <2>3, <2>7 DEF TypeOK
      <3> QED
        BY <2>1, <3>1 DEF ttMsgs, Msg
    <2> QED
      BY <2>6, <2>7
  <1>3. CASE \E d \in Channels : BufMerge(d)
    <2> PICK d \in Channels : BufMerge(d)
      BY <1>3
    <2>1. /\ UNCHANGED <<consumers, topic, sent, chanTtMsgTime>>
          /\ chanMsgBuf' = [chanMsgBuf EXCEPT ![d] = tempBuffer(d)]
          /\ chanMsgPos' = [chanMsgPos EXCEPT ![d] = newPos(d)]
          /\ endPositions' = [endPositions EXCEPT ![d] = IF newPos(d) = NilPos THEN @ ELSE newPos(d)]
      BY DEF BufMerge
    <2>2. c \in consumers /\ c \in Channels /\ d \in consumers
      BY <1>a, <2>1 DEF TypeOK, BufMerge
    <2>3. chanMsgPos'[d] # NilPos
      BY <1>a, <2>2, BufMergeChannel DEF ReaderInv
    <2>4. endPositions'[d] # NilPos
      BY <1>a, <2>1, <2>3 DEF TypeOK
    <2>5. c # d
      BY <2>4
    <2>6. chanMsgBuf'[c] = chanMsgBuf[c] /\ endPositions'[c] = endPositions[c]
      BY <1>a, <2>1, <2>2, <2>5 DEF TypeOK
    <2> QED
      BY <1>b, <2>1, <2>2, <2>6 DEF ttMsgs, Msg
  <1>4. CASE BufLoop
    <2>1. UNCHANGED <<consumers, topic, sent, chanTtMsgTime, chanMsgBuf>> /\ gpc = "loop"
      BY <1>4 DEF BufLoop, streamVars
    <2>2. c \in consumers /\ c \in Channels
      BY <1>a, <2>1 DEF TypeOK
    <2>3. endPositions[c] = NilPos
      BY <1>a, <2>1, <2>2 DEF PhaseInv
    <2> QED
      BY <1>b, <2>1, <2>2, <2>3 DEF ttMsgs, Msg
  <1>5. CASE BufSend
    <2>1. /\ UNCHANGED <<consumers, topic, chanTtMsgTime, chanMsgBuf, endPositions>>
          /\ sent \in Seq(MsgPack)
      BY <1>a, <1>5 DEF BufSend, streamVars, localVars, TypeOK
    <2>2. sent = <<>>
      BY <1>5, <2>1 DEF BufSend
    <2> QED
      BY <1>b, <2>1, <2>2 DEF ttMsgs, Msg
  <1>6. CASE Crash
    BY <1>6 DEF Crash
  <1>7. CASE Same
    BY <1>b, <1>7 DEF ttMsgs, Msg
  <1>8. \/ Subscribed \/ SeekReturn \/ Chan \/ Receive \/ ReceiveClosed \/ BufStart
        \/ BufSync \/ BufContinue \/ BufRound \/ BufTick \/ BufMerged
        \/ BufStamp \/ CloseSync \/ CloseCancel \/ CloseLocked \/ Terminated
        \/ (\E d \in Channels : ConsumeStop(d)) \/ UNCHANGED vars
        => Same
    BY DEF Subscribed, SeekReturn, Chan, Receive, ReceiveClosed, BufStart, BufSync,
       BufContinue, BufRound, BufTick, BufMerged, BufStamp, CloseSync, CloseCancel,
       CloseLocked, Terminated, ConsumeStop, vars, streamVars, localVars
  <1> QED
    BY <1>1, <1>2, <1>3, <1>4, <1>5, <1>6, <1>7, <1>8
    DEF Next, Program, bufMsgPackToChannel, consumeToTtMsg, Close

\* Every step keeps the packs exact.
LEMMA DeliveryStep == DeliveryHyp /\ [Next]_vars => DeliveryInv'
  <1> SUFFICES ASSUME DeliveryHyp, [Next]_vars PROVE GatherInv' /\ PhaseInv' /\ PacksInv'
    BY MarkStep, FreshStep DEF DeliveryHyp, DeliveryInv
  <1>1. CASE QuietStep
    BY <1>1, QuietPhase, QuietGather, PackFrame DEF DeliveryHyp, DeliveryInv, QuietStep
  <1>2. CASE \E c \in Channels : AsConsumer(c) \/ SeekChannel(c)
    BY <1>2, StartsAtBase
  <1>3. CASE \E c \in Channels : BufMerge(c)
    BY <1>3, MergeStep
  <1>4. CASE BufLoop
    <2>1. gpc' = "cont" \/ gpc' = "exit"
      BY <1>4 DEF BufLoop
    <2> QED
      BY <1>1, <1>4, <2>1, LoopStep, QuietSteps DEF DeliveryHyp
  <1>5. CASE BufTick
    <2>1. gpc' = "merge" \/ gpc' = "cont"
      BY <1>5 DEF BufTick
    <2> QED
      BY <1>1, <1>5, <2>1, TickStep, QuietSteps DEF DeliveryHyp
  <1>6. CASE BufSend
    <2>1. gpc' = "stamp" \/ gpc' = "exit"
      BY <1>6 DEF BufSend
    <2> QED
      BY <1>1, <1>6, <2>1, SendStep, QuietSteps DEF DeliveryHyp
  <1>7. CASE BufStamp
    BY <1>7, StampStep
  <1>8. CASE Crash
    BY <1>8 DEF Crash, GatherInv, PhaseInv, PacksInv, PackChain, PackContents
  <1> QED
    BY <1>1, <1>2, <1>3, <1>4, <1>5, <1>6, <1>7, <1>8, QuietSteps
    DEF DeliveryHyp, Next, Program, bufMsgPackToChannel, consumeToTtMsg, Close

LEMMA DeliveryInvariance == ASSUME EarlyChan = FALSE PROVE Spec => [](TypeInv /\ ReaderInv /\ DeliveryInv)
  <1>1. Init => DeliveryInv
    BY DEF Init, DeliveryInv, MarkInv, GatherInv, PhaseInv, FreshInv, PacksInv, PackChain, PackContents
  <1>2. TypeInv /\ ReaderInv /\ DeliveryInv /\ [Next]_vars => DeliveryInv'
    BY DeliveryStep DEF DeliveryHyp, ReaderHyp
  <1> QED
    BY <1>1, <1>2, TypeInvariance, ReaderCorrect, PTL DEF Spec

\* The packs of bufMsgPackToChannel are complete: whatever the rounds, the channels
\* that run ahead, the pursuit mode and the messages held back, a pack holds exactly
\* the messages of all channels between its two ticks, copies aside.
THEOREM PacksComplete == ASSUME EarlyChan = FALSE PROVE Spec => []PackContents
  <1>1. DeliveryInv => PackContents
    BY DEF DeliveryInv, PacksInv
  <1> QED
    BY <1>1, DeliveryInvariance, PTL

\* The packs of a stream chain: each starts at the tick and at the positions where the
\* one before it ended, and has an end position at its own tick for every channel.
THEOREM PacksChained == ASSUME EarlyChan = FALSE PROVE Spec => []PackChain
  <1>1. DeliveryInv => PackChain
    BY DEF DeliveryInv, PacksInv
  <1> QED
    BY <1>1, DeliveryInvariance, PTL
-------------------------------------------------------------------------------
(* Positions and restarts: the positions of the packs are exact resume points, *)
(* what a program has processed across its restarts is what lies before its    *)
(* saved positions, and the stream with its restarts implements TickDelivery.  *)
(*                                                                             *)
(* On the side of the producers this takes one promise more than the packs     *)
(* themselves: no message has rows on both sides of a tick of its channel.     *)
(* Without it a message that is held back because of its later rows is         *)
(* skipped by the Seek to the position in front of it (run tt_row_span).       *)

RowsWithinTicks ==
    \A t \in Topics, c \in Channels : \A i, j \in DOMAIN t[c] :
        isTimeTick(t[c][i]) /\ isData(t[c][j]) /\ t[c][j].begin <= t[c][i].begin
            => t[c][j].end <= t[c][i].begin

ResumeHyp == RowsWithinTicks /\ DeliveryHyp

-------------------------------------------------------------------------------
(* Resume points. *)

\* The position of a cut is a resume point: of the messages this incarnation wants,
\* a Seek to it reads those behind the tick, and no others.
LEMMA CutResumes ==
    ASSUME ResumeHyp, NEW c \in Channels, BufMerge(c)
    PROVE  ResumesAt(c, newPos(c)) = {o \in Wanted(c) : Msg(c, o).end > newPos(c).ts}
  <1>a. ReaderHyp /\ TypeInv /\ TypeOK /\ ReaderInv /\ GatherInv /\ MarkInv
    BY DEF ResumeHyp, DeliveryHyp, DeliveryInv, ReaderHyp, TypeInv
  <1>b. consumers = Channels /\ gpc = "merge" /\ ChannelInv(c)
    BY <1>a, AllSubscribed DEF BufMerge, ReaderInv
  <1>1. newPos(c) # NilPos /\ newPos(c).ts = endTs
    <2>1. chanMsgPos'[c] = newPos(c)
      BY <1>a DEF BufMerge, TypeOK
    <2> QED
      BY <1>a, <1>b, <2>1, BufMergeChannel
  <1>2. /\ chanTtMsgTime[c] = endTs /\ endTs > 0 /\ TickOf(c, endTs)
        /\ \A o \in chanMsgBuf[c] : o >= base[c].off
    BY <1>a, <1>b DEF ReaderInv, CutInv, GatherInv, MarkInv
  <1>3. /\ endTs \in Nat /\ chanMsgPos[c].ts \in Nat /\ cursor[c] \in Nat
        /\ base[c].ts \in Nat /\ base[c].off \in Nat /\ chanMsgBuf[c] \subseteq 1..cursor[c]
    BY <1>a, <1>b DEF TypeOK, ChannelInv, Position, SeekPos
  <1>4. endTs >= chanMsgPos[c].ts /\ endTs >= base[c].ts
    BY <1>b, <1>2, <1>3 DEF ChannelInv
  <1>5. \A o \in DataOf(topic[c]) :
           /\ o \in Nat /\ o \in DOMAIN topic[c] /\ isData(Msg(c, o))
           /\ Msg(c, o).begin \in Nat /\ Msg(c, o).end \in Nat /\ Msg(c, o).begin <= Msg(c, o).end
    BY <1>a, LogFacts DEF DataOf, TickPromise, Msg
  <1>6. \A o \in DataOf(topic[c]) : Msg(c, o).end > endTs => Msg(c, o).begin > endTs
    <2>1. PICK i \in DOMAIN topic[c] : isTimeTick(Msg(c, i)) /\ Msg(c, i).begin = endTs
      BY <1>2 DEF TickOf
    <2>2. \A o \in DataOf(topic[c]) : Msg(c, o).begin <= endTs => Msg(c, o).end <= endTs
      BY <1>a, <1>5, <2>1 DEF ResumeHyp, RowsWithinTicks, TypeInv, Msg
    <2> QED
      BY <1>3, <1>5, <2>2
  <1>7. tempBuffer(c) = {o \in Wanted(c) : o <= cursor[c] /\ Msg(c, o).end > endTs}
    <2>1. tempBuffer(c) = {o \in chanMsgBuf[c] \ ttMsgs(c) : Msg(c, o).end > endTs}
      BY DEF tempBuffer, ttMsgs
    <2>2. chanMsgBuf[c] \ ttMsgs(c)
             = {o \in Wanted(c) : o <= cursor[c] /\ Msg(c, o).end > chanMsgPos[c].ts}
      BY <1>b DEF ChannelInv
    <2>3. \A o \in Wanted(c) : Msg(c, o).end > endTs => Msg(c, o).end > chanMsgPos[c].ts
      BY <1>a, <1>3, <1>4, WantedFacts
    <2> QED
      BY <2>1, <2>2, <2>3
  <1>8. tempBuffer(c) \subseteq chanMsgBuf[c] /\ ttMsgs(c) \subseteq chanMsgBuf[c]
    BY DEF tempBuffer, ttMsgs
  <1>9. \/ tempBuffer(c) # {} /\ newPos(c).off = Min(tempBuffer(c))
        \/ tempBuffer(c) = {} /\ ttMsgs(c) # {} /\ newPos(c).off = Max(ttMsgs(c))
    BY <1>1 DEF newPos
  <1>10. /\ newPos(c).off \in chanMsgBuf[c]
         /\ \A o \in tempBuffer(c) : o >= newPos(c).off
    <2>1. CASE tempBuffer(c) # {}
      <3>1. tempBuffer(c) \subseteq Nat
        BY <1>3, <1>8
      <3> QED
        BY <1>8, <1>9, <2>1, <3>1, MinProperty
    <2>2. CASE tempBuffer(c) = {}
      <3>1. ttMsgs(c) \subseteq 1..cursor[c]
        BY <1>3, <1>8
      <3> QED
        BY <1>3, <1>8, <1>9, <2>2, <3>1, MaxProperty
    <2> QED
      BY <2>1, <2>2
  <1>11. newPos(c).off \in Nat /\ newPos(c).off >= base[c].off /\ newPos(c).off <= cursor[c]
    BY <1>2, <1>3, <1>10
  <1>12. ASSUME NEW o \in ResumesAt(c, newPos(c))
         PROVE  o \in Wanted(c) /\ Msg(c, o).end > endTs
    <2>1. o \in DataOf(topic[c]) /\ o >= newPos(c).off /\ Msg(c, o).begin > endTs
      BY <1>1 DEF ResumesAt
    <2> QED
      BY <1>3, <1>4, <1>5, <1>11, <2>1 DEF Wanted
  <1>13. ASSUME NEW o \in Wanted(c), Msg(c, o).end > endTs
         PROVE  o \in ResumesAt(c, newPos(c))
    <2>1. o \in DataOf(topic[c]) /\ Msg(c, o).begin > endTs
      BY <1>6, <1>13 DEF Wanted
    <2>2. o >= newPos(c).off
      <3>1. o <= cursor[c] => o >= newPos(c).off
        BY <1>7, <1>10, <1>13
      <3> QED
        BY <1>3, <1>5, <1>11, <2>1, <3>1
    <2> QED
      BY <1>1, <2>1, <2>2 DEF ResumesAt
  <1> QED
    BY <1>1, <1>12, <1>13 DEF Wanted, ResumesAt

\* Every step keeps the gathered and the sent positions resume points.
LEMMA PointsStep == ResumeHyp /\ PointsInv /\ [Next]_vars => PointsInv'
  <1> SUFFICES ASSUME ResumeHyp, PointsInv, [Next]_vars PROVE PointsInv'
    OBVIOUS
  <1> DEFINE Point(c, pos) == ResumesAt(c, pos) = {o \in Wanted(c) : Msg(c, o).end > pos.ts}
             PointNext(c, pos) ==
                {o \in DataOf(topic'[c]) : o >= pos.off /\ topic'[c][o].begin > pos.ts}
                   = {o \in Wanted(c)' : topic'[c][o].end > pos.ts}
  <1>a. /\ ReaderHyp /\ TypeInv /\ TypeOK /\ StartInv /\ PhaseInv /\ DeliveryHyp
        /\ \A k \in DOMAIN sent : \A c \in Channels : sent[k].endPos[c].ts = sent[k].end
    BY DEF ResumeHyp, DeliveryHyp, DeliveryInv, PacksInv, PackChain, ReaderHyp, ReaderInv, TypeInv
  <1>b. /\ \A c \in Channels : endPositions[c] # NilPos => Point(c, endPositions[c])
        /\ \A k \in DOMAIN sent, c \in Channels : Point(c, sent[k].endPos[c])
    BY <1>a DEF PointsInv, ResumeExact, ResumesAt
  <1>c. ASSUME topic' = topic, base' = base, NEW c, NEW pos PROVE PointNext(c, pos) <=> Point(c, pos)
    <2>1. Wanted(c)' = Wanted(c)
      BY <1>c DEF Wanted, Msg
    <2> QED
      BY <1>c, <2>1 DEF ResumesAt, Msg
  <1>d. SUFFICES /\ \A c \in Channels : endPositions'[c] # NilPos => PointNext(c, endPositions'[c])
                 /\ \A k \in DOMAIN sent', c \in Channels :
                       PointNext(c, sent'[k].endPos[c]) /\ sent'[k].endPos[c].ts = sent'[k].end
    BY DEF PointsInv, ResumeExact, ResumesAt, Msg
  <1> HIDE DEF Point, PointNext
  <1>1. CASE UNCHANGED <<topic, base, sent>>
             /\ \A c \in Channels : endPositions'[c] \in {endPositions[c], NilPos}
    BY <1>a, <1>b, <1>c, <1>1
  <1>2. CASE \E c \in Channels : BufMerge(c)
    <2> PICK c \in Channels : BufMerge(c)
      BY <1>2
    <2>1. /\ UNCHANGED <<topic, base, sent>>
          /\ endPositions' = [endPositions EXCEPT ![c] = IF newPos(c) = NilPos THEN @ ELSE newPos(c)]
      BY DEF BufMerge, seekVars
    <2>2. Point(c, newPos(c))
      BY CutResumes DEF Point
    <2>3. \A d \in Channels : endPositions'[d] \in {endPositions[d]} \/ (d = c /\ endPositions'[d] = newPos(c))
      BY <1>a, <2>1 DEF TypeOK
    <2> QED
      BY <1>a, <1>b, <1>c, <2>1, <2>2, <2>3
  <1>3. CASE BufSend /\ gpc' = "stamp"
    <2>1. /\ UNCHANGED <<topic, base, endPositions>>
          /\ sent' = Append(sent, [begin |-> lastTimeStamp, end |-> endTs, msgs |-> uniqueMsgs(timeTickBuf),
                                   startPos |-> startPositions, endPos |-> endPositions])
          /\ gpc = "send"
      BY <1>3 DEF BufSend, localVars, seekVars
    <2>2. sent \in Seq(MsgPack)
      BY <1>a DEF TypeOK
    <2>3. /\ DOMAIN sent' = DOMAIN sent \cup {Len(sent) + 1}
          /\ \A k \in DOMAIN sent : sent'[k] = sent[k]
          /\ sent'[Len(sent) + 1].endPos = endPositions /\ sent'[Len(sent) + 1].end = endTs
      BY <2>1, <2>2
    <2>4. \A c \in Channels : endPositions[c] # NilPos /\ endPositions[c].ts = endTs
      BY <1>a, <2>1, SentPack
    <2> QED
      BY <1>a, <1>b, <1>c, <2>1, <2>3, <2>4
  <1>4. CASE \E c \in Channels : SeekChannel(c)
    <2>1. UNCHANGED <<sent, endPositions>> /\ gpc = "off"
      BY <1>a, <1>4 DEF SeekChannel, localVars, StartInv
    <2>2. sent = <<>> /\ \A c \in Channels : endPositions[c] = NilPos
      BY <1>a, <2>1 DEF PhaseInv
    <2> QED
      BY <2>1, <2>2
  <1>5. CASE Crash
    BY <1>5 DEF Crash
  <1>6. \/ (\E c \in Channels : AsConsumer(c) \/ SeekMsg(c) \/ ConsumeMsg(c) \/ ConsumeStop(c))
        \/ Subscribed \/ SeekReturn \/ Chan \/ Receive \/ ReceiveClosed \/ BufStart
        \/ BufSync \/ BufContinue \/ BufRound \/ BufTick \/ BufMerged \/ BufLoop
        \/ (BufSend /\ gpc' = "exit")
        \/ BufStamp \/ CloseSync \/ CloseCancel \/ CloseLocked \/ Terminated \/ UNCHANGED vars
        => /\ UNCHANGED <<topic, base, sent>>
           /\ \A c \in Channels : endPositions'[c] \in {endPositions[c], NilPos}
    BY DEF AsConsumer, SeekMsg, ConsumeMsg, Subscribed, SeekReturn, Chan, Receive, ReceiveClosed,
       BufStart, BufSync, BufContinue, BufRound, BufTick, BufMerged, BufLoop, BufSend, BufStamp,
       CloseSync, CloseCancel, CloseLocked, Terminated, ConsumeStop, vars, localVars, seekVars
  <1>7. BufSend => gpc' = "stamp" \/ gpc' = "exit"
    BY DEF BufSend
  <1> QED
    BY <1>1, <1>2, <1>3, <1>4, <1>5, <1>6, <1>7
    DEF Next, Program, bufMsgPackToChannel, consumeToTtMsg, Close

LEMMA PointsInvariance ==
    ASSUME EarlyChan = FALSE, RowsWithinTicks
    PROVE  Spec => [](TypeInv /\ ReaderInv /\ DeliveryInv /\ PointsInv)
  <1>1. Init => PointsInv
    BY DEF Init, PointsInv, ResumeExact
  <1>2. TypeInv /\ ReaderInv /\ DeliveryInv /\ PointsInv /\ [Next]_vars => PointsInv'
    BY PointsStep DEF ResumeHyp, DeliveryHyp, ReaderHyp
  <1> QED
    BY <1>1, <1>2, DeliveryInvariance, PTL DEF Spec

\* The EndPositions of every pack are exact resume points, also where a message is
\* held back in tempBuffer, or nothing but ticks was read: a Seek to them reads the
\* messages that come after the pack and no message of it.
THEOREM PositionsResume ==
    ASSUME EarlyChan = FALSE, RowsWithinTicks
    PROVE  Spec => []ResumeExact
  <1>1. PointsInv => ResumeExact
    BY DEF PointsInv
  <1> QED
    BY <1>1, PointsInvariance, PTL
-------------------------------------------------------------------------------
(* What is saved. *)

SavedHyp == IgnoreBadPosition = FALSE /\ ResumeHyp /\ PointsInv /\ SavedInv

\* A Seek to the first message reads all there is.
LEMMA FirstResumes ==
    ASSUME TypeInv, NEW c \in Channels
    PROVE  ExactPoint(topic[c], FirstPos)
  <1>1. \A o \in DataOf(topic[c]) :
           /\ o \in Nat \ {0} /\ Msg(c, o).begin \in Nat /\ Msg(c, o).end \in Nat
           /\ Msg(c, o).begin <= Msg(c, o).end /\ Msg(c, o).begin > 0
    BY LogFacts DEF DataOf, TickPromise, Msg
  <1> QED
    BY <1>1 DEF ExactPoint, FirstPos, Msg

\* The pack the program takes next, in terms of its saved positions: it holds, but for
\* copies, the messages between them and its own tick.
LEMMA NextPack ==
    ASSUME SavedHyp, Receive, NEW pack, pack = sent[recvd + 1]
    PROVE  /\ \A c \in Channels : /\ pack.endPos[c] # NilPos /\ pack.endPos[c].ts = pack.end
                                  /\ checkpoint[c].ts <= pack.end
                                  /\ TickOf(c, pack.end)
                                  /\ ExactPoint(topic[c], pack.endPos[c])
           /\ pack.endPos \in [Channels -> SeekPos \cup {NilPos}] /\ pack.end \in Nat
           /\ Refs(pack.msgs) \subseteq Channels \X Nat
           /\ NoCopies(topic, Refs(pack.msgs))
           /\ StandsFor(topic, Refs(pack.msgs),
                 Between(topic, [c \in Channels |-> checkpoint[c].ts], pack.end))
  <1> DEFINE k == recvd + 1
  <1>a. TypeInv /\ TypeOK /\ ReaderInv /\ PhaseInv /\ PacksInv /\ PackChain /\ PackContents
        /\ ResumeExact /\ SavedInv
    BY DEF SavedHyp, ResumeHyp, DeliveryHyp, DeliveryInv, PacksInv, PointsInv, ReaderHyp, TypeInv
  <1>p. pack = sent[k]
    OBVIOUS
  <1>1. k \in DOMAIN sent /\ k \in Nat /\ recvd \in Nat /\ (recvd > 0 => recvd \in DOMAIN sent /\ k > 1 /\ k - 1 = recvd)
    BY <1>a DEF TypeOK, Receive
  <1>2. pack \in MsgPack
    BY <1>a, <1>1 DEF TypeOK
  <1>3. /\ pack.endPos \in [Channels -> SeekPos \cup {NilPos}] /\ pack.end \in Nat /\ pack.begin \in Nat
        /\ pack.msgs \in Seq(Chunk)
    BY <1>2 DEF MsgPack
  <1>4. \A c \in Channels : /\ pack.endPos[c] # NilPos /\ pack.endPos[c].ts = pack.end
                            /\ TickOf(c, pack.end) /\ pack.end >= base[c].ts
    BY <1>a, <1>1 DEF PackChain, PacksInv
  <1>5. \A c \in Channels : /\ checkpoint[c].ts \in Nat /\ base[c].ts \in Nat
                            /\ \A o \in DataOf(topic[c]) :
                                  Msg(c, o).end \in Nat /\ o \in Nat /\ Msg(c, o).end > 0
    <2>1. \A c \in Channels : \A o \in DataOf(topic[c]) :
             Msg(c, o).end \in Nat /\ o \in Nat /\ Msg(c, o).end > 0
      BY <1>a, LogFacts DEF DataOf, TickPromise, Msg
    <2> QED
      BY <1>a, <2>1 DEF TypeOK, SeekPos
  <1>6. \A c \in Channels : Wanted(c) = {o \in DataOf(topic[c]) : topic[c][o].end > base[c].ts}
    BY <1>a DEF SavedInv, ExactPoint, Wanted, Msg
  <1>7. ASSUME NEW c \in Channels
        PROVE  /\ checkpoint[c].ts >= base[c].ts /\ checkpoint[c].ts <= pack.end
               /\ \/ checkpoint[c].ts = pack.begin
                  \/ checkpoint[c].ts = base[c].ts /\ pack.begin = 0
    <2>1. CASE recvd = 0
      <3>1. base = checkpoint
        BY <1>a, <2>1 DEF SavedInv, Receive
      <3>2. pack.begin = 0
        BY <1>a, <1>p, <1>1, <2>1 DEF PacksInv
      <3> QED
        BY <1>4, <1>5, <3>1, <3>2
    <2>2. CASE recvd > 0
      <3>1. checkpoint[c].ts = sent[recvd].end /\ sent[recvd].end >= base[c].ts
        BY <1>a, <1>1, <2>2 DEF SavedInv, PackChain, PacksInv
      <3>2. pack.begin = sent[recvd].end /\ pack.begin < pack.end
        BY <1>a, <1>p, <1>1, <2>2 DEF PackChain
      <3> QED
        BY <1>3, <1>5, <3>1, <3>2
    <2> QED
      BY <1>1, <2>1, <2>2
  <1>8. ASSUME NEW c \in Channels
        PROVE  ExactPoint(topic[c], pack.endPos[c])
    <2>1. {o \in DataOf(topic[c]) : o >= pack.endPos[c].off /\ topic[c][o].begin > pack.end}
             = {o \in Wanted(c) : topic[c][o].end > pack.end}
      BY <1>a, <1>p, <1>1, <1>4 DEF ResumeExact, Msg
    <2>2. base[c].ts <= pack.end
      BY <1>4
    <2>3. {o \in Wanted(c) : topic[c][o].end > pack.end} = {o \in DataOf(topic[c]) : topic[c][o].end > pack.end}
      BY <1>3, <1>5, <1>6, <2>2 DEF Msg
    <2> QED
      BY <1>4, <2>1, <2>3 DEF ExactPoint
  <1>9. ASSUME NEW c \in Channels
        PROVE  {o \in Wanted(c) : pack.begin < Msg(c, o).end /\ Msg(c, o).end <= pack.end}
                  = {o \in DataOf(topic[c]) : checkpoint[c].ts < topic[c][o].end /\ topic[c][o].end <= pack.end}
    <2>1. \A o \in DataOf(topic[c]) :
             topic[c][o].end > base[c].ts /\ pack.begin < topic[c][o].end <=> checkpoint[c].ts < topic[c][o].end
      BY <1>3, <1>5, <1>7 DEF Msg
    <2> QED
      BY <1>6, <2>1 DEF Msg
  <1>10. StandsFor(topic, Refs(pack.msgs),
                 Between(topic, [c \in Channels |-> checkpoint[c].ts], pack.end))
    <2>1. Complete(sent[k])
      BY <1>a, <1>1 DEF PackContents, Complete
    <2>2. UNION {{c} \X {o \in Wanted(c) : /\ pack.begin < Msg(c, o).end
                                           /\ Msg(c, o).end <= pack.end} : c \in Channels}
             = Between(topic, [c \in Channels |-> checkpoint[c].ts], pack.end)
      BY <1>9 DEF Between
    <2>3. Complete(pack)
      BY <1>p, <2>1
    <2> QED
      BY <2>2, <2>3 DEF Complete
  <1>11. NoCopies(topic, Refs(pack.msgs))
    BY <1>a, <1>p, <1>1 DEF PacksInv
  <1>12. Refs(pack.msgs) \subseteq Channels \X Nat
    BY <1>3, RefsType
  <1> QED
    BY <1>3, <1>4, <1>7, <1>8, <1>10, <1>11, <1>12

\* Taking the pack saves its end positions.
LEMMA ReceiveSaves ==
    ASSUME SavedHyp, Receive
    PROVE  /\ checkpoint' = sent[recvd + 1].endPos
           /\ \A c \in Channels : checkpoint'[c] = sent[recvd + 1].endPos[c]
           /\ recvd' = recvd + 1 /\ applied' = applied \cup Refs(sent[recvd + 1].msgs)
           /\ UNCHANGED <<topic, base, sent, crashes, apc>>
  <1> DEFINE pack == sent[recvd + 1]
  <1>1. /\ \A c \in Channels : pack.endPos[c] # NilPos
        /\ pack.endPos \in [Channels -> SeekPos \cup {NilPos}]
    BY NextPack
  <1>2. checkpoint' = [c \in Channels |-> IF pack.endPos[c] = NilPos THEN checkpoint[c] ELSE pack.endPos[c]]
    BY DEF Receive
  <1>3. /\ recvd' = recvd + 1 /\ applied' = applied \cup Refs(pack.msgs)
        /\ UNCHANGED <<topic, base, sent, crashes, apc>>
    BY DEF Receive, seekVars
  <1> HIDE DEF pack
  <1>4. checkpoint' = pack.endPos
    BY <1>1, <1>2
  <1> QED
    BY <1>3, <1>4 DEF pack

\* Every step keeps what is saved a resume point.
LEMMA SavedStep == SavedHyp /\ [Next]_vars => SavedInv'
  <1> SUFFICES ASSUME SavedHyp, [Next]_vars PROVE SavedInv'
    OBVIOUS
  <1>a. TypeInv /\ TypeOK /\ StartInv /\ SavedInv
    BY DEF SavedHyp, ResumeHyp, DeliveryHyp, ReaderHyp, ReaderInv, TypeInv
  <1>b. /\ \A c \in Channels : ExactPoint(topic[c], checkpoint[c]) /\ ExactPoint(topic[c], base[c])
        /\ \A c, d \in Channels : checkpoint[c].ts = checkpoint[d].ts
    BY <1>a DEF SavedInv
  <1>1. CASE Receive
    <2> DEFINE pack == sent[recvd + 1]
    <2>1. /\ checkpoint' = pack.endPos /\ recvd' = recvd + 1 /\ apc' = apc
          /\ UNCHANGED <<topic, base, sent, crashes>>
      BY <1>1, ReceiveSaves
    <2>2. \A c \in Channels : /\ pack.endPos[c].ts = pack.end
                              /\ ExactPoint(topic[c], pack.endPos[c])
      BY <1>1, NextPack
    <2>3. apc = "ready" /\ recvd \in Nat
      BY <1>a, <1>1 DEF Receive, TypeOK
    <2> HIDE DEF pack
    <2>4. \A c \in Channels : ExactPoint(topic'[c], checkpoint'[c]) /\ ExactPoint(topic'[c], base'[c])
      BY <1>b, <2>1, <2>2
    <2>5. recvd' > 0 /\ checkpoint' = sent'[recvd'].endPos
      BY <2>1, <2>3 DEF pack
    <2>6. \A c, d \in Channels : checkpoint'[c].ts = checkpoint'[d].ts
      BY <2>1, <2>2
    <2> QED
      BY <2>1, <2>3, <2>4, <2>5, <2>6 DEF SavedInv
  <1>2. CASE \E c \in Channels : SeekChannel(c)
    <2> PICK c \in Channels : SeekChannel(c)
      BY <1>2
    <2>1. /\ base' = [base EXCEPT ![c] = checkpoint[c]]
          /\ UNCHANGED <<topic, checkpoint, sent, recvd, crashes, apc>> /\ seekTodo' = seekTodo \ {c}
      <3>1. checkpoint[c] \in SeekPos
        BY <1>a DEF TypeOK
      <3>2. [off |-> checkpoint[c].off, ts |-> checkpoint[c].ts] = checkpoint[c]
        BY <3>1 DEF SeekPos
      <3> QED
        BY <3>2 DEF SavedHyp, SeekChannel, savedVars
    <2>2. \A d \in Channels : base'[d] = IF d = c THEN checkpoint[c] ELSE base[d]
      BY <1>a, <2>1 DEF TypeOK
    <2>3. \A d \in Channels : ExactPoint(topic'[d], checkpoint'[d]) /\ ExactPoint(topic'[d], base'[d])
      BY <1>b, <2>1, <2>2
    <2>4. apc = "seek"
      BY DEF SeekChannel
    <2> QED
      BY <1>a, <2>1, <2>2, <2>3, <2>4 DEF SavedInv
  <1>3. CASE Subscribed
    <2>1. /\ UNCHANGED <<topic, checkpoint, base, sent, recvd, crashes>> /\ apc = "new"
          /\ \/ apc' = "seek" /\ seekTodo' = Channels
             \/ apc' = "ready" /\ crashes = 0
      BY <1>3 DEF Subscribed, savedVars
    <2>2. recvd = 0 /\ \A c \in Channels : base[c] = FirstPos
      BY <1>a, <2>1 DEF SavedInv, StartInv
    <2>3. crashes = 0 => base = checkpoint
      <3>1. crashes = 0 => \A c \in Channels : base[c] = checkpoint[c]
        BY <1>a, <2>2 DEF SavedInv
      <3> QED
        BY <1>a, <3>1 DEF TypeOK
    <2> QED
      BY <1>a, <2>1, <2>2, <2>3 DEF SavedInv
  <1>4. CASE SeekReturn
    <2>1. /\ UNCHANGED <<topic, checkpoint, base, sent, recvd, crashes, seekTodo>> /\ apc = "seek"
          /\ apc' = "seekErr" \/ (apc' = "ready" /\ seekTodo = {})
      BY <1>4 DEF SeekReturn, savedVars, seekVars
    <2>2. seekTodo = {} => base = checkpoint
      <3>1. seekTodo = {} => \A c \in Channels : base[c] = checkpoint[c]
        BY <1>a, <2>1 DEF SavedInv
      <3> QED
        BY <1>a, <3>1 DEF TypeOK
    <2> QED
      BY <1>a, <2>1, <2>2 DEF SavedInv
  <1>5. CASE Crash
    <2>1. /\ UNCHANGED <<topic, checkpoint>> /\ apc' = "new" /\ recvd' = 0 /\ crashes' = crashes + 1
          /\ \A c \in Channels : base'[c] = FirstPos
      BY <1>5 DEF Crash
    <2>2. crashes' # 0
      BY <1>a, <2>1, BoundsAssumption DEF TypeOK
    <2>3. \A c \in Channels : ExactPoint(topic[c], FirstPos)
      BY <1>a, FirstResumes
    <2>4. \A c \in Channels : ExactPoint(topic'[c], checkpoint'[c]) /\ ExactPoint(topic'[c], base'[c])
      BY <1>b, <2>1, <2>3
    <2> QED
      BY <1>a, <2>1, <2>2, <2>4 DEF SavedInv
  <1>6. CASE BufSend
    <2>1. UNCHANGED <<topic, checkpoint, base, recvd, crashes, seekTodo, apc>>
      BY <1>6 DEF BufSend, seekVars, savedVars
    <2>2. recvd > 0 => recvd \in DOMAIN sent
      BY <1>a DEF TypeOK
    <2>3. recvd > 0 => sent'[recvd] = sent[recvd]
      <3>1. sent' = sent \/ \E pack : sent' = Append(sent, pack)
        BY <1>6 DEF BufSend
      <3>2. sent \in Seq(MsgPack)
        BY <1>a DEF TypeOK
      <3>3. ASSUME NEW pack, sent' = Append(sent, pack), NEW k \in DOMAIN sent
            PROVE  sent'[k] = sent[k]
        BY <3>2, <3>3
      <3> QED
        BY <2>2, <3>1, <3>3
    <2> QED
      BY <1>a, <2>1, <2>3 DEF SavedInv
  <1>7. CASE \E c \in Channels : SeekMsg(c)
    <2>1. /\ UNCHANGED <<topic, checkpoint, base, recvd, sent, crashes, seekTodo>> /\ apc = "seek"
          /\ apc' \in {"seek", "seekErr"}
      BY <1>7 DEF SeekMsg, savedVars
    <2> QED
      BY <1>a, <2>1 DEF SavedInv
  <1>8. CASE ReceiveClosed
    <2>1. UNCHANGED <<topic, checkpoint, base, recvd, sent, crashes>> /\ apc = "ready" /\ apc' = "stopped"
      BY <1>8 DEF ReceiveClosed, savedVars, seekVars
    <2> QED
      BY <1>a, <2>1 DEF SavedInv
  <1>9. \/ (\E c \in Channels : AsConsumer(c) \/ BufMerge(c) \/ ConsumeMsg(c) \/ ConsumeStop(c))
         \/ Chan \/ BufStart \/ BufSync \/ BufContinue \/ BufRound \/ BufTick \/ BufMerged \/ BufLoop
         \/ BufStamp \/ CloseSync \/ CloseCancel \/ CloseLocked \/ Terminated \/ UNCHANGED vars
         => UNCHANGED <<topic, checkpoint, base, recvd, sent, crashes, seekTodo, apc>>
    BY DEF AsConsumer, BufMerge, ConsumeMsg, ConsumeStop, Chan, BufStart, BufSync, BufContinue,
       BufRound, BufTick, BufMerged, BufLoop, BufStamp, CloseSync, CloseCancel, CloseLocked,
       Terminated, vars, seekVars, savedVars
  <1>10. CASE UNCHANGED <<topic, checkpoint, base, recvd, sent, crashes, seekTodo, apc>>
    BY <1>a, <1>10 DEF SavedInv
  <1> QED
    BY <1>1, <1>2, <1>3, <1>4, <1>5, <1>6, <1>7, <1>8, <1>9, <1>10
    DEF Next, Program, bufMsgPackToChannel, consumeToTtMsg, Close

-------------------------------------------------------------------------------
(* What the program has processed. *)

\* Everything up to the saved positions.
Covered == UNION {{c} \X {o \in DataOf(topic[c]) : Msg(c, o).end <= checkpoint[c].ts} : c \in Channels}

\* The next pack covers what was covered and its window, and nothing of the window was
\* covered before.
LEMMA NextWindow ==
    ASSUME SavedHyp, Receive, NEW upto, upto = [c \in Channels |-> checkpoint[c].ts]
    PROVE  /\ Covered' = Covered \cup Between(topic, upto, sent[recvd + 1].end)
           /\ \A r \in Covered, s \in Between(topic, upto, sent[recvd + 1].end) :
                 /\ r[1] \in Channels /\ r[2] \in DataOf(topic[r[1]])
                 /\ s[1] \in Channels /\ s[2] \in DataOf(topic[s[1]])
                 /\ topic[r[1]][r[2]].end # topic[s[1]][s[2]].end
  <1> DEFINE e == sent[recvd + 1].end
             W == Between(topic, upto, e)
  <1>a. TypeInv /\ TypeOK /\ SavedInv
    BY DEF SavedHyp, ResumeHyp, DeliveryHyp, ReaderHyp, TypeInv
  <1>1. \A c \in Channels : checkpoint[c].ts <= e /\ e \in Nat /\ checkpoint[c].ts \in Nat
    <2>1. \A c \in Channels : checkpoint[c].ts \in Nat
      BY <1>a DEF TypeOK, SeekPos
    <2> QED
      BY <2>1, NextPack
  <1>2. \A c \in Channels : checkpoint'[c].ts = e /\ topic' = topic
    BY ReceiveSaves, NextPack
  <1>3. \A c \in Channels : \A o \in DataOf(topic[c]) : topic[c][o].end \in Nat
    BY <1>a, LogFacts DEF DataOf, Msg
  <1> HIDE DEF e
  <1>4. ASSUME NEW c, NEW o
        PROVE  /\ <<c, o>> \in W <=> /\ c \in Channels /\ o \in DataOf(topic[c])
                                     /\ checkpoint[c].ts < topic[c][o].end /\ topic[c][o].end <= e
               /\ <<c, o>> \in Covered <=> /\ c \in Channels /\ o \in DataOf(topic[c])
                                           /\ topic[c][o].end <= checkpoint[c].ts
               /\ <<c, o>> \in Covered' <=> /\ c \in Channels /\ o \in DataOf(topic[c])
                                            /\ topic[c][o].end <= e
    <2>1. <<c, o>> \in W <=> c \in Channels /\ o \in {p \in DataOf(topic[c]) : upto[c] < topic[c][p].end /\ topic[c][p].end <= e}
      BY DEF Between
    <2>2. <<c, o>> \in Covered <=> c \in Channels /\ o \in {p \in DataOf(topic[c]) : Msg(c, p).end <= checkpoint[c].ts}
      BY DEF Covered
    <2>3. <<c, o>> \in Covered' <=> c \in Channels /\ o \in {p \in DataOf(topic'[c]) : Msg(c, p)'.end <= checkpoint'[c].ts}
      BY DEF Covered
    <2>4. c \in Channels => (o \in {p \in DataOf(topic'[c]) : Msg(c, p)'.end <= checkpoint'[c].ts} <=>
                              o \in DataOf(topic[c]) /\ topic[c][o].end <= e)
      BY <1>2 DEF Msg
    <2> QED
      BY <2>1, <2>2, <2>3, <2>4 DEF Msg
  <1>5. ASSUME NEW c, NEW o PROVE <<c, o>> \in Covered' <=> <<c, o>> \in Covered \cup W
    BY <1>1, <1>3, <1>4
  <1>6. /\ \A r \in W : \E c, o : r = <<c, o>>
        /\ \A r \in Covered : \E c, o : r = <<c, o>>
        /\ \A r \in Covered' : \E c, o : r = <<c, o>>
    BY DEF Covered, Between
  <1>7. Covered' = Covered \cup W
    <2> HIDE DEF W
    <2> QED
      BY <1>5, <1>6
  <1>8. ASSUME NEW r \in Covered, NEW s \in W
        PROVE  /\ r[1] \in Channels /\ r[2] \in DataOf(topic[r[1]])
               /\ s[1] \in Channels /\ s[2] \in DataOf(topic[s[1]])
               /\ topic[r[1]][r[2]].end # topic[s[1]][s[2]].end
    <2>1. PICK c, o : r = <<c, o>>
      BY <1>6
    <2>2. PICK d, p : s = <<d, p>>
      BY <1>6
    <2>3. /\ c \in Channels /\ o \in DataOf(topic[c]) /\ topic[c][o].end <= checkpoint[c].ts
          /\ d \in Channels /\ p \in DataOf(topic[d]) /\ checkpoint[d].ts < topic[d][p].end
      BY <1>4, <2>1, <2>2
    <2>4. checkpoint[c].ts = checkpoint[d].ts
      BY <1>a, <2>3 DEF SavedInv
    <2>5. topic[c][o].end # topic[d][p].end
      BY <1>1, <1>3, <2>3, <2>4
    <2> QED
      BY <2>1, <2>2, <2>3, <2>5
  <1> QED
    BY <1>7, <1>8 DEF e

\* Sets that stand for others are put together.
LEMMA StandsForUnion ==
    ASSUME NEW D, NEW S, NEW E, NEW T, StandsFor(topic, D, S), StandsFor(topic, E, T)
    PROVE  StandsFor(topic, D \cup E, S \cup T)
  BY DEF StandsFor

\* Every step keeps what was processed exact, and hands out only what is new.
LEMMA AppliedStep ==
    ASSUME SavedHyp, AppliedExact, [Next]_vars
    PROVE  /\ AppliedExact'
           /\ recvd' = recvd + 1 => Refs(sent[recvd + 1].msgs) \cap applied = {}
  <1>a. TypeInv /\ TypeOK
    BY DEF SavedHyp, ResumeHyp, DeliveryHyp, ReaderHyp, TypeInv
  <1>1. CASE Receive
    <2> DEFINE pack == sent[recvd + 1]
               upto == [c \in Channels |-> checkpoint[c].ts]
               D == Refs(pack.msgs)
               W == Between(topic, upto, pack.end)
    <2>1. StandsFor(topic, D, W) /\ NoCopies(topic, D)
      BY <1>1, NextPack
    <2>2. /\ Covered' = Covered \cup W
          /\ \A r \in Covered, s \in W : /\ r[1] \in Channels /\ r[2] \in DataOf(topic[r[1]])
                                         /\ s[1] \in Channels /\ s[2] \in DataOf(topic[s[1]])
                                         /\ topic[r[1]][r[2]].end # topic[s[1]][s[2]].end
      BY <1>1, NextWindow
    <2>3. topic' = topic /\ applied' = applied \cup D
      BY <1>1, ReceiveSaves
    <2>4. StandsFor(topic, applied, Covered) /\ NoCopies(topic, applied)
      BY DEF AppliedExact, Covered
    <2>5. AppliedExact' <=> StandsFor(topic', applied', Covered') /\ NoCopies(topic', applied')
      BY DEF AppliedExact, Covered
    <2> HIDE DEF D, W
    <2>6. applied \subseteq Covered /\ D \subseteq W
      BY <2>1, <2>4 DEF StandsFor
    <2>7. StandsFor(topic, applied \cup D, Covered \cup W)
      BY <2>1, <2>4, StandsForUnion
    <2>8. \A r \in applied, s \in D : topic[r[1]][r[2]].id # topic[s[1]][s[2]].id
      <3>1. CopiesAgree(topic)
        BY <1>a, TopicsAssumption DEF TypeInv, Topic
      <3> QED
        BY <2>2, <2>6, <3>1 DEF CopiesAgree
    <2>9. NoCopies(topic, applied \cup D)
      BY <2>1, <2>4, <2>8 DEF NoCopies
    <2>10. D \cap applied = {}
      BY <2>8
    <2> QED
      BY <2>2, <2>3, <2>5, <2>7, <2>9, <2>10 DEF D
  <1>2. CASE UNCHANGED <<topic, checkpoint, applied>> /\ recvd' # recvd + 1
    BY <1>2 DEF AppliedExact, Msg
  <1>3. recvd \in Nat
    BY <1>a DEF TypeOK
  <1>4. \/ (\E c \in Channels : AsConsumer(c) \/ SeekChannel(c) \/ SeekMsg(c) \/ BufMerge(c))
        \/ (\E c \in Channels : ConsumeMsg(c) \/ ConsumeStop(c))
        \/ Subscribed \/ SeekReturn \/ ReceiveClosed \/ Crash
        \/ Chan \/ BufStart \/ BufSync \/ BufContinue \/ BufRound \/ BufTick \/ BufMerged \/ BufLoop
        \/ BufSend \/ BufStamp \/ CloseSync \/ CloseCancel \/ CloseLocked \/ Terminated \/ UNCHANGED vars
        => UNCHANGED <<topic, checkpoint, applied>> /\ recvd' \in {recvd, 0}
    BY DEF AsConsumer, SeekChannel, SeekMsg, BufMerge, ConsumeMsg, ConsumeStop, Subscribed, SeekReturn,
       ReceiveClosed, Crash, Chan, BufStart, BufSync, BufContinue, BufRound, BufTick, BufMerged,
       BufLoop, BufSend, BufStamp, CloseSync, CloseCancel, CloseLocked, Terminated, vars, savedVars
  <1>5. recvd' \in {recvd, 0} => recvd' # recvd + 1
    BY <1>3
  <1> QED
    BY <1>1, <1>2, <1>4, <1>5 DEF Next, Program, bufMsgPackToChannel, consumeToTtMsg, Close

\* A program that starts has saved the first position and processed nothing.
LEMMA SavedInit == Init => SavedInv /\ AppliedExact
  <1> SUFFICES ASSUME Init PROVE SavedInv /\ AppliedExact
    OBVIOUS
  <1>1. TypeInv
    BY TypeInit
  <1>2. \A c \in Channels : checkpoint[c] = FirstPos /\ base[c] = FirstPos
    BY DEF Init
  <1>3. \A c \in Channels : ExactPoint(topic[c], FirstPos)
    BY <1>1, FirstResumes
  <1>4. SavedInv
    BY <1>2, <1>3 DEF Init, SavedInv
  <1>5. ASSUME NEW c \in Channels
        PROVE  {o \in DataOf(topic[c]) : Msg(c, o).end <= checkpoint[c].ts} = {}
    <2>1. \A o \in DataOf(topic[c]) : Msg(c, o).end \in Nat /\ Msg(c, o).end > 0
      BY <1>1, LogFacts DEF DataOf, TickPromise, Msg
    <2>2. checkpoint[c].ts = 0
      <3>1. checkpoint[c] = FirstPos /\ FirstPos.ts = 0
        BY <1>2 DEF FirstPos
      <3> QED
        BY <3>1
    <2> QED
      BY <2>1, <2>2
  <1>6. AppliedExact
    BY <1>5 DEF Init, AppliedExact, StandsFor, NoCopies
  <1> QED
    BY <1>4, <1>6

LEMMA StreamInvariance ==
    ASSUME EarlyChan = FALSE, IgnoreBadPosition = FALSE, RowsWithinTicks
    PROVE  Spec => [](TypeInv /\ ReaderInv /\ StreamInv /\ AppliedExact)
  <1>1. Init => SavedInv /\ AppliedExact
    BY SavedInit
  <1>2. TypeInv /\ ReaderInv /\ DeliveryInv /\ PointsInv /\ SavedInv /\ AppliedExact /\ [Next]_vars
           => SavedInv' /\ AppliedExact'
    BY SavedStep, AppliedStep DEF SavedHyp, ResumeHyp, DeliveryHyp, ReaderHyp
  <1> QED
    BY <1>1, <1>2, PointsInvariance, PTL DEF Spec, StreamInv

\* The packs, the positions and what is saved of them stay together, whatever is
\* interleaved with what and wherever the program is restarted.
THEOREM StreamCorrect ==
    ASSUME EarlyChan = FALSE, IgnoreBadPosition = FALSE, RowsWithinTicks
    PROVE  Spec => []StreamInv
  BY StreamInvariance, PTL

\* Across any number of restarts, at any point of the program, what it has processed is
\* exactly what lies before its saved positions, each DML message once.
THEOREM NothingLost ==
    ASSUME EarlyChan = FALSE, IgnoreBadPosition = FALSE, RowsWithinTicks
    PROVE  Spec => []AppliedExact
  BY StreamInvariance, PTL

\* No message reaches the program twice, neither in two packs of one run nor after a
\* restart.
THEOREM NothingTwice ==
    ASSUME EarlyChan = FALSE, IgnoreBadPosition = FALSE, RowsWithinTicks
    PROVE  Spec => NoRedelivery
  <1>1. TypeInv /\ ReaderInv /\ StreamInv /\ AppliedExact /\ [Next]_vars
           => [recvd' = recvd + 1 => Refs(sent[recvd + 1].msgs) \cap applied = {}]_vars
    BY AppliedStep DEF StreamInv, SavedHyp, ResumeHyp, DeliveryHyp, ReaderHyp
  <1> QED
    BY <1>1, StreamInvariance, PTL DEF Spec, NoRedelivery
-------------------------------------------------------------------------------
(* The refinement. *)

\* TickDelivery speaks of the log in the same words.
LEMMA SameOperators ==
    /\ \A t, lo, hi : TD!Between(t, lo, hi) = Between(t, lo, hi)
    /\ \A t, D, S : TD!StandsFor(t, D, S) <=> StandsFor(t, D, S)
    /\ \A t, D : TD!NoCopies(t, D) <=> NoCopies(t, D)
  BY DEF TD!Between, Between, TD!StandsFor, StandsFor, TD!NoCopies, NoCopies, TD!isDMLMsg, isDMLMsg,
     TD!DataOf, DataOf, TD!isData, isData

\* A pack the program takes is the next window of TickDelivery, or, where it ends at
\* the saved positions themselves, nothing.
LEMMA ReceiveDelivers ==
    ASSUME SavedHyp, Receive
    PROVE  [TD!Next]_(TD!vars)
  <1> DEFINE pack == sent[recvd + 1]
             upto == [c \in Channels |-> checkpoint[c].ts]
             D == Refs(pack.msgs)
  <1>a. TypeInv /\ TypeOK /\ SavedInv
    BY DEF SavedHyp, ResumeHyp, DeliveryHyp, ReaderHyp, TypeInv
  <1>1. /\ \A c \in Channels : /\ pack.endPos[c].ts = pack.end /\ checkpoint[c].ts <= pack.end
                               /\ TickOf(c, pack.end)
        /\ pack.end \in Nat
        /\ D \subseteq Channels \X Nat /\ NoCopies(topic, D)
        /\ StandsFor(topic, D, Between(topic, upto, pack.end))
    BY NextPack
  <1>2. topic' = topic /\ applied' = applied \cup D /\ \A c \in Channels : checkpoint'[c] = pack.endPos[c]
    BY ReceiveSaves
  <1>3. upto' = [c \in Channels |-> pack.end]
    BY <1>1, <1>2
  <1>4. \A c \in Channels : checkpoint[c].ts \in Nat
    BY <1>a DEF TypeOK, SeekPos
  <1>5. CASE \E c \in Channels : checkpoint[c].ts = pack.end
    <2>1. \A c \in Channels : checkpoint[c].ts = pack.end
      BY <1>a, <1>5 DEF SavedInv
    <2>2. upto' = upto
      BY <1>3, <2>1
    <2>3. Between(topic, upto, pack.end) = {}
      <3>1. \A c \in Channels : \A o \in DataOf(topic[c]) : topic[c][o].end \in Nat
        BY <1>a, LogFacts DEF DataOf, Msg
      <3> HIDE DEF pack
      <3> QED
        BY <1>1, <2>1, <3>1 DEF Between
    <2>4. applied' = applied
      BY <1>1, <1>2, <2>3 DEF StandsFor
    <2> QED
      BY <1>2, <2>2, <2>4 DEF TD!vars
  <1>6. CASE Channels = {}
    <2>1. upto' = upto /\ applied' = applied
      BY <1>1, <1>2, <1>3, <1>6
    <2> QED
      BY <1>2, <2>1 DEF TD!vars
  <1>7. CASE Channels # {} /\ \A c \in Channels : checkpoint[c].ts # pack.end
    <2> DEFINE e == pack.end
    <2>a. \A c \in Channels : TickOf(c, e) /\ checkpoint[c].ts <= e /\ checkpoint[c].ts # e
      BY <1>1, <1>7
    <2>b. upto' = [c \in Channels |-> e] /\ NoCopies(topic, D) /\ StandsFor(topic, D, Between(topic, upto, e))
          /\ topic' = topic /\ applied' = applied \cup D /\ e \in Nat
      BY <1>1, <1>2, <1>3
    <2> HIDE DEF e, D, pack
    <2>1. e \in TD!Ticks
      BY <1>7, <2>a DEF TD!Ticks, TickOf, Msg, isTimeTick, TD!isTimeTick
    <2>2. \A c \in Channels : e > upto[c]
      BY <1>4, <2>a, <2>b
    <2>3. D \in SUBSET TD!Between(topic, upto, e)
      BY <2>b, SameOperators DEF StandsFor
    <2>4. TD!Deliver(e)
      <3>1. TD!StandsFor(topic, D, TD!Between(topic, upto, e)) /\ TD!NoCopies(topic, D)
        BY <2>b, SameOperators
      <3> QED
        BY <2>b, <2>2, <2>3, <3>1 DEF TD!Deliver
    <2>5. TD!Next
      BY <2>1, <2>4 DEF TD!Next, TD!Deliver
    <2> QED
      BY <2>5
  <1> QED
    BY <1>5, <1>6, <1>7

\* The stream with its restarts implements the delivery of the log tick by tick.
THEOREM ImplementsDelivery ==
    ASSUME EarlyChan = FALSE, IgnoreBadPosition = FALSE, RowsWithinTicks
    PROVE  Spec => Implements
  <1>1. Init => TD!Init
    BY DEF Init, TD!Init, FirstPos
  <1>2. TypeInv /\ ReaderInv /\ StreamInv /\ [Next]_vars => [TD!Next]_(TD!vars)
    <2> SUFFICES ASSUME TypeInv, ReaderInv, StreamInv, [Next]_vars PROVE [TD!Next]_(TD!vars)
      OBVIOUS
    <2>1. CASE Receive
      BY <2>1, ReceiveDelivers DEF StreamInv, SavedHyp, ResumeHyp, DeliveryHyp, ReaderHyp
    <2>2. \/ (\E c \in Channels : AsConsumer(c) \/ SeekChannel(c) \/ SeekMsg(c) \/ BufMerge(c))
          \/ (\E c \in Channels : ConsumeMsg(c) \/ ConsumeStop(c))
          \/ Subscribed \/ SeekReturn \/ ReceiveClosed \/ Crash
          \/ Chan \/ BufStart \/ BufSync \/ BufContinue \/ BufRound \/ BufTick \/ BufMerged \/ BufLoop
          \/ BufSend \/ BufStamp \/ CloseSync \/ CloseCancel \/ CloseLocked \/ Terminated \/ UNCHANGED vars
          => UNCHANGED <<topic, checkpoint, applied>>
      BY DEF AsConsumer, SeekChannel, SeekMsg, BufMerge, ConsumeMsg, ConsumeStop, Subscribed, SeekReturn,
         ReceiveClosed, Crash, Chan, BufStart, BufSync, BufContinue, BufRound, BufTick, BufMerged,
         BufLoop, BufSend, BufStamp, CloseSync, CloseCancel, CloseLocked, Terminated, vars, savedVars
    <2>3. CASE UNCHANGED <<topic, checkpoint, applied>>
      BY <2>3 DEF TD!vars
    <2> QED
      BY <2>1, <2>2, <2>3 DEF Next, Program, bufMsgPackToChannel, consumeToTtMsg, Close
  <1> QED
    BY <1>1, <1>2, StreamInvariance, PTL DEF Spec, Implements, TD!Spec
===============================================================================
