-------------------------- MODULE TtMsgStreamProofs --------------------------
(***************************************************************************)
(* Theorems about TtMsgStream for every set of channels, every log that     *)
(* keeps the producers' promise and every setting of the constants.         *)
(***************************************************************************)
EXTENDS TtMsgStream, TLAPS, WellFoundedInduction

-------------------------------------------------------------------------------
(* Least and greatest elements, which newPos chooses. *)

NatLess == {ss \in Nat \X Nat : ss[1] < ss[2]}

\* The order of the naturals as a set of pairs is well founded.
LEMMA NatLessWellFounded == IsWellFoundedOn(NatLess, Nat)
  BY NatLessThanWellFounded DEF OpToRel, NatLess

\* A non-empty set of naturals has a least element, and Min is it.
LEMMA MinProperty ==
    ASSUME NEW S, S \subseteq Nat, S # {}
    PROVE  Min(S) \in S /\ \A x \in S : Min(S) <= x
  <1>1. PICK m \in S : \A y \in S : ~(<<y, m>> \in NatLess)
    BY NatLessWellFounded, WFMin
  <1>2. ASSUME NEW y \in S PROVE m <= y
    <2>1. m \in Nat /\ y \in Nat
      OBVIOUS
    <2>2. y < m => <<y, m>> \in NatLess
      BY <2>1 DEF NatLess
    <2>3. ~(y < m)
      BY <1>1, <2>2
    <2> QED
      BY <2>1, <2>3
  <1> QED
    BY <1>2 DEF Min

\* A non-empty set of naturals with an upper bound has a greatest element.
LEMMA MaxProperty ==
    ASSUME NEW n \in Nat, NEW S, S \subseteq 1..n, S # {}
    PROVE  Max(S) \in S /\ \A x \in S : Max(S) >= x
  <1> DEFINE T == {n - x : x \in S}
  <1>a. \A x \in S : x \in Nat /\ x <= n /\ n - x \in Nat
    OBVIOUS
  <1>1. T \subseteq Nat /\ T # {}
    <2>1. \A t \in T : t \in Nat
      BY <1>a
    <2>2. \A x \in S : n - x \in T
      OBVIOUS
    <2> QED
      BY <2>1, <2>2
  <1>2. Min(T) \in T /\ \A t \in T : Min(T) <= t
    <2> HIDE DEF T
    <2> QED BY <1>1, MinProperty
  <1>3. PICK m \in S : Min(T) = n - m
    BY <1>2
  <1>4. ASSUME NEW x \in S PROVE m >= x
    <2>1. n - m <= n - x
      BY <1>2, <1>3
    <2> QED
      BY <1>a, <2>1
  <1>5. \A x \in S : m >= x
    BY <1>4
  <1> QED
    BY <1>5 DEF Max
-------------------------------------------------------------------------------
(* Types and control. *)

TypeInv == TypeOK /\ topic \in Topics /\ ControlInv

\* The messages of a run of chunks lie in the channels.
LEMMA RefsType ==
    ASSUME NEW msgs \in Seq(Chunk)
    PROVE  Refs(msgs) \subseteq Channels \X Nat
  <1>1. \A k \in DOMAIN msgs : msgs[k].chan \in Channels /\ msgs[k].offs \subseteq Nat
    <2>1. \A k \in DOMAIN msgs : msgs[k] \in Chunk
      OBVIOUS
    <2> QED
      BY <2>1 DEF Chunk
  <1> QED
    BY <1>1 DEF Refs

\* Dropping copies keeps the chunks.
LEMMA UniqueMsgsType ==
    ASSUME NEW msgs \in Seq(Chunk)
    PROVE  uniqueMsgs(msgs) \in Seq(Chunk)
  <1>1. \A k \in DOMAIN msgs :
           [chan |-> msgs[k].chan, offs |-> {o \in msgs[k].offs : ~Duplicated(msgs, k, o)}] \in Chunk
    <2>1. \A k \in DOMAIN msgs : msgs[k] \in Chunk
      OBVIOUS
    <2>2. \A k \in DOMAIN msgs : msgs[k].chan \in Channels /\ msgs[k].offs \subseteq Nat
      BY <2>1 DEF Chunk
    <2> QED
      BY <2>2 DEF Chunk
  <1>2. DOMAIN msgs = 1..Len(msgs) /\ Len(msgs) \in Nat
    OBVIOUS
  <1>3. uniqueMsgs(msgs) \in [1..Len(msgs) -> Chunk]
    BY <1>1, <1>2 DEF uniqueMsgs
  <1> QED
    BY <1>2, <1>3

\* The position after a cut has a MsgID, or there is none.
LEMMA NewPosType ==
    ASSUME TypeOK, NEW c \in Channels
    PROVE  newPos(c) \in SeekPos \cup {NilPos}
  <1>1. tempBuffer(c) \subseteq 1..cursor[c] /\ ttMsgs(c) \subseteq 1..cursor[c]
    BY DEF TypeOK, tempBuffer, ttMsgs
  <1>2. cursor[c] \in Nat /\ endTs \in Nat
    BY DEF TypeOK
  <1>3. tempBuffer(c) # {} => Min(tempBuffer(c)) \in tempBuffer(c)
    BY <1>1, MinProperty
  <1>4. ttMsgs(c) # {} => Max(ttMsgs(c)) \in ttMsgs(c)
    BY <1>1, <1>2, MaxProperty
  <1> QED
    BY <1>1, <1>2, <1>3, <1>4 DEF newPos, SeekPos

\* Reading one message keeps a buffer behind its cursor.
LEMMA ReadType ==
    ASSUME TypeOK, NEW c \in Channels,
           cursor' = [cursor EXCEPT ![c] = cursor[c] + 1],
           \/ chanMsgBuf' = chanMsgBuf
           \/ chanMsgBuf' = [chanMsgBuf EXCEPT ![c] = chanMsgBuf[c] \cup {cursor[c] + 1}]
    PROVE  /\ cursor' \in [Channels -> Nat]
           /\ chanMsgBuf' \in [Channels -> SUBSET Nat]
           /\ \A d \in Channels : chanMsgBuf'[d] \subseteq 1..cursor'[d]
  <1>1. cursor \in [Channels -> Nat] /\ chanMsgBuf \in [Channels -> SUBSET Nat]
    BY DEF TypeOK
  <1>2. \A d \in Channels : chanMsgBuf[d] \subseteq 1..cursor[d]
    BY DEF TypeOK
  <1>3. cursor' \in [Channels -> Nat] /\ chanMsgBuf' \in [Channels -> SUBSET Nat]
    BY <1>1
  <1>4. ASSUME NEW d \in Channels PROVE chanMsgBuf'[d] \subseteq 1..cursor'[d]
    <2>1. CASE d = c
      <3>1. cursor'[d] = cursor[d] + 1 /\ chanMsgBuf'[d] \subseteq chanMsgBuf[d] \cup {cursor[d] + 1}
        BY <1>1, <2>1
      <3> QED
        BY <1>1, <1>2, <3>1
    <2>2. CASE d # c
      BY <1>1, <1>2, <2>2
    <2> QED
      BY <2>1, <2>2
  <1> QED
    BY <1>3, <1>4

\* TypeInv holds in the initial states.
LEMMA TypeInit == Init => TypeInv
  <1> SUFFICES ASSUME Init PROVE TypeInv
    OBVIOUS
  <1>1. <<>> \in Seq(Chunk) /\ <<>> \in Seq(MsgPack) /\ Len(sent) = 0
    BY DEF Init
  <1>2. TypeOK
    <2>1. FirstPos \in SeekPos /\ NilPos \in Position \cup {NilPos}
      BY DEF FirstPos, SeekPos
    <2>2. recvd \in 0..Len(sent) /\ \A c \in Channels : chanMsgBuf[c] \subseteq 1..cursor[c]
      BY <1>1 DEF Init
    <2>3. crashes \in 0..MaxCrashes
      BY BoundsAssumption DEF Init
    <2> QED
      BY <1>1, <2>1, <2>2, <2>3 DEF Init, TypeOK
  <1>3. ControlInv
    BY DEF Init, ControlInv
  <1> QED
    BY <1>2, <1>3 DEF Init, TypeInv

\* Every step preserves ControlInv.
LEMMA ControlStep == TypeInv /\ [Next]_vars => ControlInv'
  <1> SUFFICES ASSUME TypeInv, [Next]_vars PROVE ControlInv'
    OBVIOUS
  <1> USE DEF TypeInv, TypeOK, ControlInv, streamVars, localVars, closeVars, seekVars,
              savedVars
  <1>1. CASE \E c \in Channels : AsConsumer(c)
    BY <1>1 DEF AsConsumer, addConsumer
  <1>2. CASE \E c \in Channels : SeekChannel(c)
    BY <1>2 DEF SeekChannel, addConsumer, latestOff
  <1>3. CASE \E c \in Channels : SeekMsg(c)
    BY <1>3 DEF SeekMsg
  <1>4. CASE Subscribed
    BY <1>4 DEF Subscribed
  <1>5. CASE SeekReturn
    BY <1>5 DEF SeekReturn
  <1>6. CASE Chan
    BY <1>6 DEF Chan
  <1>7. CASE Receive
    BY <1>7 DEF Receive
  <1>8. CASE ReceiveClosed
    BY <1>8 DEF ReceiveClosed
  <1>9. CASE BufStart
    BY <1>9 DEF BufStart
  <1>10. CASE BufSync
    <2>1. token' \in BOOLEAN /\ gpc' \in {"loop", "exit"}
      BY <1>10, Zenon DEF BufSync
    <2> QED
      BY <1>10, <2>1, SMTT(30) DEF BufSync
  <1>11. CASE BufLoop
    BY <1>11 DEF BufLoop
  <1>12. CASE BufContinue
    BY <1>12 DEF BufContinue
  <1>13. CASE BufRound
    BY <1>13 DEF BufRound
  <1>14. CASE BufTick
    BY <1>14 DEF BufTick
  <1>15. CASE \E c \in Channels : BufMerge(c)
    BY <1>15 DEF BufMerge
  <1>16. CASE BufMerged
    BY <1>16 DEF BufMerged
  <1>17. CASE BufSend
    BY <1>17 DEF BufSend
  <1>18. CASE BufStamp
    BY <1>18 DEF BufStamp
  <1>19. CASE CloseSync
    BY <1>19 DEF CloseSync
  <1>20. CASE CloseCancel
    BY <1>20 DEF CloseCancel
  <1>21. CASE CloseLocked
    BY <1>21 DEF CloseLocked, ReadLocked
  <1>22. CASE Crash
    BY <1>22 DEF Crash
  <1>23. CASE Terminated
    BY <1>23 DEF Terminated, vars
  <1>24. CASE \E c \in Channels : ConsumeMsg(c)
    BY <1>24 DEF ConsumeMsg
  <1>25. CASE \E c \in Channels : ConsumeStop(c)
    BY <1>25 DEF ConsumeStop
  <1>26. CASE UNCHANGED vars
    BY <1>26 DEF vars
  <1> QED
    BY <1>1, <1>2, <1>3, <1>4, <1>5, <1>6, <1>7, <1>8, <1>9, <1>10, <1>11, <1>12, <1>13, <1>14, <1>15, <1>16, <1>17, <1>18, <1>19, <1>20, <1>21, <1>22, <1>23, <1>24, <1>25, <1>26
    DEF Next, Program, bufMsgPackToChannel, consumeToTtMsg, Close
\* Every step preserves the types.
LEMMA TypeStep == TypeInv /\ [Next]_vars => TypeOK'
  <1> SUFFICES ASSUME TypeInv, [Next]_vars PROVE TypeOK'
    OBVIOUS
  <1> USE DEF TypeInv, TypeOK, streamVars, localVars, closeVars, seekVars, savedVars
  <1>1. CASE \E c \in Channels : AsConsumer(c)
    <2> PICK c \in Channels : AsConsumer(c)
      BY <1>1
    <2>1. [off |-> 0, ts |-> lastTimeStamp] \in Position
      BY DEF Position
    <2>2. \A d \in Channels : chanMsgBuf'[d] \subseteq 1..cursor'[d]
      BY DEF AsConsumer, addConsumer
    <2>3. token' \in BOOLEAN
      BY DEF AsConsumer, addConsumer
    <2> QED
      BY <2>1, <2>2, <2>3 DEF AsConsumer, addConsumer
  <1>2. CASE \E c \in Channels : SeekChannel(c)
    <2> PICK c \in Channels : SeekChannel(c)
      BY <1>2
    <2>1. topic[c] \in Seq(TsMsg)
      BY TopicsAssumption DEF Topic
    <2>2. PICK off \in {checkpoint[c].off, latestOff(c), 1} :
             /\ base' = [base EXCEPT ![c] = [off |-> off, ts |-> checkpoint[c].ts]]
             /\ cursor' = [cursor EXCEPT ![c] = off - 1]
      BY DEF SeekChannel, seekInclusive
    <2>3. latestOff(c) \in Nat \ {0}
      BY <2>1 DEF latestOff
    <2>4. off \in Nat \ {0} /\ off - 1 \in Nat
      BY <2>3 DEF SeekPos
    <2>5. [off |-> off, ts |-> checkpoint[c].ts] \in SeekPos /\ checkpoint[c] \in Position
      BY <2>4 DEF SeekPos, Position
    <2>6. base' \in [Channels -> SeekPos] /\ cursor' \in [Channels -> Nat]
      BY <2>2, <2>4, <2>5
    <2>7. \A d \in Channels : chanMsgBuf'[d] \subseteq 1..cursor'[d]
      BY <2>2 DEF SeekChannel, addConsumer
    <2>8. token' \in BOOLEAN
      BY DEF SeekChannel, addConsumer
    <2> QED
      BY <2>5, <2>6, <2>7, <2>8, SMTT(40) DEF SeekChannel, addConsumer
  <1>3. CASE \E c \in Channels : SeekMsg(c)
    <2> PICK c \in Channels : SeekMsg(c)
      BY <1>3
    <2>1. cursor' = [cursor EXCEPT ![c] = cursor[c] + 1]
      BY DEF SeekMsg
    <2>2. \/ chanMsgBuf' = chanMsgBuf
          \/ chanMsgBuf' = [chanMsgBuf EXCEPT ![c] = chanMsgBuf[c] \cup {cursor[c] + 1}]
      BY DEF SeekMsg
    <2>3. /\ cursor' \in [Channels -> Nat] /\ chanMsgBuf' \in [Channels -> SUBSET Nat]
          /\ \A d \in Channels : chanMsgBuf'[d] \subseteq 1..cursor'[d]
      BY <2>1, <2>2, ReadType
    <2> QED
      BY <2>3, SMTT(40) DEF SeekMsg
  <1>4. CASE Subscribed
    BY <1>4 DEF Subscribed
  <1>5. CASE SeekReturn
    BY <1>5 DEF SeekReturn
  <1>6. CASE Chan
    BY <1>6 DEF Chan
  <1>7. CASE Receive
    <2> DEFINE pack == sent[recvd + 1]
    <2>1. recvd + 1 \in 1..Len(sent) /\ pack \in MsgPack
      BY <1>7 DEF Receive
    <2>2. Refs(pack.msgs) \subseteq Channels \X Nat
      BY <2>1, RefsType DEF MsgPack
    <2>3. checkpoint' \in [Channels -> SeekPos]
      BY <1>7, <2>1 DEF Receive, MsgPack
    <2>4. applied' \subseteq Channels \X Nat
      BY <1>7, <2>2 DEF Receive
    <2> QED
      BY <1>7, <2>1, <2>3, <2>4 DEF Receive
  <1>8. CASE ReceiveClosed
    BY <1>8 DEF ReceiveClosed
  <1>9. CASE BufStart
    BY <1>9 DEF BufStart
  <1>10. CASE BufSync
    BY <1>10, ZenonT(60) DEF BufSync
  <1>11. CASE BufLoop
    <2>1. CASE cancelled
      BY <1>11, <2>1 DEF BufLoop
    <2>2. CASE ~cancelled
      <3>1. <<>> \in Seq(Chunk)
        OBVIOUS
      <3>2. timeTickBuf' = <<>>
        BY <1>11, <2>2 DEF BufLoop
      <3> QED
        BY <1>11, <2>2, <3>1, <3>2 DEF BufLoop
    <2> QED
      BY <2>1, <2>2
  <1>12. CASE BufContinue
    BY <1>12 DEF BufContinue
  <1>13. CASE BufRound
    BY <1>13 DEF BufRound
  <1>14. CASE BufTick
    <2>1. currTs \in Nat
      BY <1>14 DEF BufTick, ControlInv, currTs
    <2>2. nextTtMsgSync \in [Channels -> BOOLEAN]
      BY DEF nextTtMsgSync, allChanReachSameTtMsg, atMaxTime
    <2> QED
      BY <1>14, <2>1, <2>2 DEF BufTick
  <1>15. CASE \E c \in Channels : BufMerge(c)
    <2> PICK c \in Channels : BufMerge(c)
      BY <1>15
    <2>1. newPos(c) \in SeekPos \cup {NilPos}
      BY NewPosType
    <2>2. newPos(c) \in Position \cup {NilPos}
      BY <2>1 DEF SeekPos, Position
    <2>3. [chan |-> c, offs |-> readyMsgs(c)] \in Chunk
      BY DEF Chunk, readyMsgs
    <2>4. tempBuffer(c) \subseteq chanMsgBuf[c]
      BY DEF tempBuffer
    <2>5. /\ chanMsgBuf' \in [Channels -> SUBSET Nat]
          /\ \A d \in Channels : chanMsgBuf'[d] \subseteq 1..cursor'[d]
      BY <2>4 DEF BufMerge
    <2>6. timeTickBuf' \in Seq(Chunk)
      BY <2>3 DEF BufMerge
    <2>7. endPositions' \in [Channels -> SeekPos \cup {NilPos}]
      BY <2>1 DEF BufMerge
    <2>8. startPositions' \in [Channels -> Position \cup {NilPos}]
      BY DEF BufMerge
    <2>9. chanMsgPos' \in [Channels -> Position \cup {NilPos}]
      BY <2>2 DEF BufMerge
    <2> QED
      BY <2>5, <2>6, <2>7, <2>8, <2>9 DEF BufMerge
  <1>16. CASE BufMerged
    BY <1>16 DEF BufMerged
  <1>17. CASE BufSend
    <2>1. uniqueMsgs(timeTickBuf) \in Seq(Chunk)
      BY UniqueMsgsType
    <2> DEFINE pack == [begin |-> lastTimeStamp, end |-> endTs, msgs |-> uniqueMsgs(timeTickBuf),
                        startPos |-> startPositions, endPos |-> endPositions]
    <2>2. pack \in MsgPack
      BY <2>1 DEF MsgPack
    <2> HIDE DEF pack
    <2>3. Append(sent, pack) \in Seq(MsgPack) /\ Len(Append(sent, pack)) = Len(sent) + 1
      BY <2>2
    <2>4. sent' = sent \/ sent' = Append(sent, pack)
      BY <1>17 DEF BufSend, pack
    <2>5. sent' \in Seq(MsgPack) /\ recvd \in 0..Len(sent')
      <3>1. Len(sent) \in Nat /\ recvd \in Nat /\ recvd <= Len(sent)
        OBVIOUS
      <3>2. CASE sent' = sent
        BY <3>1, <3>2
      <3>3. CASE sent' = Append(sent, pack)
        <4>1. sent' \in Seq(MsgPack) /\ Len(sent') = Len(sent) + 1
          BY <2>3, <3>3
        <4> QED
          BY <3>1, <4>1
      <3> QED
        BY <2>4, <3>2, <3>3
    <2> QED
      BY <1>17, <2>5, SMTT(40) DEF BufSend
  <1>18. CASE BufStamp
    BY <1>18 DEF BufStamp
  <1>19. CASE CloseSync
    BY <1>19 DEF CloseSync
  <1>20. CASE CloseCancel
    BY <1>20 DEF CloseCancel
  <1>21. CASE CloseLocked
    BY <1>21 DEF CloseLocked
  <1>22. CASE Crash
    <2>1. <<>> \in Seq(Chunk) /\ <<>> \in Seq(MsgPack)
      OBVIOUS
    <2>2. FirstPos \in SeekPos
      BY DEF FirstPos, SeekPos
    <2>3. crashes' \in 0..MaxCrashes
      BY <1>22, BoundsAssumption DEF Crash
    <2>4. recvd' \in 0..Len(sent') /\ \A c \in Channels : chanMsgBuf'[c] \subseteq 1..cursor'[c]
      BY <1>22 DEF Crash
    <2> QED
      BY <1>22, <2>1, <2>2, <2>3, <2>4 DEF Crash
  <1>23. CASE Terminated
    BY <1>23 DEF Terminated, vars
  <1>24. CASE \E c \in Channels : ConsumeMsg(c)
    <2> PICK c \in Channels : ConsumeMsg(c)
      BY <1>24
    <2>1. cursor' = [cursor EXCEPT ![c] = cursor[c] + 1]
      BY DEF ConsumeMsg
    <2>2. \/ chanMsgBuf' = chanMsgBuf
          \/ chanMsgBuf' = [chanMsgBuf EXCEPT ![c] = chanMsgBuf[c] \cup {cursor[c] + 1}]
      BY DEF ConsumeMsg
    <2>3. /\ cursor' \in [Channels -> Nat] /\ chanMsgBuf' \in [Channels -> SUBSET Nat]
          /\ \A d \in Channels : chanMsgBuf'[d] \subseteq 1..cursor'[d]
      BY <2>1, <2>2, ReadType
    <2>4. Msg(c, cursor[c] + 1) \in TsMsg
      <3>1. topic[c] \in Seq(TsMsg)
        BY TopicsAssumption DEF Topic
      <3>2. cursor[c] + 1 \in 1..Len(topic[c])
        BY <3>1 DEF ConsumeMsg
      <3> QED
        BY <3>1, <3>2 DEF Msg
    <2>5. chanTtMsgTime' \in [Channels -> Nat]
      BY <2>4 DEF ConsumeMsg, TsMsg
    <2>6. /\ workers' \subseteq workers /\ sent' = sent
          /\ UNCHANGED <<consumers, chanMsgPos, lastTimeStamp, token, consumerLock, recvd, gpc,
                         localVars, closeVars, apc, seekVars, savedVars>>
      BY DEF ConsumeMsg
    <2>7. workers' \subseteq consumers' /\ toMerge' \subseteq consumers' /\ recvd' \in 0..Len(sent')
      BY <2>6
    <2> QED
      BY <2>3, <2>5, <2>6, <2>7, SMTT(60)
  <1>25. CASE \E c \in Channels : ConsumeStop(c)
    BY <1>25 DEF ConsumeStop
  <1>26. CASE UNCHANGED vars
    BY <1>26 DEF vars
  <1> QED
    BY <1>1, <1>2, <1>3, <1>4, <1>5, <1>6, <1>7, <1>8, <1>9, <1>10, <1>11, <1>12, <1>13, <1>14, <1>15, <1>16, <1>17, <1>18, <1>19, <1>20, <1>21, <1>22, <1>23, <1>24, <1>25, <1>26
    DEF Next, Program, bufMsgPackToChannel, consumeToTtMsg, Close
\* TypeInv is an invariant.
LEMMA TypeInvariance == Spec => []TypeInv
  <1>1. TypeInv /\ [Next]_vars => TypeInv'
    <2>1. TypeInv /\ [Next]_vars => topic' \in Topics
      BY DEF TypeInv, Next, Program, bufMsgPackToChannel, consumeToTtMsg, Close, vars, AsConsumer,
         SeekChannel, SeekMsg, Subscribed, SeekReturn, Chan, Receive, ReceiveClosed, Crash,
         BufStart, BufSync, BufLoop, BufContinue, BufRound, BufTick, BufMerge, BufMerged,
         BufSend, BufStamp, ConsumeMsg, ConsumeStop, CloseSync, CloseCancel, CloseLocked,
         Terminated
    <2> QED
      BY <2>1, TypeStep, ControlStep DEF TypeInv
  <1> QED
    BY <1>1, TypeInit, PTL DEF Spec

\* Every variable keeps its type, whatever the channels, the logs and the settings.
THEOREM TypeCorrect == Spec => []TypeOK
  <1>1. TypeInv => TypeOK
    BY DEF TypeInv
  <1> QED
    BY <1>1, TypeInvariance, PTL

\* Close closes receiveBuf only when bufMsgPackToChannel and its goroutines are
\* gone: no send on a closed channel, whenever Close is called.
THEOREM ClosedQuiet == Spec => []NoSendOnClosed
  <1>1. TypeInv => NoSendOnClosed
    BY DEF TypeInv, ControlInv, NoSendOnClosed, ReadLocked
  <1> QED
    BY <1>1, TypeInvariance, PTL
-------------------------------------------------------------------------------
(* The buffers and positions of a stream that is started in the documented order *)
(* (Chan after AsConsumer and Seek).                                             *)

\* The messages of a log have their fields, and keep the promise.
LEMMA LogFacts ==
    ASSUME TypeInv, NEW c \in Channels
    PROVE  /\ topic[c] \in Seq(TsMsg) /\ DOMAIN topic[c] = 1..Len(topic[c])
           /\ \A o \in DOMAIN topic[c] : Msg(c, o).begin \in Nat /\ Msg(c, o).end \in Nat
           /\ TickPromise(topic[c])
  <1>1. topic[c] \in Seq(TsMsg) /\ TickPromise(topic[c])
    BY TopicsAssumption DEF TypeInv, Topic
  <1>2. \A o \in DOMAIN topic[c] : topic[c][o] \in TsMsg
    BY <1>1
  <1> QED
    BY <1>1, <1>2, SMTT(40) DEF TsMsg, Msg

\* A step that leaves a channel alone keeps its part of the invariant.
LEMMA ChannelFrame ==
    ASSUME NEW c \in Channels, ChannelInv(c), topic' = topic,
           cursor'[c] = cursor[c], base'[c] = base[c], chanMsgPos'[c] = chanMsgPos[c],
           chanMsgBuf'[c] = chanMsgBuf[c], chanTtMsgTime'[c] = chanTtMsgTime[c],
           c \notin seekChan' => c \notin seekChan
    PROVE  ChannelInv(c)'
  <1>1. ttMsgs(c)' = ttMsgs(c) /\ Wanted(c)' = Wanted(c) /\ Unread(c)' = Unread(c)
    BY DEF ttMsgs, Wanted, Unread, Msg
  <1>2. \A o : Msg(c, o)' = Msg(c, o)
    BY DEF Msg
  <1> QED
    BY <1>1, <1>2 DEF ChannelInv
-------------------------------------------------------------------------------
(* The steps that change a channel. *)

\* A subscribed channel starts with an empty buffer before its first message.
LEMMA AsConsumerChannel ==
    ASSUME TypeInv, ReaderInv, NEW c \in Channels, AsConsumer(c)
    PROVE  ChannelInv(c)'
  <1>1. topic' = topic /\ cursor' = cursor /\ base' = base /\ seekChan' = seekChan
    BY DEF AsConsumer, seekVars
  <1>2. cursor[c] = 0 /\ base[c] = FirstPos /\ lastTimeStamp = 0
    BY DEF AsConsumer, ReaderInv, StartInv
  <1>3. /\ chanMsgBuf'[c] = {} /\ chanTtMsgTime'[c] = 0
        /\ chanMsgPos'[c] = [off |-> 0, ts |-> 0]
    BY <1>2 DEF AsConsumer, addConsumer, TypeInv, TypeOK
  <1>4. ttMsgs(c)' = {}
    BY <1>3 DEF ttMsgs
  <1>5. \A o \in Unread(c)' : /\ Msg(c, o)' = Msg(c, o) /\ o \in DOMAIN topic[c]
                              /\ Msg(c, o).begin \in Nat
                              /\ isData(Msg(c, o)) => Msg(c, o).begin > 0
    BY <1>1, LogFacts DEF Unread, Msg, TickPromise
  <1>6. {o \in Wanted(c)' : o <= cursor'[c] /\ Msg(c, o)'.end > chanMsgPos'[c].ts} = {}
    BY <1>1, <1>2, LogFacts DEF Wanted, DataOf
  <1>7. base'[c].off <= cursor'[c] + 1 /\ chanMsgPos'[c] # NilPos /\ chanMsgPos'[c].ts >= base'[c].ts
    BY <1>1, <1>2, <1>3 DEF FirstPos, NilPos
  <1> QED
    BY <1>3, <1>4, <1>5, <1>6, <1>7 DEF ChannelInv

\* A sought channel starts with an empty buffer at the message it was positioned at.
LEMMA SeekChannelChannel ==
    ASSUME TypeInv, ReaderInv, NEW c \in Channels, SeekChannel(c)
    PROVE  ChannelInv(c)'
  <1>1. topic' = topic /\ seekChan' = {c}
    BY DEF SeekChannel
  <1>2. PICK off \in Nat \ {0} : /\ base'[c] = [off |-> off, ts |-> checkpoint[c].ts]
                                 /\ cursor'[c] = off - 1
    <2>1. topic[c] \in Seq(TsMsg)
      BY LogFacts
    <2>2. latestOff(c) \in Nat \ {0}
      BY <2>1 DEF latestOff
    <2>3. checkpoint[c].off \in Nat \ {0}
      BY DEF TypeInv, TypeOK, SeekPos
    <2> QED
      BY <2>2, <2>3 DEF SeekChannel, seekInclusive, TypeInv, TypeOK
  <1>3. /\ chanMsgBuf'[c] = {} /\ chanTtMsgTime'[c] = 0
        /\ chanMsgPos'[c] = checkpoint[c]
    BY DEF SeekChannel, addConsumer, TypeInv, TypeOK
  <1>4. ttMsgs(c)' = {}
    BY <1>3 DEF ttMsgs
  <1>5. \A o \in Unread(c)' : /\ Msg(c, o)' = Msg(c, o) /\ o \in DOMAIN topic[c]
                              /\ Msg(c, o).begin \in Nat
                              /\ isData(Msg(c, o)) => Msg(c, o).begin > 0
    BY <1>1, LogFacts DEF Unread, Msg, TickPromise
  <1>6. {o \in Wanted(c)' : o <= cursor'[c] /\ Msg(c, o)'.end > chanMsgPos'[c].ts} = {}
    BY <1>1, <1>2, LogFacts DEF Wanted, DataOf
  <1>7. checkpoint[c].ts \in Nat /\ checkpoint[c] # NilPos
    BY DEF TypeInv, TypeOK, SeekPos, NilPos
  <1>8. base'[c].off <= cursor'[c] + 1 /\ chanMsgPos'[c] # NilPos /\ chanMsgPos'[c].ts >= base'[c].ts
    BY <1>2, <1>3, <1>7
  <1> QED
    BY <1>1, <1>3, <1>4, <1>5, <1>6, <1>7, <1>8 DEF ChannelInv

\* Reading the message after the cursor, what both Seek and consumeToTtMsg do.
LEMMA NextMsg ==
    ASSUME TypeInv, NEW c \in Channels, cursor[c] < Len(topic[c]), ChannelInv(c)
    PROVE  /\ cursor[c] + 1 \in Unread(c)
           /\ {o \in DOMAIN topic[c] : o > cursor[c] + 1} \subseteq Unread(c)
           /\ isTimeTick(Msg(c, cursor[c] + 1)) =>
                 \A o \in DOMAIN topic[c] : o > cursor[c] + 1 =>
                    /\ isData(Msg(c, o)) => Msg(c, o).begin > Msg(c, cursor[c] + 1).begin
                    /\ isTimeTick(Msg(c, o)) => Msg(c, o).begin >= Msg(c, cursor[c] + 1).begin
  <1>1. cursor[c] \in Nat /\ DOMAIN topic[c] = 1..Len(topic[c]) /\ Len(topic[c]) \in Nat
    BY LogFacts, SMTT(40) DEF TypeInv, TypeOK
  <1>2. cursor[c] + 1 \in DOMAIN topic[c]
    BY <1>1
  <1> QED
    BY <1>1, <1>2, LogFacts, SMTT(40) DEF Unread, TickPromise, Msg

\* consumeToTtMsg buffers a message that is wanted, and remembers a tick.
LEMMA ConsumeMsgChannel ==
    ASSUME TypeInv, ReaderInv, NEW c \in Channels, ConsumeMsg(c), ChannelInv(c), c \notin seekChan
    PROVE  ChannelInv(c)'
  <1> DEFINE o == cursor[c] + 1
             m == Msg(c, o)
             pos == chanMsgPos[c]
  <1>1. /\ topic' = topic /\ chanMsgPos' = chanMsgPos /\ base' = base /\ seekChan' = seekChan
        /\ cursor'[c] = o /\ cursor[c] \in Nat
    BY DEF ConsumeMsg, seekVars, TypeInv, TypeOK
  <1>2. /\ o \in Unread(c) /\ o \in DOMAIN topic[c] /\ m.begin \in Nat /\ m.end \in Nat
        /\ isData(m) => m.begin <= m.end /\ m.begin > 0
        /\ isTimeTick(m) => m.begin > 0
    <2>1. o \in Unread(c)
      BY NextMsg DEF ConsumeMsg
    <2> QED
      BY <2>1, LogFacts DEF Unread, TickPromise, Msg
  <1>3. pos \in Position /\ pos.ts \in Nat /\ base[c].ts \in Nat /\ base[c].off \in Nat
        /\ pos.ts >= base[c].ts /\ base[c].off <= o
    BY DEF TypeInv, TypeOK, Position, SeekPos, ChannelInv
  <1>4. isData(m) => o \in Wanted(c) /\ m.end > pos.ts
    BY <1>2, <1>3 DEF ChannelInv, Wanted, DataOf, Msg
  <1>5. Wanted(c)' = Wanted(c) /\ Unread(c)' \subseteq Unread(c)
    <2>1. Wanted(c)' = Wanted(c)
      BY <1>1 DEF Wanted, Msg
    <2>2. \A x \in DOMAIN topic[c] : x \in Nat
      BY LogFacts
    <2> QED
      BY <1>1, <2>1, <2>2 DEF Unread
  <1>6. \A x : Msg(c, x)' = Msg(c, x)
    BY <1>1 DEF Msg
  <1>7. Unread(c)' = {x \in DOMAIN topic[c] : x > cursor[c] + 1}
    BY <1>1 DEF Unread
  <1>8. chanMsgBuf'[c] = IF m.type = "Bad" THEN chanMsgBuf[c] ELSE chanMsgBuf[c] \cup {o}
    BY DEF ConsumeMsg, TypeInv, TypeOK
  <1>9. chanTtMsgTime'[c] = IF isTimeTick(m) THEN m.begin ELSE chanTtMsgTime[c]
    BY DEF ConsumeMsg, TypeInv, TypeOK
  <1>10. ttMsgs(c)' = IF isTimeTick(m) THEN ttMsgs(c) \cup {o} ELSE ttMsgs(c)
    BY <1>6, <1>8 DEF ttMsgs, isTimeTick
  <1>11. chanMsgBuf[c] \subseteq 1..cursor[c]
    BY DEF TypeInv, TypeOK
  <1>12. chanMsgBuf'[c] \ ttMsgs(c)' =
            {x \in Wanted(c)' : x <= cursor'[c] /\ Msg(c, x)'.end > chanMsgPos'[c].ts}
    <2> DEFINE held == chanMsgBuf[c] \ ttMsgs(c)
    <2>1. held = {x \in Wanted(c) : x <= cursor[c] /\ Msg(c, x).end > pos.ts}
      BY DEF ChannelInv
    <2>2. chanMsgBuf'[c] \ ttMsgs(c)' = IF isData(m) THEN held \cup {o} ELSE held
      <3>1. o \notin chanMsgBuf[c]
        BY <1>1, <1>11
      <3>2. isData(m) <=> m.type # "Bad" /\ ~isTimeTick(m)
        BY DEF isData, isTimeTick
      <3>3. ttMsgs(c) \subseteq chanMsgBuf[c] /\ (isTimeTick(m) => m.type # "Bad")
        BY DEF ttMsgs, isTimeTick
      <3> QED
        BY <1>8, <1>10, <3>1, <3>2, <3>3
    <2>3. \A x \in Wanted(c) : x \in Nat /\ isData(Msg(c, x))
      BY LogFacts DEF Wanted, DataOf, Msg
    <2>4. \A x \in Wanted(c) : x <= o <=> x <= cursor[c] \/ x = o
      BY <1>1, <2>3
    <2>5. {x \in Wanted(c)' : x <= cursor'[c] /\ Msg(c, x)'.end > chanMsgPos'[c].ts}
             = {x \in Wanted(c) : (x <= cursor[c] \/ x = o) /\ Msg(c, x).end > pos.ts}
      BY <1>1, <1>5, <1>6, <2>4
    <2>6. CASE isData(m)
      <3> HIDE DEF o, held
      <3> QED
        BY <1>4, <2>1, <2>2, <2>5, <2>6 DEF m
    <2>7. CASE ~isData(m)
      <3>1. o \notin Wanted(c)
        BY <2>3, <2>7
      <3> HIDE DEF o, held
      <3> QED
        BY <2>1, <2>2, <2>5, <2>7, <3>1
    <2> QED
      BY <2>6, <2>7
  <1>13. \A x \in Unread(c)' :
            /\ isData(Msg(c, x)) => Msg(c, x).begin > chanTtMsgTime'[c]
            /\ isTimeTick(Msg(c, x)) => Msg(c, x).begin >= chanTtMsgTime'[c]
    <2>1. CASE isTimeTick(m)
      BY <1>7, <1>9, <2>1, NextMsg DEF ConsumeMsg
    <2>2. CASE ~isTimeTick(m)
      BY <1>5, <1>9, <2>2 DEF ChannelInv
    <2> QED
      BY <2>1, <2>2
  <1>14. \A x \in Unread(c)' :
            /\ isData(Msg(c, x)) => Msg(c, x).begin > pos.ts
            /\ isTimeTick(Msg(c, x)) => Msg(c, x).begin >= pos.ts
    BY <1>5 DEF ChannelInv
  <1>15. chanTtMsgTime'[c] = 0 \/ chanTtMsgTime'[c] >= pos.ts
    BY <1>2, <1>9 DEF ChannelInv
  <1>16. chanTtMsgTime'[c] > pos.ts => ttMsgs(c)' # {}
    BY <1>9, <1>10 DEF ChannelInv
  <1>17. base'[c].off <= cursor'[c] + 1 /\ chanMsgPos'[c] # NilPos /\ chanMsgPos'[c].ts >= base'[c].ts
    BY <1>1, <1>3 DEF ChannelInv
  <1> HIDE DEF o, m, pos
  <1> QED
    BY <1>1, <1>6, <1>12, <1>13, <1>14, <1>15, <1>16, <1>17 DEF ChannelInv, pos

\* Seek buffers a message that is wanted, skips one that is not, and stops behind
\* the first tick that is not older than the position.
LEMMA SeekMsgChannel ==
    ASSUME TypeInv, ReaderInv, NEW c \in Channels, SeekMsg(c), ChannelInv(c)
    PROVE  ChannelInv(c)'
  <1> DEFINE o == cursor[c] + 1
             m == Msg(c, o)
             pos == chanMsgPos[c]
  <1>1. /\ topic' = topic /\ chanMsgPos' = chanMsgPos /\ base' = base
        /\ chanTtMsgTime' = chanTtMsgTime /\ cursor'[c] = o /\ cursor[c] \in Nat
        /\ c \in seekChan
    BY DEF SeekMsg, TypeInv, TypeOK
  <1>2. /\ o \in Unread(c) /\ o \in DOMAIN topic[c] /\ m.begin \in Nat /\ m.end \in Nat
        /\ isData(m) => m.begin <= m.end
    <2>1. o \in Unread(c)
      BY NextMsg DEF SeekMsg
    <2> QED
      BY <2>1, LogFacts DEF Unread, TickPromise, Msg
  <1>3. /\ pos.ts = base[c].ts /\ pos.ts \in Nat /\ base[c].off \in Nat /\ base[c].off <= o
        /\ chanTtMsgTime[c] = 0
    <2>1. apc = "seek" /\ c \in consumers
      BY DEF SeekMsg, ReaderInv, StartInv
    <2> QED
      BY <2>1 DEF ReaderInv, StartInv, TypeInv, TypeOK, SeekPos, ChannelInv
  <1>4. Wanted(c)' = Wanted(c) /\ Unread(c)' \subseteq Unread(c)
    <2>1. Wanted(c)' = Wanted(c)
      BY <1>1 DEF Wanted, Msg
    <2>2. \A x \in DOMAIN topic[c] : x \in Nat
      BY LogFacts
    <2> QED
      BY <1>1, <2>1, <2>2 DEF Unread
  <1>5. \A x : Msg(c, x)' = Msg(c, x)
    BY <1>1 DEF Msg
  <1>6. Unread(c)' = {x \in DOMAIN topic[c] : x > cursor[c] + 1}
    BY <1>1 DEF Unread
  <1>7. chanMsgBuf'[c] = IF isData(m) /\ m.begin > pos.ts THEN chanMsgBuf[c] \cup {o}
                         ELSE chanMsgBuf[c]
    <2>1. chanMsgBuf \in [Channels -> SUBSET Nat]
      BY DEF TypeInv, TypeOK
    <2>2. CASE m.type = "Bad"
      BY <2>2 DEF SeekMsg, isData, isTimeTick
    <2>3. CASE isTimeTick(m) /\ m.begin >= pos.ts
      BY <2>3 DEF SeekMsg, isData, isTimeTick
    <2>4. CASE m.type # "Bad" /\ ~(isTimeTick(m) /\ m.begin >= pos.ts)
      <3>1. chanMsgBuf' = IF m.begin > pos.ts THEN [chanMsgBuf EXCEPT ![c] = @ \cup {o}]
                          ELSE chanMsgBuf
        BY <2>4 DEF SeekMsg, isTimeTick
      <3>2. m.begin > pos.ts => ~isTimeTick(m)
        BY <1>2, <1>3, <2>4
      <3>3. ~isTimeTick(m) <=> isData(m)
        BY <2>4 DEF isData, isTimeTick
      <3> HIDE DEF m, o, pos
      <3> QED
        BY <2>1, <3>1, <3>2, <3>3
    <2> QED
      BY <2>2, <2>3, <2>4
  <1>8. ttMsgs(c)' = ttMsgs(c)
    BY <1>5, <1>7 DEF ttMsgs, isTimeTick, isData
  <1>9. chanMsgBuf'[c] \ ttMsgs(c)' =
            {x \in Wanted(c)' : x <= cursor'[c] /\ Msg(c, x)'.end > chanMsgPos'[c].ts}
    <2> DEFINE held == chanMsgBuf[c] \ ttMsgs(c)
    <2>1. held = {x \in Wanted(c) : x <= cursor[c] /\ Msg(c, x).end > pos.ts}
      BY DEF ChannelInv
    <2>2. o \notin chanMsgBuf[c] /\ ttMsgs(c) \subseteq chanMsgBuf[c]
      BY <1>1 DEF TypeInv, TypeOK, ttMsgs
    <2>3. o \in Wanted(c) <=> isData(m) /\ m.begin > pos.ts
      BY <1>2, <1>3 DEF Wanted, DataOf, Msg
    <2>4. chanMsgBuf'[c] \ ttMsgs(c)' = IF o \in Wanted(c) THEN held \cup {o} ELSE held
      BY <1>7, <1>8, <2>2, <2>3
    <2>5. \A x \in Wanted(c) : x <= o <=> x <= cursor[c] \/ x = o
      BY <1>1, LogFacts DEF Wanted, DataOf
    <2>6. {x \in Wanted(c)' : x <= cursor'[c] /\ Msg(c, x)'.end > chanMsgPos'[c].ts}
             = {x \in Wanted(c) : (x <= cursor[c] \/ x = o) /\ Msg(c, x).end > pos.ts}
      BY <1>1, <1>4, <1>5, <2>5
    <2>7. o \in Wanted(c) => Msg(c, o).end > pos.ts
      BY <1>2, <1>3, <2>3
    <2> HIDE DEF o, held
    <2> QED
      BY <2>1, <2>4, <2>6, <2>7
  <1>10. c \notin seekChan' => isTimeTick(m) /\ m.begin >= pos.ts
    BY <1>1 DEF SeekMsg
  <1>11. c \notin seekChan' =>
            \A x \in Unread(c)' : /\ isData(Msg(c, x)) => Msg(c, x).begin > pos.ts
                                  /\ isTimeTick(Msg(c, x)) => Msg(c, x).begin >= pos.ts
    <2> SUFFICES ASSUME c \notin seekChan', NEW x \in Unread(c)'
                 PROVE  /\ isData(Msg(c, x)) => Msg(c, x).begin > pos.ts
                        /\ isTimeTick(Msg(c, x)) => Msg(c, x).begin >= pos.ts
      OBVIOUS
    <2>1. /\ isData(Msg(c, x)) => Msg(c, x).begin > m.begin
          /\ isTimeTick(Msg(c, x)) => Msg(c, x).begin >= m.begin
      BY <1>6, <1>10, NextMsg DEF SeekMsg
    <2>2. Msg(c, x).begin \in Nat
      BY <1>6, LogFacts
    <2> HIDE DEF m
    <2> QED
      BY <1>2, <1>3, <1>10, <2>1, <2>2
  <1>12. \A x \in Unread(c)' :
            /\ isData(Msg(c, x)) => Msg(c, x).begin > chanTtMsgTime[c]
            /\ isTimeTick(Msg(c, x)) => Msg(c, x).begin >= chanTtMsgTime[c]
    BY <1>4 DEF ChannelInv
  <1>13. base'[c].off <= cursor'[c] + 1 /\ chanMsgPos'[c] # NilPos /\ chanMsgPos'[c].ts >= base'[c].ts
    BY <1>1, <1>3 DEF ChannelInv
  <1> HIDE DEF o, m, pos
  <1> QED
    BY <1>1, <1>3, <1>5, <1>8, <1>9, <1>11, <1>12, <1>13 DEF ChannelInv, pos

\* Cutting a buffer at the common tick moves the position to it.
LEMMA BufMergeChannel ==
    ASSUME TypeInv, ReaderInv, NEW c \in Channels, BufMerge(c), ChannelInv(c)
    PROVE  ChannelInv(c)' /\ chanMsgPos'[c] # NilPos /\ chanMsgPos'[c].ts = endTs
  <1> DEFINE pos == chanMsgPos[c]
  <1>1. /\ topic' = topic /\ base' = base /\ cursor' = cursor /\ seekChan' = seekChan
        /\ chanTtMsgTime' = chanTtMsgTime /\ endTs' = endTs
        /\ chanMsgBuf'[c] = tempBuffer(c) /\ chanMsgPos'[c] = newPos(c)
    BY DEF BufMerge, seekVars, TypeInv, TypeOK
  <1>2. /\ c \in consumers /\ chanMsgBuf[c] # {}
        /\ chanTtMsgTime[c] = endTs /\ endTs > 0
    BY DEF BufMerge, ReaderInv, CutInv, TypeInv, TypeOK
  <1>3. endTs \in Nat /\ pos.ts \in Nat /\ base[c].ts \in Nat /\ chanMsgBuf[c] \subseteq 1..cursor[c]
        /\ cursor[c] \in Nat
    BY DEF TypeInv, TypeOK, ChannelInv, Position, SeekPos
  <1>4. endTs >= pos.ts
    BY <1>2, <1>3 DEF ChannelInv
  <1>5. chanMsgBuf[c] = tempBuffer(c) \cup readyMsgs(c) \cup ttMsgs(c)
    <2>1. \A o \in chanMsgBuf[c] : ~isTimeTick(Msg(c, o)) => Msg(c, o).end \in Nat
      <3>1. \A o \in chanMsgBuf[c] : ~isTimeTick(Msg(c, o)) => o \in Wanted(c)
        BY DEF ChannelInv, ttMsgs
      <3> QED
        BY <3>1, LogFacts DEF Wanted, DataOf
    <2> QED
      BY <1>3, <2>1 DEF tempBuffer, readyMsgs, ttMsgs
  <1>6. tempBuffer(c) # {} \/ ttMsgs(c) # {}
    <2>1. CASE endTs > pos.ts
      BY <1>2, <2>1 DEF ChannelInv
    <2>2. CASE endTs = pos.ts
      <3>1. readyMsgs(c) = {}
        <4>1. \A o \in readyMsgs(c) : o \in Wanted(c) /\ Msg(c, o).end > pos.ts /\ Msg(c, o).end <= endTs
          BY DEF ChannelInv, readyMsgs, ttMsgs
        <4>2. \A o \in Wanted(c) : Msg(c, o).end \in Nat
          BY LogFacts DEF Wanted, DataOf
        <4> QED
          BY <1>3, <2>2, <4>1, <4>2
      <3> QED
        BY <1>2, <1>5, <3>1
    <2> QED
      BY <1>3, <1>4, <2>1, <2>2
  <1>7. newPos(c) \in SeekPos /\ newPos(c) # NilPos /\ newPos(c).ts = endTs
    <2>1. tempBuffer(c) \subseteq 1..cursor[c] /\ ttMsgs(c) \subseteq 1..cursor[c]
      BY <1>3 DEF tempBuffer, ttMsgs
    <2>2. tempBuffer(c) # {} => Min(tempBuffer(c)) \in tempBuffer(c)
      BY <2>1, MinProperty
    <2>3. ttMsgs(c) # {} => Max(ttMsgs(c)) \in ttMsgs(c)
      BY <1>3, <2>1, MaxProperty
    <2> QED
      BY <1>3, <1>6, <2>1, <2>2, <2>3 DEF newPos, SeekPos, NilPos
  <1>8. ttMsgs(c)' = {} /\ Wanted(c)' = Wanted(c) /\ Unread(c)' = Unread(c)
    BY <1>1 DEF ttMsgs, tempBuffer, Wanted, Unread, Msg
  <1>9. \A x : Msg(c, x)' = Msg(c, x)
    BY <1>1 DEF Msg
  <1>10. tempBuffer(c) = {o \in Wanted(c) : o <= cursor[c] /\ Msg(c, o).end > endTs}
    <2>1. tempBuffer(c) = {o \in chanMsgBuf[c] \ ttMsgs(c) : Msg(c, o).end > endTs}
      BY DEF tempBuffer, ttMsgs
    <2>2. chanMsgBuf[c] \ ttMsgs(c) = {o \in Wanted(c) : o <= cursor[c] /\ Msg(c, o).end > pos.ts}
      BY DEF ChannelInv
    <2>3. \A o \in Wanted(c) : Msg(c, o).end > endTs => Msg(c, o).end > pos.ts
      BY <1>3, <1>4, LogFacts DEF Wanted, DataOf
    <2> QED
      BY <2>1, <2>2, <2>3
  <1>11. chanMsgBuf'[c] \ ttMsgs(c)' =
            {x \in Wanted(c)' : x <= cursor'[c] /\ Msg(c, x)'.end > chanMsgPos'[c].ts}
    BY <1>1, <1>7, <1>8, <1>9, <1>10
  <1>12. \A x \in Unread(c)' :
            /\ isData(Msg(c, x)) => Msg(c, x).begin > endTs
            /\ isTimeTick(Msg(c, x)) => Msg(c, x).begin >= endTs
    BY <1>2, <1>8 DEF ChannelInv
  <1>13. base'[c].off <= cursor'[c] + 1 /\ chanMsgPos'[c] # NilPos /\ chanMsgPos'[c].ts >= base'[c].ts
    <2>1. pos.ts >= base[c].ts /\ base[c].off <= cursor[c] + 1
      BY DEF ChannelInv
    <2> QED
      BY <1>1, <1>3, <1>4, <1>7, <2>1
  <1>14. chanTtMsgTime'[c] = endTs /\ chanMsgPos'[c].ts = endTs
    BY <1>1, <1>2, <1>7
  <1> HIDE DEF pos
  <1> QED
    BY <1>3, <1>9, <1>11, <1>12, <1>13, <1>14 DEF ChannelInv
-------------------------------------------------------------------------------
(* The invariant. *)

ReaderHyp == EarlyChan = FALSE /\ TypeInv /\ ReaderInv

\* Start-up keeps its order in every step.
LEMMA StartStep == ReaderHyp /\ [Next]_vars => StartInv'
  <1> SUFFICES ASSUME ReaderHyp, [Next]_vars PROVE StartInv'
    OBVIOUS
  <1> USE DEF ReaderHyp, ReaderInv, StartInv, TypeInv, TypeOK, ControlInv, streamVars,
              localVars, closeVars, seekVars, savedVars
  <1>1. CASE \E c \in Channels : AsConsumer(c)
    <2> PICK c \in Channels : AsConsumer(c)
      BY <1>1
    <2>1. apc = "new" /\ consumers' = consumers \cup {c} /\ lastTimeStamp = 0 /\ base[c].ts = 0
      BY DEF AsConsumer, addConsumer, FirstPos
    <2>2. /\ chanMsgPos' = [chanMsgPos EXCEPT ![c] = [off |-> 0, ts |-> 0]]
          /\ chanTtMsgTime' = [chanTtMsgTime EXCEPT ![c] = 0]
      BY <2>1 DEF AsConsumer, addConsumer
    <2>3. \A d \in consumers' : chanMsgPos'[d].ts = base[d].ts /\ chanTtMsgTime'[d] = 0
      BY <2>1, <2>2
    <2> QED
      BY <2>1, <2>3 DEF AsConsumer
  <1>2. CASE \E c \in Channels : SeekChannel(c)
    BY <1>2 DEF SeekChannel, addConsumer, latestOff
  <1>3. CASE \E c \in Channels : SeekMsg(c)
    BY <1>3 DEF SeekMsg
  <1>4. CASE Subscribed
    BY <1>4 DEF Subscribed
  <1>5. CASE SeekReturn
    BY <1>5 DEF SeekReturn
  <1>6. CASE Chan
    BY <1>6 DEF Chan
  <1>7. CASE Receive
    BY <1>7 DEF Receive
  <1>8. CASE ReceiveClosed
    BY <1>8 DEF ReceiveClosed
  <1>9. CASE BufStart
    BY <1>9 DEF BufStart
  <1>10. CASE BufSync
    BY <1>10 DEF BufSync
  <1>11. CASE BufLoop
    BY <1>11 DEF BufLoop
  <1>12. CASE BufContinue
    BY <1>12 DEF BufContinue
  <1>13. CASE BufRound
    BY <1>13 DEF BufRound
  <1>14. CASE BufTick
    BY <1>14 DEF BufTick
  <1>15. CASE \E c \in Channels : BufMerge(c)
    BY <1>15 DEF BufMerge
  <1>16. CASE BufMerged
    BY <1>16 DEF BufMerged
  <1>17. CASE BufSend
    BY <1>17 DEF BufSend
  <1>18. CASE BufStamp
    BY <1>18 DEF BufStamp
  <1>19. CASE CloseSync
    BY <1>19 DEF CloseSync
  <1>20. CASE CloseCancel
    BY <1>20 DEF CloseCancel
  <1>21. CASE CloseLocked
    BY <1>21 DEF CloseLocked
  <1>22. CASE Crash
    BY <1>22 DEF Crash
  <1>23. CASE Terminated
    BY <1>23 DEF Terminated, vars
  <1>24. CASE \E c \in Channels : ConsumeMsg(c)
    BY <1>24 DEF ConsumeMsg
  <1>25. CASE \E c \in Channels : ConsumeStop(c)
    BY <1>25 DEF ConsumeStop
  <1>26. CASE UNCHANGED vars
    BY <1>26 DEF vars
  <1> QED
    BY <1>1, <1>2, <1>3, <1>4, <1>5, <1>6, <1>7, <1>8, <1>9, <1>10, <1>11, <1>12, <1>13,
       <1>14, <1>15, <1>16, <1>17, <1>18, <1>19, <1>20, <1>21, <1>22, <1>23, <1>24, <1>25, <1>26
    DEF Next, Program, bufMsgPackToChannel, consumeToTtMsg, Close

\* A tick that ends a round is the position of every channel with an empty buffer.
LEMMA TickCut == ReaderHyp /\ BufTick => CutInv'
  <1> SUFFICES ASSUME ReaderHyp, BufTick, gpc' = "merge" PROVE CutInv'
    BY DEF CutInv
  <1>1. /\ allChanReachSameTtMsg /\ currTs > lastTimeStamp /\ endTs' = currTs
        /\ toMerge' = {c \in consumers : chanMsgBuf[c] # {}}
        /\ consumers' = consumers /\ chanMsgBuf' = chanMsgBuf
        /\ chanMsgPos' = chanMsgPos /\ chanTtMsgTime' = chanTtMsgTime
    BY DEF BufTick, streamVars
  <1>2. /\ consumers # {} /\ consumers \subseteq Channels /\ lastTimeStamp \in Nat
        /\ chanTtMsgTime \in [Channels -> Nat]
    BY DEF ReaderHyp, TypeInv, TypeOK, ControlInv, BufTick
  <1>3. \A c \in consumers : chanTtMsgTime[c] = currTs
    BY <1>1, <1>2 DEF allChanReachSameTtMsg, currTs
  <1>4. currTs \in Nat /\ currTs > 0
    BY <1>1, <1>2, <1>3
  <1>5. ASSUME NEW c \in consumers, chanMsgBuf[c] = {} PROVE chanMsgPos[c].ts = currTs
    <2>1. ttMsgs(c) = {}
      BY <1>5 DEF ttMsgs
    <2>2. chanMsgPos[c].ts \in Nat
      BY <1>2 DEF ReaderHyp, ReaderInv, ChannelInv, TypeInv, TypeOK, Position
    <2> QED
      BY <1>3, <1>4, <2>1, <2>2 DEF ReaderHyp, ReaderInv, ChannelInv
  <1> QED
    BY <1>1, <1>3, <1>4, <1>5 DEF CutInv

\* Every step keeps the cut in progress at the common tick.
LEMMA CutStep == ReaderHyp /\ [Next]_vars => CutInv'
  <1> SUFFICES ASSUME ReaderHyp, [Next]_vars PROVE CutInv'
    OBVIOUS
  <1> USE DEF ReaderHyp, ReaderInv, CutInv, TypeInv, TypeOK, ControlInv, streamVars,
              localVars, closeVars, seekVars, savedVars
  <1>1. CASE \E c \in Channels : AsConsumer(c)
    BY <1>1 DEF AsConsumer, addConsumer
  <1>2. CASE \E c \in Channels : SeekChannel(c)
    BY <1>2 DEF SeekChannel, addConsumer, latestOff
  <1>3. CASE \E c \in Channels : SeekMsg(c)
    BY <1>3 DEF SeekMsg
  <1>4. CASE Subscribed
    BY <1>4 DEF Subscribed
  <1>5. CASE SeekReturn
    BY <1>5 DEF SeekReturn
  <1>6. CASE Chan
    BY <1>6 DEF Chan
  <1>7. CASE Receive
    BY <1>7 DEF Receive
  <1>8. CASE ReceiveClosed
    BY <1>8 DEF ReceiveClosed
  <1>9. CASE BufStart
    BY <1>9 DEF BufStart
  <1>10. CASE BufSync
    BY <1>10 DEF BufSync
  <1>11. CASE BufLoop
    BY <1>11 DEF BufLoop
  <1>12. CASE BufContinue
    BY <1>12 DEF BufContinue
  <1>13. CASE BufRound
    BY <1>13 DEF BufRound
  <1>14. CASE BufTick
    BY <1>14, TickCut
  <1>15. CASE \E c \in Channels : BufMerge(c)
    <2> PICK c \in Channels : BufMerge(c)
      BY <1>15
    <2>1. c \in consumers /\ ChannelInv(c)
      BY DEF BufMerge
    <2>2. chanMsgPos'[c].ts = endTs
      BY <2>1, BufMergeChannel
    <2> QED
      BY <2>1, <2>2 DEF BufMerge
  <1>16. CASE BufMerged
    BY <1>16 DEF BufMerged
  <1>17. CASE BufSend
    BY <1>17 DEF BufSend
  <1>18. CASE BufStamp
    BY <1>18 DEF BufStamp
  <1>19. CASE CloseSync
    BY <1>19 DEF CloseSync
  <1>20. CASE CloseCancel
    BY <1>20 DEF CloseCancel
  <1>21. CASE CloseLocked
    BY <1>21 DEF CloseLocked
  <1>22. CASE Crash
    BY <1>22 DEF Crash
  <1>23. CASE Terminated
    BY <1>23 DEF Terminated, vars
  <1>24. CASE \E c \in Channels : ConsumeMsg(c)
    BY <1>24 DEF ConsumeMsg
  <1>25. CASE \E c \in Channels : ConsumeStop(c)
    BY <1>25 DEF ConsumeStop
  <1>26. CASE UNCHANGED vars
    BY <1>26 DEF vars
  <1> QED
    BY <1>1, <1>2, <1>3, <1>4, <1>5, <1>6, <1>7, <1>8, <1>9, <1>10, <1>11, <1>12, <1>13,
       <1>14, <1>15, <1>16, <1>17, <1>18, <1>19, <1>20, <1>21, <1>22, <1>23, <1>24, <1>25, <1>26
    DEF Next, Program, bufMsgPackToChannel, consumeToTtMsg, Close

\* Every step keeps the buffer and the position of every channel.
LEMMA ChannelsStep == ReaderHyp /\ [Next]_vars => \A c \in consumers' : ChannelInv(c)'
  <1> SUFFICES ASSUME ReaderHyp, [Next]_vars, NEW c \in consumers' PROVE ChannelInv(c)'
    OBVIOUS
  <1> DEFINE Idle == /\ UNCHANGED <<topic, consumers, chanMsgBuf, chanMsgPos, chanTtMsgTime>>
                     /\ UNCHANGED <<cursor, base, seekChan>>
  <1>a. TypeInv /\ ReaderInv /\ StartInv /\ TypeOK
    BY DEF ReaderHyp, ReaderInv, TypeInv
  <1>b. \A d \in consumers : ChannelInv(d) /\ d \in Channels
    BY <1>a DEF ReaderInv, TypeOK
  <1>1. CASE \E d \in Channels : AsConsumer(d)
    <2> PICK d \in Channels : AsConsumer(d)
      BY <1>1
    <2>1. CASE c = d
      BY <1>a, <2>1, AsConsumerChannel
    <2>2. CASE c # d
      <3>1. c \in consumers
        BY <2>2 DEF AsConsumer, addConsumer
      <3> QED
        BY <1>a, <1>b, <2>2, <3>1, ChannelFrame DEF AsConsumer, addConsumer, seekVars, TypeOK
    <2> QED
      BY <2>1, <2>2
  <1>2. CASE \E d \in Channels : SeekChannel(d)
    <2> PICK d \in Channels : SeekChannel(d)
      BY <1>2
    <2>1. CASE c = d
      BY <1>a, <2>1, SeekChannelChannel
    <2>2. CASE c # d
      <3>1. c \in consumers /\ topic' = topic /\ seekChan = {}
        BY <2>2 DEF SeekChannel, addConsumer
      <3>2. cursor'[c] = cursor[c] /\ base'[c] = base[c]
        BY <1>a, <1>b, <2>2, <3>1 DEF SeekChannel, TypeOK
      <3>3. /\ chanMsgBuf'[c] = chanMsgBuf[c] /\ chanMsgPos'[c] = chanMsgPos[c]
            /\ chanTtMsgTime'[c] = chanTtMsgTime[c]
        BY <1>a, <1>b, <2>2, <3>1 DEF SeekChannel, addConsumer, TypeOK
      <3> QED
        BY <1>b, <3>1, <3>2, <3>3, ChannelFrame
    <2> QED
      BY <2>1, <2>2
  <1>3. CASE \E d \in Channels : SeekMsg(d)
    <2> PICK d \in Channels : SeekMsg(d)
      BY <1>3
    <2>1. c \in consumers /\ topic' = topic /\ base' = base /\ chanMsgPos' = chanMsgPos
          /\ chanTtMsgTime' = chanTtMsgTime
      BY DEF SeekMsg
    <2>2. CASE c = d
      BY <1>a, <1>b, <2>1, <2>2, SeekMsgChannel
    <2>3. CASE c # d
      <3>1. seekChan = {d}
        BY <1>a DEF SeekMsg, StartInv
      <3>2. cursor'[c] = cursor[c] /\ chanMsgBuf'[c] = chanMsgBuf[c]
        BY <1>a, <1>b, <2>1, <2>3 DEF SeekMsg, TypeOK
      <3> QED
        BY <1>b, <2>1, <2>3, <3>1, <3>2, ChannelFrame
    <2> QED
      BY <2>2, <2>3
  <1>4. CASE \E d \in Channels : BufMerge(d)
    <2> PICK d \in Channels : BufMerge(d)
      BY <1>4
    <2>1. c \in consumers
      BY DEF BufMerge
    <2>2. CASE c = d
      BY <1>a, <1>b, <2>1, <2>2, BufMergeChannel
    <2>3. CASE c # d
      BY <1>a, <1>b, <2>1, <2>3, ChannelFrame DEF BufMerge, seekVars, TypeOK
    <2> QED
      BY <2>2, <2>3
  <1>5. CASE \E d \in Channels : ConsumeMsg(d)
    <2> PICK d \in Channels : ConsumeMsg(d)
      BY <1>5
    <2>1. c \in consumers
      BY DEF ConsumeMsg
    <2>2. CASE c = d
      <3>1. c \notin seekChan
        BY <1>a DEF ConsumeMsg, StartInv, TypeInv, ControlInv
      <3> QED
        BY <1>a, <1>b, <2>1, <2>2, <3>1, ConsumeMsgChannel
    <2>3. CASE c # d
      BY <1>a, <1>b, <2>1, <2>3, ChannelFrame DEF ConsumeMsg, seekVars, TypeOK
    <2> QED
      BY <2>2, <2>3
  <1>6. CASE Crash
    BY <1>6 DEF Crash
  <1>7. CASE Idle
    BY <1>b, <1>7, ChannelFrame
  <1>8. \/ Subscribed \/ SeekReturn \/ Chan \/ Receive \/ ReceiveClosed \/ BufStart
        \/ BufSync \/ BufLoop \/ BufContinue \/ BufRound \/ BufTick \/ BufMerged
        \/ BufSend \/ BufStamp \/ CloseSync \/ CloseCancel \/ CloseLocked \/ Terminated
        \/ (\E d \in Channels : ConsumeStop(d)) \/ UNCHANGED vars
        => Idle
    BY DEF Subscribed, SeekReturn, Chan, Receive, ReceiveClosed, BufStart, BufSync, BufLoop,
       BufContinue, BufRound, BufTick, BufMerged, BufSend, BufStamp, CloseSync, CloseCancel,
       CloseLocked, Terminated, ConsumeStop, vars, streamVars, seekVars
  <1> QED
    BY <1>1, <1>2, <1>3, <1>4, <1>5, <1>6, <1>7, <1>8
    DEF Next, Program, bufMsgPackToChannel, consumeToTtMsg, Close

\* A stream that is started in the documented order reads every channel exactly:
\* whatever the rounds, the skipped ticks and the cuts, the buffer of a channel
\* holds the messages between its position and its cursor, and only those.
THEOREM ReaderCorrect == ASSUME EarlyChan = FALSE PROVE Spec => []ReaderInv
  <1>1. Init => ReaderInv
    BY DEF Init, ReaderInv, StartInv, CutInv
  <1>2. TypeInv /\ ReaderInv /\ [Next]_vars => ReaderInv'
    BY StartStep, CutStep, ChannelsStep DEF ReaderHyp, ReaderInv
  <1> QED
    BY <1>1, <1>2, TypeInvariance, PTL DEF Spec

\* Every cut finds a position to clone: chanMsgPos is never left nil, although the
\* merge of bufMsgPackToChannel clears it when the buffer holds neither a tick nor
\* a message that was held back.
THEOREM PositionsKept == ASSUME EarlyChan = FALSE PROVE Spec => []PositionsSet
  <1>1. ReaderInv => PositionsSet
    BY DEF ReaderInv, ChannelInv, PositionsSet
  <1> QED
    BY <1>1, ReaderCorrect, PTL
===============================================================================
