----------------------------- MODULE PulsarProofs -----------------------------
(***************************************************************************)
(* The consumer wrapper for every length of its topic, every size of its    *)
(* channels and any number of restarts: the messages between library and    *)
(* reader are one unbroken run, and the reader sees the cursor on which the *)
(* streams are modelled.                                                   *)
(***************************************************************************)
EXTENDS PulsarConsumer, Integers, TLAPS

-------------------------------------------------------------------------------
(* The pipeline, piece by piece. *)

\* A concatenation is a run exactly if its parts are, one behind the other.
LEMMA RunConcat ==
    ASSUME NEW s \in Seq(Nat), NEW t \in Seq(Nat), NEW lo \in Int
    PROVE  /\ s \o t \in Seq(Nat) /\ Len(s \o t) = Len(s) + Len(t)
           /\ Run(s \o t, lo) <=> Run(s, lo) /\ Run(t, lo + Len(s))
  <1>1. s \o t \in Seq(Nat) /\ Len(s \o t) = Len(s) + Len(t)
    OBVIOUS
  <1>2. \A i \in 1..Len(s) : (s \o t)[i] = s[i]
    OBVIOUS
  <1>3. \A i \in 1..Len(t) : (s \o t)[Len(s) + i] = t[i]
    OBVIOUS
  <1>4. ASSUME Run(s \o t, lo) PROVE Run(s, lo) /\ Run(t, lo + Len(s))
    <2>1. ASSUME NEW i \in 1..Len(s) PROVE s[i] = lo + i - 1
      <3>1. i \in DOMAIN (s \o t)
        BY <1>1
      <3> QED
        BY <3>1, <1>2, <1>4 DEF Run
    <2>2. ASSUME NEW i \in 1..Len(t) PROVE t[i] = lo + Len(s) + i - 1
      <3>1. Len(s) + i \in DOMAIN (s \o t)
        BY <1>1
      <3>2. (s \o t)[Len(s) + i] = lo + (Len(s) + i) - 1
        BY <3>1, <1>4 DEF Run
      <3> QED
        BY <3>2, <1>3
    <2>3. DOMAIN s = 1..Len(s) /\ DOMAIN t = 1..Len(t)
      OBVIOUS
    <2> QED
      BY <2>1, <2>2, <2>3, Zenon DEF Run
  <1>5. ASSUME Run(s, lo), Run(t, lo + Len(s)) PROVE Run(s \o t, lo)
    <2> SUFFICES ASSUME NEW i \in DOMAIN (s \o t) PROVE (s \o t)[i] = lo + i - 1
      BY DEF Run
    <2>1. i \in 1..(Len(s) + Len(t))
      BY <1>1
    <2>2. CASE i <= Len(s)
      BY <2>1, <2>2, <1>2, <1>5 DEF Run
    <2>3. CASE i > Len(s)
      <3>1. i - Len(s) \in 1..Len(t) /\ i = Len(s) + (i - Len(s))
        BY <2>1, <2>3
      <3>2. (s \o t)[i] = t[i - Len(s)]
        BY <3>1, <1>3
      <3> QED
        BY <3>1, <3>2, <1>5, SMTT(40) DEF Run
    <2> QED
      BY <2>1, <2>2, <2>3
  <1> QED
    BY <1>1, <1>4, <1>5

\* The next message at the end, and the first one taken, leave a run.
LEMMA RunAppend ==
    ASSUME NEW s \in Seq(Nat), NEW lo \in Int, Run(s, lo), NEW e \in Nat, e = lo + Len(s)
    PROVE  Run(Append(s, e), lo) /\ Len(Append(s, e)) = Len(s) + 1
  BY DEF Run

LEMMA RunTail ==
    ASSUME NEW s \in Seq(Nat), s # <<>>, NEW lo \in Int, Run(s, lo)
    PROVE  /\ Head(s) = lo /\ Run(Tail(s), lo + 1)
           /\ Len(Tail(s)) = Len(s) - 1 /\ Len(s) > 0
  BY DEF Run

\* The empty sequence is a run.
LEMMA RunEmpty == ASSUME NEW lo PROVE Run(<<>>, lo) /\ Len(<<>>) = 0
  BY DEF Run

\* How many messages the goroutine holds, and the first message on its way.
held1 == IF gpc \in {"skip?", "send"} THEN 1 ELSE 0
lowest == readPos + 1 - (Len(got) + Len(msgChannel) + held1 + Len(receiveCh))

\* InFlight, part by part.
Flow ==
    ~closeCh /\ apc = "idle" =>
        /\ Run(got, lowest)
        /\ Run(msgChannel, lowest + Len(got))
        /\ held1 = 1 => held = lowest + Len(got) + Len(msgChannel)
        /\ Run(receiveCh, readPos + 1 - Len(receiveCh))
        /\ from = IF skip THEN lowest + 1 ELSE lowest

\* Flow says what InFlight says.
LEMMA FlowIsInFlight == ASSUME TypeOK PROVE Flow <=> InFlight
  <1>1. /\ got \in Seq(Nat) /\ msgChannel \in Seq(Nat) /\ receiveCh \in Seq(Nat)
        /\ held \in Nat /\ readPos \in Nat /\ published \in Nat
    BY PulsarAssumption DEF TypeOK, Queues, Counters
  <1>2. /\ Holding \in Seq(Nat) /\ Len(Holding) = held1 /\ held1 \in {0, 1}
        /\ \A lo \in Int : Run(Holding, lo) <=> (held1 = 1 => held = lo)
    BY <1>1 DEF Holding, held1, Run
  <1> DEFINE taken == got \o msgChannel
             ahead == taken \o Holding
  <1>3. /\ taken \in Seq(Nat) /\ Len(taken) = Len(got) + Len(msgChannel)
        /\ \A lo \in Int : Run(taken, lo) <=> Run(got, lo) /\ Run(msgChannel, lo + Len(got))
    <2>1. taken \in Seq(Nat) /\ Len(taken) = Len(got) + Len(msgChannel)
      BY <1>1
    <2> QED
      BY <1>1, <2>1, RunConcat
  <1>31. taken \in Seq(Nat)
    BY <1>3
  <1> HIDE DEF taken
  <1>4. /\ ahead \in Seq(Nat) /\ Len(ahead) = Len(taken) + held1
        /\ \A lo \in Int : Run(ahead, lo) <=> Run(taken, lo) /\ Run(Holding, lo + Len(taken))
    <2>1. Holding \in Seq(Nat) /\ Len(Holding) = held1
      BY <1>2
    <2>2. ahead \in Seq(Nat) /\ Len(ahead) = Len(taken) + Len(Holding)
      BY <2>1, <1>31
    <2>3. ASSUME NEW lo \in Int
          PROVE  Run(ahead, lo) <=> Run(taken, lo) /\ Run(Holding, lo + Len(taken))
      BY <2>1, <1>3, RunConcat, Zenon
    <2> QED
      BY <2>1, <2>2, <2>3
  <1>5. Pipeline = ahead \o receiveCh
    BY DEF Pipeline, taken
  <1> HIDE DEF ahead
  <1>6. /\ Len(Pipeline) = Len(ahead) + Len(receiveCh)
        /\ \A lo \in Int : Run(Pipeline, lo)
                             <=> Run(ahead, lo) /\ Run(receiveCh, lo + Len(ahead))
    <2>1. Len(Pipeline) = Len(ahead) + Len(receiveCh)
      <3>1. ahead \in Seq(Nat)
        BY <1>4
      <3> QED
        BY <1>1, <1>5, <3>1
    <2>2. ASSUME NEW lo \in Int
          PROVE  Run(Pipeline, lo) <=> Run(ahead, lo) /\ Run(receiveCh, lo + Len(ahead))
      BY <1>1, <1>4, <1>5, RunConcat, Zenon
    <2> QED
      BY <2>1, <2>2
  <1>7. readPos + 1 - Len(Pipeline) = lowest /\ lowest \in Int
    BY <1>1, <1>2, <1>3, <1>4, <1>6 DEF lowest
  <1>8. Run(Pipeline, lowest) <=>
           /\ Run(got, lowest)
           /\ Run(msgChannel, lowest + Len(got))
           /\ held1 = 1 => held = lowest + Len(got) + Len(msgChannel)
           /\ Run(receiveCh, readPos + 1 - Len(receiveCh))
    <2>1. lowest + Len(ahead) = readPos + 1 - Len(receiveCh)
      BY <1>1, <1>2, <1>3, <1>4 DEF lowest
    <2>2. /\ lowest + Len(taken) = lowest + Len(got) + Len(msgChannel)
          /\ lowest + Len(taken) \in Int
      BY <1>1, <1>3, <1>7
    <2> QED
      BY <1>2, <1>3, <1>4, <1>6, <1>7, <2>1, <2>2
  <1> QED
    BY <1>7, <1>8 DEF Flow, InFlight
-------------------------------------------------------------------------------
(* The inductive invariant: TypeOK, Flow and Settled. *)

FlowInv == TypeOK /\ Flow /\ Settled

\* The constants are numbers, and no queue is of size 0.
LEMMA Sizes ==
    /\ MaxMsgs \in Nat /\ MaxRestarts \in Nat
    /\ MsgChannelSize \in Nat /\ MsgChannelSize > 0
    /\ ReceiverQueueSize \in Nat /\ ReceiverQueueSize > 0
    /\ Attempts \in Nat /\ Attempts > 0
  BY PulsarAssumption

\* It holds of a new consumer.
LEMMA FlowInit == Init => FlowInv
  <1> SUFFICES ASSUME Init PROVE FlowInv
    OBVIOUS
  <1> USE Sizes
  <1>1. Flags /\ Places
    BY Zenon DEF Init, Flags, Places
  <1>2. Queues
    BY DEF Init, Queues
  <1>3. Counters
    BY DEF Init, Counters
  <1>4. Flow
    BY DEF Init, Flow, Run, lowest, held1
  <1>5. Settled
    BY DEF Init, Settled
  <1> QED
    BY <1>1, <1>2, <1>3, <1>4, <1>5 DEF FlowInv, TypeOK

\* A sequence of messages stays one when the topic grows.
LEMMA SeqGrows ==
    ASSUME NEW n \in Nat, NEW m \in Nat, n <= m, NEW s \in Seq(1..n)
    PROVE  s \in Seq(1..m)
  OBVIOUS

\* Flags stay Boolean, and everyone stays in a place of its own.
LEMMA FlagsStep ==
    ASSUME TypeOK, [Next]_vars
    PROVE  Flags' /\ Places'
  <1> USE DEF TypeOK, Flags, Places, queueVars, flagVars, chanVars, closeVars, readVars
  <1>1. CASE Publish \/ UNCHANGED vars
    <2>1. /\ UNCHANGED <<hasSeek, AtLatest, skip, subscribed, open, receiveClosed, msgClosed>>
          /\ UNCHANGED <<closeCh, gpc, apc, cpc>>
      BY <1>1 DEF Publish, vars
    <2> QED
      BY <2>1
  <1>11. CASE Prefetch
    <2>1. Flags'
      BY <1>11, ZenonT(60) DEF Prefetch
    <2>2. Places'
      BY <1>11, ZenonT(60) DEF Prefetch
    <2> QED
      BY ONLY <2>1, <2>2
  <1>12. CASE QueueClose
    <2>1. Flags'
      BY <1>12, ZenonT(60) DEF QueueClose
    <2>2. Places'
      BY <1>12, ZenonT(60) DEF QueueClose
    <2> QED
      BY ONLY <2>1, <2>2
  <1>2. CASE Chan
    <2>1. Flags'
      BY <1>2, ZenonT(60) DEF Chan
    <2>2. Places'
      BY <1>2, ZenonT(60) DEF Chan
    <2> QED
      BY ONLY <2>1, <2>2
  <1>3. CASE Take
    BY <1>3, ZenonT(60) DEF Take
  <1>31. CASE ReceiveClosed
    BY <1>31, ZenonT(60) DEF ReceiveClosed
  <1>32. CASE Stop
    BY <1>32, ZenonT(60) DEF Stop
  <1>4. CASE Skip
    <2>1. Flags'
      BY <1>4, ZenonT(60) DEF Skip
    <2>2. Places'
      BY <1>4, ZenonT(60) DEF Skip
    <2> QED
      BY ONLY <2>1, <2>2
  <1>5. CASE Send
    <2>1. Flags'
      BY <1>5, ZenonT(60) DEF Send
    <2>2. Places'
      BY <1>5, ZenonT(60) DEF Send
    <2> QED
      BY ONLY <2>1, <2>2
  <1>6. ASSUME NEW off, NEW inclusive, SeekQueue(off, inclusive) PROVE Flags' /\ Places'
    <2>1. Flags'
      BY <1>6, ZenonT(60) DEF SeekQueue
    <2>2. Places'
      BY <1>6, ZenonT(60) DEF SeekQueue
    <2> QED
      BY ONLY <2>1, <2>2
  <1>7. CASE SeekFlags
    <2>1. skip' \in BOOLEAN
      BY <1>7, Zenon DEF SeekFlags
    <2> QED
      BY <1>7, <2>1, Zenon DEF SeekFlags
  <1>8. CASE Read
    BY <1>8, Zenon DEF Read
  <1>13. CASE Close
    BY <1>13, ZenonT(60) DEF Close
  <1>14. CASE CloseDone
    BY <1>14, Zenon DEF CloseDone
  <1>9. CASE Restart
    BY <1>9, Zenon DEF Restart, Fresh
  <1>10. CASE Unsubscribe
    <2>1. /\ subscribed' \in {subscribed, FALSE} /\ open' \in {open, FALSE}
          /\ cpc' \in {"close", "panic", "unsubscribe"}
      BY <1>10 DEF Unsubscribe
    <2>2. UNCHANGED <<receiveClosed, flagVars, chanVars, closeCh, apc>>
      BY <1>10 DEF Unsubscribe
    <2>3. subscribed' \in BOOLEAN /\ open' \in BOOLEAN
      BY <2>1, Zenon
    <2>4. Flags'
      BY <2>2, <2>3, Zenon
    <2> QED
      BY <2>1, <2>2, <2>4, Zenon
  <1> QED
    BY <1>1, <1>2, <1>3, <1>31, <1>32, <1>4, <1>5, <1>6, <1>7, <1>8, <1>9, <1>10,
       <1>11, <1>12, <1>13, <1>14 DEF Next, goroutine

\* The queues stay within their sizes, and hold messages of the topic.
LEMMA QueuesStep ==
    ASSUME FlowInv, [Next]_vars, SeekAfterChan = FALSE
    PROVE  Queues'
  <1> USE Sizes DEF FlowInv, TypeOK, Queues, Counters,
             queueVars, flagVars, chanVars, closeVars, readVars
  <1>1. CASE Publish
    <2>1. published \in Nat /\ published + 1 \in 0..MaxMsgs /\ published <= published + 1
      BY <1>1 DEF Publish
    <2>2. \A s \in Seq(1..published) : s \in Seq(1..(published + 1))
      BY <2>1, SeqGrows
    <2> QED
      BY <1>1, <2>1, <2>2 DEF Publish, queueVars, flagVars, chanVars, closeVars, readVars
  <1>2. CASE Prefetch
    BY <1>2 DEF Prefetch
  <1>3. CASE QueueClose
    BY <1>3 DEF QueueClose
  <1>4. CASE Chan
    <2>1. \/ readPos' = 1 - 1 /\ receiveCh' = <<>>
          \/ readPos' = readPos /\ receiveCh' = receiveCh
      BY <1>4 DEF Chan, queueSeek
    <2>2. /\ published' = published /\ msgChannel' = msgChannel /\ got' = got
          /\ gpc' = "select"
      BY <1>4 DEF Chan
    <2>3. readPos' \in 0..published'
      BY <2>1, <2>2
    <2>4. receiveCh' \in Seq(1..published') /\ Len(receiveCh') <= ReceiverQueueSize
      <3>1. CASE receiveCh' = <<>>
        BY <3>1, <2>2
      <3>2. CASE receiveCh' = receiveCh
        BY <3>2, <2>2
      <3> QED
        BY <3>1, <3>2, <2>1
    <2> QED
      BY <2>2, <2>3, <2>4
  <1>5. CASE Take
    BY <1>5 DEF Take
  <1>6. CASE Skip
    BY <1>6 DEF Skip
  <1>7. CASE Send
    <2>1. /\ UNCHANGED <<published, readPos, receiveCh, got>> /\ gpc' = "select"
          /\ held \in 1..published
      BY <1>7 DEF Send, queueVars, readVars
    <2>2. \/ msgChannel' = msgChannel
          \/ Len(msgChannel) < MsgChannelSize /\ msgChannel' = Append(msgChannel, held)
      BY <1>7 DEF Send
    <2>3. msgChannel' \in Seq(1..published) /\ Len(msgChannel') <= MsgChannelSize
      <3>1. CASE msgChannel' = msgChannel
        BY <3>1
      <3>2. CASE Len(msgChannel) < MsgChannelSize /\ msgChannel' = Append(msgChannel, held)
        BY <3>2, <2>1
      <3> QED
        BY <3>1, <3>2, <2>2
    <2> QED
      BY <2>1, <2>3
  <1>8. CASE ReceiveClosed
    BY <1>8 DEF ReceiveClosed
  <1>9. CASE Stop
    BY <1>9 DEF Stop
  <1>10. CASE SeekFlags
    BY <1>10 DEF SeekFlags
  <1>11. CASE Read
    BY <1>11 DEF Read
  <1>12. CASE Restart
    BY <1>12 DEF Restart, Fresh
  <1>13. CASE Close
    BY <1>13 DEF Close
  <1>14. CASE Unsubscribe
    BY <1>14 DEF Unsubscribe
  <1>15. CASE CloseDone
    BY <1>15 DEF CloseDone
  <1>16. ASSUME NEW off \in 1..published, NEW inclusive \in BOOLEAN, SeekQueue(off, inclusive)
       PROVE  Queues'
    <2>1. \/ readPos' = off - 1 /\ receiveCh' = <<>>
          \/ readPos' = readPos /\ receiveCh' = receiveCh
      BY <1>16 DEF SeekQueue, queueSeek
    <2>2. /\ published' = published /\ msgChannel' = msgChannel /\ got' = got
          /\ gpc' = gpc /\ held' = held
      BY <1>16 DEF SeekQueue, chanVars, readVars
    <2>3. readPos' \in 0..published'
      BY <2>1, <2>2
    <2>4. receiveCh' \in Seq(1..published') /\ Len(receiveCh') <= ReceiverQueueSize
      <3>1. CASE receiveCh' = <<>>
        BY <3>1, <2>2
      <3>2. CASE receiveCh' = receiveCh
        BY <3>2, <2>2
      <3> QED
        BY <3>1, <3>2, <2>1
    <2> QED
      BY <2>2, <2>3, <2>4
  <1>17. CASE UNCHANGED vars
    BY <1>17 DEF vars
  <1> QED
    BY <1>1, <1>2, <1>3, <1>4, <1>5, <1>6, <1>7, <1>8, <1>9, <1>10, <1>11, <1>12, <1>13,
       <1>14, <1>15, <1>16, <1>17 DEF Next, goroutine

\* Counters and positions stay within their bounds.
LEMMA CountersStep ==
    ASSUME FlowInv, [Next]_vars, SeekAfterChan = FALSE
    PROVE  Counters'
  <1> USE Sizes DEF FlowInv, TypeOK, Queues, Counters, Settled, Flags,
             queueVars, flagVars, chanVars, closeVars, readVars
  <1>1. CASE Publish
    BY <1>1 DEF Publish
  <1>2. CASE Prefetch
    BY <1>2 DEF Prefetch
  <1>3. CASE QueueClose
    BY <1>3 DEF QueueClose
  <1>4. CASE Chan
    BY <1>4 DEF Chan, queueSeek
  <1>5. CASE Take
    BY <1>5, SMTT(40) DEF Take
  <1>6. CASE Skip
    BY <1>6 DEF Skip
  <1>7. CASE Send
    BY <1>7 DEF Send
  <1>8. CASE ReceiveClosed
    BY <1>8 DEF ReceiveClosed
  <1>9. CASE Stop
    BY <1>9 DEF Stop
  <1>10. CASE SeekFlags
    BY <1>10 DEF SeekFlags
  <1>11. CASE Read
    BY <1>11 DEF Read
  <1>12. CASE Restart
    BY <1>12 DEF Restart, Fresh
  <1>13. CASE Close
    BY <1>13 DEF Close
  <1>14. CASE Unsubscribe
    <2>1. UNCHANGED <<published, acked, held, from, target, restarts>>
      BY <1>14 DEF Unsubscribe, chanVars, readVars
    <2>2. \/ attempts' = attempts /\ cpc' = "close"
          \/ /\ attempts < Attempts /\ attempts' = attempts + 1
             /\ cpc' = IF attempts' = Attempts THEN "panic" ELSE "unsubscribe"
      BY <1>14 DEF Unsubscribe
    <2> QED
      BY <2>1, <2>2
  <1>15. CASE CloseDone
    BY <1>15 DEF CloseDone
  <1>16. ASSUME NEW off \in 1..published, NEW inclusive \in BOOLEAN, SeekQueue(off, inclusive)
       PROVE  Counters'
    BY <1>16 DEF SeekQueue, queueSeek
  <1>17. CASE UNCHANGED vars
    BY <1>17 DEF vars
  <1> QED
    BY <1>1, <1>2, <1>3, <1>4, <1>5, <1>6, <1>7, <1>8, <1>9, <1>10, <1>11, <1>12, <1>13,
       <1>14, <1>15, <1>16, <1>17 DEF Next, goroutine
\* What each party may find is kept.
LEMMA SettledStep ==
    ASSUME FlowInv, [Next]_vars, SeekAfterChan = FALSE
    PROVE  Settled'
  <1> USE Sizes DEF FlowInv, TypeOK, Flags, Places, Queues, Counters, Settled,
             queueVars, flagVars, chanVars, closeVars, readVars
  <1>1. CASE Publish
    BY <1>1 DEF Publish
  <1>2. CASE Prefetch
    <2>1. /\ receiveCh' = Append(receiveCh, readPos + 1) /\ readPos' = readPos + 1
          /\ UNCHANGED <<published, hasSeek, skip, msgChannel, gpc, got, apc, target, cpc, closeCh>>
      BY <1>2 DEF Prefetch, flagVars, chanVars, closeVars, readVars
    <2>2. CASE apc = "sought"
      <3>1. /\ receiveCh \in Seq(Nat) /\ target.off \in Int /\ readPos + 1 \in Nat
        BY <2>2
      <3>2. Run(receiveCh, target.off) /\ readPos + 1 = target.off + Len(receiveCh)
        <4>1. readPos + 1 - Len(receiveCh) = target.off /\ Run(receiveCh, target.off)
          BY <2>2
        <4> QED
          BY <3>1, <4>1
      <3>3. /\ Run(receiveCh', target.off) /\ Len(receiveCh') = Len(receiveCh) + 1
        BY <3>1, <3>2, <2>1, RunAppend
      <3> QED
        BY <3>1, <3>2, <3>3, <2>1
    <2> QED
      BY <2>1, <2>2
  <1>3. CASE QueueClose
    BY <1>3 DEF QueueClose
  <1>4. CASE Chan
    BY <1>4 DEF Chan, queueSeek
  <1>5. CASE Take
    BY <1>5 DEF Take
  <1>6. CASE Skip
    BY <1>6 DEF Skip
  <1>7. CASE Send
    BY <1>7 DEF Send
  <1>8. CASE ReceiveClosed
    BY <1>8 DEF ReceiveClosed
  <1>9. CASE Stop
    BY <1>9 DEF Stop
  <1>10. CASE SeekFlags
    BY <1>10 DEF SeekFlags
  <1>11. CASE Read
    BY <1>11 DEF Read
  <1>12. CASE Restart
    BY <1>12 DEF Restart, Fresh
  <1>13. CASE Close
    BY <1>13 DEF Close
  <1>14. CASE Unsubscribe
    BY <1>14 DEF Unsubscribe
  <1>15. CASE CloseDone
    BY <1>15 DEF CloseDone
  <1>16. ASSUME NEW off \in 1..published, NEW inclusive \in BOOLEAN, SeekQueue(off, inclusive)
       PROVE  Settled'
    <2>1. /\ cpc = "none" /\ gpc = "off"
          /\ UNCHANGED <<published, hasSeek, skip, msgChannel, gpc, got, cpc, closeCh>>
      BY <1>16 DEF SeekQueue, flagVars, chanVars, closeVars, readVars
    <2>2. \/ /\ apc' = "sought" /\ target' = [off |-> off, inclusive |-> inclusive]
             /\ readPos' = off - 1 /\ receiveCh' = <<>>
          \/ apc' = "failed"
      BY <1>16 DEF SeekQueue, queueSeek
    <2>3. CASE apc' = "sought"
      <3>1. target'.off = off /\ readPos' = off - 1 /\ receiveCh' = <<>>
        BY <2>2, <2>3
      <3>2. readPos' + 1 - Len(receiveCh') = target'.off /\ Run(receiveCh', target'.off)
        BY <3>1, RunEmpty
      <3> QED
        BY <2>1, <2>3, <3>1, <3>2
    <2> QED
      BY <2>1, <2>2, <2>3
  <1>17. CASE UNCHANGED vars
    BY <1>17 DEF vars
  <1> QED
    BY <1>1, <1>2, <1>3, <1>4, <1>5, <1>6, <1>7, <1>8, <1>9, <1>10, <1>11, <1>12, <1>13,
       <1>14, <1>15, <1>16, <1>17 DEF Next, goroutine

\* The run of messages is kept.
LEMMA FlowStep ==
    ASSUME FlowInv, [Next]_vars, SeekAfterChan = FALSE
    PROVE  Flow'
  <1> USE Sizes DEF FlowInv, TypeOK, Flags, Places, Queues, Counters, Settled, Flow, lowest, held1,
             queueVars, flagVars, chanVars, closeVars, readVars
  <1>1. CASE Publish
    BY <1>1 DEF Publish
  <1>2. CASE Prefetch
    <2>1. /\ receiveCh' = Append(receiveCh, readPos + 1) /\ readPos' = readPos + 1
          /\ UNCHANGED <<skip, msgChannel, gpc, held, got, from, apc, closeCh>>
      BY <1>2 DEF Prefetch, flagVars, chanVars, closeVars, readVars
    <2> SUFFICES ASSUME ~closeCh, apc = "idle" PROVE Flow'
      BY <2>1
    <2>2. /\ receiveCh \in Seq(Nat) /\ readPos + 1 \in Nat
          /\ readPos + 1 - Len(receiveCh) \in Int
          /\ readPos + 1 = (readPos + 1 - Len(receiveCh)) + Len(receiveCh)
      OBVIOUS
    <2>3. /\ Run(receiveCh', readPos + 1 - Len(receiveCh)) /\ Len(receiveCh') = Len(receiveCh) + 1
      BY <2>1, <2>2, RunAppend
    <2>4. lowest' = lowest /\ readPos' + 1 - Len(receiveCh') = readPos + 1 - Len(receiveCh)
      BY <2>1, <2>2, <2>3
    <2> QED
      BY <2>1, <2>3, <2>4
  <1>3. CASE QueueClose
    BY <1>3 DEF QueueClose
  <1>4. CASE Chan
    <2>1. /\ gpc = "off" /\ apc = "idle" /\ gpc' = "select"
          /\ UNCHANGED <<skip, msgChannel, held, got, apc, closeCh>>
      BY <1>4 DEF Chan, flagVars, closeVars
    <2>2. msgChannel = <<>> /\ got = <<>> /\ held1 = 0 /\ held1' = 0
      BY <2>1
    <2>3. CASE UNCHANGED <<readPos, receiveCh, from>>
      BY <2>1, <2>2, <2>3
    <2>4. CASE ~hasSeek /\ readPos' = 1 - 1 /\ receiveCh' = <<>> /\ from' = 1
      <3>1. ~skip
        BY <2>1, <2>4
      <3>2. lowest' = 1
        BY <2>1, <2>2, <2>4
      <3> QED
        BY <2>1, <2>2, <2>4, <3>1, <3>2, RunEmpty
    <2> QED
      BY <1>4, <2>3, <2>4 DEF Chan, queueSeek
  <1>5. CASE Take
    <2>1. /\ gpc = "select" /\ gpc' = "skip?" /\ receiveCh # <<>>
          /\ held' = Head(receiveCh) /\ receiveCh' = Tail(receiveCh)
          /\ UNCHANGED <<readPos, skip, msgChannel, got, from, apc, closeCh>>
      BY <1>5 DEF Take, flagVars, closeVars, readVars
    <2> SUFFICES ASSUME ~closeCh, apc = "idle" PROVE Flow'
      BY <2>1
    <2>2. /\ receiveCh \in Seq(Nat) /\ readPos + 1 - Len(receiveCh) \in Int
          /\ held1 = 0 /\ held1' = 1
      BY <2>1
    <2>3. /\ held' = readPos + 1 - Len(receiveCh) /\ Len(receiveCh') = Len(receiveCh) - 1
          /\ Run(receiveCh', readPos + 1 - Len(receiveCh) + 1)
      BY <2>1, <2>2, RunTail
    <2>4. /\ lowest' = lowest
          /\ readPos' + 1 - Len(receiveCh') = readPos + 1 - Len(receiveCh) + 1
          /\ readPos + 1 - Len(receiveCh) = lowest + Len(got) + Len(msgChannel)
      BY <2>1, <2>2, <2>3
    <2> QED
      BY <2>1, <2>2, <2>3, <2>4
  <1>6. CASE Skip
    <2>1. /\ gpc = "skip?" /\ gpc' = (IF skip THEN "select" ELSE "send") /\ skip' = FALSE
          /\ UNCHANGED <<readPos, receiveCh, held, msgChannel, got, from, apc, closeCh>>
      BY <1>6 DEF Skip, queueVars, closeVars, readVars
    <2> SUFFICES ASSUME ~closeCh, apc = "idle" PROVE Flow'
      BY <2>1
    <2>2. CASE skip
      <3>1. msgChannel = <<>> /\ got = <<>> /\ held1 = 1 /\ held1' = 0
        BY <2>1, <2>2
      <3>2. lowest' = lowest + 1
        BY <2>1, <3>1
      <3> QED
        BY <2>1, <2>2, <3>1, <3>2, RunEmpty
    <2>3. CASE ~skip
      BY <2>1, <2>3
    <2> QED
      BY <2>2, <2>3
  <1>7. CASE Send
    <2>1. /\ gpc = "send" /\ gpc' = "select"
          /\ UNCHANGED <<readPos, receiveCh, skip, held, got, from, apc, closeCh>>
      BY <1>7 DEF Send, queueVars, flagVars, closeVars, readVars
    <2> SUFFICES ASSUME ~closeCh, apc = "idle" PROVE Flow'
      BY <2>1
    <2>2. msgChannel' = Append(msgChannel, held)
      BY <1>7 DEF Send
    <2>3. /\ msgChannel \in Seq(Nat) /\ lowest + Len(got) \in Int /\ held \in Nat
          /\ held1 = 1 /\ held1' = 0
      BY <2>1
    <2>4. held = (lowest + Len(got)) + Len(msgChannel)
      BY <2>3
    <2>5. Run(msgChannel', lowest + Len(got)) /\ Len(msgChannel') = Len(msgChannel) + 1
      BY <2>2, <2>3, <2>4, RunAppend
    <2>6. lowest' = lowest
      BY <2>1, <2>3, <2>5
    <2> QED
      BY <2>1, <2>3, <2>5, <2>6
  <1>8. CASE ReceiveClosed
    BY <1>8 DEF ReceiveClosed
  <1>9. CASE Stop
    BY <1>9 DEF Stop
  <1>10. CASE SeekFlags
    <2>1. /\ apc = "sought" /\ apc' = "idle" /\ skip' = ~target.inclusive
          /\ from' = (IF target.inclusive THEN target.off ELSE target.off + 1) /\ got' = <<>>
          /\ UNCHANGED <<readPos, receiveCh, msgChannel, gpc, held, closeCh>>
      BY <1>10 DEF SeekFlags, queueVars, chanVars, closeVars
    <2>2. msgChannel = <<>> /\ held1' = 0
      BY <2>1
    <2>3. lowest' = target.off
      BY <2>1, <2>2
    <2>4. from' = IF skip' THEN lowest' + 1 ELSE lowest'
      BY <2>1, <2>3
    <2>5. Run(receiveCh', readPos' + 1 - Len(receiveCh'))
      BY <2>1
    <2>6. Run(got', lowest') /\ Run(msgChannel', lowest' + Len(got'))
      BY <2>1, <2>2, RunEmpty
    <2> QED
      BY <2>2, <2>4, <2>5, <2>6
  <1>11. CASE Read
    <2>1. /\ msgChannel # <<>> /\ apc = "idle" /\ cpc = "none"
          /\ got' = Append(got, Head(msgChannel)) /\ msgChannel' = Tail(msgChannel)
          /\ UNCHANGED <<readPos, receiveCh, skip, gpc, held, from, apc, closeCh>>
      BY <1>11 DEF Read, queueVars, flagVars, closeVars
    <2>2. ~closeCh
      BY <2>1
    <2>3. /\ msgChannel \in Seq(Nat) /\ got \in Seq(Nat)
          /\ lowest \in Int /\ lowest + Len(got) \in Int
      BY SMTT(40)
    <2>4. /\ Head(msgChannel) = lowest + Len(got) /\ Run(msgChannel', lowest + Len(got) + 1)
          /\ Len(msgChannel') = Len(msgChannel) - 1
      BY <2>1, <2>2, <2>3, RunTail
    <2>5. Head(msgChannel) \in Nat
      BY <2>1, <2>3, SMTT(40)
    <2>6. Run(got', lowest) /\ Len(got') = Len(got) + 1
      BY <2>1, <2>2, <2>3, <2>4, <2>5, RunAppend
    <2>7. lowest' = lowest
      BY <2>1, <2>3, <2>4, <2>6
    <2> QED
      BY <2>1, <2>2, <2>3, <2>4, <2>6, <2>7
  <1>12. CASE Restart
    <2> HIDE DEF Flow, lowest
    <2>1. /\ readPos' + 1 = from' /\ receiveCh' = <<>> /\ msgChannel' = <<>> /\ got' = <<>>
          /\ gpc' = "off" /\ skip' = FALSE /\ from' \in Nat /\ readPos' \in Nat
      BY <1>12 DEF Restart, Fresh
    <2>2. /\ Len(got') = 0 /\ Len(msgChannel') = 0 /\ Len(receiveCh') = 0
          /\ held1' = 0
      BY <2>1
    <2>3. lowest' = readPos' + 1 - (0 + 0 + 0 + 0)
      BY <2>2 DEF lowest
    <2>4. Run(got', lowest') /\ Run(msgChannel', lowest' + Len(got'))
          /\ Run(receiveCh', readPos' + 1 - Len(receiveCh'))
      BY <2>1, RunEmpty
    <2>5. lowest' = from'
      <3>1. readPos' \in Nat /\ from' = readPos' + 1
        BY <2>1
      <3> QED
        BY ONLY <3>1, <2>3
    <2> QED
      BY <2>1, <2>2, <2>4, <2>5 DEF Flow
  <1>13. CASE Close
    BY <1>13 DEF Close
  <1>14. CASE Unsubscribe
    BY <1>14 DEF Unsubscribe
  <1>15. CASE CloseDone
    BY <1>15 DEF CloseDone
  <1>16. ASSUME NEW off \in 1..published, NEW inclusive \in BOOLEAN, SeekQueue(off, inclusive)
       PROVE  Flow'
    BY <1>16 DEF SeekQueue, queueSeek
  <1>17. CASE UNCHANGED vars
    BY <1>17 DEF vars
  <1> QED
    BY <1>1, <1>2, <1>3, <1>4, <1>5, <1>6, <1>7, <1>8, <1>9, <1>10, <1>11, <1>12, <1>13,
       <1>14, <1>15, <1>16, <1>17 DEF Next, goroutine

\* FlowInv is an invariant of a consumer that is not sought once it is read.
LEMMA FlowInvariance == ASSUME SeekAfterChan = FALSE PROVE Spec => []FlowInv
  <1>1. FlowInv /\ [Next]_vars => FlowInv'
    <2>1. FlowInv => TypeOK
      BY DEF FlowInv
    <2> QED
      BY <2>1, FlagsStep, QueuesStep, CountersStep, SettledStep, FlowStep DEF FlowInv, TypeOK
  <1> QED
    BY <1>1, FlowInit, PTL DEF Spec

\* A consumer that is sought before it is read keeps its queues within their sizes and
\* its messages in one unbroken run from library to reader, however Chan, Seek, failed
\* Seeks, Close and restarts of the process meet.
THEOREM ConsumerCorrect == ASSUME SeekAfterChan = FALSE PROVE Spec => []ConsumerInv
  <1>1. FlowInv => ConsumerInv
    BY FlowIsInFlight DEF FlowInv, ConsumerInv
  <1> QED
    BY <1>1, FlowInvariance, PTL
-------------------------------------------------------------------------------
(* The reader's view: a cursor. *)

\* Where the cursor stands.
Cursor == IF got = <<>> THEN from - 1 ELSE got[Len(got)]

\* A message that is read is the next one.
LEMMA ReadNext ==
    ASSUME FlowInv, Read
    PROVE  Cursor \in Nat /\ Cursor < published /\ Cursor' = Cursor + 1 /\ got' # <<>>
  <1> USE Sizes DEF FlowInv, TypeOK, Queues, Counters, Flow, Settled
  <1>1. /\ msgChannel # <<>> /\ apc = "idle" /\ ~closeCh /\ ~skip
        /\ got' = Append(got, Head(msgChannel))
    BY DEF Read
  <1>2. /\ got \in Seq(Nat) /\ msgChannel \in Seq(Nat) /\ readPos \in Nat
        /\ Len(receiveCh) \in Nat
    BY SMTT(40)
  <1>3. lowest \in Int /\ lowest + Len(got) \in Int
    BY <1>2 DEF lowest, held1
  <1>4. Head(msgChannel) = lowest + Len(got) /\ from = lowest
    BY <1>1, <1>2, <1>3, RunTail
  <1>5. Head(msgChannel) \in 1..published
    BY <1>1, SMTT(40)
  <1>6. got' # <<>> /\ Len(got') = Len(got) + 1 /\ got'[Len(got')] = Head(msgChannel)
    <2>1. /\ got \in Seq(Nat) /\ Head(msgChannel) \in Nat
          /\ got' = Append(got, Head(msgChannel))
      BY <1>1, <1>2, <1>5
    <2> QED
      BY ONLY <2>1
  <1>7. Cursor = lowest + Len(got) - 1
    <2>1. CASE got = <<>>
      BY <2>1, <1>3, <1>4 DEF Cursor
    <2>2. CASE got # <<>>
      <3>1. Len(got) \in DOMAIN got
        BY <2>2, <1>2
      <3> QED
        BY <2>2, <3>1, <1>1 DEF Cursor, Run
    <2> QED
      BY <2>1, <2>2
  <1>8. Cursor' = Head(msgChannel)
    BY <1>6 DEF Cursor
  <1>9. published \in Nat
    OBVIOUS
  <1> QED
    BY <1>3, <1>4, <1>5, <1>6, <1>7, <1>8, <1>9

\* The reader of a consumer sees the cursor of ReadCursor: Seek, Chan or a restart put
\* it somewhere in the topic, and every message read is the one after it.
THEOREM ReaderIsCursor == ASSUME SeekAfterChan = FALSE PROVE Spec => IsCursor
  <1> USE DEF Cursor
  <1>1. Init => RC!Init
    BY Sizes DEF Init, RC!Init
  <1>2. ASSUME FlowInv, [Next]_vars PROVE [RC!Next]_(RC!vars)
    <2> USE <1>2, Sizes DEF FlowInv, TypeOK, Queues, Counters, Settled
    <2>1. CASE Publish
      BY <2>1 DEF Publish, readVars, RC!Next, RC!Publish
    <2>2. CASE Read
      <3>1. /\ Cursor < published /\ Cursor' = Cursor + 1 /\ got' # <<>>
            /\ published' = published
        BY <2>2, ReadNext DEF Read
      <3> QED
        BY <3>1 DEF RC!Next, RC!Read
    <2>3. CASE Restart
      <3>1. got' = <<>> /\ published' = published /\ from' - 1 \in 0..published
        BY <2>3 DEF Restart, Fresh
      <3>2. Cursor' = from' - 1
        BY <3>1
      <3> QED
        BY <3>1, <3>2 DEF RC!Next, RC!Restart
    <2>4. CASE SeekFlags
      <3>1. /\ got = <<>> /\ got' = <<>> /\ published' = published
            /\ target.off \in 1..published /\ published \in Nat
        BY <2>4 DEF SeekFlags
      <3>2. from' \in {target.off, target.off + 1}
        BY <2>4 DEF SeekFlags
      <3>3. from' - 1 \in 0..published
        BY ONLY <3>1, <3>2
      <3>4. Cursor' \in 0..published
        BY <3>1, <3>3
      <3> QED
        BY <3>1, <3>4 DEF RC!Next, RC!Position
    <2>5. CASE Chan
      <3>1. got = <<>> /\ got' = <<>> /\ published' = published
        BY <2>5 DEF Chan
      <3>2. from' = 1 \/ from' = from
        BY <2>5 DEF Chan
      <3>3. Cursor' \in 0..published
        BY <3>1, <3>2
      <3> QED
        BY <3>1, <3>3 DEF RC!Next, RC!Position
    <2>6. CASE UNCHANGED <<published, got, from>>
      BY <2>6 DEF RC!vars
    <2>7. CASE Prefetch \/ QueueClose \/ Take \/ Skip \/ Send \/ ReceiveClosed \/ Stop
      BY <2>6, <2>7 DEF Prefetch, QueueClose, Take, Skip, Send, ReceiveClosed, Stop, readVars
    <2>8. CASE Close \/ Unsubscribe \/ CloseDone
      BY <2>6, <2>8 DEF Close, Unsubscribe, CloseDone, readVars
    <2>9. ASSUME NEW off, NEW inclusive, SeekQueue(off, inclusive) PROVE [RC!Next]_(RC!vars)
      BY <2>6, <2>9 DEF SeekQueue, readVars
    <2>10. CASE UNCHANGED vars
      BY <2>6, <2>10 DEF vars, readVars
    <2> QED
      BY <1>2, <2>1, <2>2, <2>3, <2>4, <2>5, <2>7, <2>8, <2>9, <2>10 DEF Next, goroutine
  <1> QED
    BY <1>1, <1>2, FlowInvariance, PTL DEF Spec, IsCursor, RC!Spec
===============================================================================
