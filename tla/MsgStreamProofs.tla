--------------------------- MODULE MsgStreamProofs ---------------------------
(***************************************************************************)
(* The base stream for every set of channels and callers, every packs they  *)
(* have to send and any sizes and numbers of failures: what the program     *)
(* receives is exact, and concurrent broadcasts agree on their order.       *)
(***************************************************************************)
EXTENDS MsgStream, Integers, TLAPS

-------------------------------------------------------------------------------
(* Logs that grow. *)

\* A sequence of whatever it holds, with one more element.
LEMMA AppendFacts ==
    ASSUME NEW s, s \in Seq(Range(s)), NEW e
    PROVE  /\ Append(s, e) \in Seq(Range(Append(s, e)))
           /\ Len(Append(s, e)) = Len(s) + 1 /\ Len(s) \in Nat
           /\ DOMAIN s = 1..Len(s) /\ DOMAIN Append(s, e) = 1..(Len(s) + 1)
           /\ \A i \in 1..Len(s) : Append(s, e)[i] = s[i]
           /\ Append(s, e)[Len(s) + 1] = e
  <1> DEFINE S == Range(s) \cup {e}
             t == Append(s, e)
  <1>1. s \in Seq(S) /\ e \in S
    <2>1. \A i \in 1..Len(s) : s[i] \in S
      BY DEF Range
    <2>2. Len(s) \in Nat /\ DOMAIN s = 1..Len(s) /\ s = [i \in 1..Len(s) |-> s[i]]
      OBVIOUS
    <2> QED
      BY <2>1, <2>2
  <1> HIDE DEF S
  <1>2. /\ t \in Seq(S) /\ Len(t) = Len(s) + 1 /\ Len(s) \in Nat
        /\ DOMAIN s = 1..Len(s) /\ DOMAIN t = 1..(Len(s) + 1)
        /\ \A i \in 1..Len(s) : t[i] = s[i]
        /\ t[Len(s) + 1] = e
    BY <1>1
  <1>3. t \in Seq(Range(t))
    <2> HIDE DEF t
    <2>1. /\ Len(t) \in Nat /\ DOMAIN t = 1..Len(t) /\ t = [i \in 1..Len(t) |-> t[i]]
          /\ \A i \in 1..Len(t) : t[i] \in Range(t)
      BY <1>2 DEF Range
    <2> QED
      BY <2>1
  <1> QED
    BY <1>2, <1>3

\* The first element, and those behind it.
LEMMA HeadTail ==
    ASSUME NEW S, NEW s \in Seq(S), s # <<>>
    PROVE  /\ Head(s) \in S /\ Head(s) = s[1] /\ 1 \in DOMAIN s /\ Len(s) \in Nat \ {0}
           /\ Tail(s) \in Seq(S) /\ Len(Tail(s)) = Len(s) - 1
           /\ DOMAIN s = 1..Len(s) /\ DOMAIN Tail(s) = 1..(Len(s) - 1)
           /\ \A i \in 1..(Len(s) - 1) : Tail(s)[i] = s[i + 1]
  OBVIOUS

\* What a log becomes in a step: itself, or itself with one more message.
Grows(c) ==
    /\ log'[c] \in Seq(Range(log'[c]))
    /\ Len(log[c]) \in Nat /\ Len(log'[c]) \in Nat /\ Len(log[c]) <= Len(log'[c])
    /\ DOMAIN log[c] = 1..Len(log[c]) /\ DOMAIN log'[c] = 1..Len(log'[c])
    /\ \A i \in 1..Len(log[c]) : log'[c][i] = log[c][i]

\* A log that is left alone.
LEMMA SameLog ==
    ASSUME ReceiverType, NEW c \in Channels, log'[c] = log[c]
    PROVE  Grows(c)
  BY DEF ReceiverType, Grows

\* Whoever writes, logs grow.
LEMMA WriteGrows ==
    ASSUME ReceiverType, NEW c \in Channels, NEW d, NEW e, Write(d, e)
    PROVE  Grows(c) /\ DOMAIN log' = Channels
  <1>1. DOMAIN log = Channels /\ log[c] \in Seq(Range(log[c]))
    BY DEF ReceiverType
  <1>2. DOMAIN log' = Channels
    BY <1>1 DEF Write
  <1>3. CASE c = d
    <2>1. log'[c] = Append(log[c], e)
      BY <1>1, <1>3 DEF Write
    <2> QED
      BY <1>1, <1>2, <2>1, AppendFacts DEF Grows
  <1>4. CASE c # d
    <2>1. log'[c] = log[c]
      BY <1>1, <1>4 DEF Write
    <2> QED
      BY <1>2, <2>1, SameLog
  <1> QED
    BY <1>3, <1>4

\* In every step.
LEMMA LogGrows ==
    ASSUME ReceiverType, [Next]_vars
    PROVE  DOMAIN log' = Channels /\ \A c \in Channels : Grows(c)
  <1>1. ASSUME log' = log PROVE DOMAIN log' = Channels /\ \A c \in Channels : Grows(c)
    BY <1>1, SameLog DEF ReceiverType
  <1>2. ASSUME NEW d, NEW e, Write(d, e)
        PROVE  DOMAIN log' = Channels /\ \A c \in Channels : Grows(c)
    <2>1. DOMAIN log' = Channels
      BY <1>2 DEF Write, ReceiverType
    <2> QED
      BY <1>2, <2>1, WriteGrows
  <1>3. ASSUME NEW d, NEW e, sendOK(d, e) \/ sendErr(d, e)
        PROVE  log' = log \/ Write(d, e)
    BY <1>3 DEF sendOK, sendErr
  <1>4. ASSUME NEW p \in Callers, ProduceSend(p)
        PROVE  log' = log \/ \E d, e : Write(d, e)
    BY <1>3, <1>4 DEF ProduceSend
  <1>5. ASSUME NEW p \in Callers, NEW c \in Channels, BroadcastSend(p, c)
        PROVE  log' = log \/ \E d, e : Write(d, e)
    BY <1>3, <1>5 DEF BroadcastSend
  <1>6. ASSUME NEW p \in Callers, NEW k, Produce(p, k) \/ Broadcast(p, k) \/ Refuse(p, k)
        PROVE  log' = log
    BY <1>6 DEF Produce, Broadcast, Refuse
  <1>7. ASSUME NEW p \in Callers, ProducePick(p) \/ BroadcastLock(p) \/ BroadcastNext(p)
        PROVE  log' = log
    BY <1>7 DEF ProducePick, BroadcastLock, BroadcastNext
  <1>8. ASSUME NEW c \in Channels, AsProducer(c) \/ AsConsumer(c) \/ receiveMsg(c)
        PROVE  log' = log
    BY <1>8 DEF AsProducer, AsConsumer, receiveMsg, ReceiveStart, ReceiveTake, ReceivePut, ReceiveStop
  <1>9. ASSUME NEW c, NEW off, Seek(c, off) PROVE log' = log
    BY <1>9 DEF Seek
  <1>10. ASSUME NEW can, EnableProduce(can) PROVE log' = log
    BY <1>10 DEF EnableProduce
  <1>11. CASE Chan \/ Receive \/ CloseCancel \/ CloseLocked \/ UNCHANGED vars
    <2>1. log' = log
      BY <1>11 DEF Chan, Receive, CloseCancel, CloseLocked, vars
    <2> QED
      BY <1>1, <2>1
  <1> QED
    BY <1>1, <1>2, <1>4, <1>5, <1>6, <1>7, <1>8, <1>9, <1>10, <1>11 DEF Next, ProducerStep
-------------------------------------------------------------------------------
(* Which side a step is on. *)

\* The steps of receivers, of the program and of Close.
ReceiverStep ==
    \/ \E c \in Channels : \/ AsConsumer(c) \/ receiveMsg(c)
                           \/ \E off \in 1..Len(log[c]) : Seek(c, off)
    \/ Chan \/ Receive \/ CloseCancel \/ CloseLocked

\* Producers leave the receivers alone, and the receivers the producers.
LEMMA TwoSides ==
    ASSUME [Next]_vars
    PROVE  /\ work' = work
           /\ \/ ProducerStep /\ UNCHANGED <<recvVars, closeVars>>
              \/ ReceiverStep /\ UNCHANGED <<log, prodVars, callVars>>
              \/ UNCHANGED vars
  <1>1. ASSUME ProducerStep PROVE UNCHANGED <<work, recvVars, closeVars>>
    <2>1. ASSUME NEW c \in Channels, AsProducer(c) PROVE UNCHANGED <<work, recvVars, closeVars>>
      BY <2>1 DEF AsProducer
    <2>2. ASSUME NEW can, EnableProduce(can) PROVE UNCHANGED <<work, recvVars, closeVars>>
      BY <2>2 DEF EnableProduce
    <2>3. ASSUME NEW p \in Callers, NEW k, Produce(p, k) \/ Broadcast(p, k) \/ Refuse(p, k)
          PROVE  UNCHANGED <<work, recvVars, closeVars>>
      BY <2>3 DEF Produce, Broadcast, Refuse
    <2>4. ASSUME NEW p \in Callers, ProducePick(p) \/ BroadcastLock(p) \/ BroadcastNext(p)
          PROVE  UNCHANGED <<work, recvVars, closeVars>>
      BY <2>4 DEF ProducePick, BroadcastLock, BroadcastNext
    <2>5. ASSUME NEW p \in Callers, ProduceSend(p) PROVE UNCHANGED <<work, recvVars, closeVars>>
      BY <2>5 DEF ProduceSend
    <2>6. ASSUME NEW p \in Callers, NEW c \in Channels, BroadcastSend(p, c)
          PROVE  UNCHANGED <<work, recvVars, closeVars>>
      BY <2>6 DEF BroadcastSend
    <2> QED
      BY <1>1, <2>1, <2>2, <2>3, <2>4, <2>5, <2>6 DEF ProducerStep
  <1>2. ASSUME ReceiverStep PROVE UNCHANGED <<work, log, prodVars, callVars>>
    <2>1. ASSUME NEW c \in Channels, AsConsumer(c) \/ receiveMsg(c)
          PROVE  UNCHANGED <<work, log, prodVars, callVars>>
      BY <2>1 DEF AsConsumer, receiveMsg, ReceiveStart, ReceiveTake, ReceivePut, ReceiveStop
    <2>2. ASSUME NEW c, NEW off, Seek(c, off) PROVE UNCHANGED <<work, log, prodVars, callVars>>
      BY <2>2 DEF Seek
    <2>3. CASE Chan \/ Receive \/ CloseCancel \/ CloseLocked
      BY <2>3 DEF Chan, Receive, CloseCancel, CloseLocked
    <2> QED
      BY <1>2, <2>1, <2>2, <2>3 DEF ReceiverStep
  <1>3. ProducerStep \/ ReceiverStep \/ UNCHANGED vars
    BY DEF Next, ReceiverStep
  <1>4. UNCHANGED vars => work' = work
    BY DEF vars
  <1> QED
    BY <1>1, <1>2, <1>3, <1>4
-------------------------------------------------------------------------------
(* Types. *)

\* The program starts with variables of their types.
LEMMA TypeInit == Init => TypeOK
  <1> SUFFICES ASSUME Init PROVE TypeOK
    OBVIOUS
  <1> USE StreamAssumption DEF Init
  <1>1. ReceiverType
    <2>1. OldLog \in Seq(Range(OldLog)) /\ Len(OldLog) \in Nat /\ ReceiveBufSize \in Nat
      OBVIOUS
    <2>2. \A c \in Channels : log[c] = OldLog
      OBVIOUS
    <2> QED
      BY <2>1, <2>2 DEF ReceiverType
  <1>2. ProducerType
    <2>1. MaxFails \in Nat /\ MaxSwitches \in Nat /\ MaxProducers \in Nat
      OBVIOUS
    <2>2. Range(<<>>) = {}
      BY DEF Range
    <2> QED
      BY <2>1, <2>2 DEF ProducerType
  <1>3. CallerType
    BY DEF CallerType
  <1> QED
    BY <1>1, <1>2, <1>3 DEF TypeOK

\* Receivers keep their types.
LEMMA ReceiverTypeStep ==
    ASSUME TypeOK, \A c \in Channels : Passing(c), [Next]_vars
    PROVE  ReceiverType'
  <1> USE DEF TypeOK
  <1>1. DOMAIN log' = Channels /\ \A c \in Channels : Grows(c)
    BY LogGrows
  <1>2. ASSUME UNCHANGED recvVars PROVE ReceiverType'
    BY <1>1, <1>2 DEF recvVars, ReceiverType, Grows
  <1>3. ASSUME NEW c \in Channels, NEW off \in 0..Len(log[c]), rpc[c] \in {"off", "none"},
               cursor' = [cursor EXCEPT ![c] = off], base' = [base EXCEPT ![c] = off],
               UNCHANGED <<log, receiveBuf, rpc, held, got>>, consumers' \subseteq Channels
        PROVE  ReceiverType'
    <2>1. held[c] = 0
      BY <1>3 DEF Passing
    <2>2. ASSUME NEW d \in Channels
          PROVE  base'[d] <= cursor'[d] /\ held'[d] <= cursor'[d] /\ cursor'[d] <= Len(log'[d])
      BY <1>3, <2>1 DEF ReceiverType
    <2>3. cursor' \in [Channels -> Nat] /\ base' \in [Channels -> Nat]
      BY <1>3 DEF ReceiverType
    <2> QED
      BY <1>3, <2>2, <2>3 DEF ReceiverType
  <1>31. ASSUME NEW c \in Channels, AsConsumer(c) PROVE ReceiverType'
    <2>1. PICK off \in {0, Len(log[c])} : /\ cursor' = [cursor EXCEPT ![c] = off]
                                           /\ base' = [base EXCEPT ![c] = off]
      BY <1>31 DEF AsConsumer
    <2>2. /\ c \notin consumers /\ consumers' = consumers \cup {c}
          /\ UNCHANGED <<log, receiveBuf, rpc, held, got>>
      BY <1>31 DEF AsConsumer
    <2>3. rpc[c] \in {"off", "none"}
      BY <2>2 DEF Passing
    <2>4. off \in 0..Len(log[c]) /\ consumers' \subseteq Channels
      BY <2>2 DEF ReceiverType
    <2> QED
      BY <1>3, <2>1, <2>2, <2>3, <2>4
  <1>4. ASSUME NEW c \in Channels, NEW off \in 1..Len(log[c]), Seek(c, off) PROVE ReceiverType'
    <2>1. off \in 0..Len(log[c])
      BY DEF ReceiverType
    <2> QED
      BY <1>3, <1>4, <2>1 DEF Seek, ReceiverType
  <1>5. ASSUME NEW c \in Channels, ReceiveStart(c) \/ ReceiveStop(c) PROVE ReceiverType'
    BY <1>5 DEF ReceiveStart, ReceiveStop, ReceiverType
  <1>6. ASSUME NEW c \in Channels, ReceiveTake(c) PROVE ReceiverType'
    <2>1. /\ cursor[c] < Len(log[c]) /\ cursor' = [cursor EXCEPT ![c] = @ + 1]
          /\ UNCHANGED <<log, consumers, base, got, receiveBuf>>
      BY <1>6 DEF ReceiveTake
    <2>2. \/ UNCHANGED <<rpc, held>>
          \/ rpc' = [rpc EXCEPT ![c] = "put"] /\ held' = [held EXCEPT ![c] = cursor[c] + 1]
      BY <1>6 DEF ReceiveTake
    <2>3. cursor' \in [Channels -> Nat] /\ held' \in [Channels -> Nat]
      BY <2>1, <2>2 DEF ReceiverType
    <2>4. rpc' \in [Channels -> {"off", "none", "start", "take", "put", "exit"}]
      BY <2>2 DEF ReceiverType
    <2>5. ASSUME NEW d \in Channels
          PROVE  base'[d] <= cursor'[d] /\ held'[d] <= cursor'[d] /\ cursor'[d] <= Len(log'[d])
      BY <2>1, <2>2 DEF ReceiverType
    <2> QED
      BY <2>1, <2>3, <2>4, <2>5 DEF ReceiverType
  <1>7. ASSUME NEW c \in Channels, ReceivePut(c) PROVE ReceiverType'
    BY <1>7, StreamAssumption, SMTT(40) DEF ReceivePut, ReceiverType
  <1>8. CASE Chan
    BY <1>8 DEF Chan, ReceiverType
  <1>9. CASE Receive
    <2>1. /\ receiveBuf # <<>> /\ receiveBuf' = Tail(receiveBuf)
          /\ UNCHANGED <<log, consumers, cursor, rpc, held, base>>
          /\ got' = [got EXCEPT ![Head(receiveBuf).chan] = Append(@, Head(receiveBuf).off)]
      BY <1>9 DEF Receive
    <2>2. Head(receiveBuf) \in [chan : Channels, off : Nat]
      BY <2>1, HeadTail DEF ReceiverType
    <2>3. got' \in [Channels -> Seq(Nat)]
      <3>1. PICK d \in Channels, o \in Nat : got' = [got EXCEPT ![d] = Append(@, o)]
        BY <2>1, <2>2
      <3>2. got \in [Channels -> Seq(Nat)] /\ Append(got[d], o) \in Seq(Nat)
        BY DEF ReceiverType
      <3> QED
        BY <3>1, <3>2
    <2>4. /\ receiveBuf' \in Seq([chan : Channels, off : Nat])
          /\ Len(receiveBuf') <= ReceiveBufSize
      BY <2>1, StreamAssumption DEF ReceiverType
    <2> QED
      BY <2>1, <2>3, <2>4 DEF ReceiverType
  <1>10. CASE CloseCancel \/ CloseLocked
    BY <1>2, <1>10 DEF CloseCancel, CloseLocked
  <1> QED
    BY <1>2, <1>31, <1>4, <1>5, <1>6, <1>7, <1>8, <1>9, <1>10, TwoSides
    DEF ReceiverStep, receiveMsg, vars
\* So do producers.
LEMMA ProducerTypeStep ==
    ASSUME TypeOK, [Next]_vars
    PROVE  ProducerType'
  <1> USE StreamAssumption DEF TypeOK, ProducerType
  <1>0. MaxFails \in Nat /\ MaxSwitches \in Nat /\ MaxProducers \in Nat
    OBVIOUS
  <1>1. ASSUME UNCHANGED <<producers, producerChannels, producerLock, switches, fails>>
        PROVE  ProducerType'
    BY <1>1
  <1>2. ASSUME NEW c \in Channels, AsProducer(c) PROVE ProducerType'
    <2>1. /\ producerChannels' = Append(producerChannels, c) /\ producers' = producers \cup {c}
          /\ Len(producerChannels) < MaxProducers
          /\ UNCHANGED <<producerLock, switches, fails>>
      BY <1>2 DEF AsProducer, CreateProducer, callVars
    <2>2. /\ producerChannels' \in Seq(Channels) /\ Len(producerChannels') <= MaxProducers
          /\ DOMAIN producerChannels' = 1..(Len(producerChannels) + 1)
          /\ DOMAIN producerChannels = 1..Len(producerChannels)
          /\ \A i \in 1..Len(producerChannels) : producerChannels'[i] = producerChannels[i]
          /\ producerChannels'[Len(producerChannels) + 1] = c
      BY <1>0, <2>1
    <2>3. ASSUME NEW d PROVE d \in Range(producerChannels') <=> d \in Range(producerChannels) \cup {c}
      <3>1. Len(producerChannels) \in Nat
        OBVIOUS
      <3> QED
        BY ONLY <2>2, <3>1 DEF Range
    <2> QED
      BY <2>1, <2>2, <2>3
  <1>3. ASSUME NEW can, EnableProduce(can) PROVE ProducerType'
    BY <1>0, <1>3 DEF EnableProduce, callVars
  <1>4. ASSUME NEW p \in Callers, NEW k, Produce(p, k) \/ Broadcast(p, k) \/ Refuse(p, k)
        PROVE  ProducerType'
    BY <1>1, <1>4 DEF Produce, Broadcast, Refuse, prodVars
  <1>5. ASSUME NEW p \in Callers, ProducePick(p) PROVE ProducerType'
    BY <1>1, <1>5 DEF ProducePick, prodVars
  <1>6. ASSUME NEW c, NEW e, sendOK(c, e) \/ sendErr(c, e) PROVE fails' \in 0..MaxFails
    BY <1>0, <1>6 DEF sendOK, sendErr
  <1>7. ASSUME NEW p \in Callers, ProduceSend(p) PROVE ProducerType'
    BY <1>6, <1>7 DEF ProduceSend, prodVars
  <1>8. ASSUME NEW p \in Callers, BroadcastLock(p) \/ BroadcastNext(p) PROVE ProducerType'
    BY <1>8 DEF BroadcastLock, BroadcastNext
  <1>9. ASSUME NEW p \in Callers, NEW c \in Channels, BroadcastSend(p, c) PROVE ProducerType'
    BY <1>6, <1>9 DEF BroadcastSend
  <1>10. ASSUME UNCHANGED <<prodVars, callVars>> PROVE ProducerType'
    BY <1>1, <1>10 DEF prodVars, callVars
  <1> QED
    BY <1>2, <1>3, <1>4, <1>5, <1>7, <1>8, <1>9, <1>10, TwoSides DEF ProducerStep, vars

\* And callers.
LEMMA CallerTypeStep ==
    ASSUME TypeOK, [Next]_vars
    PROVE  CallerType'
  <1> USE DEF TypeOK, CallerType
  <1>1. work' = work
    BY TwoSides
  <1>2. ASSUME UNCHANGED callVars PROVE CallerType'
    BY <1>1, <1>2 DEF callVars
  <1>3. ASSUME NEW p \in Callers, NEW res, Return(p, res)
        PROVE  /\ pc' = [pc EXCEPT ![p] = "idle"] /\ DOMAIN pending' = Callers
               /\ \A q \in Callers : pending'[q] \subseteq work.calls[q]
    BY <1>3 DEF Return
  <1>4. ASSUME NEW p \in Callers, NEW k, Produce(p, k) \/ Broadcast(p, k) \/ Refuse(p, k)
        PROVE  CallerType'
    <2>1. CASE Refuse(p, k)
      BY <1>1, <2>1 DEF Refuse
    <2>2. CASE Produce(p, k)
      <3>1. /\ DOMAIN todo' = Callers /\ DOMAIN call' = Callers /\ DOMAIN left' = Callers
            /\ pending' = pending
        BY <2>2 DEF Produce
      <3>2. pc' = [pc EXCEPT ![p] = "pick"] /\ try' = [try EXCEPT ![p] = @ + 1]
        BY <2>2 DEF Produce
      <3> QED
        BY <1>1, <3>1, <3>2
    <2>3. CASE Broadcast(p, k)
      <3>1. /\ DOMAIN todo' = Callers /\ DOMAIN call' = Callers /\ DOMAIN left' = Callers
            /\ pending' = pending
        BY <2>3 DEF Broadcast
      <3>2. pc' = [pc EXCEPT ![p] = "lock"] /\ try' = [try EXCEPT ![p] = @ + 1]
        BY <2>3 DEF Broadcast
      <3> QED
        BY <1>1, <3>1, <3>2
    <2> QED
      BY <1>4, <2>1, <2>2, <2>3
  <1>5. ASSUME NEW p \in Callers, ProducePick(p) PROVE CallerType'
    BY <1>1, <1>3, <1>5 DEF ProducePick
  <1>6. ASSUME NEW p \in Callers, ProduceSend(p) PROVE CallerType'
    BY <1>1, <1>3, <1>6 DEF ProduceSend
  <1>7. ASSUME NEW p \in Callers, BroadcastLock(p) PROVE CallerType'
    BY <1>1, <1>3, <1>7 DEF BroadcastLock
  <1>8. ASSUME NEW p \in Callers, BroadcastNext(p) PROVE CallerType'
    BY <1>1, <1>8 DEF BroadcastNext
  <1>9. ASSUME NEW p \in Callers, NEW c \in Channels, BroadcastSend(p, c) PROVE CallerType'
    BY <1>1, <1>3, <1>9 DEF BroadcastSend
  <1>10. ASSUME NEW c \in Channels, AsProducer(c) PROVE CallerType'
    BY <1>2, <1>10 DEF AsProducer
  <1>11. ASSUME NEW can, EnableProduce(can) PROVE CallerType'
    BY <1>2, <1>11 DEF EnableProduce
  <1> QED
    BY <1>2, <1>4, <1>5, <1>6, <1>7, <1>8, <1>9, <1>10, <1>11, TwoSides DEF ProducerStep, vars

\* The flags stay Boolean.
LEMMA FlagsStep ==
    ASSUME TypeOK, [Next]_vars
    PROVE  /\ enableProduce' \in BOOLEAN /\ cancelled' \in BOOLEAN /\ closed' \in BOOLEAN
           /\ cpc' \in {"none", "locking", "done"}
  <1>1. /\ enableProduce \in BOOLEAN /\ cancelled \in BOOLEAN /\ closed \in BOOLEAN
        /\ cpc \in {"none", "locking", "done"}
    BY DEF TypeOK
  <1>2. cancelled' \in {cancelled, TRUE} /\ closed' \in {closed, TRUE}
        /\ cpc' \in {cpc, "locking", "done"}
    <2>1. ASSUME UNCHANGED closeVars
          PROVE  cancelled' = cancelled /\ closed' = closed /\ cpc' = cpc
      BY <2>1 DEF closeVars
    <2>2. ASSUME NEW c \in Channels, AsConsumer(c) \/ receiveMsg(c) PROVE UNCHANGED closeVars
      BY <2>2 DEF AsConsumer, receiveMsg, ReceiveStart, ReceiveTake, ReceivePut, ReceiveStop
    <2>3. ASSUME NEW c, NEW off, Seek(c, off) PROVE UNCHANGED closeVars
      BY <2>3 DEF Seek
    <2>4. CASE Chan \/ Receive
      BY <2>1, <2>4 DEF Chan, Receive
    <2>5. CASE CloseCancel \/ CloseLocked
      BY <2>5 DEF CloseCancel, CloseLocked
    <2>6. UNCHANGED vars => UNCHANGED closeVars
      BY DEF vars
    <2> QED
      BY <2>1, <2>2, <2>3, <2>4, <2>5, <2>6, TwoSides DEF ReceiverStep
  <1>3. enableProduce' = enableProduce \/ enableProduce' \in BOOLEAN
    <2>1. ASSUME NEW c \in Channels, AsProducer(c) PROVE enableProduce' = enableProduce
      BY <2>1 DEF AsProducer
    <2>2. ASSUME NEW can \in BOOLEAN, EnableProduce(can) PROVE enableProduce' \in BOOLEAN
      BY <2>2 DEF EnableProduce
    <2>3. ASSUME NEW p \in Callers, NEW k, Produce(p, k) \/ Broadcast(p, k) \/ Refuse(p, k)
          PROVE  enableProduce' = enableProduce
      BY <2>3 DEF Produce, Broadcast, Refuse, prodVars
    <2>4. ASSUME NEW p \in Callers,
                 ProducePick(p) \/ ProduceSend(p) \/ BroadcastLock(p) \/ BroadcastNext(p)
          PROVE  enableProduce' = enableProduce
      BY <2>4 DEF ProducePick, ProduceSend, BroadcastLock, BroadcastNext, prodVars
    <2>5. ASSUME NEW p \in Callers, NEW c \in Channels, BroadcastSend(p, c)
          PROVE  enableProduce' = enableProduce
      BY <2>5 DEF BroadcastSend
    <2>6. UNCHANGED prodVars => enableProduce' = enableProduce
      BY DEF prodVars
    <2>7. UNCHANGED vars => UNCHANGED prodVars
      BY DEF vars
    <2> QED
      BY <2>1, <2>2, <2>3, <2>4, <2>5, <2>6, <2>7, TwoSides DEF ProducerStep
  <1> QED
    BY <1>1, <1>2, <1>3, Zenon
-------------------------------------------------------------------------------
(* Messages on their way. *)

\* What has been read stays readable, or unreadable.
LEMMA ReadableStays ==
    ASSUME NEW c \in Channels, Grows(c), NEW o \in 1..Len(log[c])
    PROVE  Readable(c, o)' <=> Readable(c, o)
  BY DEF Grows, Readable

\* A step in which channel c passes no message on.  Its receiveMsg may start or stop.
LEMMA PassingFrame ==
    ASSUME TypeOK, NEW c \in Channels, Passing(c), Grows(c),
           cursor'[c] = cursor[c], base'[c] = base[c], held'[c] = held[c], got'[c] = got[c],
           receiveBuf' = receiveBuf,
           rpc'[c] \in {"off", "none", "start"} => rpc[c] \in {"off", "none", "start"},
           rpc'[c] = "put" => rpc[c] = "put",
           rpc[c] \in {"put", "exit"} => rpc'[c] \in {"put", "exit"},
           rpc'[c] \notin {"off", "none"} => c \in consumers'
    PROVE  Passing(c)'
  <1>1. /\ held[c] \in Nat /\ cursor[c] \in Nat /\ base[c] \in Nat /\ Len(log[c]) \in Nat
        /\ held[c] <= cursor[c] /\ cursor[c] <= Len(log[c])
    BY DEF TypeOK, ReceiverType
  <1>2. \A o \in 1..Len(log[c]) : Readable(c, o)' <=> Readable(c, o)
    BY ReadableStays
  <1>3. ASSUME NEW o, Sound(c, o) PROVE Sound(c, o)'
    BY <1>1, <1>2, <1>3 DEF Sound
  <1>4. \A o : Passed(c, o)' <=> Passed(c, o)
    BY DEF Passed, InGot, InBuf
  <1>5. ASSUME NEW o \in (base[c] + 1)..cursor[c], Readable(c, o)'
        PROVE  Passed(c, o)' \/ (o = held'[c] /\ rpc'[c] \in {"put", "exit"})
    BY <1>1, <1>2, <1>4, <1>5 DEF Passing
  <1>6. rpc'[c] = "put" => held'[c] > base'[c] /\ Readable(c, held[c])'
    BY <1>1, <1>2 DEF Passing
  <1> QED
    BY <1>3, <1>5, <1>6 DEF Passing

\* A new place for a channel that is not read.
LEMMA PassingMoved ==
    ASSUME TypeOK, NEW c \in Channels, Passing(c), rpc[c] \in {"off", "none"},
           cursor'[c] = base'[c], base'[c] \in Nat, held'[c] = held[c], got'[c] = got[c],
           receiveBuf' = receiveBuf, rpc'[c] = rpc[c]
    PROVE  Passing(c)'
  BY DEF Passing, Passed, InGot, InBuf

\* receiveMsg takes the next message.
LEMMA PassingTake ==
    ASSUME TypeOK, NEW c \in Channels, Passing(c), ReceiveTake(c)
    PROVE  Passing(c)'
  <1>1. /\ held[c] \in Nat /\ cursor[c] \in Nat /\ base[c] \in Nat /\ Len(log[c]) \in Nat
        /\ held[c] <= cursor[c] /\ cursor[c] < Len(log[c]) /\ base[c] <= cursor[c]
    BY DEF TypeOK, ReceiverType, ReceiveTake
  <1>2. /\ rpc[c] = "take" /\ cursor'[c] = cursor[c] + 1
        /\ UNCHANGED <<log, base, got, receiveBuf, consumers>>
    BY DEF ReceiveTake, TypeOK, ReceiverType
  <1>3. \/ Readable(c, cursor[c] + 1) /\ rpc'[c] = "put" /\ held'[c] = cursor[c] + 1
        \/ ~Readable(c, cursor[c] + 1) /\ UNCHANGED <<rpc, held>>
    BY DEF ReceiveTake, TypeOK, ReceiverType
  <1>4. \A o : (Passed(c, o)' <=> Passed(c, o)) /\ (Readable(c, o)' <=> Readable(c, o))
    BY <1>2 DEF Passed, InGot, InBuf, Readable
  <1>5. ASSUME NEW o, Sound(c, o) PROVE Sound(c, o)'
    BY <1>1, <1>2, <1>3, <1>4, <1>5 DEF Sound
  <1>6. ASSUME NEW o \in (base[c] + 1)..cursor'[c], Readable(c, o)'
        PROVE  Passed(c, o)' \/ (o = held'[c] /\ rpc'[c] \in {"put", "exit"})
    <2>1. CASE o = cursor[c] + 1
      BY <1>3, <1>4, <1>6, <2>1
    <2>2. CASE o # cursor[c] + 1
      <3>1. o \in (base[c] + 1)..cursor[c]
        BY <1>1, <1>2, <2>2
      <3> QED
        BY <1>2, <1>4, <1>6, <3>1 DEF Passing
    <2> QED
      BY <2>1, <2>2
  <1>7. rpc'[c] = "put" => held'[c] > base'[c] /\ Readable(c, held[c])'
    BY <1>1, <1>2, <1>3, <1>4
  <1>8. rpc'[c] \notin {"off", "none", "start"} /\ c \in consumers'
    BY <1>2, <1>3 DEF Passing
  <1> QED
    BY <1>2, <1>5, <1>6, <1>7, <1>8 DEF Passing
\* receiveBuf with one more message at its end.
LEMMA PutFacts ==
    ASSUME TypeOK, NEW c \in Channels, ReceivePut(c)
    PROVE  /\ Len(receiveBuf) \in Nat /\ Len(receiveBuf') = Len(receiveBuf) + 1
           /\ DOMAIN receiveBuf = 1..Len(receiveBuf) /\ DOMAIN receiveBuf' = 1..Len(receiveBuf')
           /\ \A i \in 1..Len(receiveBuf) : receiveBuf'[i] = receiveBuf[i]
           /\ receiveBuf'[Len(receiveBuf')] = [chan |-> c, off |-> held[c]]
  <1> DEFINE S == [chan : Channels, off : Nat]
             e == [chan |-> c, off |-> held[c]]
  <1>1. receiveBuf \in Seq(S) /\ e \in S /\ receiveBuf' = Append(receiveBuf, e)
    BY DEF TypeOK, ReceiverType, ReceivePut
  <1> HIDE DEF S, e
  <1>2. /\ Len(receiveBuf) \in Nat /\ Len(receiveBuf') = Len(receiveBuf) + 1
        /\ DOMAIN receiveBuf = 1..Len(receiveBuf) /\ DOMAIN receiveBuf' = 1..Len(receiveBuf')
        /\ \A i \in 1..Len(receiveBuf) : receiveBuf'[i] = receiveBuf[i]
        /\ receiveBuf'[Len(receiveBuf')] = e
    BY <1>1
  <1> QED
    BY <1>2 DEF e

\* receiveMsg of c passes its message on; d is any channel.
LEMMA PassingPut ==
    ASSUME TypeOK, NEW c \in Channels, Passing(c), ReceivePut(c), NEW d \in Channels, Passing(d)
    PROVE  Passing(d)'
  <1> DEFINE n == Len(receiveBuf)
  <1>1. /\ n \in Nat /\ Len(receiveBuf') = n + 1
        /\ DOMAIN receiveBuf = 1..n /\ DOMAIN receiveBuf' = 1..(n + 1)
        /\ \A i \in 1..n : receiveBuf'[i] = receiveBuf[i]
        /\ receiveBuf'[n + 1].chan = c /\ receiveBuf'[n + 1].off = held[c]
    <2>1. receiveBuf'[n + 1] = [chan |-> c, off |-> held[c]]
      BY PutFacts
    <2> QED
      BY <2>1, PutFacts
  <1> HIDE DEF n
  <1>2. /\ rpc[c] = "put" /\ rpc' = [rpc EXCEPT ![c] = "take"]
        /\ UNCHANGED <<log, consumers, cursor, held, got, base>>
    BY DEF ReceivePut
  <1>3. \A o : Readable(d, o)' <=> Readable(d, o)
    BY <1>2 DEF Readable
  <1>4. \A o : Passed(d, o) => Passed(d, o)'
    BY <1>1, <1>2 DEF Passed, InGot, InBuf
  <1>5. ASSUME d # c PROVE Passing(d)'
    <2>1. rpc'[d] = rpc[d]
      BY <1>2, <1>5 DEF TypeOK, ReceiverType
    <2>2. \A o : Sound(d, o)' <=> Sound(d, o)
      BY <1>2, <1>3, <2>1 DEF Sound
    <2>3. ASSUME NEW j \in DOMAIN receiveBuf', receiveBuf'[j].chan = d
          PROVE  /\ j \in DOMAIN receiveBuf /\ receiveBuf'[j] = receiveBuf[j]
                 /\ \A i \in 1..(j - 1) : receiveBuf'[i] = receiveBuf[i]
      BY <1>1, <1>5, <2>3
    <2> QED
      BY <1>2, <1>3, <1>4, <2>1, <2>2, <2>3 DEF Passing
  <1>6. ASSUME d = c PROVE Passing(d)'
    <2>1. rpc'[c] = "take" /\ held[c] \in Nat /\ base[c] \in Nat
      BY <1>2 DEF TypeOK, ReceiverType
    <2>2. \A o : Sound(c, o) => Sound(c, o)' /\ o < held[c]
      BY <1>2, <1>3, <1>6, <2>1 DEF Sound
    <2>3. Sound(c, held[c])'
      BY <1>2, <1>3, <1>6, <2>1 DEF Sound, Passing
    <2>4. Passed(c, held[c])'
      BY <1>1, <1>2 DEF Passed, InBuf
    <2>5. ASSUME NEW o \in (base[c] + 1)..cursor[c], Readable(c, o)' PROVE Passed(c, o)'
      BY <1>2, <1>3, <1>4, <1>6, <2>4, <2>5 DEF Passing
    <2>6. ASSUME NEW j \in DOMAIN receiveBuf', receiveBuf'[j].chan = c
          PROVE  /\ Sound(c, receiveBuf[j].off)'
                 /\ \A i \in DOMAIN got[c] : got[c][i] < receiveBuf'[j].off
                 /\ \A i \in 1..(j - 1) :
                       receiveBuf'[i].chan = c => receiveBuf'[i].off < receiveBuf'[j].off
      <3>1. CASE j \in 1..n
        <4>1. /\ receiveBuf'[j] = receiveBuf[j] /\ j \in DOMAIN receiveBuf
              /\ \A i \in 1..(j - 1) : receiveBuf'[i] = receiveBuf[i]
          BY <1>1, <3>1
        <4> QED
          BY <1>6, <2>2, <2>6, <4>1 DEF Passing
      <3>2. CASE j = n + 1
        <4>1. receiveBuf'[j].off = held[c]
          BY <1>1, <3>2
        <4>2. \A i \in 1..(j - 1) : i \in DOMAIN receiveBuf /\ receiveBuf'[i] = receiveBuf[i]
          BY <1>1, <3>2
        <4>3. Sound(c, receiveBuf[j].off)'
          BY <1>2, <2>3, <4>1
        <4> QED
          BY <1>6, <2>2, <4>1, <4>2, <4>3 DEF Passing
      <3> QED
        BY <1>1, <3>1, <3>2
    <2> QED
      BY <1>2, <1>6, <2>1, <2>2, <2>5, <2>6 DEF Passing
  <1> QED
    BY <1>5, <1>6

\* The program takes the first message of receiveBuf, of channel c; d is any channel.
LEMMA PassingReceive ==
    ASSUME TypeOK, Receive, NEW d \in Channels, Passing(d)
    PROVE  Passing(d)'
  <1> DEFINE n == Len(receiveBuf)
             c == receiveBuf[1].chan
             h == receiveBuf[1].off
  <1>1. /\ receiveBuf # <<>> /\ receiveBuf' = Tail(receiveBuf)
        /\ got' = [got EXCEPT ![Head(receiveBuf).chan] = Append(@, Head(receiveBuf).off)]
        /\ UNCHANGED <<log, consumers, cursor, rpc, held, base>>
    BY DEF Receive
  <1>2. /\ n \in Nat \ {0} /\ Head(receiveBuf) = receiveBuf[1]
        /\ DOMAIN receiveBuf = 1..n /\ DOMAIN receiveBuf' = 1..(n - 1)
        /\ \A i \in 1..(n - 1) : receiveBuf'[i] = receiveBuf[i + 1]
        /\ receiveBuf[1] \in [chan : Channels, off : Nat]
    <2> DEFINE S == [chan : Channels, off : Nat]
    <2>1. receiveBuf \in Seq(S)
      BY DEF TypeOK, ReceiverType
    <2> HIDE DEF S
    <2>2. /\ Head(receiveBuf) \in S /\ Head(receiveBuf) = receiveBuf[1] /\ n \in Nat \ {0}
          /\ DOMAIN receiveBuf = 1..n /\ DOMAIN Tail(receiveBuf) = 1..(n - 1)
          /\ \A i \in 1..(n - 1) : Tail(receiveBuf)[i] = receiveBuf[i + 1]
      BY <1>1, <2>1, HeadTail
    <2> QED
      BY <1>1, <2>2 DEF S
  <1>3. c \in Channels /\ h \in Nat /\ got' = [got EXCEPT ![c] = Append(@, h)]
    BY <1>1, <1>2
  <1> HIDE DEF n, c, h
  <1>4. \A o : (Readable(d, o)' <=> Readable(d, o)) /\ (Sound(d, o)' <=> Sound(d, o))
    BY <1>1 DEF Readable, Sound
  <1>5. ASSUME NEW j \in 1..(n - 1)
        PROVE  /\ j + 1 \in DOMAIN receiveBuf /\ receiveBuf'[j] = receiveBuf[j + 1]
               /\ \A i \in 1..(j - 1) : /\ i + 1 \in 1..((j + 1) - 1)
                                         /\ receiveBuf'[i] = receiveBuf[i + 1]
    BY <1>2
  <1>6. got \in [Channels -> Seq(Nat)]
    BY DEF TypeOK, ReceiverType
  <1>7. ASSUME d # c PROVE Passing(d)'
    <2>1. got'[d] = got[d]
      BY <1>3, <1>6, <1>7
    <2>2. ASSUME NEW o, InBuf(d, o) PROVE InBuf(d, o)'
      <3>1. PICK j \in DOMAIN receiveBuf : receiveBuf[j].chan = d /\ receiveBuf[j].off = o
        BY <2>2 DEF InBuf
      <3>2. j # 1
        BY <1>7, <3>1 DEF c
      <3>3. j - 1 \in 1..(n - 1) /\ (j - 1) + 1 = j
        BY <1>2, <3>1, <3>2
      <3> QED
        BY <1>2, <3>1, <3>3 DEF InBuf
    <2>3. \A o : Passed(d, o) => Passed(d, o)'
      BY <2>1, <2>2 DEF Passed, InGot
    <2>4. ASSUME NEW j \in 1..(n - 1), receiveBuf'[j].chan = d
          PROVE  /\ Sound(d, receiveBuf[j].off)'
                 /\ \A i \in DOMAIN got[d] : got[d][i] < receiveBuf'[j].off
                 /\ \A i \in 1..(j - 1) :
                       receiveBuf'[i].chan = d => receiveBuf'[i].off < receiveBuf'[j].off
      <3>1. j + 1 \in DOMAIN receiveBuf /\ receiveBuf[j + 1].chan = d
        BY <1>5, <2>4
      <3> QED
        BY <1>4, <1>5, <2>4, <3>1 DEF Passing
    <2>5. rpc[d] \in {"off", "none", "start"} => \A j \in 1..(n - 1) : receiveBuf'[j].chan # d
      BY <1>5 DEF Passing
    <2> QED
      BY <1>1, <1>2, <1>4, <2>1, <2>3, <2>4, <2>5 DEF Passing
  <1>8. ASSUME d = c PROVE Passing(d)'
    <2>1. /\ got[d] \in Seq(Nat) /\ got'[d] = Append(got[d], h)
      BY <1>3, <1>6, <1>8
    <2>2. /\ Len(got[d]) \in Nat /\ DOMAIN got[d] = 1..Len(got[d])
          /\ DOMAIN got'[d] = 1..(Len(got[d]) + 1)
          /\ \A i \in 1..Len(got[d]) : got'[d][i] = got[d][i]
          /\ got'[d][Len(got[d]) + 1] = h
      BY <1>3, <2>1
    <2>3. 1 \in DOMAIN receiveBuf /\ receiveBuf[1].chan = d /\ receiveBuf[1].off = h
      BY <1>2, <1>8 DEF c, h
    <2>4. /\ Sound(d, h) /\ rpc[d] \notin {"off", "none", "start"}
          /\ \A i \in DOMAIN got[d] : got[d][i] < h
      BY <1>8, <2>3 DEF Passing
    <2>5. ASSUME NEW o, Passed(d, o) PROVE Passed(d, o)'
      <3>1. CASE InGot(d, o)
        BY <2>2, <3>1 DEF Passed, InGot
      <3>2. CASE o = h
        <4>1. InGot(d, o)'
          BY <2>2, <3>2 DEF InGot
        <4> QED
          BY <4>1 DEF Passed
      <3>3. CASE InBuf(d, o) /\ o # h
        <4>1. PICK j \in DOMAIN receiveBuf : receiveBuf[j].chan = d /\ receiveBuf[j].off = o
          BY <3>3 DEF InBuf
        <4>2. j - 1 \in 1..(n - 1) /\ (j - 1) + 1 = j
          BY <1>2, <2>3, <3>3, <4>1
        <4>3. InBuf(d, o)'
          BY <1>2, <4>1, <4>2 DEF InBuf
        <4> QED
          BY <4>3 DEF Passed
      <3> QED
        BY <2>5, <3>1, <3>2, <3>3 DEF Passed
    <2>6. ASSUME NEW j \in 1..(n - 1), receiveBuf'[j].chan = d
          PROVE  /\ Sound(d, receiveBuf[j].off)' /\ h < receiveBuf'[j].off
                 /\ \A i \in DOMAIN got[d] : got[d][i] < receiveBuf'[j].off
                 /\ \A i \in 1..(j - 1) :
                       receiveBuf'[i].chan = d => receiveBuf'[i].off < receiveBuf'[j].off
      <3>1. j + 1 \in DOMAIN receiveBuf /\ receiveBuf[j + 1].chan = d /\ 1 \in 1..((j + 1) - 1)
        BY <1>5, <2>6
      <3> QED
        BY <1>4, <1>5, <1>8, <2>3, <2>6, <3>1 DEF Passing
    <2>7. ASSUME NEW i \in DOMAIN got'[d] PROVE Sound(d, got[d][i])'
      <3>1. Sound(d, got'[d][i])
        BY <1>8, <2>2, <2>4 DEF Passing
      <3> QED
        BY <1>4, <1>8, <3>1 DEF Sound
    <2>8. ASSUME NEW i \in DOMAIN got'[d], NEW j \in DOMAIN got'[d], i < j
          PROVE  got'[d][i] < got'[d][j]
      BY <1>8, <2>2, <2>4, <2>8 DEF Passing
    <2>9. ASSUME NEW j \in 1..(n - 1), receiveBuf'[j].chan = d, NEW i \in DOMAIN got'[d]
          PROVE  got'[d][i] < receiveBuf'[j].off
      BY <2>2, <2>6, <2>9
    <2> QED
      BY <1>1, <1>2, <1>4, <1>8, <2>4, <2>5, <2>6, <2>7, <2>8, <2>9 DEF Passing
  <1> QED
    BY <1>7, <1>8
\* In every step and on every channel.
LEMMA PassingStep ==
    ASSUME TypeOK, \A c \in Channels : Passing(c), [Next]_vars, NEW d \in Channels
    PROVE  Passing(d)'
  <1>1. Passing(d) /\ Grows(d)
    BY LogGrows DEF TypeOK
  <1>2. rpc \in [Channels -> {"off", "none", "start", "take", "put", "exit"}]
    BY DEF TypeOK, ReceiverType
  <1>3. ASSUME UNCHANGED <<cursor, base, held, got, receiveBuf, rpc, consumers>>
        PROVE  Passing(d)'
    BY <1>1, <1>3, PassingFrame DEF Passing
  <1>4. ASSUME NEW c \in Channels, AsConsumer(c) PROVE Passing(d)'
    <2>1. /\ c \notin consumers /\ consumers' = consumers \cup {c}
          /\ UNCHANGED <<log, receiveBuf, rpc, held, got>>
      BY <1>4 DEF AsConsumer
    <2>2. PICK off \in {0, Len(log[c])} : /\ cursor' = [cursor EXCEPT ![c] = off]
                                           /\ base' = [base EXCEPT ![c] = off]
      BY <1>4 DEF AsConsumer
    <2>3. cursor \in [Channels -> Nat] /\ base \in [Channels -> Nat] /\ off \in Nat
      BY DEF TypeOK, ReceiverType
    <2>4. CASE d = c
      <3>1. rpc[d] \in {"off", "none"}
        BY <1>1, <2>1, <2>4 DEF Passing
      <3> QED
        BY <1>1, <2>1, <2>2, <2>3, <2>4, <3>1, PassingMoved
    <2>5. CASE d # c
      <3>1. cursor'[d] = cursor[d] /\ base'[d] = base[d]
        BY <2>2, <2>3, <2>5
      <3>2. rpc[d] \notin {"off", "none"} => d \in consumers'
        BY <1>1, <2>1 DEF Passing
      <3> QED
        BY <1>1, <2>1, <3>1, <3>2, PassingFrame
    <2> QED
      BY <2>4, <2>5
  <1>5. ASSUME NEW c \in Channels, NEW off \in 1..Len(log[c]), Seek(c, off) PROVE Passing(d)'
    <2>1. /\ rpc[d] = "off" /\ UNCHANGED <<log, consumers, receiveBuf, rpc, held, got>>
          /\ cursor' = [cursor EXCEPT ![c] = off] /\ base' = [base EXCEPT ![c] = off]
      BY <1>5 DEF Seek
    <2>2. cursor \in [Channels -> Nat] /\ base \in [Channels -> Nat] /\ off \in Nat
      BY DEF TypeOK, ReceiverType
    <2>3. cursor'[d] = base'[d] /\ base'[d] \in Nat
      BY <1>1, <2>1, <2>2 DEF Passing
    <2> QED
      BY <1>1, <2>1, <2>3, PassingMoved
  <1>6. CASE Chan
    <2>1. /\ UNCHANGED <<log, consumers, cursor, receiveBuf, held, got, base>>
          /\ rpc'[d] = (IF d \in consumers THEN "start" ELSE "none") /\ rpc[d] = "off"
      BY <1>6 DEF Chan
    <2> QED
      BY <1>1, <2>1, PassingFrame
  <1>7. ASSUME NEW c \in Channels, ReceiveStart(c) \/ ReceiveStop(c) PROVE Passing(d)'
    <2>1. /\ UNCHANGED <<log, consumers, cursor, receiveBuf, held, got, base>>
          /\ rpc[c] \in {"start", "take", "put"}
      BY <1>7 DEF ReceiveStart, ReceiveStop
    <2>2. \/ rpc' = [rpc EXCEPT ![c] = "exit"]
          \/ rpc' = [rpc EXCEPT ![c] = "take"] /\ rpc[c] = "start"
      BY <1>7 DEF ReceiveStart, ReceiveStop
    <2>3. rpc[d] \notin {"off", "none"} => d \in consumers
      BY <1>1 DEF Passing
    <2>4. /\ rpc'[d] \in {"off", "none", "start"} => rpc[d] \in {"off", "none", "start"}
          /\ rpc'[d] = "put" => rpc[d] = "put"
          /\ rpc[d] \in {"put", "exit"} => rpc'[d] \in {"put", "exit"}
          /\ rpc'[d] \notin {"off", "none"} => d \in consumers'
      BY <1>2, <2>1, <2>2, <2>3
    <2> QED
      BY <1>1, <2>1, <2>4, PassingFrame
  <1>8. ASSUME NEW c \in Channels, ReceiveTake(c) PROVE Passing(d)'
    <2>1. CASE d = c
      BY <1>1, <1>8, <2>1, PassingTake
    <2>2. CASE d # c
      <3>1. /\ UNCHANGED <<log, consumers, receiveBuf, got, base>>
            /\ cursor'[d] = cursor[d] /\ rpc'[d] = rpc[d] /\ held'[d] = held[d]
        BY <1>8, <2>2 DEF ReceiveTake, TypeOK, ReceiverType
      <3>2. rpc[d] \notin {"off", "none"} => d \in consumers'
        BY <1>1, <3>1 DEF Passing
      <3> QED
        BY <1>1, <3>1, <3>2, PassingFrame
    <2> QED
      BY <2>1, <2>2
  <1>9. ASSUME NEW c \in Channels, ReceivePut(c) PROVE Passing(d)'
    BY <1>1, <1>9, PassingPut
  <1>10. CASE Receive
    BY <1>1, <1>10, PassingReceive
  <1>11. CASE CloseCancel \/ CloseLocked
    BY <1>3, <1>11 DEF CloseCancel, CloseLocked, recvVars
  <1>12. UNCHANGED recvVars => Passing(d)'
    BY <1>3 DEF recvVars
  <1> QED
    BY <1>4, <1>5, <1>6, <1>7, <1>8, <1>9, <1>10, <1>11, <1>12, TwoSides
    DEF ReceiverStep, receiveMsg, vars

\* Nobody enters the part that may send once the stream is closed.
LEMMA ClosedStep ==
    ASSUME TypeOK, NoSendOnClosed, [Next]_vars
    PROVE  NoSendOnClosed'
  <1> USE DEF NoSendOnClosed, ReadLocked
  <1>1. rpc \in [Channels -> {"off", "none", "start", "take", "put", "exit"}]
    BY DEF TypeOK, ReceiverType
  <1>2. ASSUME NEW c \in Channels, AsConsumer(c) PROVE NoSendOnClosed'
    BY <1>2 DEF AsConsumer, closeVars
  <1>3. ASSUME NEW c \in Channels, NEW off, Seek(c, off) PROVE NoSendOnClosed'
    BY <1>3 DEF Seek, closeVars
  <1>4. CASE Chan
    BY <1>4 DEF Chan, closeVars
  <1>5. ASSUME NEW c \in Channels, ReceiveStart(c) PROVE NoSendOnClosed'
    BY <1>1, <1>5 DEF ReceiveStart, closeVars
  <1>6. ASSUME NEW c \in Channels, ReceiveTake(c) PROVE NoSendOnClosed'
    BY <1>1, <1>6 DEF ReceiveTake, closeVars
  <1>7. ASSUME NEW c \in Channels, ReceivePut(c) PROVE NoSendOnClosed'
    BY <1>1, <1>7 DEF ReceivePut, closeVars
  <1>8. ASSUME NEW c \in Channels, ReceiveStop(c) PROVE NoSendOnClosed'
    BY <1>1, <1>8 DEF ReceiveStop, closeVars
  <1>9. CASE Receive
    BY <1>9 DEF Receive, closeVars
  <1>10. CASE CloseCancel
    BY <1>10 DEF CloseCancel, recvVars
  <1>11. CASE CloseLocked
    BY <1>11 DEF CloseLocked, recvVars
  <1>12. UNCHANGED <<recvVars, closeVars>> => NoSendOnClosed'
    BY DEF recvVars, closeVars
  <1>13. UNCHANGED vars => UNCHANGED <<recvVars, closeVars>>
    BY DEF vars
  <1> QED
    BY <1>2, <1>3, <1>4, <1>5, <1>6, <1>7, <1>8, <1>9, <1>10, <1>11, <1>12, <1>13, TwoSides
    DEF ReceiverStep, receiveMsg

\* What has passed and is in order is what the program should have received.
LEMMA PassingExact ==
    ASSUME TypeOK, \A c \in Channels : Passing(c)
    PROVE  ReceivedExact
  <1> SUFFICES ASSUME NEW c \in Channels, NEW i \in DOMAIN got[c]
               PROVE  /\ got[c][i] \in (base[c] + 1)..Len(log[c]) /\ Readable(c, got[c][i])
                      /\ \A o \in (base[c] + 1)..got[c][i] : Readable(c, o) => InGot(c, o)
    BY DEF ReceivedExact, Passing
  <1>1. /\ held[c] \in Nat /\ cursor[c] \in Nat /\ base[c] \in Nat /\ Len(log[c]) \in Nat
        /\ held[c] <= cursor[c] /\ cursor[c] <= Len(log[c])
    BY DEF TypeOK, ReceiverType
  <1>2. got[c][i] \in (base[c] + 1)..held[c] /\ Readable(c, got[c][i])
    BY DEF Passing, Sound
  <1>3. ASSUME NEW o \in (base[c] + 1)..got[c][i], Readable(c, o) PROVE InGot(c, o)
    <2>1. o \in (base[c] + 1)..cursor[c] /\ o <= held[c]
      BY <1>1, <1>2
    <2>2. Passed(c, o) \/ o = held[c]
      BY <1>3, <2>1 DEF Passing
    <2>3. CASE o = held[c]
      <3>1. o = got[c][i]
        BY <1>1, <1>2, <2>3
      <3> QED
        BY <3>1 DEF InGot
    <2>4. CASE InBuf(c, o)
      <3>1. got[c][i] < o
        BY <2>4 DEF Passing, InBuf
      <3> QED
        BY <1>1, <1>2, <3>1
    <2> QED
      BY <2>2, <2>3, <2>4 DEF Passed
  <1> QED
    BY <1>1, <1>2, <1>3

\* The inductive part of ReceiveInv.
RecvInv == TypeOK /\ (\A c \in Channels : Passing(c)) /\ NoSendOnClosed

\* It is an invariant.
LEMMA RecvInvariance == Spec => []RecvInv
  <1>1. Init => RecvInv
    <2> SUFFICES ASSUME Init PROVE RecvInv
      OBVIOUS
    <2>1. NoSendOnClosed
      BY DEF Init, NoSendOnClosed
    <2>2. ASSUME NEW c \in Channels PROVE Passing(c)
      BY DEF Init, Passing, Passed
    <2> QED
      BY <2>1, <2>2, TypeInit DEF RecvInv
  <1>2. RecvInv /\ [Next]_vars => RecvInv'
    <2> SUFFICES ASSUME RecvInv, [Next]_vars PROVE RecvInv'
      OBVIOUS
    <2>1. TypeOK'
      BY ReceiverTypeStep, ProducerTypeStep, CallerTypeStep, FlagsStep DEF RecvInv, TypeOK
    <2>2. \A c \in Channels : Passing(c)'
      BY PassingStep DEF RecvInv
    <2>3. NoSendOnClosed'
      BY ClosedStep DEF RecvInv
    <2> QED
      BY <2>1, <2>2, <2>3 DEF RecvInv
  <1> QED
    BY <1>1, <1>2, PTL DEF Spec

\* Whatever callers, channels and Close do at the same time, the program receives of
\* every channel exactly the readable messages behind its position, in order, and
\* receiveBuf is closed under no sender.
THEOREM ReceiveCorrect == Spec => []ReceiveInv
  <1>1. RecvInv => ReceiveInv
    BY PassingExact DEF RecvInv, ReceiveInv
  <1> QED
    BY <1>1, RecvInvariance, PTL
-------------------------------------------------------------------------------
(* Broadcasts. *)

\* A pack that a caller has to send is a sequence of messages.
LEMMA PackMsgs ==
    ASSUME TypeOK, NEW p \in Callers, NEW k \in pending[p]
    PROVE  k.msgs \in Seq(TsMsg)
  <1>1. k \in work.calls[p] /\ work \in Scenarios
    BY DEF TypeOK, CallerType
  <1>2. k \in Call
    BY <1>1, StreamAssumption
  <1> QED
    BY <1>2 DEF Call

\* Callers that are left alone keep their part of the invariant, as long as the lock is
\* not given to them or taken from them.
LEMMA CallingFrame ==
    ASSUME NEW q, Calling(q), pc'[q] = pc[q], call'[q] = call[q], todo'[q] = todo[q],
           q \in producerLock' <=> q \in producerLock
    PROVE  Calling(q)'
  BY DEF Calling

\* The write lock belongs to the caller that broadcasts.
LEMMA CallingStep ==
    ASSUME TypeOK, \A p \in Callers : Calling(p), [Next]_vars, NEW q \in Callers
    PROVE  Calling(q)'
  <1>1. /\ pc \in [Callers -> {"idle", "pick", "send", "lock", "bcast"}]
        /\ DOMAIN call = Callers /\ DOMAIN todo = Callers
        /\ producerLock \subseteq Callers /\ \A p, r \in producerLock : p = r
    BY DEF TypeOK, CallerType, ProducerType
  <1>2. Calling(q)
    OBVIOUS
  <1>3. ASSUME UNCHANGED <<pc, call, todo, producerLock>> PROVE Calling(q)'
    BY <1>2, <1>3, CallingFrame
  <1>4. ASSUME NEW p \in Callers, NEW k \in pending[p], Produce(p, k) PROVE Calling(q)'
    <2>1. /\ pc[p] = "idle" /\ pc' = [pc EXCEPT ![p] = "pick"] /\ call' = [call EXCEPT ![p] = k]
          /\ k.op = "Produce" /\ producerLock' = producerLock
      BY <1>4 DEF Produce, prodVars
    <2>2. \A r \in Callers : r # p => todo'[r] = todo[r]
      BY <1>1, <1>4 DEF Produce
    <2>3. CASE q = p
      BY <1>1, <1>2, <2>1, <2>3 DEF Calling
    <2>4. CASE q # p
      <3>1. pc'[q] = pc[q] /\ call'[q] = call[q] /\ todo'[q] = todo[q]
        BY <1>1, <2>1, <2>2, <2>4
      <3> QED
        BY <1>2, <2>1, <3>1, CallingFrame
    <2> QED
      BY <2>3, <2>4
  <1>5. ASSUME NEW p \in Callers, NEW k \in pending[p], Broadcast(p, k) PROVE Calling(q)'
    <2>1. /\ pc[p] = "idle" /\ pc' = [pc EXCEPT ![p] = "lock"] /\ call' = [call EXCEPT ![p] = k]
          /\ k.op = "Broadcast" /\ producerLock' = producerLock
          /\ todo' = [todo EXCEPT ![p] = <<k.msgs>>]
      BY <1>5 DEF Broadcast, prodVars
    <2>2. CASE q = p
      <3>1. /\ pc'[q] = "lock" /\ call'[q] = k /\ todo'[q] = <<k.msgs>>
            /\ k.msgs \in Seq(TsMsg)
        BY <1>1, <2>1, <2>2, PackMsgs
      <3>2. q \notin producerLock
        BY <1>2, <2>1, <2>2 DEF Calling
      <3> QED
        BY <2>1, <3>1, <3>2 DEF Calling
    <2>3. CASE q # p
      <3>1. pc'[q] = pc[q] /\ call'[q] = call[q] /\ todo'[q] = todo[q]
        BY <1>1, <2>1, <2>3
      <3> QED
        BY <1>2, <2>1, <3>1, CallingFrame
    <2> QED
      BY <2>2, <2>3
  <1>6. ASSUME NEW p \in Callers, NEW k, Refuse(p, k) PROVE Calling(q)'
    BY <1>3, <1>6 DEF Refuse, prodVars
  <1>7. ASSUME NEW p \in Callers, ProducePick(p) \/ ProduceSend(p) PROVE Calling(q)'
    <2>1. /\ pc[p] \in {"pick", "send"} /\ UNCHANGED <<call, producerLock>>
          /\ pc' \in {[pc EXCEPT ![p] = x] : x \in {"idle", "pick", "send"}}
      BY <1>7 DEF ProducePick, ProduceSend, Return, prodVars
    <2>2. \A r \in Callers : r # p => todo'[r] = todo[r]
      BY <1>1, <1>7 DEF ProducePick, ProduceSend
    <2>3. CASE q = p
      <3>1. pc'[q] \in {"idle", "pick", "send"} /\ q \notin producerLock
        BY <1>1, <1>2, <2>1, <2>3 DEF Calling
      <3>2. call[q].op = "Produce"
        BY <1>2, <2>1, <2>3 DEF Calling
      <3> QED
        BY <2>1, <3>1, <3>2 DEF Calling
    <2>4. CASE q # p
      <3>1. pc'[q] = pc[q] /\ call'[q] = call[q] /\ todo'[q] = todo[q]
        BY <1>1, <2>1, <2>2, <2>4
      <3> QED
        BY <1>2, <2>1, <3>1, CallingFrame
    <2> QED
      BY <2>3, <2>4
  <1>8. ASSUME NEW p \in Callers, BroadcastLock(p) PROVE Calling(q)'
    <2>1. /\ pc[p] = "lock" /\ UNCHANGED <<call, todo>>
          /\ \/ pc' = [pc EXCEPT ![p] = "idle"] /\ producerLock' = producerLock
             \/ /\ todo[p][1] # <<>> /\ producerLock = {} /\ producerLock' = {p}
                /\ pc' = [pc EXCEPT ![p] = "bcast"]
      BY <1>8 DEF BroadcastLock, Return
    <2>2. CASE q = p
      BY <1>1, <1>2, <2>1, <2>2 DEF Calling
    <2>3. CASE q # p
      <3>1. pc'[q] = pc[q] /\ (q \in producerLock' <=> q \in producerLock)
        BY <1>1, <2>1, <2>3
      <3> QED
        BY <1>2, <2>1, <3>1, CallingFrame
    <2> QED
      BY <2>2, <2>3
  <1>9. ASSUME NEW p \in Callers, NEW c \in Channels, BroadcastSend(p, c) PROVE Calling(q)'
    <2>1. /\ pc[p] = "bcast" /\ UNCHANGED <<call, todo>>
          /\ \/ UNCHANGED <<pc, producerLock>>
             \/ pc' = [pc EXCEPT ![p] = "idle"] /\ producerLock' = {}
      BY <1>9 DEF BroadcastSend, Return
    <2>2. p \in producerLock
      BY <2>1 DEF Calling
    <2>3. CASE UNCHANGED <<pc, producerLock>>
      BY <1>3, <2>1, <2>3
    <2>4. CASE pc' = [pc EXCEPT ![p] = "idle"] /\ producerLock' = {}
      <3>1. CASE q = p
        BY <1>1, <1>2, <2>1, <2>4, <3>1 DEF Calling
      <3>2. CASE q # p
        <4>1. q \notin producerLock /\ pc'[q] = pc[q]
          BY <1>1, <2>2, <2>4, <3>2
        <4> QED
          BY <1>2, <2>1, <2>4, <4>1, CallingFrame
      <3> QED
        BY <3>1, <3>2
    <2> QED
      BY <2>1, <2>3, <2>4
  <1>10. ASSUME NEW p \in Callers, BroadcastNext(p) PROVE Calling(q)'
    <2>1. /\ pc[p] = "bcast" /\ call' = call /\ producerLock' = {}
          /\ todo' = [todo EXCEPT ![p] = <<Tail(@[1])>>] /\ pc' = [pc EXCEPT ![p] = "lock"]
      BY <1>10 DEF BroadcastNext
    <2>2. p \in producerLock /\ todo[p][1] \in Seq(TsMsg) /\ todo[p][1] # <<>>
          /\ call[p].op = "Broadcast"
      BY <2>1 DEF Calling
    <2>3. CASE q = p
      <3>1. todo'[q][1] = Tail(todo[p][1]) /\ pc'[q] = "lock"
        BY <1>1, <2>1, <2>3
      <3>2. Tail(todo[p][1]) \in Seq(TsMsg)
        BY <2>2, HeadTail
      <3> QED
        BY <2>1, <2>2, <2>3, <3>1, <3>2 DEF Calling
    <2>4. CASE q # p
      <3>1. q \notin producerLock /\ pc'[q] = pc[q] /\ todo'[q] = todo[q]
        BY <1>1, <2>1, <2>2, <2>4
      <3> QED
        BY <1>2, <2>1, <3>1, CallingFrame
    <2> QED
      BY <2>3, <2>4
  <1>11. ASSUME NEW c \in Channels, AsProducer(c) PROVE Calling(q)'
    BY <1>3, <1>11 DEF AsProducer, callVars
  <1>12. ASSUME NEW can, EnableProduce(can) PROVE Calling(q)'
    BY <1>3, <1>12 DEF EnableProduce, callVars
  <1>13. UNCHANGED <<prodVars, callVars>> => Calling(q)'
    BY <1>3 DEF prodVars, callVars
  <1> QED
    BY <1>4, <1>5, <1>6, <1>7, <1>8, <1>9, <1>10, <1>11, <1>12, <1>13, TwoSides
    DEF ProducerStep, vars

\* A step that adds no broadcast.
SameSent ==
    \A d \in Channels : /\ Broadcasts(d)' = Broadcasts(d)
                        /\ \A o \in Broadcasts(d) : log'[d][o] = log[d][o]

\* What a step that adds no broadcast can do to a caller: begin another attempt, leave the
\* broadcast, nothing, take the lock for the next message, or be done with the message.
Moves(q) ==
    \/ try'[q] = try[q] + 1
    \/ try'[q] = try[q] /\ pc'[q] \notin {"lock", "bcast"}
    \/ try'[q] = try[q] /\ pc'[q] = pc[q] /\ todo'[q] = todo[q] /\ left'[q] = left[q]
    \/ try'[q] = try[q] /\ pc[q] = "lock" /\ pc'[q] = "bcast" /\ todo'[q] = todo[q]
    \/ /\ try'[q] = try[q] /\ pc[q] = "bcast" /\ pc'[q] = "lock"
       /\ Len(todo'[q][1]) = Len(todo[q][1]) - 1

\* What the log says of the broadcasts.
SentInv ==
    /\ \A c \in Channels : \A o \in Broadcasts(c) :
          log[c][o].by \in Callers /\ Broadcasted(log[c][o].by, c, o)
    /\ \A c \in Channels : \A i, j \in Broadcasts(c) : log[c][i] = log[c][j] => i = j
    /\ BroadcastOrder

\* Steps that add no broadcast keep it.
LEMMA SentFrame ==
    ASSUME TypeOK, \A p \in Callers : Calling(p), SentInv, SameSent, \A q \in Callers : Moves(q)
    PROVE  SentInv'
  <1>1. ASSUME NEW c \in Channels, NEW o \in Broadcasts(c)
        PROVE  (log[c][o].by \in Callers /\ Broadcasted(log[c][o].by, c, o))'
    <2>1. PICK p \in Callers : p = log[c][o].by
      BY DEF SentInv
    <2>2. Broadcasted(p, c, o) /\ Moves(p) /\ Calling(p)
      BY <2>1 DEF SentInv
    <2>3. log'[c][o] = log[c][o] /\ Broadcasts(c)' = Broadcasts(c)
      BY DEF SameSent
    <2>4. try[p] \in Nat
      BY DEF TypeOK, CallerType
    <2>5. pc[p] \in {"lock", "bcast"} => Len(todo[p][1]) \in Nat
      BY <2>2 DEF Calling
    <2>6. Broadcasted(p, c, o)'
      <3>1. CASE try'[p] = try[p] + 1
        BY <2>2, <2>3, <2>4, <3>1 DEF Broadcasted
      <3>2. CASE try'[p] = try[p] /\ pc'[p] \notin {"lock", "bcast"}
        BY <2>2, <2>3, <2>4, <3>2 DEF Broadcasted
      <3>3. CASE try'[p] = try[p] /\ pc'[p] = pc[p] /\ todo'[p] = todo[p] /\ left'[p] = left[p]
        BY <2>2, <2>3, <2>4, <3>3 DEF Broadcasted
      <3>4. CASE try'[p] = try[p] /\ pc[p] = "lock" /\ pc'[p] = "bcast" /\ todo'[p] = todo[p]
        BY <2>2, <2>3, <2>4, <2>5, <3>4 DEF Broadcasted
      <3>5. CASE /\ try'[p] = try[p] /\ pc[p] = "bcast" /\ pc'[p] = "lock"
                 /\ Len(todo'[p][1]) = Len(todo[p][1]) - 1
        BY <2>2, <2>3, <2>4, <2>5, <3>5 DEF Broadcasted
      <3> QED
        BY <2>2, <3>1, <3>2, <3>3, <3>4, <3>5 DEF Moves
    <2> QED
      BY <2>1, <2>3, <2>6 DEF Broadcasted
  <1>2. ASSUME NEW c \in Channels, NEW i \in Broadcasts(c), NEW j \in Broadcasts(c),
               log'[c][i] = log'[c][j]
        PROVE  i = j
    BY <1>2 DEF SameSent, SentInv
  <1>3. ASSUME NEW c \in Channels, NEW d \in Channels, NEW i \in Broadcasts(c),
               NEW j \in Broadcasts(c), NEW k \in Broadcasts(d), NEW l \in Broadcasts(d),
               log'[c][i] = log'[d][k], log'[c][j] = log'[d][l], i < j
        PROVE  k < l
    BY <1>3 DEF SameSent, SentInv, BroadcastOrder
  <1>4. \A c \in Channels : Broadcasts(c)' = Broadcasts(c)
    BY DEF SameSent
  <1> QED
    BY <1>1, <1>2, <1>3, <1>4 DEF SentInv, BroadcastOrder

\* What a write does to the broadcasts of a channel.
LEMMA WriteFacts ==
    ASSUME ReceiverType, NEW c \in Channels, NEW e, Write(c, e)
    PROVE  /\ \A d \in Channels : d # c => log'[d] = log[d]
           /\ Len(log[c]) \in Nat /\ Broadcasts(c) \subseteq 1..Len(log[c])
           /\ \A o \in 1..Len(log[c]) : log'[c][o] = log[c][o]
           /\ log'[c][Len(log[c]) + 1] = e
           /\ Broadcasts(c)' = Broadcasts(c) \cup
                 (IF e.op = "Broadcast" THEN {Len(log[c]) + 1} ELSE {})
  <1>1. DOMAIN log = Channels /\ log[c] \in Seq(Range(log[c]))
    BY DEF ReceiverType
  <1>2. log'[c] = Append(log[c], e) /\ \A d \in Channels : d # c => log'[d] = log[d]
    BY <1>1 DEF Write
  <1>3. /\ Len(log[c]) \in Nat /\ DOMAIN log[c] = 1..Len(log[c])
        /\ DOMAIN log'[c] = 1..(Len(log[c]) + 1)
        /\ \A o \in 1..Len(log[c]) : log'[c][o] = log[c][o]
        /\ log'[c][Len(log[c]) + 1] = e
    BY <1>1, <1>2, AppendFacts
  <1>4. ASSUME NEW o
        PROVE  o \in Broadcasts(c)' <=> o \in Broadcasts(c) \cup
                 (IF e.op = "Broadcast" THEN {Len(log[c]) + 1} ELSE {})
    BY <1>3 DEF Broadcasts
  <1> QED
    BY <1>2, <1>3, <1>4 DEF Broadcasts

\* A Produce adds no broadcast.
LEMMA ProduceSame ==
    ASSUME ReceiverType, NEW c, NEW e, e.op # "Broadcast", log' = log \/ Write(c, e)
    PROVE  SameSent
  <1>1. CASE log' = log
    BY <1>1 DEF SameSent, Broadcasts
  <1>2. CASE Write(c, e) /\ c \in Channels
    BY <1>2, WriteFacts DEF SameSent, Broadcasts
  <1>3. CASE Write(c, e) /\ c \notin Channels
    <2>1. \A d \in Channels : log'[d] = log[d]
      BY <1>3 DEF Write, ReceiverType
    <2> QED
      BY <2>1 DEF SameSent, Broadcasts
  <1> QED
    BY <1>1, <1>2, <1>3

\* A broadcast that reaches the queue, whether its sender learns of it or not: it is new on
\* its channel, and the last on every other channel that has it.
LEMMA BroadcastWrite ==
    ASSUME TypeOK, \A q \in Callers : Calling(q), SentInv,
           NEW p \in Callers, NEW c \in Channels, pc[p] = "bcast", c \in left[p],
           Write(c, Entry(p, 1)), try' = try, todo' = todo,
           \A q \in Callers : q # p => pc'[q] = pc[q],
           (pc'[p] = pc[p] /\ left'[p] = left[p] \ {c}) \/ pc'[p] = "idle"
    PROVE  SentInv'
  <1> DEFINE e == Entry(p, 1)
  <1>0. PICK n : n = Len(log[c]) + 1
    OBVIOUS
  <1>1. /\ e.op = "Broadcast" /\ e.by = p /\ e.try = try[p] /\ e.at = Len(todo[p][1])
        /\ e.at \in Nat /\ try[p] \in Nat
    BY DEF Calling, Entry, TypeOK, CallerType
  <1> HIDE DEF e
  <1>2. /\ \A d \in Channels : d # c => log'[d] = log[d] /\ Broadcasts(d)' = Broadcasts(d)
        /\ Len(log[c]) \in Nat /\ Broadcasts(c) \subseteq 1..Len(log[c])
        /\ \A o \in 1..Len(log[c]) : log'[c][o] = log[c][o]
        /\ log'[c][n] = e
        /\ Broadcasts(c)' = Broadcasts(c) \cup {n}
    BY <1>0, <1>1, WriteFacts DEF e, TypeOK, Broadcasts
  <1>3. n \in Nat /\ \A o \in Broadcasts(c) : o \in Nat /\ o < n /\ log'[c][o] = log[c][o]
    BY <1>0, <1>2
  <1>4. \A d \in Channels : Broadcasts(d) \subseteq Nat
    BY DEF Broadcasts, TypeOK, ReceiverType
  <1>5. ASSUME NEW d \in Channels, NEW o \in Broadcasts(d), log[d][o] = e
        PROVE  d \notin left[p] /\ \A q \in Broadcasts(d) : q <= o
    BY <1>1, <1>5 DEF SentInv, Broadcasted
  <1>6. \A o \in Broadcasts(c) : log[c][o] # e
    BY <1>5
  <1>7. ASSUME NEW d \in Channels, NEW o \in Broadcasts(d)
        PROVE  (log[d][o].by \in Callers /\ Broadcasted(log[d][o].by, d, o))'
    <2>1. PICK q \in Callers : q = log[d][o].by
      BY DEF SentInv
    <2>2. Broadcasted(q, d, o) /\ log'[d][o] = log[d][o]
      BY <1>2, <1>3, <2>1 DEF SentInv
    <2>3. CASE q # p
      <3>1. pc[q] # "bcast" /\ pc'[q] = pc[q]
        BY <2>3 DEF Calling, TypeOK, ProducerType
      <3>2. Broadcasted(q, d, o)'
        BY <2>2, <3>1 DEF Broadcasted
      <3> QED
        BY <2>1, <2>2, <3>2 DEF Broadcasted
    <2>4. CASE q = p /\ pc'[p] = "idle"
      <3>1. Broadcasted(q, d, o)'
        BY <2>2, <2>4 DEF Broadcasted
      <3> QED
        BY <2>1, <2>2, <3>1 DEF Broadcasted
    <2>5. CASE q = p /\ pc'[p] = pc[p] /\ left'[p] = left[p] \ {c}
      <3>1. CASE d = c
        <4>1. log[d][o].at # Len(todo[p][1]) \/ log[d][o].try # try[p]
          BY <2>2, <2>5, <3>1 DEF Broadcasted
        <4>2. Broadcasted(q, d, o)'
          BY <2>2, <2>5, <4>1 DEF Broadcasted
        <4> QED
          BY <2>1, <2>2, <4>2 DEF Broadcasted
      <3>2. CASE d # c
        <4>1. Broadcasts(d)' = Broadcasts(d)
          BY <1>2, <3>2
        <4>2. Broadcasted(q, d, o)'
          BY <2>2, <2>5, <4>1 DEF Broadcasted
        <4> QED
          BY <2>1, <2>2, <4>2 DEF Broadcasted
      <3> QED
        BY <3>1, <3>2
    <2> QED
      BY <2>3, <2>4, <2>5
  <1>8. (log[c][n].by \in Callers /\ Broadcasted(log[c][n].by, c, n))'
    <2>1. \A q \in Broadcasts(c)' : q <= n
      BY <1>2, <1>3
    <2>2. Broadcasted(p, c, n)'
      BY <1>1, <1>2, <2>1 DEF Broadcasted
    <2>3. log'[c][n].by = p
      BY <1>1, <1>2
    <2> QED
      BY <2>2, <2>3 DEF Broadcasted
  <1>9. ASSUME NEW d \in Channels, NEW i \in Broadcasts(d)', NEW j \in Broadcasts(d)',
               log'[d][i] = log'[d][j]
        PROVE  i = j
    <2>1. CASE d # c
      BY <1>2, <1>9, <2>1 DEF SentInv
    <2>2. CASE d = c
      <3>1. CASE i \in Broadcasts(c) /\ j \in Broadcasts(c)
        BY <1>3, <1>9, <2>2, <3>1 DEF SentInv
      <3>2. CASE i = n \/ j = n
        BY <1>2, <1>3, <1>6, <1>9, <2>2, <3>2
      <3> QED
        BY <1>2, <2>2, <3>1, <3>2
    <2> QED
      BY <2>1, <2>2
  <1>10. ASSUME NEW a \in Channels, NEW b \in Channels,
                NEW i \in Broadcasts(a)', NEW j \in Broadcasts(a)',
                NEW k \in Broadcasts(b)', NEW l \in Broadcasts(b)',
                log'[a][i] = log'[b][k], log'[a][j] = log'[b][l], i < j
         PROVE  k < l
    <2>1. CASE a = b
      BY <1>9, <1>10, <2>1
    <2>2. CASE a # b /\ a = c
      <3>1. /\ k \in Broadcasts(b) /\ l \in Broadcasts(b)
            /\ log'[b][k] = log[b][k] /\ log'[b][l] = log[b][l]
        BY <1>2, <2>2
      <3>2. i \in Broadcasts(c) /\ log'[c][i] = log[c][i] /\ log[c][i] = log[b][k]
        BY <1>2, <1>3, <1>10, <2>2, <3>1
      <3>3. CASE j \in Broadcasts(c)
        BY <1>3, <1>10, <2>2, <3>1, <3>2, <3>3 DEF SentInv, BroadcastOrder
      <3>4. CASE j = n
        <4>1. log[b][l] = e
          BY <1>2, <1>10, <2>2, <3>1, <3>4
        <4>2. k <= l /\ k # l
          BY <1>5, <1>6, <3>1, <3>2, <4>1
        <4> QED
          BY <1>4, <3>1, <4>2
      <3> QED
        BY <1>2, <2>2, <3>3, <3>4
    <2>3. CASE a # b /\ b = c
      <3>1. /\ i \in Broadcasts(a) /\ j \in Broadcasts(a)
            /\ log'[a][i] = log[a][i] /\ log'[a][j] = log[a][j]
        BY <1>2, <2>3
      <3>2. k # n
        <4>1. SUFFICES ASSUME k = n PROVE FALSE
          OBVIOUS
        <4>2. log[a][i] = e
          BY <1>2, <1>10, <2>3, <3>1, <4>1
        <4>3. j <= i
          BY <1>5, <3>1, <4>2
        <4> QED
          BY <1>4, <1>10, <3>1, <4>3
      <3>3. k \in Broadcasts(c) /\ log'[c][k] = log[c][k]
        BY <1>2, <1>3, <2>3, <3>2
      <3>4. CASE l \in Broadcasts(c)
        BY <1>3, <1>10, <2>3, <3>1, <3>3, <3>4 DEF SentInv, BroadcastOrder
      <3>5. CASE l = n
        BY <1>3, <3>3, <3>5
      <3> QED
        BY <1>2, <2>3, <3>4, <3>5
    <2>4. CASE a # c /\ b # c
      BY <1>2, <1>10, <2>4 DEF SentInv, BroadcastOrder
    <2> QED
      BY <2>1, <2>2, <2>3, <2>4
  <1>11. ASSUME NEW d \in Channels, NEW o \in Broadcasts(d)'
         PROVE  (log[d][o].by \in Callers /\ Broadcasted(log[d][o].by, d, o))'
    <2>1. CASE d # c
      BY <1>2, <1>7, <2>1
    <2>2. CASE d = c
      BY <1>2, <1>7, <1>8, <2>2
    <2> QED
      BY <2>1, <2>2
  <1> QED
    BY <1>9, <1>10, <1>11 DEF SentInv, BroadcastOrder

\* Every step keeps what the log says of the broadcasts.
LEMMA SentStep ==
    ASSUME TypeOK, \A q \in Callers : Calling(q), SentInv, [Next]_vars
    PROVE  SentInv'
  <1>1. /\ pc \in [Callers -> {"idle", "pick", "send", "lock", "bcast"}]
        /\ try \in [Callers -> Nat] /\ DOMAIN todo = Callers /\ DOMAIN left = Callers
        /\ ReceiverType
    BY DEF TypeOK, CallerType
  <1>2. log' = log => SameSent
    BY DEF SameSent, Broadcasts
  <1>3. ASSUME log' = log, UNCHANGED <<pc, try, todo, left>> PROVE SentInv'
    <2>1. \A q \in Callers : Moves(q)
      BY <1>3 DEF Moves
    <2> QED
      BY <1>2, <1>3, <2>1, SentFrame
  <1>4. ASSUME NEW p \in Callers, NEW k, Produce(p, k) \/ Broadcast(p, k) PROVE SentInv'
    <2>1. /\ log' = log /\ try' = [try EXCEPT ![p] = @ + 1]
          /\ \A q \in Callers : q # p => pc'[q] = pc[q] /\ todo'[q] = todo[q] /\ left'[q] = left[q]
      BY <1>1, <1>4 DEF Produce, Broadcast
    <2>2. ASSUME NEW q \in Callers PROVE Moves(q)
      BY <1>1, <2>1 DEF Moves
    <2> QED
      BY <1>2, <2>1, <2>2, SentFrame
  <1>5. ASSUME NEW p \in Callers, NEW k, Refuse(p, k) PROVE SentInv'
    BY <1>3, <1>5 DEF Refuse
  <1>6. ASSUME NEW p \in Callers, ProducePick(p) PROVE SentInv'
    <2>1. /\ log' = log /\ UNCHANGED <<try, todo>> /\ pc'[p] \notin {"lock", "bcast"}
          /\ \A q \in Callers : q # p => pc'[q] = pc[q] /\ left'[q] = left[q]
      BY <1>1, <1>6 DEF ProducePick, Return
    <2>2. ASSUME NEW q \in Callers PROVE Moves(q)
      BY <1>1, <2>1 DEF Moves
    <2> QED
      BY <1>2, <2>1, <2>2, SentFrame
  <1>7. ASSUME NEW p \in Callers, ProduceSend(p) PROVE SentInv'
    <2>1. /\ UNCHANGED <<try, left>> /\ pc[p] = "send" /\ pc'[p] \notin {"lock", "bcast"}
          /\ \A q \in Callers : q # p => pc'[q] = pc[q] /\ todo'[q] = todo[q]
      BY <1>1, <1>7 DEF ProduceSend, Return
    <2>2. ASSUME NEW q \in Callers PROVE Moves(q)
      BY <1>1, <2>1 DEF Moves
    <2>3. \E i, c : log' = log \/ Write(c, Entry(p, i))
      BY <1>7 DEF ProduceSend, sendOK, sendErr
    <2>4. PICK i, c : log' = log \/ Write(c, Entry(p, i))
      BY <2>3
    <2>5. Entry(p, i).op # "Broadcast"
      BY <2>1 DEF Entry, Calling
    <2> QED
      BY <1>1, <2>2, <2>4, <2>5, ProduceSame, SentFrame
  <1>8. ASSUME NEW p \in Callers, BroadcastLock(p) PROVE SentInv'
    <2>1. /\ log' = log /\ UNCHANGED <<try, todo>> /\ pc[p] = "lock" /\ pc'[p] \in {"idle", "bcast"}
          /\ \A q \in Callers : q # p => pc'[q] = pc[q] /\ left'[q] = left[q]
      BY <1>1, <1>8 DEF BroadcastLock, Return
    <2>2. ASSUME NEW q \in Callers PROVE Moves(q)
      BY <1>1, <2>1 DEF Moves
    <2> QED
      BY <1>2, <2>1, <2>2, SentFrame
  <1>9. ASSUME NEW p \in Callers, BroadcastNext(p) PROVE SentInv'
    <2>1. /\ log' = log /\ UNCHANGED <<try, left>> /\ pc[p] = "bcast" /\ pc'[p] = "lock"
          /\ todo'[p] = <<Tail(todo[p][1])>>
          /\ \A q \in Callers : q # p => pc'[q] = pc[q] /\ todo'[q] = todo[q]
      BY <1>1, <1>9 DEF BroadcastNext
    <2>2. todo[p][1] \in Seq(TsMsg) /\ todo[p][1] # <<>>
      BY <2>1 DEF Calling
    <2>3. Len(todo'[p][1]) = Len(todo[p][1]) - 1
      BY <2>1, <2>2, HeadTail
    <2>4. ASSUME NEW q \in Callers PROVE Moves(q)
      BY <1>1, <2>1, <2>3 DEF Moves
    <2> QED
      BY <1>2, <2>1, <2>4, SentFrame
  <1>10. ASSUME NEW p \in Callers, NEW c \in Channels, BroadcastSend(p, c) PROVE SentInv'
    <2>1. /\ pc[p] = "bcast" /\ c \in left[p] /\ try' = try /\ todo' = todo
          /\ \A q \in Callers : q # p => pc'[q] = pc[q] /\ left'[q] = left[q]
      BY <1>1, <1>10 DEF BroadcastSend, Return
    <2>2. \/ Write(c, Entry(p, 1)) /\ pc' = pc /\ left'[p] = left[p] \ {c}
          \/ (Write(c, Entry(p, 1)) \/ log' = log) /\ pc'[p] = "idle"
      BY <1>1, <1>10 DEF BroadcastSend, sendOK, sendErr, Return
    <2>3. CASE Write(c, Entry(p, 1))
      <3>1. (pc'[p] = pc[p] /\ left'[p] = left[p] \ {c}) \/ pc'[p] = "idle"
        BY <2>2
      <3> QED
        BY <2>1, <2>3, <3>1, BroadcastWrite
    <2>4. CASE log' = log /\ pc'[p] = "idle"
      <3>1. ASSUME NEW q \in Callers PROVE Moves(q)
        BY <1>1, <2>1, <2>4 DEF Moves
      <3> QED
        BY <1>2, <2>4, <3>1, SentFrame
    <2> QED
      BY <2>2, <2>3, <2>4
  <1>11. ASSUME NEW c \in Channels, AsProducer(c) PROVE SentInv'
    BY <1>3, <1>11 DEF AsProducer, callVars
  <1>12. ASSUME NEW can, EnableProduce(can) PROVE SentInv'
    BY <1>3, <1>12 DEF EnableProduce, callVars
  <1>13. UNCHANGED <<log, prodVars, callVars>> => SentInv'
    BY <1>3 DEF callVars
  <1> QED
    BY <1>4, <1>5, <1>6, <1>7, <1>8, <1>9, <1>10, <1>11, <1>12, <1>13, TwoSides
    DEF ProducerStep, vars

\* The invariant of concurrent broadcasts: whoever broadcasts holds the write lock, no
\* message is on a channel twice, and the one in progress is the last on the channels
\* that have it.
THEOREM BroadcastsSound == Spec => []BroadcastInv
  <1> DEFINE SoundInv == (\A q \in Callers : Calling(q)) /\ SentInv
  <1>1. Init => SoundInv
    <2> SUFFICES ASSUME Init PROVE SoundInv
      OBVIOUS
    <2>1. ASSUME NEW c \in Channels PROVE Broadcasts(c) = {}
      BY StreamAssumption DEF Init, Broadcasts
    <2>2. SentInv
      BY <2>1 DEF SentInv, BroadcastOrder
    <2>3. ASSUME NEW q \in Callers PROVE Calling(q)
      BY DEF Init, Calling
    <2> QED
      BY <2>2, <2>3
  <1>2. RecvInv /\ SoundInv /\ [Next]_vars => SoundInv'
    <2> SUFFICES ASSUME RecvInv, SoundInv, [Next]_vars PROVE SoundInv'
      OBVIOUS
    <2>1. \A q \in Callers : Calling(q)'
      BY CallingStep DEF RecvInv
    <2>2. SentInv'
      BY SentStep DEF RecvInv
    <2> QED
      BY <2>1, <2>2
  <1>3. SoundInv => BroadcastInv
    BY DEF SentInv, BroadcastInv
  <1> HIDE DEF SoundInv
  <1> QED
    BY <1>1, <1>2, <1>3, RecvInvariance, PTL DEF Spec

\* Messages that several callers broadcast at the same time come in the same order on every
\* channel that has both, those of attempts that failed half-way included.
THEOREM BroadcastsAgree == Spec => []BroadcastOrder
  <1>1. BroadcastInv => BroadcastOrder
    BY DEF BroadcastInv
  <1> QED
    BY <1>1, BroadcastsSound, PTL
===============================================================================
