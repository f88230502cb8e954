------------------------------ MODULE MsgStream ------------------------------
(***************************************************************************)
(* mqMsgStream (pkg/mq/msgstream/mq_msgstream.go, repack_func.go): the      *)
(* stream without ticks.  Several callers produce and broadcast packs over  *)
(* its channels, one goroutine per channel (receiveMsg) reads them back     *)
(* message by message, and Close ends it all.  A message keeps its type,    *)
(* its id and one hash value per row.                                       *)
(***************************************************************************)
EXTENDS Naturals, Sequences, SequencesExt, FiniteSets

CONSTANTS
    Channels,        \* physical channels
    Callers,         \* goroutines that produce
    Scenarios,       \* the packs each caller has to get through, the channels read,
                     \* whether the program closes the stream
    OldLog,          \* what lies on every channel before the stream is made
    ReceiveBufSize,  \* capacity of receiveBuf
    MaxFails,        \* bound on the sends that fail
    MaxSwitches,     \* bound on the changes of enableProduce
    MaxProducers     \* bound on producerChannels

\* A pack with the way it is sent (an empty one does nothing).  A row is given by
\* the hash of its key; aligned says that the columns have equal lengths.
TsMsg == [type : {"Insert", "Delete", "CreateCollection", "DDL"}, id : Nat, rows : Seq(Nat),
          aligned : BOOLEAN]
Call  == [name : STRING, op : {"Produce", "Broadcast"}, msgs : Seq(TsMsg)]

ASSUME StreamAssumption ==
    /\ \A w \in Scenarios : /\ w.readers \subseteq Channels /\ w.closes \in BOOLEAN
                            /\ DOMAIN w.calls = Callers
    /\ \A w \in Scenarios, p \in Callers : \A k \in w.calls[p] : k \in Call /\ k.msgs # <<>>
    /\ OldLog \in Seq(Range(OldLog)) /\ \A i \in DOMAIN OldLog : OldLog[i].op = "none"
    /\ {MaxFails, MaxSwitches, MaxProducers} \subseteq Nat /\ ReceiveBufSize \in Nat \ {0}

VARIABLES
    work, switches,               \* the scenario, changes of enableProduce so far
    log,                          \* external: what the queue holds, per channel
    producers, producerChannels, enableProduce, producerLock,
    consumers, cursor, receiveBuf, cancelled, closed,
    pc, call, try, todo, left,    \* each caller: its call, and what it has still to send
    pending, fails,               \* calls that have not succeeded, sends that failed
    rpc, held,                    \* each receiveMsg, and the message it holds
    cpc, got,                     \* Close; what the program received
    results, base                 \* history: how the attempts ended, where reading began

callVars == <<pc, call, try, todo, left, pending, fails, results>>
prodVars == <<producers, producerChannels, enableProduce, switches, producerLock>>
recvVars == <<consumers, cursor, receiveBuf, rpc, held, got, base>>
closeVars == <<cancelled, closed, cpc>>
vars == <<work, log, prodVars, recvVars, closeVars, callVars>>

NoCall == [name |-> "none", op |-> "none", msgs |-> <<>>]

Init ==
    /\ work \in Scenarios /\ switches = 0
    /\ log = [c \in Channels |-> OldLog]
    /\ producers = {} /\ producerChannels = <<>> /\ enableProduce \in BOOLEAN
    /\ producerLock = {}
    /\ consumers = {} /\ cursor = [c \in Channels |-> 0]
    /\ receiveBuf = <<>> /\ cancelled = FALSE /\ closed = FALSE
    /\ pc = [p \in Callers |-> "idle"] /\ call = [p \in Callers |-> NoCall]
    /\ try = [p \in Callers |-> 0]
    /\ todo = [p \in Callers |-> <<>>] /\ left = [p \in Callers |-> {}]
    /\ pending = work.calls /\ fails = 0
    /\ rpc = [c \in Channels |-> "off"] /\ held = [c \in Channels |-> 0]
    /\ cpc = "none" /\ got = [c \in Channels |-> <<>>]
    /\ results = {} /\ base = [c \in Channels |-> 0]
-------------------------------------------------------------------------------
(* Repacking: which messages go to which index of producerChannels. *)

\* ComputeProduceChannelIndexes, for one row.
bucket(hash, n) == hash % n

\* IndexMsg: a message with one row of m and the id of m.
IndexWhole(m, i) == m                                              \* mutant
IndexMsg(m, i) == [m EXCEPT !.rows = <<@[i]>>]

\* The messages for index k of n: every row a message of its own.
InsertRepackFunc(msgs, k, n) ==
    FlattenSeq([i \in DOMAIN msgs |->
        LET rows == SelectSeq([j \in DOMAIN msgs[i].rows |-> j],
                              LAMBDA j : bucket(msgs[i].rows[j], n) = k)
        IN [j \in DOMAIN rows |-> IndexMsg(msgs[i], rows[j])]])

\* Deletes and all other types: whole messages, by the first row.
DefaultRepackFunc(msgs, k, n) == SelectSeq(msgs, LAMBDA m : bucket(m.rows[1], n) = k)

\* The type of the first message decides.  Another type among inserts or deletes,
\* columns of different lengths, and a message without a row to go by are errors.  (A delete
\* without rows is not refused but indexes past its keys, repack_func.go:76, and panics;
\* no producer packs one.)
repacks(msgs) ==
    \A i \in DOMAIN msgs :
        /\ msgs[1].type \in {"Insert", "Delete"} =>
              msgs[i].type = msgs[1].type /\ msgs[i].aligned
        /\ msgs[1].type # "Insert" => msgs[i].rows # <<>>
repack(msgs, k, n) ==
    IF msgs[1].type = "Insert" THEN InsertRepackFunc(msgs, k, n) ELSE DefaultRepackFunc(msgs, k, n)
-------------------------------------------------------------------------------
(* Producing *)

\* The client's producer for c, after at most 20 attempts; the program panics without one.
CreateProducer(c) == producers' = producers \cup {c}

\* One channel; its producer is replaced when the channel is there already.
replacesFirst(c) ==                                                 \* mutant
    /\ cpc = "none" /\ producerLock = {} /\ CreateProducer(c)
    /\ producerChannels' = <<c>>
    /\ UNCHANGED <<work, log, enableProduce, switches, producerLock, recvVars, closeVars, callVars>>
AsProducer(c) ==
    /\ cpc = "none" /\ Len(producerChannels) < MaxProducers
    /\ producerLock = {}
    /\ CreateProducer(c)
    /\ producerChannels' = Append(producerChannels, c)
    /\ UNCHANGED <<work, log, enableProduce, switches, producerLock, recvVars, closeVars, callVars>>

\* The event handler of the stream, or EnableProduce.
EnableProduce(can) ==
    /\ can # enableProduce /\ switches < MaxSwitches
    /\ enableProduce' = can /\ switches' = switches + 1
    /\ UNCHANGED <<work, log, producers, producerChannels, producerLock, recvVars, closeVars, callVars>>

\* The call of p returns.  After an error the caller tries again, unless the stream
\* is closed.
Return(p, res) ==
    /\ pc' = [pc EXCEPT ![p] = "idle"]
    /\ pending' = IF res = "ok" \/ closed THEN [pending EXCEPT ![p] = @ \ {call[p]}] ELSE pending
    /\ results' = results \cup {[by |-> p, call |-> call[p].name, try |-> try[p], res |-> res]}

Produce(p, k) ==
    /\ pc[p] = "idle" /\ k \in pending[p] /\ k.op = "Produce"
    /\ enableProduce /\ producers # {} /\ repacks(k.msgs)
    /\ LET n == Len(producerChannels)
       IN todo' = [todo EXCEPT ![p] = [i \in 1..n |-> repack(k.msgs, i - 1, n)]]
    /\ call' = [call EXCEPT ![p] = k] /\ try' = [try EXCEPT ![p] = @ + 1]
    /\ pc' = [pc EXCEPT ![p] = "pick"] /\ left' = [left EXCEPT ![p] = {}]
    /\ UNCHANGED <<work, log, prodVars, recvVars, closeVars, pending, fails, results>>

\* The next index of the result, in the order of Go's map; nothing left, it returns.
ProducePick(p) ==
    /\ pc[p] = "pick"
    /\ LET ks == {i \in DOMAIN todo[p] : todo[p][i] # <<>>}
       IN \/ /\ ks = {} /\ Return(p, "ok") /\ UNCHANGED left
          \/ \E i \in ks : /\ left' = [left EXCEPT ![p] = {i}]
                           /\ pc' = [pc EXCEPT ![p] = "send"]
                           /\ UNCHANGED <<pending, results>>
    /\ UNCHANGED <<work, log, prodVars, recvVars, closeVars, call, try, todo, fails>>

\* A message in the queue, with its call and its place there (how many were left of
\* its index).  External: a send that works; one that fails, with or without effect; a closed
\* producer fails.
Entry(p, i) == [msg |-> Head(todo[p][i]), by |-> p, op |-> call[p].op, call |-> call[p].name,
                try |-> try[p], n |-> Len(todo[p]), at |-> Len(todo[p][i])]
Write(c, e) == log' = [log EXCEPT ![c] = Append(@, e)]
sendOK(c, e) == ~closed /\ Write(c, e) /\ UNCHANGED fails
sendErr(c, e) ==
    \/ /\ ~closed /\ fails < MaxFails
       /\ Write(c, e) \/ UNCHANGED log
       /\ fails' = fails + 1
    \/ closed /\ UNCHANGED <<log, fails>>

\* Under the read lock of producerLock.
ProduceSend(p) ==
    /\ pc[p] = "send" /\ producerLock = {}
    /\ LET i == CHOOSE i \in left[p] : TRUE
           c == producerChannels[i]
       IN \/ /\ sendOK(c, Entry(p, i))
             /\ todo' = [todo EXCEPT ![p][i] = Tail(@)]
             /\ pc' = [pc EXCEPT ![p] = IF Len(todo[p][i]) = 1 THEN "pick" ELSE "send"]
             /\ UNCHANGED <<pending, results>>
          \/ sendErr(c, Entry(p, i)) /\ Return(p, "err") /\ UNCHANGED todo
    /\ UNCHANGED <<work, prodVars, recvVars, closeVars, call, try, left>>

\* A pack that is refused: nothing is sent, and its caller gives up.
Refuse(p, k) ==
    /\ pc[p] = "idle" /\ k \in pending[p]
    /\ \/ k.op = "Produce" /\ (~enableProduce \/ producers = {} \/ ~repacks(k.msgs))
       \/ k.op = "Broadcast" /\ ~enableProduce
             /\ ~(Len(k.msgs) = 1 /\ k.msgs[1].type = "CreateCollection")
    /\ pending' = [pending EXCEPT ![p] = @ \ {k}]
    /\ UNCHANGED <<work, log, prodVars, recvVars, closeVars, pc, call, try, todo, left, fails,
                   results>>

Broadcast(p, k) ==
    /\ pc[p] = "idle" /\ k \in pending[p] /\ k.op = "Broadcast"
    /\ enableProduce \/ (Len(k.msgs) = 1 /\ k.msgs[1].type = "CreateCollection")
    /\ todo' = [todo EXCEPT ![p] = <<k.msgs>>]
    /\ call' = [call EXCEPT ![p] = k] /\ try' = [try EXCEPT ![p] = @ + 1]
    /\ pc' = [pc EXCEPT ![p] = "lock"]
    /\ UNCHANGED <<work, log, prodVars, recvVars, closeVars, left, pending, fails, results>>

\* The next message, under the write lock, or the end.
BroadcastUnlocked(p) ==                                            \* mutant
    /\ pc[p] = "lock"
    /\ \/ todo[p][1] = <<>> /\ Return(p, "ok") /\ UNCHANGED left
       \/ /\ todo[p][1] # <<>>
          /\ left' = [left EXCEPT ![p] = producers]
          /\ pc' = [pc EXCEPT ![p] = "bcast"]
          /\ UNCHANGED <<pending, results>>
    /\ UNCHANGED <<work, log, prodVars, recvVars, closeVars, call, try, todo, fails>>
BroadcastLock(p) ==
    /\ pc[p] = "lock"
    /\ \/ /\ todo[p][1] = <<>> /\ Return(p, "ok") /\ UNCHANGED <<left, producerLock>>
       \/ /\ todo[p][1] # <<>> /\ producerLock = {}
          /\ producerLock' = {p}
          /\ left' = [left EXCEPT ![p] = producers]
          /\ pc' = [pc EXCEPT ![p] = "bcast"]
          /\ UNCHANGED <<pending, results>>
    /\ UNCHANGED <<work, log, producers, producerChannels, enableProduce, switches, recvVars, closeVars, call,
                   try, todo, fails>>

BroadcastSend(p, c) ==
    /\ pc[p] = "bcast" /\ c \in left[p]
    /\ \/ /\ sendOK(c, Entry(p, 1)) /\ left' = [left EXCEPT ![p] = @ \ {c}]
          /\ UNCHANGED <<pc, pending, results, producerLock>>
       \/ sendErr(c, Entry(p, 1)) /\ Return(p, "err") /\ producerLock' = {} /\ UNCHANGED left
    /\ UNCHANGED <<work, producers, producerChannels, enableProduce, switches, recvVars, closeVars, call, try,
                   todo>>

BroadcastNext(p) ==
    /\ pc[p] = "bcast" /\ left[p] = {}
    /\ producerLock' = {}
    /\ todo' = [todo EXCEPT ![p] = <<Tail(@[1])>>]
    /\ pc' = [pc EXCEPT ![p] = "lock"]
    /\ UNCHANGED <<work, log, producers, producerChannels, enableProduce, switches, recvVars, closeVars, call,
                   try, left, pending, fails, results>>
-------------------------------------------------------------------------------
(* Receiving *)

\* A new subscription starts at the first message or behind the last one.
AsConsumer(c) ==
    /\ c \in work.readers \ consumers /\ cpc = "none"
    /\ consumers' = consumers \cup {c}
    /\ \E off \in {0, Len(log[c])} : /\ cursor' = [cursor EXCEPT ![c] = off]
                                     /\ base' = [base EXCEPT ![c] = off]
    /\ UNCHANGED <<work, log, prodVars, receiveBuf, rpc, held, got, closeVars, callVars>>

\* The message sought is left out (Seek with inclusive false).  A stream is not
\* sought once it is read.
Seek(c, off) ==
    /\ c \in consumers /\ cpc = "none" /\ \A d \in Channels : rpc[d] = "off"
    /\ cursor' = [cursor EXCEPT ![c] = off] /\ base' = [base EXCEPT ![c] = off]
    /\ UNCHANGED <<work, log, prodVars, consumers, receiveBuf, rpc, held, got, closeVars, callVars>>

\* The first call starts receiveMsg for the consumers there are.
Chan ==
    /\ consumers # {} /\ \A c \in Channels : rpc[c] = "off"
    /\ rpc' = [c \in Channels |-> IF c \in consumers THEN "start" ELSE "none"]
    /\ UNCHANGED <<work, log, prodVars, consumers, cursor, receiveBuf, held, got, base, closeVars,
                   callVars>>

\* The read lock is not given while Close waits for it.
ReceiveStart(c) ==
    /\ rpc[c] = "start" /\ cpc # "locking"
    /\ rpc' = [rpc EXCEPT ![c] = IF closed THEN "exit" ELSE "take"]
    /\ UNCHANGED <<work, log, prodVars, consumers, cursor, receiveBuf, held, got, base, closeVars,
                   callVars>>

Readable(c, o) == log[c][o].msg.type # "Bad"

\* A message that cannot be decoded is passed over.
ReceiveTake(c) ==
    /\ rpc[c] = "take" /\ cursor[c] < Len(log[c])
    /\ cursor' = [cursor EXCEPT ![c] = @ + 1]
    /\ IF Readable(c, cursor[c] + 1)
       THEN rpc' = [rpc EXCEPT ![c] = "put"] /\ held' = [held EXCEPT ![c] = cursor[c] + 1]
       ELSE UNCHANGED <<rpc, held>>
    /\ UNCHANGED <<work, log, prodVars, consumers, receiveBuf, got, base, closeVars, callVars>>

ReceivePutOrDrop(c) ==                                             \* mutant
    /\ rpc[c] = "put" /\ rpc' = [rpc EXCEPT ![c] = "take"]
    /\ receiveBuf' = IF Len(receiveBuf) < ReceiveBufSize
                     THEN Append(receiveBuf, [chan |-> c, off |-> held[c]]) ELSE receiveBuf
    /\ UNCHANGED <<work, log, prodVars, consumers, cursor, held, got, base, closeVars, callVars>>

ReceivePut(c) ==
    /\ rpc[c] = "put" /\ Len(receiveBuf) < ReceiveBufSize
    /\ receiveBuf' = Append(receiveBuf, [chan |-> c, off |-> held[c]])
    /\ rpc' = [rpc EXCEPT ![c] = "take"]
    /\ UNCHANGED <<work, log, prodVars, consumers, cursor, held, got, base, closeVars, callVars>>

ReceiveStopIdle(c) ==                                              \* mutant
    /\ rpc[c] = "take" /\ cancelled
    /\ rpc' = [rpc EXCEPT ![c] = "exit"]
    /\ UNCHANGED <<work, log, prodVars, consumers, cursor, receiveBuf, held, got, base, closeVars,
                   callVars>>

ReceiveStop(c) ==
    /\ rpc[c] \in {"take", "put"} /\ cancelled
    /\ rpc' = [rpc EXCEPT ![c] = "exit"]
    /\ UNCHANGED <<work, log, prodVars, consumers, cursor, receiveBuf, held, got, base, closeVars,
                   callVars>>

Receive ==
    /\ receiveBuf # <<>>
    /\ got' = [got EXCEPT ![Head(receiveBuf).chan] = Append(@, Head(receiveBuf).off)]
    /\ receiveBuf' = Tail(receiveBuf)
    /\ UNCHANGED <<work, log, prodVars, consumers, cursor, rpc, held, base, closeVars, callVars>>
-------------------------------------------------------------------------------
(* Close: cancel, wait for the readers of closeRWMutex, then close producers, *)
(* consumers and receiveBuf.  A second call finds closed set and returns.     *)

CloseCancel ==
    /\ cpc = "none" /\ work.closes
    /\ cancelled' = TRUE /\ cpc' = "locking"
    /\ UNCHANGED <<work, log, prodVars, recvVars, closed, callVars>>

ReadLocked == \E c \in Channels : rpc[c] \in {"take", "put"}

CloseUnlocked ==                                                   \* mutant
    /\ cpc = "locking"
    /\ closed' = TRUE /\ cpc' = "done"
    /\ UNCHANGED <<work, log, prodVars, recvVars, cancelled, callVars>>
CloseLocked ==
    /\ cpc = "locking" /\ ~ReadLocked
    /\ closed' = TRUE /\ cpc' = "done"
    /\ UNCHANGED <<work, log, prodVars, recvVars, cancelled, callVars>>
-------------------------------------------------------------------------------
ProducerStep ==
    \/ \E c \in Channels : AsProducer(c)
    \/ \E can \in BOOLEAN : EnableProduce(can)
    \/ \E p \in Callers : \/ \E k \in pending[p] : Produce(p, k) \/ Broadcast(p, k) \/ Refuse(p, k)
                           \/ ProducePick(p) \/ ProduceSend(p)
                           \/ BroadcastLock(p) \/ BroadcastNext(p)
                           \/ \E c \in Channels : BroadcastSend(p, c)

receiveMsg(c) == ReceiveStart(c) \/ ReceiveTake(c) \/ ReceivePut(c) \/ ReceiveStop(c)

Next ==
    \/ ProducerStep
    \/ \E c \in Channels : \/ AsConsumer(c) \/ receiveMsg(c)
                           \/ \E off \in 1..Len(log[c]) : Seek(c, off)
    \/ Chan \/ Receive \/ CloseCancel \/ CloseLocked

Spec == Init /\ [][Next]_vars

FairSpec ==
    /\ Spec
    /\ \A c \in Channels : WF_vars(receiveMsg(c))
    /\ WF_vars(CloseLocked)
-------------------------------------------------------------------------------
(* Properties *)

\* The queues and the program's place in them; producers and their lock; callers.
ReceiverType ==
    /\ DOMAIN log = Channels /\ \A c \in Channels : log[c] \in Seq(Range(log[c]))
    /\ consumers \subseteq Channels
    /\ cursor \in [Channels -> Nat] /\ base \in [Channels -> Nat] /\ held \in [Channels -> Nat]
    /\ got \in [Channels -> Seq(Nat)]
    /\ \A c \in Channels : /\ base[c] <= cursor[c] /\ held[c] <= cursor[c]
                            /\ cursor[c] <= Len(log[c])
    /\ receiveBuf \in Seq([chan : Channels, off : Nat]) /\ Len(receiveBuf) <= ReceiveBufSize
    /\ rpc \in [Channels -> {"off", "none", "start", "take", "put", "exit"}]
ProducerType ==
    /\ producerChannels \in Seq(Channels) /\ Len(producerChannels) <= MaxProducers
    /\ producers = Range(producerChannels)
    /\ producerLock \subseteq Callers /\ \A p, q \in producerLock : p = q
    /\ switches \in 0..MaxSwitches /\ fails \in 0..MaxFails
CallerType ==
    /\ work \in Scenarios
    /\ DOMAIN call = Callers /\ DOMAIN todo = Callers /\ DOMAIN left = Callers
    /\ DOMAIN pending = Callers
    /\ pc \in [Callers -> {"idle", "pick", "send", "lock", "bcast"}] /\ try \in [Callers -> Nat]
    /\ \A p \in Callers : pending[p] \subseteq work.calls[p]
TypeOK ==
    /\ ReceiverType /\ ProducerType /\ CallerType
    /\ enableProduce \in BOOLEAN /\ cancelled \in BOOLEAN /\ closed \in BOOLEAN
    /\ cpc \in {"none", "locking", "done"}

\* The messages of one attempt on channel c.
SentBy(c, p, k, t) ==
    SelectSeq(log[c], LAMBDA e : e.by = p /\ e.call = k.name /\ e.try = t)

\* Reference: the ids a Produce of the pack owes to the rows with hash h, in the
\* order of the pack; a message that is not an insert goes by its first row.
Owed(k, h) ==
    FlattenSeq([i \in DOMAIN k.msgs |->
        LET m == k.msgs[i]
            rows == IF m.type = "Insert" THEN m.rows ELSE <<m.rows[1]>>
            hits == SelectSeq(rows, LAMBDA r : r = h)
        IN [j \in DOMAIN hits |-> m.id]])

Hashes(k) == UNION {Range(k.msgs[i].rows) : i \in DOMAIN k.msgs}

\* What it has sent for them, channel by channel.
Sent(c, p, k, t, h) ==
    LET es == SelectSeq(SentBy(c, p, k, t), LAMBDA e : e.msg.rows[1] = h)
    IN [i \in DOMAIN es |-> es[i].msg.id]

\* Whatever other callers, failures and changes of the producers come in between,
\* an attempt of Produce puts the rows of one key on one channel, the one that the
\* hash of the key names, in the order of the pack and none twice, and all of them
\* when it succeeds; a row of an insert is a message of its own.
KeyOrder ==
    /\ \A p \in Callers : \A k \in work.calls[p] : k.op = "Produce" =>
          \A t \in 1..try[p], h \in Hashes(k) :
              LET sent == {Sent(c, p, k, t, h) : c \in Channels} \ {<<>>}
                  ok == [by |-> p, call |-> k.name, try |-> t, res |-> "ok"] \in results
              IN /\ \A s \in sent : IsPrefix(s, Owed(k, h))
                 /\ ok => sent = {Owed(k, h)} \ {<<>>}
    /\ \A c \in Channels : \A o \in DOMAIN log[c] :
          LET e == log[c][o]
          IN e.op = "Produce" =>
                /\ producerChannels[(e.msg.rows[1] % e.n) + 1] = c
                /\ e.msg.type = "Insert" => Len(e.msg.rows) = 1

\* Messages that several callers broadcast at the same time come in the same order
\* on every channel that has both (the write lock over all channels of a message),
\* those of attempts that fail half-way included.
Broadcasts(c) == {o \in DOMAIN log[c] : log[c][o].op = "Broadcast"}
BroadcastOrder ==
    \A c, d \in Channels :
        \A i, j \in Broadcasts(c), k, l \in Broadcasts(d) :
            log[c][i] = log[d][k] /\ log[c][j] = log[d][l] /\ i < j => k < l

\* A broadcast has the write lock while it sends one message.
Calling(p) ==
    /\ pc[p] \in {"pick", "send"} => call[p].op = "Produce"
    /\ pc[p] \in {"lock", "bcast"} => call[p].op = "Broadcast" /\ todo[p][1] \in Seq(TsMsg)
    /\ pc[p] = "bcast" <=> p \in producerLock
    /\ pc[p] = "bcast" => todo[p][1] # <<>>

\* What p has broadcast, message o of channel c: none twice, and the message it sends
\* just now is the last broadcast on the channels that have it.
Broadcasted(p, c, o) ==
    LET e == log[c][o]
    IN /\ e.try \in 0..try[p] /\ e.at \in Nat
       /\ e.try = try[p] /\ pc[p] = "lock" => e.at > Len(todo[p][1])
       /\ e.try = try[p] /\ pc[p] = "bcast" =>
             /\ e.at >= Len(todo[p][1])
             /\ e.at = Len(todo[p][1]) => c \notin left[p] /\ \A q \in Broadcasts(c) : q <= o

\* The invariant of concurrent broadcasts behind their common order.
BroadcastInv ==
    /\ \A p \in Callers : Calling(p)
    /\ \A c \in Channels : \A o \in Broadcasts(c) :
          log[c][o].by \in Callers /\ Broadcasted(log[c][o].by, c, o)
    /\ \A c \in Channels : \A i, j \in Broadcasts(c) : log[c][i] = log[c][j] => i = j
    /\ BroadcastOrder

\* What a message of channel c has been through: it is with the program, or waits in
\* receiveBuf.
InGot(c, o) == \E i \in DOMAIN got[c] : got[c][i] = o
InBuf(c, o) == \E i \in DOMAIN receiveBuf : receiveBuf[i].chan = c /\ receiveBuf[i].off = o
Passed(c, o) == InGot(c, o) \/ InBuf(c, o)

\* The program receives of every channel exactly the readable messages behind the
\* position where reading began, in order, whatever the other channels do.
ReceivedExact ==
    \A c \in Channels :
        /\ \A i, j \in DOMAIN got[c] : i < j => got[c][i] < got[c][j]
        /\ \A i \in DOMAIN got[c] : /\ got[c][i] \in (base[c] + 1)..Len(log[c])
                                    /\ Readable(c, got[c][i])
                                    /\ \A o \in (base[c] + 1)..got[c][i] :
                                          Readable(c, o) => InGot(c, o)

\* A message that receiveMsg has passed on: readable, behind the base, and no later
\* than the message it took last, which is not passed on while receiveMsg holds it.
Sound(c, o) ==
    /\ o \in (base[c] + 1)..held[c] /\ Readable(c, o)
    /\ rpc[c] = "put" => o # held[c]

\* On the way: messages pass in order, and nothing readable up to the cursor is lost
\* but the message that a cancelled receiveMsg holds.
Passing(c) ==
    /\ rpc[c] \in {"off", "none", "start"} =>
          /\ cursor[c] = base[c] /\ held[c] = 0 /\ got[c] = <<>>
          /\ \A i \in DOMAIN receiveBuf : receiveBuf[i].chan # c
    /\ rpc[c] \notin {"off", "none"} => c \in consumers
    /\ rpc[c] = "put" => held[c] > base[c] /\ Readable(c, held[c])
    /\ \A o \in (base[c] + 1)..cursor[c] :
          Readable(c, o) => Passed(c, o) \/ (o = held[c] /\ rpc[c] \in {"put", "exit"})
    /\ \A i \in DOMAIN got[c] : Sound(c, got[c][i])
    /\ \A i, j \in DOMAIN got[c] : i < j => got[c][i] < got[c][j]
    /\ \A j \in DOMAIN receiveBuf : receiveBuf[j].chan = c =>
          /\ Sound(c, receiveBuf[j].off)
          /\ \A i \in DOMAIN got[c] : got[c][i] < receiveBuf[j].off
          /\ \A i \in 1..(j - 1) :
                receiveBuf[i].chan = c => receiveBuf[i].off < receiveBuf[j].off

\* Close closes receiveBuf only when no receiveMsg can send on it any more.
NoSendOnClosed == closed => ~ReadLocked

\* The invariant of receiveMsg and Close, with the types and sizes of all variables: what
\* the program receives is exact, and receiveBuf is closed under no sender.
ReceiveInv == TypeOK /\ (\A c \in Channels : Passing(c)) /\ ReceivedExact /\ NoSendOnClosed

\* A Close that was called returns although nobody reads receiveBuf any more.
CloseReturns == cpc = "locking" ~> cpc = "done"
-------------------------------------------------------------------------------
(* For TLC: two channels, a caller that produces rows of several keys and one   *)
(* that broadcasts, on channels that hold an old message and an unreadable one.  *)

Msg(type, id, rows) == [type |-> type, id |-> id, rows |-> rows, aligned |-> TRUE]
Old(type) == [msg |-> Msg(type, 0, <<0>>), by |-> "other", op |-> "none", call |-> "none",
              try |-> 0, n |-> 1, at |-> 0]

MCOldLog == <<Old("DDL"), Old("Bad")>>

Call1(name, op, msgs) == [name |-> name, op |-> op, msgs |-> msgs]
Inserts == Call1("inserts", "Produce", <<Msg("Insert", 1, <<0, 1>>), Msg("Insert", 2, <<0>>)>>)
Deletes == Call1("deletes", "Produce", <<Msg("Delete", 3, <<1, 1>>)>>)
Mixed   == Call1("mixed", "Produce", <<Msg("Insert", 4, <<1>>), Msg("Delete", 5, <<0>>)>>)
Create  == Call1("create", "Broadcast", <<Msg("CreateCollection", 6, <<0>>)>>)
DDL     == Call1("ddl", "Broadcast", <<Msg("DDL", 7, <<0>>), Msg("DDL", 8, <<0>>)>>)

Scenario(p, q, readers, closes) ==
    [calls |-> "p" :> p @@ "q" :> q, readers |-> readers, closes |-> closes]

\* Two callers that produce, two that broadcast, a pack that is refused and one
\* that is produced and read, and readers alone.
MCScenarios == {Scenario({Inserts}, {Deletes}, {}, FALSE), Scenario({Create}, {DDL}, {}, FALSE),
                Scenario({Mixed}, {Deletes}, {"a"}, TRUE), Scenario({}, {}, {"a", "b"}, TRUE)}
===============================================================================
