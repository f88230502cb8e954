---------------------------- MODULE RecoveryProofs ----------------------------
(***************************************************************************)
(* Proofs about the recovery program, for every topic the producers may    *)
(* write, every collection and every number of messages and failures: it   *)
(* ends only after all that it owes, replays the collection, never works    *)
(* on what its own calls wrote, and takes from its stream what             *)
(* TickDelivery promises.                                                  *)
(***************************************************************************)
EXTENDS Recovery, WellFoundedInduction, TLAPS

\* The one topic main reads.
C == TheChannel

Entry == [type : MsgType \ {"Bad"}, id : Nat, begin : Nat, end : Nat, size : Nat,
          coll : Nat, name : STRING \cup {Empty}, key : Nat]

-------------------------------------------------------------------------------
(* The inductive invariant, part by part. *)

\* Only the one topic is written, and with messages that a decoder reads.
LogTypes ==
    /\ topic \in [Channels -> Seq(Entry)]
    /\ \A c \in Channels \ {C} : topic[c] = <<>>
    /\ \A o \in DOMAIN log : log[o].begin = log[o].end /\ log[o].end \in 1..clock

\* What comes after a tick in the log is younger than it.
TickOrder ==
    \A i, j \in DOMAIN log : i < j /\ isTimeTick(log[i]) => log[i].end < log[j].end

\* The id of a message is the offset of its first copy, which only a DML message has.
CopiesOf ==
    \A o \in DataOf(log) :
        /\ log[o].id \in DOMAIN log /\ log[o].id <= o /\ log[log[o].id] = log[o]
        /\ log[o].id # o => isDMLMsg(log[o])

\* A new message is younger than every earlier one of its primary key.
KeysInOrder ==
    \A i, j \in DataOf(log) :
        i < j /\ log[j].id = j /\ log[i].key = log[j].key => log[i].end < log[j].end

LogInv == LogTypes /\ TickOrder /\ CopiesOf /\ KeysInOrder

\* Windows end at ticks; a program that has not begun to read has done nothing.
WindowInv ==
    /\ upto \in [Channels -> Nat] /\ (upto[C] = 0 \/ upto[C] \in ticks)
    /\ \A c \in Channels : upto[c] = upto[C]
    /\ startTime \in Nat
    /\ pc \in {"flags", "setup"} => upto[C] = 0 /\ todo = {} /\ handled = {} /\ rows = {}
    /\ dropAt \in DOMAIN log \cup {0} /\ (pc # "done" => dropAt = 0)

\* First copies only, of what the windows so far hold; of two messages with one key
\* the older is handled first.
WorkInv ==
    /\ \A o \in todo \cup handled : o \in DataOf(log) /\ log[o].id = o /\ log[o].end <= upto[C]
    /\ handled \subseteq Wanted
    /\ \A h \in handled, o \in todo : log[h].key = log[o].key => log[h].end < log[o].end

\* While main reads, every message of the collection in the windows so far is done or
\* still to be done.
CoverInv ==
    pc = "read" => \A o \in Wanted : log[o].end <= upto[C] => log[o].id \in todo \cup handled

\* The target holds what the messages handled so far make of an empty collection.
RowsInv ==
    failed = {} /\ autoIDFieldName = "other" => {r.pk : r \in rows} = SourceKeys(handled)

\* What the target wrote.
MineInv == \A o \in mine : o \in DOMAIN log /\ log[o].coll = TargetID

MainInv == WindowInv /\ WorkInv /\ CoverInv /\ RowsInv /\ MineInv

IInv == TypeOK /\ Complete /\ LogInv /\ MainInv

-------------------------------------------------------------------------------
(* Numbers. *)

NatLess == {ss \in Nat \X Nat : ss[1] < ss[2]}

\* A non-empty set of naturals has a least element, and Min is it.
LEMMA LeastOf ==
    ASSUME NEW S, S \subseteq Nat, S # {}
    PROVE  Min(S) \in S /\ \A x \in S : Min(S) <= x
  <1>1. IsWellFoundedOn(NatLess, Nat)
    BY NatLessThanWellFounded DEF OpToRel, NatLess
  <1>2. PICK m \in S : \A y \in S : ~(<<y, m>> \in NatLess)
    BY <1>1, WFMin
  <1>3. ASSUME NEW y \in S PROVE m <= y
    <2>1. m \in Nat /\ y \in Nat
      OBVIOUS
    <2>2. y < m => <<y, m>> \in NatLess
      BY <2>1 DEF NatLess
    <2> QED
      BY <1>2, <2>1, <2>2
  <1> QED
    BY <1>3 DEF Min

\* A non-empty set of naturals with an upper bound has a greatest element.
LEMMA GreatestOf ==
    ASSUME NEW n \in Nat, NEW S, S \subseteq 0..n, S # {}
    PROVE  Max(S) \in S /\ \A x \in S : Max(S) >= x
  <1> DEFINE T == {y \in 0..n : n - y \in S}
  <1>1. T \subseteq Nat /\ T # {}
    <2> PICK x \in S : TRUE
      OBVIOUS
    <2>1. n - x \in 0..n /\ n - (n - x) = x
      OBVIOUS
    <2>2. n - x \in T
      BY <2>1
    <2>3. T \subseteq Nat
      OBVIOUS
    <2> HIDE DEF T
    <2> QED
      BY <2>2, <2>3
  <1>2. Min(T) \in T /\ \A t \in T : Min(T) <= t
    <2> HIDE DEF T
    <2> QED BY <1>1, LeastOf
  <1>3. PICK m \in S : m = n - Min(T)
    BY <1>2
  <1>4. ASSUME NEW x \in S PROVE m >= x
    <2>1. n - x \in T
      OBVIOUS
    <2>2. Min(T) <= n - x /\ Min(T) \in 0..n
      BY <1>2, <2>1
    <2> HIDE DEF T
    <2> QED
      BY <1>3, <2>2
  <1> QED
    BY <1>4 DEF Max

\* A time of an earlier second is earlier.
LEMMA SecondsOrder ==
    ASSUME NEW a \in Nat, NEW b \in Nat, seconds(a) < seconds(b)
    PROVE  a < b
  BY RecoveryAssumption DEF seconds

\* A time has a second.
LEMMA SecondsType ==
    ASSUME NEW a \in Nat
    PROVE  seconds(a) \in Nat
  BY RecoveryAssumption DEF seconds

-------------------------------------------------------------------------------
(* The topic. *)

\* An empty flag names no field.
LEMMA EmptyFacts == Empty # "other"
  BY Zenon DEF Empty

\* There is a topic.
LEMMA TheTopic == C \in Channels
  BY RecoveryAssumption DEF C, TheChannel

\* The log is a sequence of readable messages.
LEMMA LogFacts ==
    ASSUME LogTypes
    PROVE  /\ log \in Seq(Entry) /\ Len(log) \in Nat /\ DOMAIN log = 1..Len(log)
           /\ \A o \in DOMAIN log : log[o] \in Entry /\ log[o].begin = log[o].end
                                    /\ log[o].end \in 1..clock
  <1>1. log \in Seq(Entry)
    BY TheTopic DEF LogTypes, log, C
  <1>2. Len(log) \in Nat /\ DOMAIN log = 1..Len(log) /\ \A o \in DOMAIN log : log[o] \in Entry
    BY <1>1
  <1> QED
    BY <1>1, <1>2 DEF LogTypes

\* The ticks are timestamps, and lastTick is the last of them.
LEMMA TickFacts ==
    ASSUME LogTypes, clock \in Nat
    PROVE  /\ ticks \subseteq 1..clock /\ lastTick \in 0..clock
           /\ \A t \in ticks : t <= lastTick
           /\ \A o \in DOMAIN log : isTimeTick(log[o]) => log[o].end \in ticks
           /\ \A t \in ticks : \E o \in DOMAIN log : isTimeTick(log[o]) /\ log[o].end = t
  <1>1. \A o \in DOMAIN log : log[o].begin = log[o].end /\ log[o].end \in 1..clock
    BY LogFacts
  <1>2. \A t : t \in ticks <=> \E o \in DOMAIN log : isTimeTick(log[o]) /\ log[o].end = t
    BY <1>1 DEF ticks
  <1>3. ticks \subseteq 1..clock
    BY <1>1, <1>2
  <1>4. ticks \cup {0} \subseteq 0..clock /\ ticks \cup {0} # {}
    BY <1>3
  <1>5. lastTick \in ticks \cup {0} /\ \A x \in ticks \cup {0} : lastTick >= x
    BY <1>4, GreatestOf DEF lastTick
  <1> QED
    BY <1>2, <1>3, <1>4, <1>5

\* The windows so far end at or before the last tick.
LEMMA UptoFacts ==
    ASSUME LogTypes, WindowInv, clock \in Nat
    PROVE  upto[C] \in Nat /\ upto[C] <= lastTick /\ lastTick \in Nat
  BY TickFacts, TheTopic DEF WindowInv

\* What a step may do to the log: nothing, or add messages that no window so far holds
\* and that keep the order of the log.
Grown ==
    /\ LogInv' /\ clock' \in Nat
    /\ DOMAIN log \subseteq DOMAIN log'
    /\ \A o \in DOMAIN log : log'[o] = log[o]
    /\ \A o \in DOMAIN log' : o \in DOMAIN log \/ log'[o].end > lastTick

\* A message that is written.
LEMMA WriteFacts ==
    ASSUME LogTypes, NEW m, Write(m)
    PROVE  /\ log' = Append(log, m) /\ DOMAIN log' = DOMAIN log \cup {Len(log) + 1}
           /\ \A o \in DOMAIN log : log'[o] = log[o] /\ o \in 1..Len(log)
           /\ log'[Len(log) + 1] = m
           /\ Len(log) \in Nat /\ Len(log) + 1 \notin DOMAIN log
           /\ m \in Entry => topic' \in [Channels -> Seq(Entry)]
           /\ \A c \in Channels \ {C} : topic'[c] = <<>>
  <1>1. topic \in [Channels -> Seq(Entry)] /\ C \in Channels /\ C = TheChannel
    BY TheTopic DEF LogTypes, C
  <1>2. topic' = [topic EXCEPT ![C] = Append(topic[C], m)]
    BY <1>1 DEF Write
  <1>3. log' = Append(log, m) /\ log \in Seq(Entry)
    BY <1>1, <1>2 DEF log
  <1>4. \A c \in Channels \ {C} : topic'[c] = <<>>
    BY <1>1, <1>2 DEF LogTypes
  <1>5. m \in Entry => topic' \in [Channels -> Seq(Entry)]
    BY <1>1, <1>2
  <1> QED
    BY <1>3, <1>4, <1>5

\* A message that keeps the promises of its writer - younger than the last tick, and new
\* (then also younger than all of its key) or the copy of a DML message - keeps the order
\* of the log.
LEMMA WriteGrows ==
    ASSUME LogInv, clock \in Nat, clock' \in Nat, clock <= clock',
           NEW m \in Entry, Write(m), m.begin = m.end, m.end \in 1..clock', m.end > lastTick,
           isData(m) =>
              \/ /\ m.id = Len(log) + 1
                 /\ \A o \in DataOf(log) : log[o].key = m.key => log[o].end < m.end
              \/ isDMLMsg(m) /\ \E o \in DOMAIN log : m = log[o]
    PROVE  Grown
  <1> DEFINE n == Len(log) + 1
  <1>a. LogTypes
    BY DEF LogInv
  <1>1. /\ DOMAIN log' = DOMAIN log \cup {n} /\ log'[n] = m /\ n \in Nat
        /\ \A o \in DOMAIN log : log'[o] = log[o] /\ o < n /\ o \in Nat
        /\ n \notin DOMAIN log
        /\ topic' \in [Channels -> Seq(Entry)] /\ \A c \in Channels \ {C} : topic'[c] = <<>>
    <2>1. /\ DOMAIN log' = DOMAIN log \cup {n} /\ log'[n] = m /\ n \notin DOMAIN log
          /\ Len(log) \in Nat /\ topic' \in [Channels -> Seq(Entry)]
      BY <1>a, WriteFacts
    <2>2. \A o \in DOMAIN log : log'[o] = log[o] /\ o \in 1..Len(log)
      BY <1>a, WriteFacts
    <2>3. \A c \in Channels \ {C} : topic'[c] = <<>>
      BY <1>a, WriteFacts
    <2> QED
      BY ONLY <2>1, <2>2, <2>3
  <1>2. \A o \in DOMAIN log : log[o] \in Entry /\ log[o].begin = log[o].end /\ log[o].end \in 1..clock
    BY <1>a, LogFacts
  <1> HIDE DEF n
  <1>3. LogTypes'
    <2>1. ASSUME NEW o \in DOMAIN log'
          PROVE  log'[o].begin = log'[o].end /\ log'[o].end \in 1..clock'
      <3>1. CASE o \in DOMAIN log
        BY <1>1, <1>2, <3>1
      <3>2. CASE o = n
        BY <1>1, <3>2
      <3> QED
        BY <1>1, <3>1, <3>2
    <2>2. C' = C
      BY DEF C, TheChannel
    <2> QED
      BY <1>1, <2>1, <2>2, Zenon DEF LogTypes
  <1>4. TickOrder'
    <2>1. \A i \in DOMAIN log : isTimeTick(log[i]) => log[i].end < m.end
      BY <1>a, <1>2, TickFacts
    <2> SUFFICES ASSUME NEW i \in DOMAIN log', NEW j \in DOMAIN log', i < j, isTimeTick(log'[i])
                 PROVE  log'[i].end < log'[j].end
      BY DEF TickOrder
    <2>2. i \in DOMAIN log
      BY <1>1
    <2>3. CASE j = n
      BY <1>1, <2>1, <2>2, <2>3
    <2>4. CASE j \in DOMAIN log
      BY <1>1, <2>2, <2>4 DEF LogInv, TickOrder
    <2> QED
      BY <1>1, <2>3, <2>4
  <1>5. /\ DataOf(log)' = DataOf(log) \cup (IF isData(m) THEN {n} ELSE {})
        /\ DataOf(log) \subseteq DOMAIN log
    BY <1>1 DEF DataOf
  <1>6. CopiesOf'
    <2> SUFFICES ASSUME NEW o \in DataOf(log)'
                 PROVE  /\ log'[o].id \in DOMAIN log' /\ log'[o].id <= o /\ log'[log'[o].id] = log'[o]
                        /\ log'[o].id # o => isDMLMsg(log'[o])
      BY DEF CopiesOf
    <2>1. CASE o \in DataOf(log)
      <3>1. /\ log[o].id \in DOMAIN log /\ log[o].id <= o /\ log[log[o].id] = log[o]
            /\ log[o].id # o => isDMLMsg(log[o])
        BY <2>1 DEF LogInv, CopiesOf
      <3> QED
        BY <1>1, <1>5, <2>1, <3>1
    <2>2. CASE o = n /\ isData(m)
      <3>1. CASE m.id = n
        BY <1>1, <2>2, <3>1
      <3>2. CASE isDMLMsg(m) /\ \E q \in DOMAIN log : m = log[q]
        <4> PICK q \in DOMAIN log : m = log[q]
          BY <3>2
        <4>1. q \in DataOf(log)
          BY <2>2 DEF DataOf
        <4>2. log[q].id \in DOMAIN log /\ log[q].id <= q /\ log[log[q].id] = log[q]
          BY <4>1 DEF LogInv, CopiesOf
        <4>3. log[q].id \in Nat /\ q < n /\ q \in Nat
          BY <1>1, <4>2
        <4> QED
          BY <1>1, <2>2, <3>2, <4>2, <4>3
      <3> QED
        BY <2>2, <3>1, <3>2 DEF n
    <2> QED
      BY <1>5, <2>1, <2>2
  <1>7. KeysInOrder'
    <2> SUFFICES ASSUME NEW i \in DataOf(log)', NEW j \in DataOf(log)', i < j, log'[j].id = j,
                        log'[i].key = log'[j].key
                 PROVE  log'[i].end < log'[j].end
      BY DEF KeysInOrder
    <2>0. i \in DOMAIN log' /\ j \in DOMAIN log'
      BY DEF DataOf
    <2>1. i \in DataOf(log) /\ i \in DOMAIN log
      BY <1>1, <1>5, <2>0
    <2>2. CASE j = n
      <3>1. isData(m) /\ m.id = n
        BY <1>1, <2>2 DEF DataOf
      <3>2. ~\E q \in DOMAIN log : m = log[q]
        <4> SUFFICES ASSUME NEW q \in DOMAIN log, m = log[q] PROVE FALSE
          OBVIOUS
        <4>1. q \in DataOf(log)
          BY <3>1 DEF DataOf
        <4>2. log[q].id \in DOMAIN log
          BY <4>1 DEF LogInv, CopiesOf
        <4> QED
          BY <1>1, <3>1, <4>2
      <3>3. log[i].key = m.key => log[i].end < m.end
        BY <2>1, <3>1, <3>2
      <3> QED
        BY <1>1, <2>1, <2>2, <3>3
    <2>3. CASE j \in DataOf(log)
      BY <1>1, <1>5, <2>1, <2>3 DEF LogInv, KeysInOrder
    <2> QED
      BY <1>1, <1>5, <2>2, <2>3
  <1> QED
    BY <1>1, <1>3, <1>4, <1>6, <1>7 DEF Grown, LogInv

\* A step that writes nothing.
LEMMA SameLog ==
    ASSUME LogInv, clock \in Nat, topic' = topic, clock' = clock
    PROVE  Grown
  <1>1. log' = log /\ DataOf(log)' = DataOf(log) /\ C' = C
    BY DEF log, DataOf, C, TheChannel
  <1>2. LogTypes'
    BY <1>1 DEF LogInv, LogTypes
  <1>3. TickOrder' /\ CopiesOf' /\ KeysInOrder'
    BY <1>1 DEF LogInv, TickOrder, CopiesOf, KeysInOrder
  <1> QED
    BY <1>1, <1>2, <1>3 DEF Grown, LogInv

\* A tick that is published.
LEMMA TickGrows ==
    ASSUME LogInv, clock \in Nat, PublishTick
    PROVE  Grown
  <1> DEFINE m == Message([type |-> "TimeTick", coll |-> 0, name |-> Empty, key |-> 0], 0, clock + 1)
  <1>1. Write(m) /\ clock' = clock + 1
    BY DEF PublishTick
  <1>2. /\ m \in Entry /\ m.begin = m.end /\ m.end = clock + 1 /\ ~isData(m)
    <2>1. m = [type |-> "TimeTick", id |-> 0, begin |-> clock + 1, end |-> clock + 1, size |-> 1,
               coll |-> 0, name |-> Empty, key |-> 0]
      BY DEF Message
    <2> HIDE DEF m
    <2> QED
      BY <2>1 DEF Entry, MsgType, isData
  <1>3. lastTick \in 0..clock
    BY TickFacts DEF LogInv
  <1> HIDE DEF m
  <1> QED
    BY <1>1, <1>2, <1>3, WriteGrows

\* A message that a producer publishes.
LEMMA DataGrows ==
    ASSUME LogInv, clock \in 0..MaxTs, NEW p \in Payloads, PublishData(p)
    PROVE  Grown /\ clock' \in 0..MaxTs
  <1>0. MaxTs \in Nat \ {0, 1} /\ p \in Payload
    BY RecoveryAssumption
  <1>1. lastTick \in 0..clock
    BY <1>0, TickFacts DEF LogInv
  <1>2. PICK ts \in (lastTick + 1)..(MaxTs - 2) :
              /\ \A o \in DOMAIN log : isData(log[o]) /\ log[o].key = p.key => log[o].end < ts
              /\ clock' = Max({clock, ts})
              /\ Write(Message(p, Len(log) + 1, ts))
    BY DEF PublishData
  <1>3. ts \in Nat /\ ts > lastTick /\ ts >= 1 /\ ts <= MaxTs
    BY <1>0, <1>1
  <1>4. clock' \in {clock, ts} /\ clock' >= clock /\ clock' >= ts
    <2>1. {clock, ts} \subseteq 0..MaxTs /\ {clock, ts} # {}
      BY <1>0, <1>3
    <2> QED
      BY <1>0, <1>2, <2>1, GreatestOf
  <1> DEFINE m == Message(p, Len(log) + 1, ts)
  <1>5. Len(log) \in Nat
    BY LogFacts DEF LogInv
  <1>6. /\ m \in Entry /\ m.begin = m.end /\ m.end = ts /\ m.id = Len(log) + 1 /\ m.key = p.key
    BY <1>0, <1>3, <1>5 DEF Message, Entry, MsgType, Payload
  <1>7. \A o \in DataOf(log) : log[o].key = m.key => log[o].end < m.end
    BY <1>2, <1>6 DEF DataOf
  <1>8. Write(m) /\ clock \in Nat /\ clock' \in 0..MaxTs /\ clock' \in Nat
    BY <1>0, <1>2, <1>3, <1>4
  <1>9. m.end \in 1..clock' /\ m.end > lastTick /\ clock <= clock'
    BY <1>3, <1>4, <1>6, <1>8
  <1> HIDE DEF m
  <1> QED
    BY <1>6, <1>7, <1>8, <1>9, WriteGrows

\* A message that is published again.
LEMMA CopyGrows ==
    ASSUME LogInv, clock \in Nat, PublishCopy
    PROVE  Grown
  <1>1. PICK o \in DOMAIN log : isDMLMsg(log[o]) /\ log[o].end > lastTick /\ Write(log[o])
    BY DEF PublishCopy
  <1>2. clock' = clock
    BY DEF PublishCopy
  <1>3. log[o] \in Entry /\ log[o].begin = log[o].end /\ log[o].end \in 1..clock
    BY LogFacts DEF LogInv
  <1> QED
    BY <1>1, <1>2, <1>3, WriteGrows

\* A call that the target logs.
LEMMA EchoGrows ==
    ASSUME LogInv, clock \in 0..MaxTs, NEW type \in {"Insert", "Delete"}, NEW key \in Nat, Echo(type, key)
    PROVE  /\ Grown /\ clock' \in 0..MaxTs
           /\ \A o \in mine' : o \in mine \/ (o \in DOMAIN log' /\ log'[o].coll = TargetID)
  <1>0. MaxTs \in Nat \ {0, 1} /\ TargetID \in Nat /\ collectionName \in STRING /\ clock \in Nat
    BY RecoveryAssumption
  <1>1. CASE UNCHANGED <<topic, clock, mine>>
    BY <1>0, <1>1, SameLog
  <1>2. CASE ~UNCHANGED <<topic, clock, mine>>
    <2> DEFINE m == Message([type |-> type, coll |-> TargetID, name |-> collectionName,
                             key |-> key], Len(log) + 1, clock + 1)
    <2>1. /\ Write(m) /\ clock' = clock + 1 /\ clock + 1 <= MaxTs - 2
          /\ mine' = mine \cup {Len(log) + 1}
      BY <1>2 DEF Echo
    <2>2. Len(log) \in Nat /\ \A o \in DOMAIN log : log[o].end \in 1..clock
      BY LogFacts DEF LogInv
    <2>3. /\ m \in Entry /\ m.begin = m.end /\ m.end = clock + 1 /\ m.id = Len(log) + 1
          /\ m.coll = TargetID
      BY <1>0, <2>2 DEF Message, Entry, MsgType
    <2>4. lastTick \in 0..clock
      BY <1>0, TickFacts DEF LogInv
    <2>5. \A o \in DataOf(log) : log[o].end < m.end
      BY <1>0, <2>2, <2>3 DEF DataOf
    <2>6. clock' \in Nat /\ clock' \in 0..MaxTs /\ clock <= clock' /\ m.end \in 1..clock' /\ m.end > lastTick
      BY <1>0, <2>1, <2>3, <2>4
    <2> HIDE DEF m
    <2>7. Grown
      BY <1>0, <2>1, <2>3, <2>5, <2>6, WriteGrows
    <2>8. Len(log) + 1 \in DOMAIN log' /\ log'[Len(log) + 1] = m
      BY <2>1, WriteFacts DEF LogInv
    <2> QED
      BY <2>1, <2>3, <2>6, <2>7, <2>8
  <1> QED
    BY <1>1, <1>2

-------------------------------------------------------------------------------
(* The order of a pack. *)

\* A message up to a tick is cut at the first tick that is not before it.
LEMMA CutFacts ==
    ASSUME LogTypes, clock \in Nat, NEW o \in DOMAIN log, NEW t \in ticks, log[o].end <= t
    PROVE  /\ cut(o) \in Nat /\ cut(o) \in ticks /\ cut(o) >= log[o].end
           /\ \A u \in ticks : u >= log[o].end => cut(o) <= u
  <1> DEFINE T == {u \in ticks : u >= log[o].end}
  <1>1. ticks \subseteq 1..clock /\ log[o].end \in 1..clock
    BY TickFacts, LogFacts
  <1>2. T \subseteq Nat /\ T # {}
    <2>1. t \in T
      OBVIOUS
    <2>2. \A u \in T : u \in 1..clock
      BY <1>1
    <2> HIDE DEF T
    <2>3. \A u \in 1..clock : u \in Nat
      OBVIOUS
    <2>4. T \subseteq Nat
      BY <2>2, <2>3, Zenon
    <2> QED
      BY <2>1, <2>4, Zenon
  <1>3. cut(o) = Min(T)
    BY DEF cut
  <1>4. Min(T) \in T /\ \A u \in T : Min(T) <= u
    <2> HIDE DEF T
    <2> QED BY <1>2, LeastOf
  <1> QED
    BY <1>1, <1>2, <1>3, <1>4

\* An older message is not cut later.
LEMMA CutOrder ==
    ASSUME LogTypes, clock \in Nat, NEW o \in DOMAIN log, NEW q \in DOMAIN log, NEW t \in ticks,
           log[o].end <= log[q].end, log[q].end <= t
    PROVE  cut(o) \in Nat /\ cut(q) \in Nat /\ cut(o) <= cut(q)
  <1>1. log[o].end \in Nat /\ log[q].end \in Nat /\ t \in Nat
    BY TickFacts, LogFacts
  <1>2. log[o].end <= t
    BY <1>1
  <1>3. cut(q) \in ticks /\ cut(q) \in Nat /\ cut(q) >= log[q].end
    BY CutFacts
  <1>4. cut(o) \in Nat /\ \A u \in ticks : u >= log[o].end => cut(o) <= u
    BY <1>2, CutFacts
  <1> QED
    BY <1>1, <1>3, <1>4

\* A pack has a first message.
LEMMA NextFacts ==
    ASSUME LogTypes, clock \in Nat, todo \subseteq DOMAIN log, todo # {},
           NEW t \in ticks, \A o \in todo : log[o].end <= t
    PROVE  nextMsg \in todo /\ \A q \in todo \ {nextMsg} : precedes(nextMsg, q)
  <1>1. \A o \in todo : cut(o) \in Nat /\ o \in Nat
    BY CutFacts, LogFacts
  <1> DEFINE K == {cut(o) : o \in todo}
             E == {o \in todo : cut(o) = Min(K)}
  <1>2. K \subseteq Nat /\ K # {}
    BY <1>1
  <1>3. Min(K) \in K /\ \A k \in K : Min(K) <= k
    <2> HIDE DEF K
    <2> QED BY <1>2, LeastOf
  <1>4. \A o \in todo : Min(K) <= cut(o)
    BY <1>3
  <1>5. E \subseteq Nat /\ E # {}
    <2>1. PICK o \in todo : cut(o) = Min(K)
      BY <1>3
    <2> QED
      BY <1>1, <2>1
  <1>6. Min(E) \in E /\ \A o \in E : Min(E) <= o
    <2> HIDE DEF E
    <2> QED BY <1>5, LeastOf
  <1>7. PICK m \in todo : m = Min(E) /\ cut(m) = Min(K)
    BY <1>6
  <1>8. ASSUME NEW q \in todo \ {m} PROVE precedes(m, q)
    <2>1. CASE cut(q) = Min(K)
      <3>1. m <= q
        BY <1>6, <1>7, <2>1
      <3> HIDE DEF K, E
      <3> QED
        BY <1>1, <1>7, <2>1, <3>1 DEF precedes
    <2>2. CASE cut(q) # Min(K)
      <3>1. Min(K) <= cut(q)
        BY <1>4
      <3> HIDE DEF K, E
      <3> QED
        BY <1>1, <1>7, <2>2, <3>1 DEF precedes
    <2> QED
      BY <2>1, <2>2
  <1> QED
    BY <1>8, Zenon DEF nextMsg

-------------------------------------------------------------------------------
(* Every step keeps the log in order. *)

\* What main comes to next.
LEMMA HandleFirst ==
    ASSUME IInv, HandleMsg
    PROVE  /\ nextMsg \in todo /\ \A q \in todo \ {nextMsg} : precedes(nextMsg, q)
           /\ nextMsg \in DOMAIN log /\ upto[C] \in ticks
           /\ \A o \in todo \cup handled : o \in DOMAIN log /\ o \in DataOf(log) /\ log[o].id = o
                                           /\ log[o].end <= upto[C] /\ log[o].end \in 1..clock
  <1>1. LogTypes /\ WindowInv /\ WorkInv /\ clock \in Nat
    BY RecoveryAssumption DEF IInv, LogInv, MainInv, TypeOK
  <1>2. \A o \in todo \cup handled : o \in DOMAIN log /\ o \in DataOf(log) /\ log[o].id = o
                                     /\ log[o].end <= upto[C] /\ log[o].end \in 1..clock
    BY <1>1, LogFacts DEF WorkInv, DataOf
  <1>3. todo # {} /\ todo \subseteq DOMAIN log
    BY <1>2 DEF HandleMsg
  <1>4. upto[C] \in ticks
    <2> PICK o \in todo : TRUE
      BY <1>3
    <2>1. log[o].end <= upto[C] /\ log[o].end \in 1..clock
      BY <1>2
    <2> QED
      BY <1>1, <2>1 DEF WindowInv
  <1>5. nextMsg \in todo /\ \A q \in todo \ {nextMsg} : precedes(nextMsg, q)
    BY <1>1, <1>2, <1>3, <1>4, NextFacts
  <1> QED
    BY <1>2, <1>3, <1>4, <1>5

\* A row gets a key that is a number.
LEMMA RowKeyType ==
    ASSUME LogTypes, NEW o \in DOMAIN log
    PROVE  rowKey(log[o]) \in Nat /\ log[o].key \in Nat
  <1>1. log[o].key \in Nat
    BY LogFacts DEF Entry
  <1> QED
    BY <1>1 DEF rowKey

\* Calls on the target leave the log in order.
LEMMA CallGrows ==
    ASSUME LogInv, clock \in 0..MaxTs, MineInv, NEW o \in DOMAIN log, Insert(o) \/ Delete(o)
    PROVE  /\ Grown /\ clock' \in 0..MaxTs
           /\ \A q \in mine' : q \in mine \/ (q \in DOMAIN log' /\ log'[q].coll = TargetID)
  <1>1. rowKey(log[o]) \in Nat /\ log[o].key \in Nat /\ clock \in Nat
    BY RowKeyType, RecoveryAssumption DEF LogInv
  <1>2. \/ \E type \in {"Insert", "Delete"}, key \in Nat : Echo(type, key)
        \/ UNCHANGED <<topic, clock, mine>>
    <2>1. CASE Insert(o)
      BY <1>1, <2>1 DEF Insert
    <2>2. CASE Delete(o)
      BY <1>1, <2>2 DEF Delete
    <2> QED
      BY <2>1, <2>2
  <1>3. CASE \E type \in {"Insert", "Delete"}, key \in Nat : Echo(type, key)
    <2> PICK type \in {"Insert", "Delete"}, key \in Nat : Echo(type, key)
      BY <1>3
    <2> QED
      BY EchoGrows
  <1>4. CASE UNCHANGED <<topic, clock, mine>>
    BY <1>1, <1>4, SameLog
  <1> QED
    BY <1>2, <1>3, <1>4

\* So does every step.
LEMMA LogStep ==
    ASSUME IInv, [Next]_vars
    PROVE  Grown /\ clock' \in 0..MaxTs /\ MineInv'
  <1>1. LogInv /\ clock \in 0..MaxTs /\ MaxTs \in Nat /\ clock \in Nat /\ MineInv
    BY RecoveryAssumption DEF IInv, MainInv, TypeOK
  <1>2. ASSUME Grown, \A q \in mine' : q \in mine \/ (q \in DOMAIN log' /\ log'[q].coll = TargetID)
        PROVE  MineInv'
    <2>1. \A q \in mine : q \in DOMAIN log' /\ log'[q].coll = TargetID
      BY <1>1, <1>2 DEF Grown, MineInv
    <2> QED
      BY <1>2, <2>1 DEF MineInv
  <1>3. ASSUME UNCHANGED <<topic, clock, mine>>
        PROVE  Grown /\ clock' \in 0..MaxTs /\ MineInv'
    BY <1>1, <1>2, <1>3, SameLog
  <1>4. CASE PublishTick
    <2>1. Grown
      BY <1>1, <1>4, TickGrows
    <2>2. clock' = clock + 1 /\ clock < MaxTs /\ mine' = mine
      BY <1>4 DEF PublishTick, work
    <2> QED
      BY <1>1, <1>2, <2>1, <2>2
  <1>5. CASE \E p \in Payloads : PublishData(p)
    <2> PICK p \in Payloads : PublishData(p)
      BY <1>5
    <2>1. Grown /\ clock' \in 0..MaxTs
      BY <1>1, DataGrows
    <2>2. mine' = mine
      BY DEF PublishData, work
    <2> QED
      BY <1>2, <2>1, <2>2
  <1>6. CASE PublishCopy
    <2>1. Grown
      BY <1>1, <1>6, CopyGrows
    <2>2. PICK o \in DOMAIN log : /\ Write(log[o])
                                  /\ mine' = IF o \in mine THEN mine \cup {Len(log) + 1} ELSE mine
      BY <1>6 DEF PublishCopy
    <2>3. Len(log) + 1 \in DOMAIN log' /\ log'[Len(log) + 1] = log[o]
      BY <1>1, <2>2, WriteFacts DEF LogInv
    <2>4. \A q \in mine' : q \in mine \/ (q \in DOMAIN log' /\ log'[q].coll = TargetID)
      BY <1>1, <2>2, <2>3 DEF MineInv
    <2>5. clock' = clock
      BY <1>6 DEF PublishCopy
    <2> QED
      BY <1>1, <1>2, <2>1, <2>4, <2>5
  <1>7. CASE HandleMsg
    <2>1. PICK o : o = nextMsg
      OBVIOUS
    <2>2. o \in DOMAIN log
      BY <1>7, <2>1, HandleFirst
    <2>3. (Insert(o) \/ Delete(o)) \/ UNCHANGED <<topic, clock, mine>>
      BY <1>7, <2>1 DEF HandleMsg, work
    <2>4. CASE Insert(o) \/ Delete(o)
      BY <1>1, <1>2, <2>2, <2>4, CallGrows
    <2> QED
      BY <1>3, <2>3, <2>4
  <1>8. CASE Start \/ Setup \/ Receive \/ UNCHANGED vars
    BY <1>3, <1>8 DEF Start, Setup, Receive, vars, work
  <1> QED
    BY <1>4, <1>5, <1>6, <1>7, <1>8 DEF Next

\* What growth leaves alone.
LEMMA GrownFacts ==
    ASSUME LogInv, WindowInv, clock \in Nat, Grown
    PROVE  /\ ticks \subseteq ticks'
           /\ \A o \in DOMAIN log : o \in DOMAIN log' /\ log'[o] = log[o]
           /\ \A o \in DataOf(log) : o \in DOMAIN log /\ o \in DataOf(log)'
           /\ \A o \in DOMAIN log : o \in Wanted <=> o \in Wanted'
           /\ \A o \in Wanted : o \in DOMAIN log
           /\ \A o \in Wanted' : log'[o].end <= upto[C] => o \in Wanted
  <1>1. \A o \in DOMAIN log : o \in DOMAIN log' /\ log'[o] = log[o]
    BY DEF Grown
  <1>2. ticks \subseteq ticks'
    BY <1>1 DEF ticks
  <1>3. \A o \in DataOf(log) : o \in DOMAIN log /\ o \in DataOf(log)'
    BY <1>1 DEF DataOf
  <1>4. \A o \in DOMAIN log : o \in Wanted <=> o \in Wanted'
    BY <1>1 DEF Wanted
  <1>5. \A o \in Wanted : o \in DOMAIN log
    BY DEF Wanted
  <1>6. upto[C] \in Nat /\ upto[C] <= lastTick /\ lastTick \in Nat
    BY UptoFacts DEF LogInv
  <1>7. \A o \in DOMAIN log' : log'[o].end \in Nat
    BY DEF Grown, LogInv, LogTypes
  <1>8. ASSUME NEW o \in Wanted', log'[o].end <= upto[C] PROVE o \in Wanted
    <2>1. o \in DOMAIN log'
      BY DEF Wanted
    <2>2. o \in DOMAIN log
      BY <1>6, <1>7, <1>8, <2>1 DEF Grown
    <2> QED
      BY <1>4, <2>2
  <1> QED
    BY <1>1, <1>2, <1>3, <1>4, <1>5, <1>8

-------------------------------------------------------------------------------
(* A pack. *)

\* The messages between two ticks, as pairs and as offsets.
LEMMA WindowFacts ==
    ASSUME LogTypes, NEW t
    PROVE  \A r : r \in Between(topic, upto, t) <=>
                  \E o \in DataOf(log) : r = <<C, o>> /\ upto[C] < log[o].end /\ log[o].end <= t
  <1> DEFINE W(c) == {o \in DataOf(topic[c]) : upto[c] < topic[c][o].end /\ topic[c][o].end <= t}
  <1>1. C \in Channels /\ topic[C] = log
    BY TheTopic DEF log, C
  <1>2. \A c \in Channels \ {C} : W(c) = {}
    <2> SUFFICES ASSUME NEW c \in Channels \ {C} PROVE DataOf(topic[c]) = {}
      OBVIOUS
    <2>1. topic[c] = <<>>
      BY DEF LogTypes
    <2> QED
      BY <2>1 DEF DataOf
  <1>3. W(C) = {o \in DataOf(log) : upto[C] < log[o].end /\ log[o].end <= t}
    BY <1>1
  <1>4. \A r : r \in Between(topic, upto, t) <=> \E c \in Channels : r \in {c} \X W(c)
    BY DEF Between
  <1> HIDE DEF W
  <1> QED
    BY <1>1, <1>2, <1>3, <1>4

\* A pack holds the first copies of the messages of its window.
LEMMA PackFacts ==
    ASSUME LogInv, clock \in Nat, NEW t
    PROVE  \A o : o \in packMsgs(upto, t) <=>
                  /\ o \in DataOf(log) /\ log[o].id = o
                  /\ upto[C] < log[o].end /\ log[o].end <= t
  <1> DEFINE S == {r[2] : r \in Between(topic, upto, t)}
  <1>1. \A o : o \in S <=> o \in DataOf(log) /\ upto[C] < log[o].end /\ log[o].end <= t
    <2>1. \A r : r \in Between(topic, upto, t) <=>
                  \E o \in DataOf(log) : r = <<C, o>> /\ upto[C] < log[o].end /\ log[o].end <= t
      BY WindowFacts DEF LogInv
    <2>2. ASSUME NEW o \in S
          PROVE  o \in DataOf(log) /\ upto[C] < log[o].end /\ log[o].end <= t
      <3>1. PICK r \in Between(topic, upto, t) : o = r[2]
        OBVIOUS
      <3>2. PICK q \in DataOf(log) : r = <<C, q>> /\ upto[C] < log[q].end /\ log[q].end <= t
        BY <2>1
      <3> QED
        BY <3>1, <3>2
    <2>3. ASSUME NEW o \in DataOf(log), upto[C] < log[o].end, log[o].end <= t
          PROVE  o \in S
      <3>1. <<C, o>> \in Between(topic, upto, t) /\ <<C, o>>[2] = o
        BY <2>1, <2>3
      <3> QED
        BY <3>1, Zenon
    <2> HIDE DEF S
    <2> QED
      BY <2>2, <2>3
  <1>2. packMsgs(upto, t) =
           {o \in S : isDMLMsg(log[o]) => \A q \in S : log[q].id = log[o].id => o <= q}
    BY DEF packMsgs
  <1> HIDE DEF S
  <1>3. \A o \in DataOf(log) : /\ log[o].id \in DOMAIN log /\ log[o].id <= o
                               /\ log[log[o].id] = log[o]
                               /\ log[o].id # o => isDMLMsg(log[o])
    BY DEF LogInv, CopiesOf
  <1>4. \A o \in DOMAIN log : o \in Nat
    BY LogFacts DEF LogInv
  <1>5. \A o \in DataOf(log) : o \in DOMAIN log /\ o \in Nat /\ log[o].id \in DataOf(log)
    BY <1>3, <1>4 DEF DataOf
  <1>6. ASSUME NEW o \in S, log[o].id = o, NEW q \in S, log[q].id = log[o].id PROVE o <= q
    <2>1. log[q].id <= q
      BY <1>1, <1>3
    <2> QED
      BY <1>6, <2>1
  <1>7. ASSUME NEW o \in S, isDMLMsg(log[o]) => \A q \in S : log[q].id = log[o].id => o <= q
        PROVE  log[o].id = o
    <2>1. o \in DataOf(log) /\ log[o].id \in DataOf(log) /\ log[log[o].id] = log[o]
      BY <1>1, <1>3, <1>5
    <2> PICK i : i = log[o].id
      OBVIOUS
    <2>2. i \in S /\ log[i] = log[o]
      BY <1>1, <2>1
    <2>3. i # o => o <= i
      BY <1>3, <1>7, <2>1, <2>2
    <2> QED
      BY <1>3, <1>5, <2>1, <2>3
  <1> QED
    BY <1>1, <1>2, <1>6, <1>7

-------------------------------------------------------------------------------
(* The keys of the source. *)

\* They depend on the messages only.
LEMMA SourceKept ==
    ASSUME NEW S, \A o \in S : log'[o] = log[o]
    PROVE  SourceKeys(S)' = SourceKeys(S)
  BY DEF SourceKeys

\* An Insert that is younger than what came before it of its key adds the key.
LEMMA SourceInsert ==
    ASSUME NEW H, NEW o, \A h \in H \cup {o} : log[h].end \in Nat,
           \A h \in H : log[h].key = log[o].key => log[h].end < log[o].end,
           log[o].type = "Insert"
    PROVE  SourceKeys(H \cup {o}) = SourceKeys(H) \cup {log[o].key}
  <1> DEFINE Last(S) == {i \in S : /\ log[i].type = "Insert"
                                   /\ \A j \in S : log[j].key = log[i].key => log[j].end <= log[i].end}
  <1>1. \A S : SourceKeys(S) = {log[i].key : i \in Last(S)}
    BY DEF SourceKeys
  <1>2. o \in Last(H \cup {o})
    OBVIOUS
  <1>3. \A i \in Last(H \cup {o}) : i = o \/ i \in Last(H)
    OBVIOUS
  <1>4. \A i \in Last(H) : log[i].key = log[o].key \/ i \in Last(H \cup {o})
    OBVIOUS
  <1> HIDE DEF Last
  <1> QED
    BY <1>1, <1>2, <1>3, <1>4

\* A Delete that is younger than what came before it of its key takes the key away.
LEMMA SourceDelete ==
    ASSUME NEW H, NEW o, \A h \in H \cup {o} : log[h].end \in Nat,
           \A h \in H : log[h].key = log[o].key => log[h].end < log[o].end,
           log[o].type # "Insert"
    PROVE  SourceKeys(H \cup {o}) = SourceKeys(H) \ {log[o].key}
  <1> DEFINE Last(S) == {i \in S : /\ log[i].type = "Insert"
                                   /\ \A j \in S : log[j].key = log[i].key => log[j].end <= log[i].end}
  <1>1. \A S : SourceKeys(S) = {log[i].key : i \in Last(S)}
    BY DEF SourceKeys
  <1>2. \A i \in Last(H \cup {o}) : i \in Last(H) /\ log[i].key # log[o].key
    OBVIOUS
  <1>3. \A i \in Last(H) : log[i].key = log[o].key \/ i \in Last(H \cup {o})
    OBVIOUS
  <1> HIDE DEF Last
  <1> QED
    BY <1>1, <1>2, <1>3

-------------------------------------------------------------------------------
(* The steps of main. *)

\* What the invariant says of the log.
LEMMA InvFacts ==
    ASSUME IInv
    PROVE  /\ LogInv /\ LogTypes /\ WindowInv /\ WorkInv /\ CoverInv /\ RowsInv
           /\ clock \in Nat /\ upto[C] \in Nat /\ DataOf(log) \subseteq DOMAIN log
           /\ \A o \in DOMAIN log : log[o].end \in 1..clock /\ o \in Nat
  <1>1. LogInv /\ LogTypes /\ WindowInv /\ WorkInv /\ CoverInv /\ RowsInv /\ clock \in Nat
    BY RecoveryAssumption DEF IInv, LogInv, MainInv, TypeOK
  <1>2. \A o \in DOMAIN log : log[o].end \in 1..clock /\ o \in Nat
    BY <1>1, LogFacts
  <1> QED
    BY <1>1, <1>2, UptoFacts DEF DataOf

\* A message may be published at any time.
LEMMA IdleStep ==
    ASSUME IInv, Grown,
           UNCHANGED <<upto, pc, startTime, autoIDFieldName, todo, handled, failed, rows, dropAt>>
    PROVE  WindowInv' /\ WorkInv' /\ CoverInv' /\ RowsInv'
  <1>1. /\ LogInv /\ LogTypes /\ WindowInv /\ WorkInv /\ CoverInv /\ RowsInv
        /\ clock \in Nat /\ upto[C] \in Nat /\ DataOf(log) \subseteq DOMAIN log
    BY InvFacts
  <1>2. /\ ticks \subseteq ticks'
        /\ \A o \in DOMAIN log : o \in DOMAIN log' /\ log'[o] = log[o]
        /\ \A o \in DataOf(log) : o \in DOMAIN log /\ o \in DataOf(log)'
        /\ \A o \in DOMAIN log : o \in Wanted <=> o \in Wanted'
        /\ \A o \in Wanted : o \in DOMAIN log
        /\ \A o \in Wanted' : log'[o].end <= upto[C] => o \in Wanted
    BY <1>1, GrownFacts
  <1>3. WindowInv'
    BY <1>1, <1>2 DEF WindowInv, C, TheChannel
  <1>4. WorkInv'
    <2>1. \A o \in todo \cup handled : /\ o \in DataOf(log) /\ o \in DOMAIN log /\ log[o].id = o
                                       /\ log[o].end <= upto[C]
      BY <1>1 DEF WorkInv
    <2>2. \A o \in todo' \cup handled' : o \in DataOf(log)' /\ log'[o].id = o /\ log'[o].end <= upto[C]
      BY <1>2, <2>1
    <2>3. handled' \subseteq Wanted'
      BY <1>1, <1>2 DEF WorkInv
    <2>4. \A h \in handled', o \in todo' : log'[h].key = log'[o].key => log'[h].end < log'[o].end
      BY <1>1, <1>2, <2>1 DEF WorkInv
    <2> QED
      BY <2>2, <2>3, <2>4 DEF WorkInv, C, TheChannel
  <1>5. CoverInv'
    BY <1>1, <1>2 DEF CoverInv, C, TheChannel
  <1>6. RowsInv'
    <2>1. \A o \in handled : log'[o] = log[o]
      BY <1>1, <1>2 DEF WorkInv
    <2> PICK H : H = handled
      OBVIOUS
    <2>2. SourceKeys(H)' = SourceKeys(H)
      BY <2>1, SourceKept
    <2>3. SourceKeys(handled)' = SourceKeys(handled)
      BY <2>2, Zenon
    <2> QED
      BY <1>1, <2>3 DEF RowsInv
  <1> QED
    BY <1>3, <1>4, <1>5, <1>6

\* A program that starts to read owes nothing yet.
LEMMA StartStep ==
    ASSUME IInv, Start \/ Setup
    PROVE  WindowInv' /\ WorkInv' /\ CoverInv' /\ RowsInv'
  <1>1. /\ WindowInv /\ WorkInv /\ RowsInv /\ upto[C] \in Nat /\ clock \in Nat
        /\ \A o \in DOMAIN log : log[o].end \in 1..clock
    BY InvFacts
  <1>2. /\ UNCHANGED <<topic, clock, upto, autoIDFieldName, todo, work, dropAt>>
        /\ pc \in {"flags", "setup"} /\ pc' \in {"setup", "read", "panic"}
        /\ startTime' \in {startTime, seconds(clock)}
    BY DEF Start, Setup
  <1>3. UNCHANGED <<log, ticks, handled, failed, rows, C>> /\ DataOf(log)' = DataOf(log) /\ Wanted' = Wanted
    BY <1>2 DEF work, log, ticks, DataOf, Wanted, C, TheChannel
  <1>4. WindowInv'
    BY <1>1, <1>2, <1>3, SecondsType DEF WindowInv
  <1>5. WorkInv'
    BY <1>1, <1>2, <1>3 DEF WorkInv
  <1>6. CoverInv'
    <2>1. upto'[C] = 0
      BY <1>1, <1>2 DEF WindowInv
    <2>2. \A o \in Wanted : ~(log[o].end <= 0)
      BY <1>1 DEF Wanted
    <2> QED
      BY <1>3, <2>1, <2>2 DEF CoverInv
  <1>7. RowsInv'
    BY <1>1, <1>2, <1>3 DEF RowsInv, SourceKeys
  <1> QED
    BY <1>4, <1>5, <1>6, <1>7

\* A pack brings the messages of its window; all that main has handled is older.
LEMMA ReceiveStep ==
    ASSUME IInv, Receive
    PROVE  WindowInv' /\ WorkInv' /\ CoverInv' /\ RowsInv' /\ Complete'
  <1>1. /\ LogInv /\ LogTypes /\ WindowInv /\ WorkInv /\ CoverInv /\ RowsInv
        /\ clock \in Nat /\ upto[C] \in Nat /\ DataOf(log) \subseteq DOMAIN log
        /\ \A o \in DOMAIN log : log[o].end \in 1..clock /\ o \in Nat
    BY InvFacts
  <1>2. PICK t \in ticks :
          /\ t > upto[C] /\ upto' = [c \in Channels |-> t]
          /\ IF recoverDone(upto[C], t) THEN pc' = "done" /\ todo' = todo
             ELSE todo' = packMsgs(upto, t) /\ pc' = pc
    BY DEF Receive, C
  <1>3. /\ UNCHANGED <<topic, clock, startTime, autoIDFieldName, work, dropAt>>
        /\ pc = "read" /\ todo = {}
    BY DEF Receive
  <1>4. UNCHANGED <<log, ticks, handled, failed, rows, C>> /\ DataOf(log)' = DataOf(log) /\ Wanted' = Wanted
    BY <1>3 DEF work, log, ticks, DataOf, Wanted, C, TheChannel
  <1>5. t \in Nat /\ upto'[C] = t /\ upto' \in [Channels -> Nat]
    BY <1>1, <1>2, TickFacts, TheTopic
  <1>6. WindowInv'
    BY <1>1, <1>2, <1>3, <1>4, <1>5 DEF WindowInv
  <1>7. \A o : o \in packMsgs(upto, t) <=>
               /\ o \in DataOf(log) /\ log[o].id = o /\ upto[C] < log[o].end /\ log[o].end <= t
    BY <1>1, PackFacts
  <1>8. \A o \in todo' : o \in DataOf(log) /\ log[o].id = o /\ upto[C] < log[o].end /\ log[o].end <= t
    BY <1>2, <1>3, <1>7
  <1>9. \A h \in handled : /\ h \in DataOf(log) /\ log[h].id = h
                           /\ log[h].end <= upto[C] /\ log[h].end <= t /\ log[h].end \in Nat
    BY <1>1, <1>2, <1>5 DEF WorkInv
  <1>10. WorkInv'
    <2>1. \A o \in todo' : log[o].end \in Nat
      BY <1>1, <1>8
    <2>2. \A h \in handled, o \in todo' : log[h].end < log[o].end
      BY <1>1, <1>8, <1>9, <2>1
    <2> QED
      BY <1>1, <1>4, <1>5, <1>8, <1>9, <2>2 DEF WorkInv
  <1>11. \A o \in Wanted : /\ o \in DataOf(log) /\ o \in DOMAIN log /\ log[o].end \in Nat
                           /\ log[o].id \in DataOf(log) /\ log[log[o].id] = log[o]
    <2>1. \A o \in Wanted : o \in DataOf(log)
      BY DEF Wanted, DataOf, isDMLMsg, isData
    <2>2. \A o \in DataOf(log) : log[o].id \in DOMAIN log /\ log[log[o].id] = log[o]
      BY <1>1 DEF LogInv, CopiesOf
    <2>3. \A o \in DataOf(log) : log[o].id \in DataOf(log)
      BY <2>2 DEF DataOf
    <2> QED
      BY <1>1, <2>1, <2>2, <2>3
  <1>12. CoverInv'
    <2> SUFFICES ASSUME pc' = "read", NEW o \in Wanted, log[o].end <= t
                 PROVE  log[o].id \in todo' \cup handled
      BY <1>4, <1>5 DEF CoverInv
    <2>1. todo' = packMsgs(upto, t)
      BY <1>2
    <2>2. CASE log[o].end <= upto[C]
      BY <1>1, <1>3, <2>2 DEF CoverInv
    <2>3. CASE upto[C] < log[o].end
      <3> PICK i : i = log[o].id
        OBVIOUS
      <3>1. i \in DataOf(log) /\ log[i] = log[o]
        BY <1>11
      <3> QED
        BY <1>7, <2>1, <2>3, <3>1
    <2> QED
      BY <1>1, <1>11, <2>2, <2>3
  <1>13. RowsInv'
    BY <1>1, <1>3, <1>4 DEF RowsInv, SourceKeys
  <1>14. Complete'
    <2> SUFFICES ASSUME pc' = "done", NEW o \in Wanted, seconds(log[o].end) < startTime
                 PROVE  \E h \in handled : log[h].id = log[o].id
      <3>1. dropAt' = 0
        BY <1>1, <1>3 DEF WindowInv
      <3> QED
        BY <1>3, <1>4, <3>1 DEF Complete, seconds
    <2>1. recoverDone(upto[C], t)
      BY <1>2, <1>3
    <2>2. seconds(log[o].end) \in Nat /\ seconds(upto[C]) \in Nat /\ startTime \in Nat
      BY <1>1, <1>11, SecondsType DEF WindowInv
    <2>3. seconds(log[o].end) < seconds(upto[C])
      BY <2>1, <2>2 DEF recoverDone
    <2>4. log[o].end < upto[C]
      BY <1>1, <1>11, <2>3, SecondsOrder
    <2>5. log[o].end <= upto[C]
      BY <1>1, <1>11, <2>4
    <2>6. log[o].id \in handled
      BY <1>1, <1>3, <2>5 DEF CoverInv
    <2> QED
      BY <1>11, <2>6
  <1> QED
    BY <1>6, <1>10, <1>12, <1>13, <1>14

\* main goes by the age of messages: what it leaves for later of a key is younger than the
\* message it takes, and what was logged before a message and is older than it is not left
\* for later.
LEMMA NextIsOldest ==
    ASSUME IInv, HandleMsg, NEW q \in todo, q # nextMsg
    PROVE  /\ log[q].key = log[nextMsg].key => log[nextMsg].end < log[q].end
           /\ ~(q < nextMsg /\ log[q].end < log[nextMsg].end)
  <1>1. PICK o : o = nextMsg
    OBVIOUS
  <1>2. /\ o \in todo /\ precedes(o, q) /\ upto[C] \in ticks
        /\ \A i \in {o, q} : i \in DOMAIN log /\ i \in DataOf(log) /\ log[i].id = i
                             /\ log[i].end <= upto[C] /\ log[i].end \in 1..clock
    BY <1>1, HandleFirst
  <1>3. LogTypes /\ clock \in Nat /\ o \in Nat /\ q \in Nat /\ KeysInOrder
    BY <1>2, InvFacts DEF LogInv
  <1>4. cut(o) \in Nat /\ cut(q) \in Nat
    BY <1>2, <1>3, CutFacts
  <1>5. log[q].end <= log[o].end => cut(q) <= cut(o)
    BY <1>2, <1>3, CutOrder
  <1>6. log[q].end <= log[o].end => o < q
    BY <1>3, <1>4, <1>5, <1>2 DEF precedes
  <1>7. log[o].end \in Nat /\ log[q].end \in Nat
    BY <1>2, <1>3
  <1>8. o < q /\ log[q].key = log[o].key => log[o].end < log[q].end
    BY <1>2, <1>3 DEF KeysInOrder
  <1>9. ~(q < o /\ log[q].end < log[o].end)
    BY <1>3, <1>6, <1>7
  <1>10. log[q].key = log[o].key => log[o].end < log[q].end
    BY <1>6, <1>7, <1>8
  <1> QED
    BY <1>1, <1>9, <1>10

\* What a successful call does to the rows of a collection that sends its keys.
LEMMA CallRows ==
    ASSUME IInv, NEW o \in DOMAIN log, autoIDFieldName = "other", failed' = {},
           \/ log[o].type = "Insert" /\ Insert(o)
           \/ log[o].type = "Delete" /\ Delete(o)
    PROVE  /\ failed = {}
           /\ log[o].type = "Insert" => {r.pk : r \in rows'} = {r.pk : r \in rows} \cup {log[o].key}
           /\ log[o].type = "Delete" => {r.pk : r \in rows'} = {r.pk : r \in rows} \ {log[o].key}
  <1>1. rowKey(log[o]) = log[o].key
    <2>1. "pk" \in columns
      BY EmptyFacts DEF columns, Fields
    <2> QED
      BY <2>1 DEF rowKey
  <1>2. ~Fail(o) /\ failed' # failed \cup {o}
    BY DEF Fail
  <1>3. CASE log[o].type = "Insert" /\ Insert(o)
    <2>1. rows' = rows \cup {[pk |-> log[o].key, of |-> o]} /\ failed' = failed
      BY <1>1, <1>2, <1>3 DEF Insert
    <2>2. PICK x : x = [pk |-> log[o].key, of |-> o]
      OBVIOUS
    <2>3. x.pk = log[o].key
      BY <2>2
    <2>4. {r.pk : r \in rows \cup {x}} = {r.pk : r \in rows} \cup {x.pk}
      BY ONLY Zenon
    <2> QED
      BY <1>3, <2>1, <2>2, <2>3, <2>4
  <1>4. CASE log[o].type = "Delete" /\ Delete(o)
    <2>1. rows' = {r \in rows : r.pk # log[o].key} /\ failed' = failed
      BY <1>2, <1>4 DEF Delete
    <2> QED
      BY <1>4, <2>1
  <1> QED
    BY <1>3, <1>4

\* main comes to a message of the pack: it calls, stops, or passes over it.
LEMMA HandleStep ==
    ASSUME IInv, HandleMsg, Grown
    PROVE  WindowInv' /\ WorkInv' /\ CoverInv' /\ RowsInv' /\ Complete'
  <1>1. /\ LogInv /\ LogTypes /\ WindowInv /\ WorkInv /\ CoverInv /\ RowsInv
        /\ clock \in Nat /\ upto[C] \in Nat /\ DataOf(log) \subseteq DOMAIN log
        /\ \A i \in DOMAIN log : log[i].end \in 1..clock /\ i \in Nat
    BY InvFacts
  <1>2. /\ ticks \subseteq ticks'
        /\ \A i \in DOMAIN log : i \in DOMAIN log' /\ log'[i] = log[i]
        /\ \A i \in DataOf(log) : i \in DOMAIN log /\ i \in DataOf(log)'
        /\ \A i \in DOMAIN log : i \in Wanted <=> i \in Wanted'
        /\ \A i \in Wanted : i \in DOMAIN log
        /\ \A i \in Wanted' : log'[i].end <= upto[C] => i \in Wanted
    BY <1>1, GrownFacts
  <1>3. PICK o : o = nextMsg
    OBVIOUS
  <1>4. /\ o \in todo /\ o \in DOMAIN log
        /\ \A i \in todo \cup handled : /\ i \in DOMAIN log /\ i \in DataOf(log) /\ log[i].id = i
                                        /\ log[i].end <= upto[C] /\ log[i].end \in 1..clock
    BY <1>3, HandleFirst
  <1>5. \A q \in todo \ {o} : /\ log[q].key = log[o].key => log[o].end < log[q].end
                              /\ ~(q < o /\ log[q].end < log[o].end)
    BY <1>3, NextIsOldest
  <1>6. UNCHANGED <<upto, startTime, autoIDFieldName, C>> /\ pc = "read"
    BY DEF HandleMsg, C, TheChannel
  <1>7. \A i \in Wanted : /\ i \in DataOf(log) /\ log[i].id \in DataOf(log)
                          /\ log[log[i].id] = log[i] /\ log[i].id <= i
    <2>1. \A i \in Wanted : i \in DataOf(log)
      BY DEF Wanted, DataOf, isDMLMsg, isData
    <2>2. \A i \in DataOf(log) : log[i].id \in DOMAIN log /\ log[log[i].id] = log[i] /\ log[i].id <= i
      BY <1>1 DEF LogInv, CopiesOf
    <2>3. \A i \in DataOf(log) : log[i].id \in DataOf(log)
      BY <2>2 DEF DataOf
    <2> QED
      BY <2>1, <2>2, <2>3
  <1>8. ASSUME NEW T, NEW H, T \subseteq todo, H \subseteq handled \cup {o}, H \subseteq Wanted,
               todo' = T, handled' = H,
               \A h \in H, q \in T : log[h].key = log[q].key => log[h].end < log[q].end
        PROVE  WorkInv'
    <2>1. \A i \in T \cup H : /\ i \in DOMAIN log /\ i \in DataOf(log)' /\ log'[i].id = i
                              /\ log'[i].end <= upto'[C'] /\ log'[i] = log[i]
      BY <1>2, <1>4, <1>6, <1>8
    <2>2. H \subseteq Wanted'
      BY <1>2, <1>8
    <2>3. \A h \in H, q \in T : log'[h].key = log'[q].key => log'[h].end < log'[q].end
      BY <1>8, <2>1
    <2> QED
      BY <1>8, <2>1, <2>2, <2>3 DEF WorkInv
  <1>9. CASE /\ isDMLMsg(log[o]) /\ isMine(log[o])
             /\ \/ log[o].type = "Insert" /\ Insert(o)
                \/ log[o].type = "Delete" /\ Delete(o)
             /\ handled' = handled \cup {o} /\ todo' = todo \ {o} /\ UNCHANGED <<pc, dropAt>>
    <2>1. WindowInv'
      BY <1>1, <1>2, <1>6, <1>9 DEF WindowInv
    <2>2. o \in Wanted /\ handled \subseteq Wanted
      BY <1>1, <1>4, <1>9 DEF Wanted, isMine, WorkInv
    <2>3. \A h \in handled \cup {o}, q \in todo \ {o} : log[h].key = log[q].key => log[h].end < log[q].end
      BY <1>1, <1>5 DEF WorkInv
    <2>4. WorkInv'
      BY <1>8, <1>9, <2>2, <2>3
    <2>5. CoverInv'
      <3>1. \A i \in Wanted : log[i].end <= upto[C] => log[i].id \in todo' \cup handled'
        BY <1>1, <1>6, <1>9 DEF CoverInv
      <3> QED
        BY <1>2, <1>6, <3>1 DEF CoverInv
    <2>6. RowsInv'
      <3> SUFFICES ASSUME failed' = {}, autoIDFieldName = "other"
                   PROVE  {r.pk : r \in rows'} = SourceKeys(handled)'
        BY <1>6 DEF RowsInv
      <3>1. \A h \in handled : log[h].key = log[o].key => log[h].end < log[o].end
        BY <1>1, <1>4 DEF WorkInv
      <3>2. \A h \in handled \cup {o} : log[h].end \in Nat /\ log'[h] = log[h]
        BY <1>1, <1>2, <1>4
      <3> PICK H : H = handled \cup {o}
        OBVIOUS
      <3>3. SourceKeys(handled)' = SourceKeys(handled \cup {o})
        <4>1. SourceKeys(H)' = SourceKeys(H)
          BY <3>2, SourceKept
        <4> QED
          BY <1>9, <4>1, Zenon
      <3>4. /\ failed = {}
            /\ log[o].type = "Insert" => {r.pk : r \in rows'} = {r.pk : r \in rows} \cup {log[o].key}
            /\ log[o].type = "Delete" => {r.pk : r \in rows'} = {r.pk : r \in rows} \ {log[o].key}
        BY <1>4, <1>9, CallRows
      <3>5. {r.pk : r \in rows} = SourceKeys(handled)
        BY <1>1, <3>4 DEF RowsInv
      <3>6. CASE log[o].type = "Insert"
        BY <3>1, <3>2, <3>3, <3>4, <3>5, <3>6, SourceInsert
      <3>7. CASE log[o].type = "Delete"
        BY <3>1, <3>2, <3>3, <3>4, <3>5, <3>7, SourceDelete
      <3> QED
        BY <1>9, <3>6, <3>7
    <2>7. Complete'
      BY <1>6, <1>9 DEF Complete
    <2> QED
      BY <2>1, <2>4, <2>5, <2>6, <2>7
  <1>10. CASE /\ log[o].type = "DropCollection" /\ log[o].coll = collectionID
              /\ pc' = "done" /\ dropAt' = o /\ todo' = {} /\ UNCHANGED <<topic, clock, work>>
    <2>1. UNCHANGED <<log, handled, failed, rows>> /\ DataOf(log)' = DataOf(log) /\ Wanted' = Wanted
      BY <1>10 DEF work, log, DataOf, Wanted
    <2>2. WindowInv'
      BY <1>1, <1>2, <1>4, <1>6, <1>10, <2>1 DEF WindowInv
    <2>3. WorkInv'
      <3>1. handled \subseteq Wanted
        BY <1>1 DEF WorkInv
      <3> QED
        BY <1>8, <1>10, <2>1, <3>1
    <2>4. CoverInv'
      BY <1>10 DEF CoverInv
    <2>5. RowsInv'
      BY <1>1, <1>6, <2>1 DEF RowsInv, SourceKeys
    <2>6. Complete'
      <3> SUFFICES ASSUME NEW i \in Wanted, i < o, log[i].end < log[o].end
                   PROVE  \E h \in handled : log[h].id = log[i].id
        <4>1. dropAt' # 0
          BY <1>1, <1>4, <1>10, LogFacts
        <4> QED
          BY <1>10, <2>1, <4>1 DEF Complete
      <3>0. PICK k : k = log[i].id
        OBVIOUS
      <3>1. k \in DataOf(log) /\ log[k] = log[i] /\ k <= i /\ i \in Nat /\ k \in Nat
        BY <1>1, <1>7, <3>0
      <3>2. log[i].end <= upto[C]
        BY <1>1, <1>2, <1>4
      <3>3. k \in todo \cup handled
        BY <1>1, <1>6, <3>0, <3>2 DEF CoverInv
      <3>4. k < o /\ log[k].end < log[o].end
        BY <1>1, <1>4, <3>1
      <3>5. k \notin todo
        BY <1>1, <1>4, <1>5, <3>4
      <3> QED
        BY <3>1, <3>3, <3>5
    <2> QED
      BY <2>2, <2>3, <2>4, <2>5, <2>6
  <1>11. CASE /\ IF isDMLMsg(log[o]) THEN ~isMine(log[o]) ELSE log[o].coll # collectionID
              /\ todo' = todo \ {o} /\ UNCHANGED <<topic, clock, work, pc, dropAt>>
    <2>1. UNCHANGED <<log, handled, failed, rows>> /\ DataOf(log)' = DataOf(log) /\ Wanted' = Wanted
      BY <1>11 DEF work, log, DataOf, Wanted
    <2>2. WindowInv'
      BY <1>1, <1>2, <1>6, <1>11, <2>1 DEF WindowInv
    <2>3. WorkInv'
      <3>1. /\ handled \subseteq Wanted
            /\ \A h \in handled, q \in todo \ {o} : log[h].key = log[q].key => log[h].end < log[q].end
        BY <1>1 DEF WorkInv
      <3> QED
        BY <1>8, <1>11, <2>1, <3>1
    <2>4. CoverInv'
      <3>1. \A i \in Wanted : log[i].id # o
        <4> SUFFICES ASSUME NEW i \in Wanted, log[i].id = o PROVE FALSE
          OBVIOUS
        <4>1. log[o] = log[i]
          BY <1>7
        <4>2. isDMLMsg(log[i]) /\ isMine(log[i])
          BY DEF Wanted, isMine
        <4> QED
          BY <1>11, <4>1, <4>2
      <3> QED
        BY <1>1, <1>6, <1>11, <2>1, <3>1 DEF CoverInv
    <2>5. RowsInv'
      BY <1>1, <1>6, <2>1 DEF RowsInv, SourceKeys
    <2>6. Complete'
      BY <1>6, <1>11 DEF Complete
    <2> QED
      BY <2>2, <2>3, <2>4, <2>5, <2>6
  <1> QED
    BY <1>3, <1>9, <1>10, <1>11 DEF HandleMsg

-------------------------------------------------------------------------------
(* The invariant. *)

\* Variables keep their types, and rows get keys.
LEMMA TypeStep ==
    ASSUME IInv, [Next]_vars, Grown, clock' \in 0..MaxTs, MineInv', WindowInv', WorkInv'
    PROVE  TypeOK'
  <1>0. {MaxData, MaxFails, MaxTs} \subseteq Nat
    BY RecoveryAssumption
  <1>1. /\ pc \in {"flags", "setup", "read", "done", "panic"} /\ failed \subseteq handled
        /\ rows \subseteq [pk : Nat, of : DOMAIN log]
        /\ written \in 0..MaxData /\ fails \in 0..MaxFails
    BY DEF IInv, TypeOK
  <1>2. DOMAIN log \subseteq DOMAIN log' /\ LogTypes'
    BY DEF Grown, LogInv
  <1>3. \A o \in DOMAIN log' : log'[o].type \in MsgType /\ log'[o].end \in 1..MaxTs
    <2>1. log' \in Seq(Entry)
      BY <1>2, TheTopic DEF LogTypes, log, C
    <2>2. \A o \in DOMAIN log' : log'[o] \in Entry /\ log'[o].end \in 1..clock'
      BY <1>2, <2>1 DEF LogTypes
    <2> QED
      BY <1>0, <2>2 DEF Entry
  <1>4. upto'[C] \in 0..clock'
    <2>1. \A t \in ticks' : t \in 1..clock'
      BY <1>2 DEF ticks, LogTypes
    <2>2. upto'[C] = 0 \/ upto'[C] \in ticks'
      BY DEF WindowInv, C, TheChannel
    <2> QED
      BY <1>0, <2>1, <2>2
  <1>5. todo' \cup handled' \subseteq DOMAIN log' /\ mine' \subseteq DOMAIN log'
    BY DEF WorkInv, DataOf, MineInv
  <1>6. ASSUME /\ pc' \in {"flags", "setup", "read", "done", "panic"}
               /\ failed' \subseteq handled'
               /\ \A r \in rows' : r \in rows \/ r \in [pk : Nat, of : DOMAIN log]
               /\ written' \in 0..MaxData /\ fails' \in 0..MaxFails
        PROVE  TypeOK'
    <2>1. rows' \subseteq [pk : Nat, of : DOMAIN log']
      <3> SUFFICES ASSUME NEW r \in rows' PROVE r \in [pk : Nat, of : DOMAIN log']
        OBVIOUS
      <3>1. r \in [pk : Nat, of : DOMAIN log]
        BY <1>1, <1>6
      <3> QED
        BY <1>2, <3>1
    <2> QED
      BY <1>3, <1>4, <1>5, <1>6, <2>1 DEF TypeOK, C
  <1>7. CASE PublishTick \/ (\E p \in Payloads : PublishData(p)) \/ PublishCopy
    <2>1. UNCHANGED <<pc, failed, handled, rows, fails>> /\ written' \in {written, written + 1}
          /\ (written' = written \/ written < MaxData)
      BY <1>7 DEF PublishTick, PublishData, PublishCopy, work
    <2> QED
      BY <1>0, <1>1, <1>6, <2>1
  <1>8. CASE Start \/ Setup \/ Receive \/ UNCHANGED vars
    <2>1. UNCHANGED <<failed, handled, rows, fails, written>>
          /\ pc' \in {pc, "setup", "read", "done", "panic"}
      BY <1>8 DEF Start, Setup, Receive, vars, work
    <2> QED
      BY <1>1, <1>6, <2>1
  <1>9. CASE HandleMsg
    <2>1. PICK o : o = nextMsg
      OBVIOUS
    <2>2. o \in DOMAIN log
      BY <1>9, <2>1, HandleFirst
    <2>3. rowKey(log[o]) \in Nat
      BY <2>2, RowKeyType, InvFacts
    <2>4. written' = written /\ pc' \in {pc, "done"}
      BY <1>9 DEF HandleMsg
    <2>5. CASE /\ handled' = handled \cup {o} /\ (Insert(o) \/ Delete(o))
      <3>1. ASSUME Fail(o) PROVE failed' = failed \cup {o} /\ fails' \in 0..MaxFails
        BY <1>0, <1>1, <3>1 DEF Fail
      <3>2. failed' \in {failed, failed \cup {o}} /\ fails' \in 0..MaxFails
        BY <1>1, <2>5, <3>1 DEF Insert, Delete
      <3>3. \A r \in rows' : r \in rows \/ r = [pk |-> rowKey(log[o]), of |-> o]
        BY <2>5 DEF Insert, Delete
      <3>4. \A r \in rows' : r \in rows \/ r \in [pk : Nat, of : DOMAIN log]
        BY <2>2, <2>3, <3>3
      <3>5. failed' \subseteq handled'
        BY <1>1, <2>5, <3>2
      <3> QED
        BY <1>1, <1>6, <2>4, <3>2, <3>4, <3>5
    <2>6. CASE UNCHANGED work
      BY <1>1, <1>6, <2>4, <2>6 DEF work
    <2> QED
      BY <1>9, <2>1, <2>5, <2>6 DEF HandleMsg
  <1> QED
    BY <1>7, <1>8, <1>9 DEF Next

\* Nothing is done at the start.
LEMMA InitInv == Init => IInv
  <1> SUFFICES ASSUME Init PROVE IInv
    OBVIOUS
  <1>1. /\ topic = [c \in Channels |-> <<>>] /\ C \in Channels /\ log = <<>>
        /\ upto = [c \in Channels |-> 0] /\ upto[C] = 0
    BY TheTopic DEF Init, log, C
  <1>2. DOMAIN log = {} /\ DataOf(log) = {} /\ Wanted = {}
    BY <1>1 DEF DataOf, Wanted
  <1>3. TypeOK
    BY <1>1, <1>2, RecoveryAssumption DEF Init, TypeOK, C
  <1>4. Complete
    BY <1>2 DEF Complete
  <1>5. LogInv
    <2>1. topic \in [Channels -> Seq(Entry)] /\ \A c \in Channels \ {C} : topic[c] = <<>>
      BY <1>1
    <2> QED
      BY <1>2, <2>1 DEF LogInv, LogTypes, TickOrder, CopiesOf, KeysInOrder
  <1>6. WindowInv /\ WorkInv /\ CoverInv /\ MineInv
    BY <1>1, <1>2 DEF Init, WindowInv, WorkInv, CoverInv, MineInv
  <1>7. RowsInv
    BY DEF Init, RowsInv, SourceKeys
  <1> QED
    BY <1>3, <1>4, <1>5, <1>6, <1>7 DEF IInv, MainInv

\* Every step keeps the invariant.
LEMMA StepInv == IInv /\ [Next]_vars => IInv'
  <1> SUFFICES ASSUME IInv, [Next]_vars PROVE IInv'
    OBVIOUS
  <1>1. Grown /\ clock' \in 0..MaxTs /\ MineInv'
    BY LogStep
  <1>2. Complete
    BY DEF IInv
  <1>3. WindowInv' /\ WorkInv' /\ CoverInv' /\ RowsInv' /\ Complete'
    <2>1. CASE PublishTick \/ (\E p \in Payloads : PublishData(p)) \/ PublishCopy
      <3>1. /\ UNCHANGED <<upto, pc, startTime, autoIDFieldName, todo, handled, failed, rows, dropAt>>
            /\ running
        BY <2>1 DEF PublishTick, PublishData, PublishCopy, work
      <3>2. Complete'
        BY <3>1 DEF Complete, running
      <3> QED
        BY <1>1, <3>1, <3>2, IdleStep
    <2>2. CASE Start \/ Setup
      <3>1. Complete'
        BY <2>2 DEF Start, Setup, Complete
      <3> QED
        BY <2>2, <3>1, StartStep
    <2>3. CASE Receive
      BY <2>3, ReceiveStep
    <2>4. CASE HandleMsg
      BY <1>1, <2>4, HandleStep
    <2>5. CASE UNCHANGED vars
      <3>1. UNCHANGED <<topic, upto, pc, startTime, autoIDFieldName, todo, handled, failed, rows, dropAt>>
        BY <2>5 DEF vars, work
      <3>2. log' = log
        BY <3>1 DEF log
      <3>3. Complete'
        BY <1>2, <3>1, <3>2 DEF Complete, Wanted
      <3> QED
        BY <1>1, <3>1, <3>3, IdleStep
    <2> QED
      BY <2>1, <2>2, <2>3, <2>4, <2>5 DEF Next
  <1>4. TypeOK'
    BY <1>1, <1>3, TypeStep
  <1> QED
    BY <1>1, <1>3, <1>4 DEF IInv, MainInv, Grown

\* So it holds always.
LEMMA Always == Spec => []IInv
  BY InitInv, StepInv, PTL DEF Spec

-------------------------------------------------------------------------------
(* The theorems. *)

\* The recovery program (main of cmd/main.go) stops only after all that it owes: when it
\* says the recovery is done it has come to every message of the collection from before
\* the second it was started in, and at a drop to every one logged before it and older;
\* every row it writes has a key.
THEOREM RecoveryCorrect == Spec => []RecoveryInv
  <1>1. IInv => RecoveryInv
    BY DEF IInv, RecoveryInv
  <1> QED
    BY <1>1, Always, PTL

\* Between two packs, and while no call has failed, the target holds exactly the keys
\* that the source held at the tick the last pack ended at.
THEOREM ReplayCorrect == Spec => []Replayed
  <1>1. IInv => Replayed
    <2> SUFFICES ASSUME IInv, pc = "read", todo = {}, failed = {}, autoIDFieldName = "other"
                 PROVE  {r.pk : r \in rows} = SourceKeys({o \in Wanted : log[o].end <= upto[C]})
      BY DEF Replayed, C
    <2> DEFINE S == {o \in Wanted : log[o].end <= upto[C]}
               Last(T) == {i \in T : /\ log[i].type = "Insert"
                                     /\ \A j \in T : log[j].key = log[i].key => log[j].end <= log[i].end}
    <2>1. {r.pk : r \in rows} = SourceKeys(handled)
      BY InvFacts DEF RowsInv
    <2>2. handled \subseteq S
      BY InvFacts DEF WorkInv
    <2>3. \A o \in S : log[o].id \in handled /\ log[log[o].id] = log[o]
      <3>1. \A o \in S : log[o].id \in handled
        BY InvFacts DEF CoverInv
      <3>2. \A o \in S : o \in DataOf(log)
        BY DEF Wanted, DataOf, isDMLMsg, isData
      <3>3. \A o \in DataOf(log) : log[log[o].id] = log[o]
        BY InvFacts DEF LogInv, CopiesOf
      <3> QED
        BY <3>1, <3>2, <3>3
    <2>4. SourceKeys(handled) = {log[i].key : i \in Last(handled)} /\ SourceKeys(S) = {log[i].key : i \in Last(S)}
      BY DEF SourceKeys
    <2> HIDE DEF S
    <2>5. \A i \in Last(handled) : i \in Last(S)
      <3> SUFFICES ASSUME NEW i \in Last(handled), NEW j \in S, log[j].key = log[i].key
                   PROVE  log[j].end <= log[i].end
        BY <2>2
      <3>1. PICK k \in handled : log[k] = log[j]
        BY <2>3
      <3> QED
        BY <3>1
    <2>6. \A i \in Last(S) : log[i].id \in Last(handled) /\ log[log[i].id] = log[i]
      <3> SUFFICES ASSUME NEW i \in Last(S) PROVE log[i].id \in Last(handled) /\ log[log[i].id] = log[i]
        OBVIOUS
      <3>1. PICK k \in handled : k = log[i].id /\ log[k] = log[i]
        BY <2>3
      <3>2. k \in Last(handled)
        BY <2>2, <3>1
      <3> QED
        BY <3>1, <3>2
    <2> HIDE DEF Last
    <2>7. SourceKeys(handled) = SourceKeys(S)
      BY <2>4, <2>5, <2>6
    <2> QED
      BY <2>1, <2>7 DEF S
  <1> QED
    BY <1>1, Always, PTL

\* main never works on a message that its own calls wrote into the topic, however far its
\* last pack reaches past the start time.
THEOREM EchoIgnored == Spec => []NoEcho
  <1>1. IInv => NoEcho
    <2> SUFFICES ASSUME IInv, TargetID # collectionID, NEW o \in mine, o \in handled PROVE FALSE
      BY DEF NoEcho
    <2>1. log[o].coll = TargetID
      BY DEF IInv, MainInv, MineInv
    <2>2. log[o].coll = collectionID
      BY DEF IInv, MainInv, WorkInv, Wanted
    <2> QED
      BY <2>1, <2>2
  <1> QED
    BY <1>1, Always, PTL

-------------------------------------------------------------------------------
(* What main takes from its stream. *)

\* TickDelivery speaks of logs in the same words.
LEMMA SameWords ==
    /\ \A t, lo, hi : TD!Between(t, lo, hi) = Between(t, lo, hi)
    /\ \A t, D, S : TD!StandsFor(t, D, S) <=> StandsFor(t, D, S)
    /\ \A t, D : TD!NoCopies(t, D) <=> NoCopies(t, D)
    /\ \A l : TD!TickPromise(l) <=> TickPromise(l)
    /\ \A t : TD!CopiesAgree(t) <=> CopiesAgree(t)
  BY DEF TD!Between, Between, TD!StandsFor, StandsFor, TD!NoCopies, NoCopies, TD!isDMLMsg, isDMLMsg,
     TD!DataOf, DataOf, TD!isData, isData, TD!TickPromise, TickPromise, TD!CopiesAgree, CopiesAgree,
     TD!isTimeTick, isTimeTick

\* The producers keep their promises.
LEMMA PromisesKept == LogInv /\ clock \in Nat => TickPromise(log) /\ CopiesAgree(topic)
  <1> SUFFICES ASSUME LogInv, clock \in Nat PROVE TickPromise(log) /\ CopiesAgree(topic)
    OBVIOUS
  <1>1. /\ LogTypes /\ TickOrder /\ CopiesOf
        /\ \A o \in DOMAIN log : log[o].begin = log[o].end /\ log[o].end \in 1..clock /\ o \in Nat
    BY LogFacts DEF LogInv
  <1>2. TickPromise(log)
    BY <1>1 DEF TickPromise, TickOrder
  <1>3. CopiesAgree(topic)
    <2> SUFFICES ASSUME NEW c \in Channels, NEW d \in Channels, NEW o \in DataOf(topic[c]),
                        NEW p \in DataOf(topic[d]), topic[c][o].id = topic[d][p].id
                 PROVE  topic[c][o].type = topic[d][p].type /\ topic[c][o].end = topic[d][p].end
      BY DEF CopiesAgree
    <2>1. c = C /\ d = C
      <3>1. \A e \in Channels \ {C} : DataOf(topic[e]) = {}
        <4> SUFFICES ASSUME NEW e \in Channels \ {C} PROVE DataOf(topic[e]) = {}
          OBVIOUS
        <4>1. topic[e] = <<>>
          BY <1>1 DEF LogTypes
        <4> QED
          BY <4>1 DEF DataOf
      <3> QED
        BY <3>1
    <2>2. topic[C] = log
      BY DEF log, C
    <2>3. \A q \in DataOf(log) : log[log[q].id] = log[q]
      BY <1>1 DEF CopiesOf
    <2>4. log[o] = log[p]
      BY <2>1, <2>2, <2>3
    <2> QED
      BY <2>1, <2>2, <2>4
  <1> QED
    BY <1>2, <1>3

\* Also after a step.
LEMMA PromisesKeptNext == (LogInv /\ clock \in Nat => TickPromise(log) /\ CopiesAgree(topic))'
  BY PromisesKept, PTL

\* A message that is written is one that TickDelivery lets a producer publish.
LEMMA WritePublishes ==
    ASSUME IInv, Grown, NEW m, Write(m), UNCHANGED <<upto, applied>>
    PROVE  TD!Publish
  <1>1. LogTypes /\ C \in Channels
    BY InvFacts, TheTopic
  <1>2. TickPromise(log') /\ CopiesAgree(topic')
    <2>1. LogInv' /\ clock' \in Nat
      BY DEF Grown
    <2> QED
      BY <2>1, PromisesKeptNext
  <1>3. log' = topic'[C] /\ log = topic[C]
    BY DEF log, C
  <1>4. log' = Append(log, m) /\ log \in Seq(Entry)
    BY <1>1, WriteFacts, LogFacts
  <1>5. Len(log') = Len(log) + 1 /\ log'[Len(log')] = m
    BY <1>4
  <1>6. topic' = [topic EXCEPT ![C] = Append(topic[C], topic'[C][Len(topic'[C])])]
    BY <1>3, <1>5 DEF Write, C
  <1> QED
    BY <1>1, <1>2, <1>3, <1>5, <1>6, SameWords DEF TD!Publish

\* A pack is a delivery.
LEMMA ReceiveDelivers ==
    ASSUME IInv, Receive
    PROVE  TD!Next
  <1>1. LogInv /\ LogTypes /\ WindowInv /\ clock \in Nat /\ C \in Channels
    BY InvFacts, TheTopic
  <1>2. PICK t \in ticks :
          /\ t > upto[C] /\ upto' = [c \in Channels |-> t]
          /\ applied' = applied \cup {C} \X packMsgs(upto, t)
    BY DEF Receive, C
  <1>3. topic' = topic
    BY DEF Receive
  <1>4. \A c \in Channels : t > upto[c]
    BY <1>1, <1>2 DEF WindowInv
  <1>5. \A o : o \in packMsgs(upto, t) <=>
               /\ o \in DataOf(log) /\ log[o].id = o /\ upto[C] < log[o].end /\ log[o].end <= t
    BY <1>1, PackFacts
  <1>6. \A r : r \in Between(topic, upto, t) <=>
               \E o \in DataOf(log) : r = <<C, o>> /\ upto[C] < log[o].end /\ log[o].end <= t
    BY <1>1, WindowFacts
  <1>7. \A o \in DataOf(log) : /\ log[o].id \in DOMAIN log /\ log[log[o].id] = log[o]
                               /\ log[o].id # o => isDMLMsg(log[o])
    BY <1>1 DEF LogInv, CopiesOf
  <1> DEFINE D == {C} \X packMsgs(upto, t)
             W == Between(topic, upto, t)
  <1>8. \A r \in D : \E o \in packMsgs(upto, t) : r = <<C, o>> /\ topic[r[1]][r[2]] = log[o]
    BY DEF log, C
  <1>9. \A r \in W : \E o \in DataOf(log) : /\ r = <<C, o>> /\ topic[r[1]][r[2]] = log[o]
                                            /\ upto[C] < log[o].end /\ log[o].end <= t
    BY <1>6 DEF log, C
  <1>10. D \subseteq W
    BY <1>5, <1>6, <1>8
  <1>11. StandsFor(topic, D, W)
    <2> SUFFICES ASSUME NEW r \in W, r \notin D
                 PROVE  /\ isDMLMsg(topic[r[1]][r[2]])
                        /\ \E d \in D : topic[d[1]][d[2]].id = topic[r[1]][r[2]].id
      BY <1>10 DEF StandsFor
    <2>1. PICK o \in DataOf(log) : /\ r = <<C, o>> /\ topic[r[1]][r[2]] = log[o]
                                   /\ upto[C] < log[o].end /\ log[o].end <= t
      BY <1>9
    <2>2. log[o].id # o
      BY <1>5, <2>1
    <2> PICK i : i = log[o].id
      OBVIOUS
    <2>3. i \in DataOf(log) /\ log[i] = log[o]
      BY <1>7 DEF DataOf
    <2>4. i \in packMsgs(upto, t)
      BY <1>5, <2>1, <2>3
    <2>5. <<C, i>> \in D /\ topic[<<C, i>>[1]][<<C, i>>[2]] = log[i]
      BY <2>4 DEF log, C
    <2>6. isDMLMsg(log[o])
      BY <1>7, <2>2
    <2> HIDE DEF D
    <2>7. topic[<<C, i>>[1]][<<C, i>>[2]].id = topic[r[1]][r[2]].id
      BY <2>1, <2>3, <2>5
    <2> QED
      BY <2>1, <2>5, <2>6, <2>7
  <1>12. NoCopies(topic, D)
    <2> SUFFICES ASSUME NEW r \in D, NEW s \in D, topic[r[1]][r[2]].id = topic[s[1]][s[2]].id
                 PROVE  r = s
      BY DEF NoCopies
    <2>1. PICK o \in packMsgs(upto, t) : r = <<C, o>> /\ topic[r[1]][r[2]] = log[o]
      BY <1>8
    <2>2. PICK q \in packMsgs(upto, t) : s = <<C, q>> /\ topic[s[1]][s[2]] = log[q]
      BY <1>8
    <2>3. log[o].id = o /\ log[q].id = q
      BY <1>5
    <2> QED
      BY <2>1, <2>2, <2>3
  <1>13. t \in TD!Ticks
    <2>1. PICK o \in DOMAIN log : isTimeTick(log[o]) /\ t = log[o].begin
      BY DEF ticks
    <2>2. topic[C] = log
      BY DEF log, C
    <2> QED
      BY <1>1, <2>1, <2>2 DEF TD!Ticks, TD!isTimeTick, isTimeTick
  <1>14. TD!Deliver(t)
    <2>1. D \in SUBSET TD!Between(topic, upto, t)
      BY <1>10, SameWords
    <2>2. TD!StandsFor(topic, D, TD!Between(topic, upto, t)) /\ TD!NoCopies(topic, D)
      BY <1>11, <1>12, SameWords
    <2>3. applied' = applied \cup D
      BY <1>2
    <2> HIDE DEF D
    <2> QED
      BY <1>2, <1>3, <1>4, <2>1, <2>2, <2>3 DEF TD!Deliver
  <1> QED
    BY <1>13, <1>14 DEF TD!Next

\* What main takes from its stream is a delivery of the topic tick by tick, while the
\* producers, and main's own calls, go on writing to it.
THEOREM WindowsTaken == Spec => TakesWindows
  <1>1. Init => TD!Init
    BY DEF Init, TD!Init
  <1>2. IInv /\ [Next]_vars => [TD!Next]_(TD!vars)
    <2> SUFFICES ASSUME IInv, [Next]_vars PROVE [TD!Next]_(TD!vars)
      OBVIOUS
    <2>1. Grown
      BY LogStep
    <2>2. CASE Receive
      BY <2>2, ReceiveDelivers
    <2>3. ASSUME UNCHANGED <<upto, applied>>, \E m : Write(m) PROVE TD!Next
      BY <2>1, <2>3, WritePublishes DEF TD!Next
    <2>4. CASE PublishTick
      BY <2>3, <2>4 DEF PublishTick
    <2>5. CASE \E p \in Payloads : PublishData(p)
      BY <2>3, <2>5 DEF PublishData
    <2>6. CASE PublishCopy
      BY <2>3, <2>6 DEF PublishCopy
    <2>7. CASE HandleMsg
      <3>1. UNCHANGED <<upto, applied>>
        BY <2>7 DEF HandleMsg
      <3>2. \A type, key : Echo(type, key) => topic' = topic \/ \E m : Write(m)
        BY DEF Echo
      <3>3. \A o : Insert(o) \/ Delete(o) => topic' = topic \/ \E m : Write(m)
        BY <3>2 DEF Insert, Delete
      <3>4. topic' = topic \/ \E m : Write(m)
        BY <2>7, <3>3 DEF HandleMsg
      <3> QED
        BY <2>3, <3>1, <3>4 DEF TD!vars
    <2>8. CASE Start \/ Setup \/ UNCHANGED vars
      BY <2>8 DEF Start, Setup, vars, TD!vars
    <2> QED
      BY <2>2, <2>4, <2>5, <2>6, <2>7, <2>8 DEF Next
  <1> QED
    BY <1>1, <1>2, Always, PTL DEF Spec, TakesWindows, TD!Spec
===============================================================================
