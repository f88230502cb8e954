------------------------------- MODULE Recovery -------------------------------
(***************************************************************************)
(* The recovery program (cmd/main.go): it seeks a tick stream to a saved    *)
(* position of one topic and calls Insert and DeleteByPks on a target       *)
(* Milvus for the messages of one collection, until a pack begins at or     *)
(* after the second the program was started in, or the collection was       *)
(* dropped.                                                                *)
(*                                                                         *)
(* The stream is the one TickDelivery promises (TtMsgStream implements it). *)
(* The topic stays in use: producers append to it while the program runs,   *)
(* and so does the target Milvus when it is the one that owns the topic.    *)
(***************************************************************************)
EXTENDS MsgLog, FiniteSetsExt

CONSTANTS
    Payloads,       \* what producers write: type, collection id and name, primary key
    collectionID, collectionName,   \* the flags of these names
    TargetID,       \* the id of the collection of that name in the target
    TsPerSec,       \* timestamps in one second
    MaxTs,          \* bound on the timestamps; the last two are left to ticks
    MaxData,        \* bound on the messages the producers write
    MaxFails        \* bound on the conversions and calls that fail

Payload == [type : {"Insert", "Delete", "DropCollection"}, coll : Nat, name : STRING, key : Nat]

ASSUME RecoveryAssumption ==
    /\ Payloads \subseteq Payload
    /\ TsPerSec \in Nat \ {0} /\ MaxTs \in Nat \ {0, 1}
    /\ {collectionID, TargetID, MaxData, MaxFails} \subseteq Nat
    /\ collectionName \in STRING /\ Channels # {}

\* The flag auto_id_field_name, as far as it matters: left empty, the name of the
\* primary key field, or a name no field has.  The fields of an InsertMsg.
Empty   == ""
AutoIDs == {Empty, "pk", "other"}
Fields  == {"pk", "vec"}

VARIABLES
    topic,      \* the log of the topic; a message also says coll, name and key
    clock,      \* the last timestamp the timestamp oracle gave out
    upto,       \* lastTimeStamp of the stream: the tick its last pack ended at
    applied,    \* history: the messages handed out in packs
    pc,         \* where main is
    startTime, autoIDFieldName,
    todo,       \* the offsets of the current pack still to be looked at
    handled,    \* history: the matching messages main came to
    failed,     \* history: those of them that were reported as failed
    rows,       \* the target collection: primary key, and the message it came from
    mine,       \* history: the messages the target wrote into the topic
    dropAt,     \* history: the drop that ended the recovery (0: none)
    written, fails  \* counters for the bounds

work == <<handled, failed, rows, mine, fails>>
vars == <<topic, clock, upto, applied, pc, startTime, autoIDFieldName, todo, work,
          dropAt, written>>

TheChannel == CHOOSE c \in Channels : TRUE
log == topic[TheChannel]

\* ParseTS(ts), as Unix seconds: milliseconds above the logical bits, in seconds.
seconds(ts) == ts \div TsPerSec

Message(p, id, ts) ==
    [type |-> p.type, id |-> id, begin |-> ts, end |-> ts, size |-> 1,
     coll |-> p.coll, name |-> p.name, key |-> p.key]

Write(m) == topic' = [topic EXCEPT ![TheChannel] = Append(@, m)]

Init ==
    /\ topic = [c \in Channels |-> <<>>]
    /\ clock = 0
    /\ upto = [c \in Channels |-> 0] /\ applied = {}
    /\ pc = "flags" /\ startTime = 0
    /\ autoIDFieldName \in AutoIDs
    /\ todo = {} /\ handled = {} /\ failed = {}
    /\ rows = {} /\ mine = {} /\ dropAt = 0
    /\ written = 0 /\ fails = 0
-------------------------------------------------------------------------------
(* The topic. *)

ticks == {log[o].begin : o \in {i \in DOMAIN log : isTimeTick(log[i])}}
lastTick == Max(ticks \cup {0})

\* Nobody looks at the topic once main has ended.
running == pc \notin {"done", "panic"}

\* External: the tick sender announces the current time.
PublishTick ==
    /\ running /\ clock < MaxTs
    /\ clock' = clock + 1
    /\ Write(Message([type |-> "TimeTick", coll |-> 0, name |-> Empty, key |-> 0], 0, clock + 1))
    /\ UNCHANGED <<upto, applied, pc, startTime, autoIDFieldName, todo, work, dropAt, written>>

\* External: a producer writes a message with a timestamp it got since the last
\* tick.  Messages of one primary key are written in the order of their timestamps;
\* others need not be.
PublishData(p) ==
    /\ running /\ written < MaxData /\ written' = written + 1
    /\ \E ts \in (lastTick + 1)..(MaxTs - 2) :
          /\ ts <= clock + 1
          /\ \A o \in DOMAIN log : isData(log[o]) /\ log[o].key = p.key => log[o].end < ts
          /\ clock' = Max({clock, ts})
          /\ Write(Message(p, Len(log) + 1, ts))
    /\ UNCHANGED <<upto, applied, pc, startTime, autoIDFieldName, todo, work, dropAt>>

\* External: a producer that got no answer writes its message again.
PublishCopy ==
    /\ running /\ written < MaxData /\ written' = written + 1
    /\ \E o \in DOMAIN log : /\ isDMLMsg(log[o]) /\ log[o].end > lastTick
                             /\ Write(log[o])
                             /\ mine' = IF o \in mine THEN mine \cup {Len(log) + 1} ELSE mine
    /\ UNCHANGED <<clock, upto, applied, pc, startTime, autoIDFieldName, todo, handled,
                   failed, rows, fails, dropAt>>

\* External: the target, which owns the topic, logs a call it has executed.
Echo(type, key) ==
    IF clock + 1 <= MaxTs - 2
    THEN /\ clock' = clock + 1
         /\ Write(Message([type |-> type, coll |-> TargetID, name |-> collectionName,
                           key |-> key], Len(log) + 1, clock + 1))
         /\ mine' = mine \cup {Len(log) + 1}
    ELSE UNCHANGED <<topic, clock, mine>>
-------------------------------------------------------------------------------
(* main *)

\* flag.Parse, startTime, and the position: decoded, and for this topic.
Start ==
    /\ pc = "flags" /\ clock <= MaxTs - 2
    /\ startTime' = seconds(clock)
    /\ pc' \in {"setup", "panic"}
    /\ UNCHANGED <<topic, clock, upto, applied, autoIDFieldName, todo, work, dropAt, written>>

\* AsConsumer, Seek to the first message, NewClient: the first that fails panics.
Setup ==
    /\ pc = "setup" /\ pc' \in {"read", "panic"}
    /\ UNCHANGED <<topic, clock, upto, applied, startTime, autoIDFieldName, todo, work,
                   dropAt, written>>

\* timeOfBegin.Unix() >= startTime, for a pack over (begin, end].
recoverDoneAtEnd(begin, end) == seconds(end) >= startTime       \* mutant
recoverDoneNow(begin, end) == seconds(begin) >= seconds(clock)  \* mutant
recoverDone(begin, end) == seconds(begin) >= startTime

\* The messages of a pack over (begin, end]: of copies the first.
packMsgsAll(begin, end) == {r[2] : r \in Between(topic, begin, end)}   \* mutant
packMsgs(begin, end) ==
    LET S == {r[2] : r \in Between(topic, begin, end)}
    IN {o \in S : isDMLMsg(log[o]) => \A q \in S : log[q].id = log[o].id => o <= q}

\* The order of a pack's messages: cut tick by tick, each cut in log order.
cut(o) == Min({t \in ticks : t >= log[o].end})
precedes(o, q) == cut(o) < cut(q) \/ (cut(o) = cut(q) /\ o < q)

\* A pack arrives: the next window of the stream.  The stream never closes Chan: only
\* Close does, which main does not call once it reads.  The last tick stands for all
\* that follow: no window ends at it that begins before its predecessor.
Receive ==
    /\ pc = "read" /\ todo = {}
    /\ \E t \in ticks :
          /\ t > upto[TheChannel] /\ (t = MaxTs => upto[TheChannel] = MaxTs - 1)
          /\ applied' = applied \cup {TheChannel} \X packMsgs(upto, t)
          /\ IF recoverDone(upto[TheChannel], t)
             THEN pc' = "done" /\ UNCHANGED todo
             ELSE todo' = packMsgs(upto, t) /\ UNCHANGED pc
          /\ upto' = [c \in Channels |-> t]
    /\ UNCHANGED <<topic, clock, startTime, autoIDFieldName, work, dropAt, written>>

\* *collectionID != imsgCollID || *collectionName != imsgColname: continue
isNamed(m) == m.name = collectionName   \* mutant
isMine(m) == m.coll = collectionID /\ m.name = collectionName

\* The columns of an insert.
columns == {f \in Fields : autoIDFieldName # Empty /\ f # autoIDFieldName}

\* The key of a row in the target: the one sent, or (0) one the target made up.
rowKeyUnset(m) == IF "pk" \in columns THEN m.key ELSE -1   \* mutant
rowKey(m) == IF "pk" \in columns THEN m.key ELSE 0

\* A failure of the conversion, of the call, or of its answer.
Fail(o) == fails < MaxFails /\ fails' = fails + 1 /\ failed' = failed \cup {o}

\* An Insert of the collection, message o of the log.
Insert(o) ==
    \/ /\ columns # {}
       /\ rows' = rows \cup {[pk |-> rowKey(log[o]), of |-> o]}
       /\ Echo("Insert", rowKey(log[o]))
       /\ Fail(o) \/ UNCHANGED <<fails, failed>>
    \/ /\ columns # {} /\ Fail(o)
       /\ UNCHANGED <<topic, clock, rows, mine>>
    \/ /\ columns = {}  \* the target refuses an insert without columns
       /\ failed' = failed \cup {o}
       /\ UNCHANGED <<topic, clock, rows, mine, fails>>

\* A Delete of the collection.
Delete(o) ==
    \/ /\ rows' = {r \in rows : r.pk # log[o].key}
       /\ Echo("Delete", log[o].key)
       /\ Fail(o) \/ UNCHANGED <<fails, failed>>
    \/ Fail(o) /\ UNCHANGED <<topic, clock, rows, mine>>

\* The message of the pack that main comes to next.
nextMsg == CHOOSE o \in todo : \A q \in todo \ {o} : precedes(o, q)

\* The next message of the pack: a switch on its type.
HandleMsg ==
    /\ pc = "read" /\ todo # {}
    /\ LET o == nextMsg IN
       \/ /\ isDMLMsg(log[o]) /\ isMine(log[o])
          /\ \/ log[o].type = "Insert" /\ Insert(o)
             \/ log[o].type = "Delete" /\ Delete(o)
          /\ handled' = handled \cup {o}
          /\ todo' = todo \ {o}
          /\ UNCHANGED <<pc, dropAt>>
       \/ /\ log[o].type = "DropCollection" /\ log[o].coll = collectionID
          /\ pc' = "done" /\ dropAt' = o /\ todo' = {}
          /\ UNCHANGED <<topic, clock, work>>
       \/ /\ IF isDMLMsg(log[o]) THEN ~isMine(log[o]) ELSE log[o].coll # collectionID
          /\ todo' = todo \ {o}
          /\ UNCHANGED <<topic, clock, work, pc, dropAt>>
    /\ UNCHANGED <<upto, applied, startTime, autoIDFieldName, written>>

Next == \/ PublishTick \/ (\E p \in Payloads : PublishData(p)) \/ PublishCopy
        \/ Start \/ Setup \/ Receive \/ HandleMsg

\* The tick sender never stops, and the program runs.
Fairness == /\ WF_vars(PublishTick) /\ WF_vars(Start) /\ WF_vars(Setup)
            /\ WF_vars(Receive) /\ WF_vars(HandleMsg)

Spec == Init /\ [][Next]_vars /\ Fairness
-------------------------------------------------------------------------------
TypeOK ==
    /\ \A o \in DOMAIN log : log[o].type \in MsgType /\ log[o].end \in 1..MaxTs
    /\ clock \in 0..MaxTs /\ upto[TheChannel] \in 0..clock
    /\ pc \in {"flags", "setup", "read", "done", "panic"}
    /\ todo \cup handled \subseteq DOMAIN log
    /\ failed \subseteq handled /\ mine \subseteq DOMAIN log
    /\ rows \subseteq [pk : Nat, of : DOMAIN log]
    /\ written \in 0..MaxData /\ fails \in 0..MaxFails

\* The messages of the collection, by the flags' words.
Wanted == {o \in DOMAIN log : isDMLMsg(log[o]) /\ log[o].coll = collectionID
                                              /\ log[o].name = collectionName}

\* When main says the recovery is done, it has come to every message of the
\* collection (or a copy of it) that is older than the second it was started in; when
\* it stops at a drop, to every one that is older than the drop and was logged before
\* it.  It may have gone further: the last pack it works on begins before that second.
Complete ==
    pc = "done" =>
        \A o \in Wanted :
            (IF dropAt = 0 THEN seconds(log[o].end) < startTime
                           ELSE o < dropAt /\ log[o].end < log[dropAt].end)
               => \E h \in handled : log[h].id = log[o].id

\* The invariant of main: variables have their types, with every row it writes under a
\* key (TypeOK), and it stops only after all that it owes (Complete).
RecoveryInv == TypeOK /\ Complete

\* The keys the source collection holds of messages S: their last message is an Insert.
SourceKeys(S) ==
    {log[o].key : o \in {i \in S : /\ log[i].type = "Insert"
                                   /\ \A j \in S : log[j].key = log[i].key =>
                                                      log[j].end <= log[i].end}}

\* Whenever a pack is done and no call failed, the target holds the keys the source
\* held at the tick the pack ended at - whatever windows the stream cut, in whatever
\* order unrelated messages were logged, and whichever copy of a message it kept.
\* Only for a collection with primary keys of its own: an auto_id_field_name that
\* names the key drops the key, and a later Delete finds no row.
Replayed ==
    (pc = "read" /\ todo = {} /\ failed = {} /\ autoIDFieldName = "other") =>
        {r.pk : r \in rows} = SourceKeys({o \in Wanted : log[o].end <= upto[TheChannel]})

\* main never works on a message that its own calls wrote into the topic (the target
\* has another collection of the same name there), although its last pack may reach
\* past the start time.
NoEcho == TargetID # collectionID => mine \cap handled = {}

\* Once started, main comes to an end, whatever fails on the way and whatever it writes itself.
Terminates == pc = "setup" ~> pc \in {"done", "panic"}

\* What main takes from its stream is a tick delivery of the growing topic.
TD == INSTANCE TickDelivery WITH Topics <- {[c \in Channels |-> <<>>]}
TakesWindows == TD!Spec
-------------------------------------------------------------------------------
(* For TLC: recovery of collection 1, called "x".  The topic also carries        *)
(* collection 2, which took over its name, and messages from before it was renamed. *)

DML(type, coll, name, key) == [type |-> type, coll |-> coll, name |-> name, key |-> key]

SomePayloads == {DML("Insert", 1, "x", 1), DML("Delete", 1, "x", 1), DML("Delete", 2, "x", 1),
                 DML("Insert", 1, "old", 2), DML("DropCollection", 1, "x", 3)}
===============================================================================
