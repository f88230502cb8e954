-------------------------------- MODULE Stamps --------------------------------
(***************************************************************************)
(* What tells a message apart and orders it: its header                     *)
(* (pkg/util/commonpbutil), made and changed by options that are applied    *)
(* one after the other; its id as pulsar gives it                           *)
(* (mqwrapper/pulsar/pulsar_id.go), of a ledger, an entry in it and a place *)
(* in the entry's batch; its hybrid timestamp (pkg/util/tsoutil/tso.go),    *)
(* milliseconds above a logical counter of LogicalBits bits, in an unsigned *)
(* word of Bits bits (18 and 64 in the code).  The three have nothing in    *)
(* common but the message, so a behaviour moves one of them.                *)
(***************************************************************************)
EXTENDS Integers, Sequences, SequencesExt

CONSTANTS
    Values,      \* what options set a field to; 0 is the value of an unset field
    Client,      \* the source that FillMsgBaseFromClient fills in
    Now,         \* GetNowTimestamp()
    MaxLedger, MaxEntry, MaxBatch,
    LogicalBits, Bits, Day, Durations, MaxPhysical

VARIABLES
    base,     \* the header: a number for each field; NoBase before it is made
    given,    \* history: the options given so far
    updated,  \* UpdateMsgBase was called
    topic,    \* the ids in the order the messages were published
    ts, earlier, physical   \* a timestamp, the one before; history: the milliseconds meant
vars == <<base, given, updated, topic, ts, earlier, physical>>
header == <<base, given, updated>>
clock == <<ts, earlier, physical>>
-------------------------------------------------------------------------------
(* Headers *)

MsgFields == {"MsgType", "MsgID", "Timestamp", "SourceID", "TargetID"}
With(field, value) == [opt |-> "With", field |-> field, value |-> value]
Fill(field, value) == [opt |-> "Fill", field |-> field, value |-> value]

\* FillMsgBaseFromClient fills what is unset and then applies its own option, if it has one.
Options == {With(f, v) : f \in MsgFields, v \in Values}
           \cup {Fill(f, v) : f \in MsgFields, v \in Values} \cup {Fill("none", 0)}

unset(b, field) == b[field] = 0
fillAlways(b) == [b EXCEPT !["Timestamp"] = Now, !["SourceID"] = Client]      \* mutant
fillUnset(b) ==
    [b EXCEPT !["Timestamp"] = IF unset(b, "Timestamp") THEN Now ELSE @,
              !["SourceID"] = IF unset(b, "SourceID") THEN Client ELSE @]

set(b, o) == IF o.field = "none" THEN b ELSE [b EXCEPT ![o.field] = o.value]
apply(b, o) == set(IF o.opt = "Fill" THEN fillUnset(b) ELSE b, o)
applyAll(b, options) == FoldLeft(apply, b, options)

NoBase == [f \in MsgFields |-> -1]
newMsgBaseDefault == [f \in MsgFields |-> 0]

-------------------------------------------------------------------------------
(* Ids.  The broker starts the entry and the batch again with every ledger and entry. *)

Id(l, e, b) == [ledger |-> l, entry |-> e, batch |-> b]
First == Id(0, 0, 0)
Garbage == Id(-1, -1, -1)     \* bytes that DeserializeMessageID refuses

AtEarliestPosition(id) == id.ledger <= 0 /\ id.entry <= 0 /\ id.batch <= 0

deserializes(bytes) == bytes # Garbage
lessByEntry(id, bytes) ==                                                      \* mutant
    IF ~deserializes(bytes) THEN "error" ELSE id.entry <= bytes.entry
LessOrEqualThan(id, bytes) ==
    IF ~deserializes(bytes) THEN "error"
    ELSE id.ledger <= bytes.ledger /\ id.entry <= bytes.entry /\ id.batch <= bytes.batch
equalByEntry(id, bytes) ==                                                     \* mutant
    IF ~deserializes(bytes) THEN "error" ELSE id.ledger = bytes.ledger /\ id.entry = bytes.entry
Equal(id, bytes) ==
    IF ~deserializes(bytes) THEN "error"
    ELSE id.ledger = bytes.ledger /\ id.entry = bytes.entry /\ id.batch = bytes.batch
-------------------------------------------------------------------------------
(* Timestamps *)

Word == 2 ^ Bits
Logicals == 2 ^ LogicalBits
wrap(x) == x % Word     \* the conversion to uint64

ComposeTS(p, l) == wrap(p * Logicals + l)
ParseHybridTs(t) == <<t \div Logicals, t % Logicals>>
CalculateDuration(t1, t2) == ParseHybridTs(t1)[1] - ParseHybridTs(t2)[1]
Mod24H(t) == ((ParseHybridTs(t)[1] % Day) * Logicals) + ParseHybridTs(t)[2]
addToWhole(t, msecs) == wrap(t + msecs)                                           \* mutant
AddPhysicalDurationOnTs(t, msecs) == ComposeTS(ParseHybridTs(t)[1] + msecs, ParseHybridTs(t)[2])
-------------------------------------------------------------------------------
Init ==
    /\ base = NoBase /\ given = <<>> /\ updated = FALSE
    /\ topic = <<>>
    /\ physical = 0 /\ ts = ComposeTS(0, 0) /\ earlier = ts

SomeOptions == {<<>>} \cup {<<o>> : o \in Options} \cup {<<o, p>> : o, p \in Options}
NewMsgBase ==
    /\ base = NoBase
    /\ given' \in SomeOptions
    /\ base' = applyAll(newMsgBaseDefault, given')
    /\ UNCHANGED <<updated, topic, clock>>

\* In place; a missing header stays missing.
UpdateMsgBase ==
    /\ base # NoBase /\ ~updated /\ updated' = TRUE
    /\ \E o \in Options : base' = apply(base, o) /\ given' = Append(given, o)
    /\ UNCHANGED <<topic, clock>>

\* The broker puts the next message into the batch, a new entry or a new ledger.
Publish ==
    LET last == topic[Len(topic)] IN
    /\ \/ /\ topic = <<>> /\ topic' = <<First>>
       \/ /\ topic # <<>> /\ last.batch < MaxBatch
          /\ topic' = Append(topic, [last EXCEPT !.batch = @ + 1])
       \/ /\ topic # <<>> /\ last.entry < MaxEntry
          /\ topic' = Append(topic, Id(last.ledger, last.entry + 1, 0))
       \/ /\ topic # <<>> /\ last.ledger < MaxLedger
          /\ topic' = Append(topic, Id(last.ledger + 1, 0, 0))
    /\ UNCHANGED <<header, clock>>

\* The clock gives the time; a logical counter past its bits spills into it.
Clock(p, l) ==
    /\ p > physical /\ p <= MaxPhysical
    /\ earlier' = ts /\ ts' = ComposeTS(p, l)
    /\ physical' = p + (l \div Logicals)
    /\ UNCHANGED <<header, topic>>

Add(msecs) ==
    /\ physical + msecs \in 0..MaxPhysical
    /\ earlier' = ts /\ ts' = AddPhysicalDurationOnTs(ts, msecs)
    /\ physical' = physical + msecs
    /\ UNCHANGED <<header, topic>>

\* A behaviour makes a header, fills a topic or moves a timestamp.
Next ==
    \/ topic = <<>> /\ physical = 0 /\ (NewMsgBase \/ UpdateMsgBase)
    \/ base = NoBase /\ physical = 0 /\ Publish
    \/ /\ base = NoBase /\ topic = <<>>
       /\ \/ \E p \in 1..MaxPhysical : \E l \in 0..Logicals : Clock(p, l)
          \/ \E d \in Durations : Add(d)
-------------------------------------------------------------------------------
\* What was given for a field is there, whatever was filled in before or after: the last
\* value given, or nothing but a filled-in value if that was 0 or there was none.
lastGiven(field) ==
    LET at == {i \in DOMAIN given : given[i].field = field}
    IN IF at = {} THEN 0 ELSE given[CHOOSE i \in at : \A j \in at : j <= i].value
Kept ==
    base # NoBase => \A f \in MsgFields :
        /\ lastGiven(f) # 0 => base[f] = lastGiven(f)
        /\ lastGiven(f) = 0 => base[f] \in {0, IF f = "Timestamp" THEN Now ELSE Client}

\* LessOrEqualThan never takes a message for an earlier one when it is later, and takes
\* one for an earlier one whenever it is, unless the entry or the batch started again in
\* between: two ids may then be incomparable.  Both directions hold of one id only.
OrderSound ==
    \A i \in DOMAIN topic : \A j \in DOMAIN topic :
        /\ i < j => ~LessOrEqualThan(topic[j], topic[i])
        /\ i <= j /\ (\A k \in i..(j - 1) : /\ topic[k].entry <= topic[k + 1].entry
                                            /\ topic[k].batch <= topic[k + 1].batch)
             => LessOrEqualThan(topic[i], topic[j])
        /\ LessOrEqualThan(topic[i], Garbage) = "error"

\* Equal tells any two messages of a topic apart, also two of one batch, and only the
\* first of a topic is at the earliest position.
IdsDistinct ==
    \A i \in DOMAIN topic : /\ \A j \in DOMAIN topic : Equal(topic[i], topic[j]) <=> i = j
                            /\ AtEarliestPosition(topic[i]) <=> i = 1

\* Timestamps compare like the times they were made of, a difference of timestamps is the
\* time between them, adding a duration keeps the logical part, and the time of day keeps
\* both parts.
TimesKept ==
    /\ ParseHybridTs(ts)[1] = physical
    /\ CalculateDuration(ts, earlier) > 0 => ts > earlier
    /\ ts < earlier => CalculateDuration(ts, earlier) <= 0
    /\ \A d \in Durations : physical + d \in 0..MaxPhysical =>
          LET later == AddPhysicalDurationOnTs(ts, d)
          IN CalculateDuration(later, ts) = d /\ ParseHybridTs(later)[2] = ParseHybridTs(ts)[2]
    /\ ParseHybridTs(Mod24H(ts)) = <<physical % Day, ParseHybridTs(ts)[2]>>
===============================================================================
