------------------------------ MODULE Messages -------------------------------
(***************************************************************************)
(* A message on its way through a topic (pkg/mq/msgstream: msg.go,          *)
(* msg_for_*.go, unmarshal.go): Marshal writes the request and leaves the  *)
(* BaseMsg around it behind, the reader or Seek takes the type from the    *)
(* header and lets the Unmarshal of that type rebuild it.                  *)
(*                                                                         *)
(* A message is [begin, end, hash, request]: the BaseMsg and the request it   *)
(* is embedded with.  A request is [type, base, timestamps, rowIDs, rowData, *)
(* columns, pks, int64Pks, numRows, version]: type is Base.MsgType, base the *)
(* rest of Base or NoBase; rows, keys and columns are counted; pks is NoPks  *)
(* when only the old field is set.  Positions are in TtMsgStream.            *)
(***************************************************************************)
EXTENDS Integers, Sequences, FiniteSetsExt, TLC

CONSTANTS
    Types,       \* types of messages, some without an Unmarshal
    Timestamps,
    MaxRows

VARIABLES
    produced,  \* the message a component made, Nil before
    sent,      \* its payload on the topic
    read,      \* what getTsMsgFromConsumerMsg makes of it
    sought     \* what Seek makes of it
vars == <<produced, sent, read, sought>>

Nil == [hash |-> "nil"]
Failed == [hash |-> "error"]
Panic == [hash |-> "panic"]
NoBase == [id |-> -1, ts |-> -1]
NoPks == -1
-------------------------------------------------------------------------------
\* The classes of messages, by where they are declared.  All embed a BaseMsg and a request,
\* take ID and Type from the request's Base and marshal the request; they differ in what
\* Unmarshal takes the interval from: the rows, Base (a nil pointer without one), GetBase()
\* (0 without one) or nothing.
DML == {"Insert", "Delete"}
rowMsgs          == [t \in DML |-> "rows"]
timeTickMsg      == "TimeTick" :> "Base"
collectionDdl    == [t \in {"CreateCollection", "DropCollection"} |-> "Base"]
partitionDdl     == [t \in {"CreatePartition", "DropPartition"} |-> "Base"]
dataNodeTtMsg    == "DataNodeTt" :> "nothing"
indexMsgs        == [t \in {"CreateIndex", "DropIndex"} |-> "GetBase"]
loadMsgs         == [t \in {"LoadCollection", "ReleaseCollection"} |-> "GetBase"]
flushMsg         == "Flush" :> "GetBase"
partitionMsgs    == [t \in {"LoadPartitions", "ReleasePartitions"} |-> "GetBase"]
databaseMsgs     == [t \in {"CreateDatabase", "DropDatabase"} |-> "GetBase"]

\* NewUnmarshalDispatcher: the class of each type it knows.
TempMap == rowMsgs @@ timeTickMsg @@ collectionDdl @@ partitionDdl @@ dataNodeTtMsg @@ indexMsgs
           @@ loadMsgs @@ flushMsg @@ partitionMsgs @@ databaseMsgs

ID(m)   == m.request.base.id
Type(m) == m.request.type

\* The request alone: the interval and the hash values stay behind.
Marshal(m) == m.request

\* A decoded message has no hash values.
message(request, begin, end) ==
    [begin |-> begin, end |-> end, hash |-> "none", request |-> request]

\* Insert and Delete: the interval of their rows; 0 without rows.
spanOfFirst(request) ==                                                       \* mutant
    LET ts == request.timestamps
    IN IF ts = <<>> THEN message(request, 0, 0) ELSE message(request, ts[1], ts[1])
spanOfRows(request) ==
    LET ts == {request.timestamps[i] : i \in DOMAIN request.timestamps}
    IN IF ts = {} THEN message(request, 0, 0) ELSE message(request, Min(ts), Max(ts))

\* Old producers fill Int64PrimaryKeys only.
pksWithoutCount(request) ==                                                   \* mutant
    IF request.pks = NoPks THEN [request EXCEPT !.pks = request.int64Pks] ELSE request
compatible(request) ==
    IF request.pks = NoPks
    THEN [request EXCEPT !.pks = request.int64Pks, !.numRows = request.int64Pks]
    ELSE request

spanOfBase(request) ==
    IF request.base = NoBase THEN Panic ELSE message(request, request.base.ts, request.base.ts)
spanOfGetBase(request) ==
    LET ts == IF request.base = NoBase THEN 0 ELSE request.base.ts IN message(request, ts, ts)

unmarshalFunc(payload) ==
    LET from == TempMap[payload.type]
    IN CASE from = "rows" ->
                spanOfRows(IF payload.type = "Delete" THEN compatible(payload) ELSE payload)
         [] from = "Base" -> spanOfBase(payload)
         [] from = "GetBase" -> spanOfGetBase(payload)
         [] from = "nothing" -> message(payload, 0, 0)

Unmarshal(payload) ==
    IF payload.type \in DOMAIN TempMap THEN unmarshalFunc(payload) ELSE Failed

getTsMsgUnchecked(payload) == Unmarshal(payload)                              \* mutant
getTsMsgFromConsumerMsg(payload) == IF payload.base = NoBase THEN Failed ELSE Unmarshal(payload)

\* Seek reads headerMsg.Base.MsgType without a test.
seekUnmarshal(payload) == IF payload.base = NoBase THEN Panic ELSE Unmarshal(payload)
-------------------------------------------------------------------------------
IsRowBased(request) == request.version = "RowBased"
NRows(request) == IF IsRowBased(request) THEN request.rowData ELSE request.numRows

\* Insert: columns, row ids and timestamps; Delete: keys and timestamps.
insertAlignedLoose(request) ==                                                \* mutant
    /\ ~IsRowBased(request) => request.columns = NRows(request)
    /\ request.rowIDs = Len(request.timestamps)
insertAligned(request) ==
    /\ ~IsRowBased(request) => request.columns = NRows(request)
    /\ request.rowIDs = Len(request.timestamps)
    /\ request.rowIDs = NRows(request)
deleteAligned(request) ==
    /\ request.numRows = Len(request.timestamps)
    /\ request.numRows = request.pks
CheckAligned(m) == IF Type(m) = "Insert" THEN insertAligned(m.request) ELSE deleteAligned(m.request)

\* The rows rowBasedIndexRequest and columnBasedIndexRequest can take without running over
\* the end of a slice, and those of a delete.
indexable(request) ==
    CASE request.type = "Delete" -> Min({Len(request.timestamps), request.pks})
      [] request.type = "Insert" /\ IsRowBased(request) ->
            Min({Len(request.timestamps), request.rowIDs, request.rowData})
      [] OTHER -> Min({Len(request.timestamps), request.rowIDs, request.columns})
-------------------------------------------------------------------------------
Init == produced = Nil /\ sent = Nil /\ read = Nil /\ sought = Nil

request(type, base, ts, n) ==
    [type |-> type, base |-> base, timestamps |-> ts, rowIDs |-> n.ids, rowData |-> n.data,
     columns |-> n.data, numRows |-> n.rows, pks |-> n.pks, int64Pks |-> n.data,
     version |-> n.version]

\* A message of any component, with the hash values of its rows and an interval around
\* all timestamps: requests come with counts that need not agree.
Bases == {[id |-> 1, ts |-> t] : t \in Timestamps} \cup {NoBase}
Make(type, base, ts, n) ==
    produced' = [begin |-> Min(Timestamps), end |-> Max(Timestamps), hash |-> "keys",
                 request |-> request(type, base, ts, n)]
Produce ==
    /\ produced = Nil
    /\ \E type \in Types, base \in Bases :
        IF type \in DML
        THEN \E k \in 0..MaxRows : \E ts \in [1..k -> Timestamps] :
             \E ids, data, rows \in 0..MaxRows : \E pks \in {NoPks, 1, MaxRows} :
             \E version \in {"RowBased", "ColumnBased"} :
                Make(type, base, ts, [ids |-> ids, data |-> data, rows |-> rows, pks |-> pks,
                                      version |-> version])
        ELSE Make(type, base, <<>>, [ids |-> 0, data |-> 0, rows |-> 0, pks |-> 0,
                                     version |-> "RowBased"])
    /\ sent' = Marshal(produced')
    /\ UNCHANGED <<read, sought>>

Receive ==
    /\ sent # Nil /\ read = Nil /\ read' = getTsMsgFromConsumerMsg(sent)
    /\ UNCHANGED <<produced, sent, sought>>

SeekTo ==
    /\ sent # Nil /\ sought = Nil /\ sought' = seekUnmarshal(sent)
    /\ UNCHANGED <<produced, sent, read>>

Next == Produce \/ Receive \/ SeekTo
-------------------------------------------------------------------------------
Decoded(m) == m \notin {Nil, Failed, Panic}
stamps(m) == IF Type(m) \in DML THEN {m.request.timestamps[i] : i \in DOMAIN m.request.timestamps}
             ELSE {m.request.base.ts}

\* The tick stream delivers a message with the first tick t that has EndTs <= t and Seek to
\* t skips it when BeginTs <= t.  So at every tick the message is delivered when none of its
\* rows is younger and skipped when some row is not; a DataNodeTtMsg and a request without
\* rows have timestamp 0 and go with any tick.
IntervalSound ==
    Decoded(read) =>
        LET timed == Type(read) # "DataNodeTt" /\ stamps(read) # {}
        IN \A t \in Timestamps :
            /\ read.end <= t <=> ~timed \/ \A s \in stamps(read) : s <= t
            /\ read.begin <= t <=> ~timed \/ \E s \in stamps(read) : s <= t

\* Reading and Seek rebuild the same message, except that a payload without Base is skipped
\* by the one and stops the program in the other.
PathsAgree ==
    read # Nil /\ sought # Nil =>
        \/ read = sought
        \/ sent.base = NoBase /\ read = Failed /\ sought = Panic

\* When CheckAligned passes, every row up to NRows can be taken out by IndexMsg.
RowsReachable ==
    Decoded(read) /\ Type(read) \in DML /\ CheckAligned(read) =>
        indexable(read.request) >= (IF Type(read) = "Insert" THEN NRows(read.request)
                                    ELSE read.request.numRows)

\* Reading gives the message its id again, and a delete is aligned after reading exactly
\* when its timestamps go with the keys it was sent with, in whichever field an old or a
\* new producer put them.
Rebuilt ==
    Decoded(read) =>
        LET r == produced.request
            n == Len(r.timestamps)
        IN /\ ID(read) = ID(produced)
           /\ r.type = "Delete" =>
                (CheckAligned(read) <=> IF r.pks = NoPks THEN r.int64Pks = n
                                        ELSE r.numRows = n /\ r.pks = n)
===============================================================================
