----------------------------- MODULE MCUtilities -----------------------------
(***************************************************************************)
(* The parts of the program that do not interact, side by side for TLC:     *)
(* those of Helpers and the rest.  A behaviour picks one of them (part) and *)
(* runs it, the others stay as they start.                                  *)
(***************************************************************************)
EXTENDS Helpers, Items

Parts == {"skiplist", "table", "format", "fields", "schema", "merr", "messages", "metrics",
          "index", "stamps", "routing", "names"}

VARIABLES
    sNext, sValue, sHeight, sLevel, sLength, sRef, sOps,
    tConf, tFocus, tTemp,
    oFamily, oConf,
    dDst, dRows, dDeleted, dResults, dCursors, dOut, dState,
    hFields, hHelper,
    eErr, eLast, eAlone, eOld, eOps,
    aProduced, aSent, aRead, aSought,
    kRegistry, kCalled, kPanicked, kSeries, kWant, kMqType, kMetaType, kInfos,
    iIndexType, iDataType, iParams,
    qBase, qGiven, qUpdated, qTopic, qTs, qEarlier, qPhysical,
    yPartitions, yTodo, yPartitionNames, yOutcome,
    nOne, nOther, nKvs

sVars == <<sNext, sValue, sHeight, sLevel, sLength, sRef, sOps>>
tVars == <<tConf, tFocus, tTemp>>
oVars == <<oFamily, oConf>>
dVars == <<dDst, dRows, dDeleted, dResults, dCursors, dOut, dState>>
hVars == <<hFields, hHelper>>
eVars == <<eErr, eLast, eAlone, eOld, eOps>>
aVars == <<aProduced, aSent, aRead, aSought>>
kVars == <<kRegistry, kCalled, kPanicked, kSeries, kWant, kMqType, kMetaType, kInfos>>
iVars == <<iIndexType, iDataType, iParams>>
qVars == <<qBase, qGiven, qUpdated, qTopic, qTs, qEarlier, qPhysical>>
yVars == <<yPartitions, yTodo, yPartitionNames, yOutcome>>
nVars == <<nOne, nOther, nKvs>>
otherVars == <<sVars, tVars, oVars, dVars, hVars, eVars, aVars, kVars, iVars, qVars, yVars, nVars>>
vars == <<part, helperVars, otherVars>>

Opt(o, n) == <<[opt |-> o, n |-> n]>>
MCOptions == {<<>>, Opt("Attempts", 0), Opt("Attempts", 3) \o Opt("Sleep", 0),
              Opt("Sleep", 9), Opt("Sleep", 4) \o Opt("MaxSleepTime", 5),
              Opt("MaxSleepTime", 5) \o Opt("Sleep", 4), Opt("Sleep", 2) \o Opt("Sleep", 1)}
MCDeadlines == {-1, 0, 3, 20}
MCArgLists == {<<1>>, <<1, 2>>}
MCPaths == {<<"mq", "a">>, <<"mq", "b">>}
MCGroups == {<<"mq">>}
MCEventKeys == {<<"a", "b">>, <<"a">>}
MCPrefixes == {<<"a">>}

MCColumns == <<[kind |-> "Bool", dim |-> 0], [kind |-> "Array", dim |-> 0],
               [kind |-> "FloatVector", dim |-> 2], [kind |-> "BinaryVector", dim |-> 16]>>

F(name, id, type) == [name |-> name, id |-> id, type |-> type, pk |-> FALSE, part |-> FALSE,
                      dyn |-> FALSE, dim |-> 0, maxLen |-> 0]
MCFields == {[F("pk", 100, "Int64") EXCEPT !.pk = TRUE],
             [F("key", 101, "VarChar") EXCEPT !.part = TRUE, !.maxLen = 300],
             [F("str", 102, "VarChar") EXCEPT !.pk = TRUE, !.part = TRUE],
             F("i16", 103, "Int16"), F("i32", 104, "Int32"),
             [F("vec", 105, "FloatVector") EXCEPT !.dim = 4],
             [F("bin", 106, "BinaryVector") EXCEPT !.dim = 16],
             [F("$meta", 107, "JSON") EXCEPT !.dyn = TRUE],
             F("pk", 108, "Bool"), F("arr", 100, "Array"), F("nodim", 109, "FloatVector")}

MCErrors == {[kind |-> "milvus", code |-> 901, retriable |-> FALSE],
             [kind |-> "milvus", code |-> 1, retriable |-> TRUE],
             [kind |-> "context", name |-> "Canceled"]}

MCTypes == {"Insert", "Delete", "TimeTick", "DataNodeTt", "LoadIndex", "CreateCollection",
            "CreatePartition", "Flush", "LoadCollection",
            "LoadPartitions", "CreateIndex", "DropDatabase"}

MCTries == [dim |-> {0, 6, 7, 9}, nlist |-> {4, 5}, m |-> {-2, 0, 3, 4}, nbits |-> {8, 9},
            efConstruction |-> {4}, M |-> {4, 5}, metric_type |-> {"L2", "HAMMING", "X"}]

MCNames == {[parts |-> 2, index |-> i, copy |-> 0] : i \in {-2, -1, 0, 1, 2}}
           \cup {[parts |-> 1, index |-> 0, copy |-> 1], [parts |-> 2, index |-> 1, copy |-> 1]}
MCTexts == {<<>>, <<"a">>, <<"a", "/", "b">>, <<"a", ".", "b">>, <<"b", "_", "0">>, <<"b">>}
MCKeys == {[long |-> b, head |-> h, tail |-> t] : b \in BOOLEAN, h \in 1..3, t \in 0..1}

List == INSTANCE SkipList
    WITH Keys <- 1..4, Values <- {"v", "w"}, MaxLevel <- 3, MaxOps <- 5, next <- sNext, value <-
         sValue, height <- sHeight, level <- sLevel, length <- sLength, ref <- sRef, ops <- sOps

Params == INSTANCE ParamTable
    WITH conf <- tConf, focus <- tFocus, temp <- tTemp

Format == INSTANCE ParamFormat
    WITH family <- oFamily, conf <- oConf

Data == INSTANCE FieldData
    WITH Columns <- MCColumns, Sources <- {1, 2}, NumRows <- 2, MaxRows <- 3, MaxDeletes <- 2,
         Shards <- 1..2, MaxPK <- 9, PKs <- {1, 2, 9}, Timestamps <- {1, 2}, MaxLen <- 3, dst <-
         dDst, rows <- dRows, deleted <- dDeleted, results <- dResults, cursors <- dCursors, out
         <- dOut, state <- dState

Schemas == INSTANCE Schema
    WITH Fields <- MCFields, MaxFields <- 3, RowLengths <- {256, 512}, fields <- hFields, helper
         <- hHelper

Errors == INSTANCE Merr
    WITH Others <- MCErrors, MaxOps <- 3, err <- eErr, last <- eLast, alone <- eAlone, old <-
         eOld, ops <- eOps

Decoding == INSTANCE Messages
    WITH Types <- MCTypes, Timestamps <- 1..2, MaxRows <- 2, produced <- aProduced, sent <- aSent,
         read <- aRead, sought <- aSought

Collectors == INSTANCE Metrics
    WITH Collections <- {"c1", "c2"}, MaxSeries <- 2, registry <- kRegistry, called <- kCalled,
         panicked <- kPanicked, series <- kSeries, want <- kWant, mqType <- kMqType, metaType <-
         kMetaType, infos <- kInfos

Index == INSTANCE IndexChecks
    WITH MaxDim <- 8, MaxNList <- 4, MaxM <- 4, MaxEf <- 4, DefaultNBits <- 8, Tries <- MCTries,
         indexType <- iIndexType, dataType <- iDataType, params <- iParams

Stamped == INSTANCE Stamps
    WITH Values <- {0, 1}, Client <- 7, Now <- 9, MaxLedger <- 1, MaxEntry <- 2, MaxBatch <- 1,
         LogicalBits <- 2, Bits <- 8, Day <- 5, Durations <- {-3, 0, 2}, MaxPhysical <- 12, base
         <- qBase, given <- qGiven, updated <- qUpdated, topic <- qTopic, ts <- qTs, earlier <-
         qEarlier, physical <- qPhysical

Routes == INSTANCE Routing
    WITH Procs <- Procs, Names <- MCNames, MaxPartitions <- 3, Keys <- MCKeys, hash <- <<0, 7,
         2147483647>>, partitions <- yPartitions, todo <- yTodo, partitionNames <-
         yPartitionNames, outcome <- yOutcome

Naming == INSTANCE Names
    WITH Slash <- "/", Dot <- ".", Underscore <- "_", Dash <- "-", DefaultDBName <- <<"default">>,
         Texts <- MCTexts, ShardSuffixes <- {<<"100v0">>}, Keys <- {"k1", "k2"}, Values <- {"v1",
         "v2"}, MaxPairs <- 3, one <- nOne, other <- nOther, kvs <- nKvs

Pick == part = "none" /\ part' \in Parts /\ UNCHANGED <<helperVars, otherVars>>

Init ==
    /\ HelpersInit
    /\ List!Init /\ Params!Init /\ Format!Init /\ Data!Init /\ Schemas!Init /\ Errors!Init
    /\ Decoding!Init /\ Collectors!Init /\ Index!Init /\ Stamped!Init /\ Routes!Init
    /\ Naming!Init

\* One step of the part that was picked.
NextHelpers == HelpersNext /\ UNCHANGED otherVars
NextList ==
    /\ Only("skiplist") /\ List!Next
    /\ UNCHANGED <<helperVars, tVars, oVars, dVars, hVars, eVars, aVars, kVars, iVars, qVars,
                   yVars, nVars>>
NextParams ==
    /\ Only("table") /\ Params!Next
    /\ UNCHANGED <<helperVars, sVars, oVars, dVars, hVars, eVars, aVars, kVars, iVars, qVars,
                   yVars, nVars>>
NextFormat ==
    /\ Only("format") /\ Format!Next
    /\ UNCHANGED <<helperVars, sVars, tVars, dVars, hVars, eVars, aVars, kVars, iVars, qVars,
                   yVars, nVars>>
NextData ==
    /\ Only("fields") /\ Data!Next
    /\ UNCHANGED <<helperVars, sVars, tVars, oVars, hVars, eVars, aVars, kVars, iVars, qVars,
                   yVars, nVars>>
NextSchemas ==
    /\ Only("schema") /\ Schemas!Next
    /\ UNCHANGED <<helperVars, sVars, tVars, oVars, dVars, eVars, aVars, kVars, iVars, qVars,
                   yVars, nVars>>
NextErrors ==
    /\ Only("merr") /\ Errors!Next
    /\ UNCHANGED <<helperVars, sVars, tVars, oVars, dVars, hVars, aVars, kVars, iVars, qVars,
                   yVars, nVars>>
NextDecoding ==
    /\ Only("messages") /\ Decoding!Next
    /\ UNCHANGED <<helperVars, sVars, tVars, oVars, dVars, hVars, eVars, kVars, iVars, qVars,
                   yVars, nVars>>
NextCollectors ==
    /\ Only("metrics") /\ Collectors!Next
    /\ UNCHANGED <<helperVars, sVars, tVars, oVars, dVars, hVars, eVars, aVars, iVars, qVars,
                   yVars, nVars>>
NextIndex ==
    /\ Only("index") /\ Index!Next
    /\ UNCHANGED <<helperVars, sVars, tVars, oVars, dVars, hVars, eVars, aVars, kVars, qVars,
                   yVars, nVars>>
NextStamped ==
    /\ Only("stamps") /\ Stamped!Next
    /\ UNCHANGED <<helperVars, sVars, tVars, oVars, dVars, hVars, eVars, aVars, kVars, iVars,
                   yVars, nVars>>
NextRoutes ==
    /\ Only("routing") /\ Routes!Next
    /\ UNCHANGED <<helperVars, sVars, tVars, oVars, dVars, hVars, eVars, aVars, kVars, iVars,
                   qVars, nVars>>
NextNaming ==
    /\ Only("names") /\ Naming!Next
    /\ UNCHANGED <<helperVars, sVars, tVars, oVars, dVars, hVars, eVars, aVars, kVars, iVars,
                   qVars, yVars>>

Next == Pick \/ NextHelpers \/ NextList \/ NextParams \/ NextFormat \/ NextData \/ NextSchemas \/
        NextErrors \/ NextDecoding \/ NextCollectors \/ NextIndex \/ NextStamped \/ NextRoutes \/
        NextNaming

\* Goroutines are scheduled: those of ProcessFuncParallel, and for EtcdSource the refreshers
\* and the calls of UpdateOptions and Close that have begun.
Spec == /\ Init /\ [][Next]_vars
        /\ WF_pVars(part = "parallel" /\ Par!Next)
        /\ \A r \in 1..2 : WF_etcdVars(part = "etcd" /\ Etcd!Refresh(r))
        /\ WF_etcdVars(part = "etcd" /\ Etcd!Updating)
        /\ WF_etcdVars(part = "etcd" /\ Etcd!Closing)
-------------------------------------------------------------------------------
\* Whatever is configured for one parameter, the others keep their values and all stay
\* usable:
\* - configuring an item changes only the items that share its keys (Isolated of
\*   ParamTable);
\* - an old key counts exactly while the new one is missing (FallbackAgrees of ParamTable);
\* - no item can be configured so that it makes its reader panic, but by an empty value
\*   (Readable of ParamTable);
\* - a minimum rate is never above its maximum (RatesOrdered of ParamFormat);
\* - the water levels stay fractions, low not above high unless it is configured above the
\*   default of the high one (LevelsSound of ParamFormat);
\* - the other limits stay in their ranges (LimitsSound of ParamFormat);
\* - index parameters that are accepted can be built with (Buildable of IndexChecks);
\* - the checks at start and at creation agree (ChecksAgree of IndexChecks).
ParametersSound ==
    /\ part = "table" => Params!Isolated
    /\ part = "table" => Params!FallbackAgrees
    /\ part = "table" => Params!Readable
    /\ part = "format" => Format!RatesOrdered
    /\ part = "format" => Format!LevelsSound
    /\ part = "format" => Format!LimitsSound
    /\ part = "index" => Index!Buildable
    /\ part = "index" => Index!ChecksAgree

\* Rows and keys keep together and in order through columns, schemas, reduces and routing:
\* - the columns of a result hold the same rows (Aligned of FieldData);
\* - GetNumRowOfFieldData counts the rows of a column (RowsCounted of FieldData);
\* - a float column becomes one search vector for each row (PlaceholdersExact of FieldData);
\* - shards' results merge into the order of the primary keys, the latest first
\*   (LatestInOrder of FieldData);
\* - both selections choose the same key (SelectionsAgree of FieldData);
\* - the helper finds what a search of the schema finds (LookupsAgree of Schema);
\* - the two estimates of a row agree, up to the bits of a binary vector (SizesAgree of
\*   Schema);
\* - two processes put the same partitions in the same order, but for a number that several
\*   names share, or both refuse (OrderFixed of Routing);
\* - while no number is shared a key goes to the same partition in both, and both hashes
\*   place it alike (KeysPlaced of Routing);
\* - every level of a SkipList is sorted and finds what a map would (SortedMap of SkipList).
RowsConsistent ==
    /\ part = "fields" => Data!Aligned
    /\ part = "fields" => Data!RowsCounted
    /\ part = "fields" => Data!PlaceholdersExact
    /\ part = "fields" => Data!LatestInOrder
    /\ part = "fields" => Data!SelectionsAgree
    /\ part = "schema" => Schemas!LookupsAgree
    /\ part = "schema" => Schemas!SizesAgree
    /\ part = "routing" => Routes!OrderFixed
    /\ part = "routing" => Routes!KeysPlaced
    /\ part = "skiplist" => List!SortedMap

\* What is packed into a message, an id, a timestamp or a name comes out of it again:
\* - the interval of a decoded message covers its rows (IntervalSound of Messages);
\* - receiving and seeking decode a message alike (PathsAgree of Messages);
\* - the rows of an aligned message can all be taken out (RowsReachable of Messages);
\* - a message keeps its id and its keys (Rebuilt of Messages);
\* - what is given for a header's field is not overwritten by what is filled in (Kept of
\*   Stamps);
\* - pulsar ids never compare against the order of publication (OrderSound of Stamps);
\* - no two messages have equal ids (IdsDistinct of Stamps);
\* - hybrid timestamps compare and subtract like the times they stand for (TimesKept of
\*   Stamps);
\* - names that were put together come apart again (Recovered of Names);
\* - attributes survive the way through a map (PairsAgree of Names).
MessagesConsistent ==
    /\ part = "messages" => Decoding!IntervalSound
    /\ part = "messages" => Decoding!PathsAgree
    /\ part = "messages" => Decoding!RowsReachable
    /\ part = "messages" => Decoding!Rebuilt
    /\ part = "stamps" => Stamped!Kept
    /\ part = "stamps" => Stamped!OrderSound
    /\ part = "stamps" => Stamped!IdsDistinct
    /\ part = "stamps" => Stamped!TimesKept
    /\ part = "names" => Naming!Recovered
    /\ part = "names" => Naming!PairsAgree

\* What the process tells of itself, errors and metrics, is what happened:
\* - an error that was wrapped, combined and sent has the code of its last leaf, unless
\*   Combine was left with a single error (CodeOfLast of Merr);
\* - no error arrives as success (NeverOk of Merr);
\* - no error becomes retriable on the way (RetryNotInvented of Merr);
\* - no two collectors are registered under one name (RegistersOnce of Metrics);
\* - a cleanup takes the series of its collection, and no other (CleanupExact of Metrics);
\* - runtime_info is published once both of its labels are known (InfoComplete of Metrics).
ReportsSound ==
    /\ part = "merr" => Errors!CodeOfLast
    /\ part = "merr" => Errors!NeverOk
    /\ part = "merr" => Errors!RetryNotInvented
    /\ part = "metrics" => Collectors!RegistersOnce
    /\ part = "metrics" => Collectors!CleanupExact
    /\ part = "metrics" => Collectors!InfoComplete

\* ProcessFuncParallel returns (Returns of Parallel), and so do UpdateOptions and Close of
\* EtcdSource (CallsReturn of EtcdSource) unless a fetch failed, after which the refresher
\* waits for itself, or one that is under way waits for the lock UpdateOptions holds.
CallsReturn == Par!Returns /\ Etcd!CallsReturn
===============================================================================
