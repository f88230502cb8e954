------------------------------- MODULE Metrics -------------------------------
(***************************************************************************)
(* The collectors of a process (pkg/metrics): they are registered once by   *)
(* the Register functions of its roles, gather series as they are observed, *)
(* and the Cleanup functions delete the series of a collection.  Deleting  *)
(* takes the exact label names: with others nothing is deleted.            *)
(***************************************************************************)
EXTENDS Integers, FiniteSets

CONSTANTS
    Registers,    \* Register function |-> the collectors it enters
    LabelsOf,     \* collector |-> its label names
    Collections,
    MaxSeries

VARIABLES
    registry,   \* published names
    called,     \* Register functions that were called
    panicked,   \* MustRegister met a name that was there
    series,     \* [var, labels] of the series that exist
    want,       \* those observed for collections that were not cleaned up since
    mqType, metaType, infos   \* runtime_info: the types known and the series set
vars == <<registry, called, panicked, series, want, mqType, metaType, infos>>

Init ==
    /\ registry = {} /\ called = {} /\ panicked = FALSE
    /\ series = {} /\ want = {}
    /\ mqType = "" /\ metaType = "" /\ infos = {}
-------------------------------------------------------------------------------
\* The collectors of a Register function, one after the other.
MustRegister(r) ==
    /\ r \notin called /\ called' = called \cup {r}
    /\ panicked' = \/ panicked
                   \/ \E m \in Registers[r] : m.fq \in registry
                   \/ \E m, n \in Registers[r] : m # n /\ m.fq = n.fq
    /\ registry' = registry \cup {m.fq : m \in Registers[r]}
    /\ UNCHANGED <<series, want, mqType, metaType, infos>>

L(node, kindName, kind, collName, coll) ==
    [l \in {"node_id", kindName, collName} |->
        IF l = "node_id" THEN node ELSE IF l = kindName THEN kind ELSE coll]
S(v, labels) == [var |-> v, labels |-> labels]

\* What each Cleanup function deletes; the node, segment and channel are all "1".
CleanupCollectionByID(c) ==                                                   \* mutant
    {S("ProxyReceivedNQ", L("1", "query_type", k, "collection_id", c)) : k \in {"search", "query"}}
CleanupCollectionMetrics(c) ==
    {S(v, L("1", "query_type", k, "collection_name", c)) :
        v \in {"ProxyCollectionSQLatency", "ProxyReceivedNQ"}, k \in {"search", "query"}}
    \cup {S("ProxyCollectionMutationLatency", L("1", "msg_type", k, "collection_name", c)) :
            k \in {"insert", "delete"}}
    \cup {S("ProxyReceiveBytes", L("1", "msg_type", k, "collection_name", c)) :
            k \in {"search", "query", "insert", "delete", "upsert"}}
CleanupQueryNodeCollectionMetrics(c) ==
    {S(v, L("1", "msg_type", k, "collection_id", c)) :
        v \in {"QueryNodeConsumerMsgCount", "QueryNodeConsumeTimeTickLag"}, k \in {"insert", "delete"}}
CleanupDataNodeCollectionMetrics(c) ==
    {S("DataNodeConsumeTimeTickLag", L("1", "msg_type", "all", "collection_id", c)),
     S("DataNodeProduceTimeTickLag", L("1", "channel_name", "1", "collection_id", c))}
    \cup {S("DataNodeConsumeMsgCount", L("1", "msg_type", k, "collection_id", c)) :
            k \in {"all", "delete", "insert"}}
CleanupDataCoordSegmentMetrics(c) ==
    {S(v, [collection_id |-> c, segment_id |-> "1"]) :
        v \in {"DataCoordSegmentBinLogFileCount", "DataCoordStoredBinlogSize"}}
CleanupDataCoordNumStoredRows(c) ==
    {S("DataCoordNumStoredRows", [collection_id |-> c, segment_state |-> st]) :
        st \in {"Sealed", "Growing", "Flushed", "Flushing", "Dropped"}}

Cleanups == {"Collection", "QueryNode", "DataNode", "Segment", "StoredRows"}
deletes(f, c) == CASE f = "Collection" -> CleanupCollectionMetrics(c)
                   [] f = "QueryNode" -> CleanupQueryNodeCollectionMetrics(c)
                   [] f = "DataNode" -> CleanupDataNodeCollectionMetrics(c)
                   [] f = "Segment" -> CleanupDataCoordSegmentMetrics(c)
                   [] f = "StoredRows" -> CleanupDataCoordNumStoredRows(c)

\* The collectors a Cleanup function is for, and the label that holds the collection.
cleaned(f) ==
    CASE f = "Collection" -> {"ProxyCollectionSQLatency", "ProxyReceivedNQ",
                              "ProxyCollectionMutationLatency", "ProxyReceiveBytes"}
      [] f = "QueryNode" -> {"QueryNodeConsumerMsgCount", "QueryNodeConsumeTimeTickLag"}
      [] f = "DataNode" -> {"DataNodeConsumeTimeTickLag", "DataNodeProduceTimeTickLag",
                            "DataNodeConsumeMsgCount"}
      [] f = "Segment" -> {"DataCoordSegmentBinLogFileCount", "DataCoordStoredBinlogSize"}
      [] f = "StoredRows" -> {"DataCoordNumStoredRows"}
collectionOf(s) == IF "collection_id" \in DOMAIN s.labels THEN s.labels["collection_id"]
                   ELSE s.labels["collection_name"]

\* Values the components give the labels.
values(v, l) ==
    CASE l = "query_type" -> {"search", "query"}
      [] l = "msg_type" /\ v = "ProxyReceiveBytes" ->
            {"search", "query", "insert", "delete", "upsert"}
      [] l = "msg_type" /\ v = "DataNodeConsumeTimeTickLag" -> {"all"}
      [] l = "msg_type" /\ v = "DataNodeConsumeMsgCount" -> {"all", "insert", "delete"}
      [] l = "msg_type" /\ v \notin {"ProxyReceiveBytes", "DataNodeConsumeTimeTickLag",
                                     "DataNodeConsumeMsgCount"} -> {"insert", "delete"}
      [] l = "segment_state" -> {"Sealed", "Growing", "Flushed", "Flushing", "Dropped"}
      [] l \in {"collection_id", "collection_name"} -> Collections
      [] OTHER -> {"1"}

Up == called = DOMAIN Registers
-------------------------------------------------------------------------------
\* A component observes a value of a series; the label names are those of the collector.
Observe(v) ==
    /\ Up /\ Cardinality(series) < MaxSeries /\ infos = {}
    /\ \E labels \in [LabelsOf[v] -> UNION {values(v, l) : l \in LabelsOf[v]}] :
        /\ \A l \in LabelsOf[v] : labels[l] \in values(v, l)
        /\ series' = series \cup {S(v, labels)} /\ want' = want \cup {S(v, labels)}
    /\ UNCHANGED <<registry, called, panicked, mqType, metaType, infos>>

Cleanup(f, c) ==
    /\ Up /\ series # {}
    /\ series' = series \ {d \in deletes(f, c) : DOMAIN d.labels = LabelsOf[d.var]}
    /\ want' = {s \in want : s.var \notin cleaned(f) \/ collectionOf(s) # c}
    /\ UNCHANGED <<registry, called, panicked, mqType, metaType, infos>>

updateRuntimeInfoEarly(mq, meta) == infos' = infos \cup {<<mq, meta>>}        \* mutant
updateRuntimeInfo(mq, meta) ==
    infos' = IF mq = "" \/ meta = "" THEN infos ELSE infos \cup {<<mq, meta>>}

RegisterMQType(mq) ==
    /\ Up /\ series = {} /\ mqType' = mq /\ updateRuntimeInfo(mq, metaType)
    /\ UNCHANGED <<registry, called, panicked, series, want, metaType>>
RegisterMetaType(meta) ==
    /\ Up /\ series = {} /\ metaType' = meta /\ updateRuntimeInfo(mqType, meta)
    /\ UNCHANGED <<registry, called, panicked, series, want, mqType>>

Next ==
    \/ \E r \in DOMAIN Registers : MustRegister(r)
    \/ \E v \in UNION {cleaned(f) : f \in Cleanups} : Observe(v)
    \/ \E f \in Cleanups : \E c \in Collections : Cleanup(f, c)
    \/ \E mq \in {"pulsar", "kafka"} : RegisterMQType(mq)
    \/ \E meta \in {"etcd", "tikv"} : RegisterMetaType(meta)
-------------------------------------------------------------------------------
\* A process of any set of roles registers without a panic, in whatever order they start.
RegistersOnce == ~panicked

\* After a Cleanup no series of the collection is left in the collectors it is for, and
\* those of other collections are still there.
CleanupExact == series = want

\* runtime_info is published once both types are known, and shows them.
InfoComplete ==
    /\ \A i \in infos : i[1] # "" /\ i[2] # ""
    /\ mqType # "" /\ metaType # "" => <<mqType, metaType>> \in infos
===============================================================================
