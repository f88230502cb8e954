----------------------------- MODULE IndexChecks -----------------------------
(***************************************************************************)
(* The parameter checks of pkg/util/indexparamcheck: a checker per index    *)
(* type, what it asks of the parameters when an index is created            *)
(* (CheckTrain) and of the automatic index when the process starts          *)
(* (StaticCheck after SetDefaultMetricTypeIfNotExist).  Numbers are as      *)
(* parsed; a text that is no number behaves like a missing key.  The ranges *)
(* are given as CONSTANTS, so that both sides of every bound are tried.     *)
(***************************************************************************)
EXTENDS Integers, FiniteSets

CONSTANTS
    MaxDim, MaxNList, MaxM, MaxEf,   \* upper bounds of constraints.go
    DefaultNBits,
    Tries     \* parameter |-> the values tried

VARIABLES
    indexType, dataType,
    params     \* key |-> value
vars == <<indexType, dataType, params>>

METRICS         == {"L2", "IP", "COSINE"}
BinIvfMetrics   == {"HAMMING", "JACCARD"}
BinIDMapMetrics == BinIvfMetrics \cup {"SUBSTRUCTURE", "SUPERSTRUCTURE"}
HnswMetrics     == METRICS \cup BinIvfMetrics
FloatVectorDefaultMetricType == "COSINE"
binaryDefaultFloat == FloatVectorDefaultMetricType                            \* mutant
BinaryVectorDefaultMetricType == "HAMMING"

IndexTypes == {"GPU_IVF_FLAT", "GPU_IVF_PQ", "FLAT", "IVF_FLAT", "IVF_PQ", "SCANN", "IVF_SQ8",
               "BIN_FLAT", "BIN_IVF_FLAT", "HNSW", "DISKANN"}

\* registerIndexChecker
checker(t) == CASE t \in {"GPU_IVF_FLAT", "IVF_FLAT"} -> "ivfBase"
                [] t = "GPU_IVF_PQ" -> "raftIVFPQ" [] t = "IVF_PQ" -> "ivfPQ"
                [] t = "SCANN" -> "scaNN"          [] t = "IVF_SQ8" -> "ivfSQ"
                [] t = "FLAT" -> "flat"            [] t = "DISKANN" -> "diskann"
                [] t = "BIN_FLAT" -> "binFlat"     [] t = "BIN_IVF_FLAT" -> "binIVFFlat"
                [] t = "HNSW" -> "hnsw"
-------------------------------------------------------------------------------
CheckIntByRange(p, key, min, max) == key \in DOMAIN p /\ min <= p[key] /\ p[key] <= max
CheckStrByValues(p, key, container) == key \in DOMAIN p /\ p[key] \in container
setDefaultIfNotExist(p, key, default) ==
    [k \in DOMAIN p \cup {key} |-> IF k \in DOMAIN p THEN p[k] ELSE default]

baseCheckTrain(p) == CheckIntByRange(p, "dim", 1, MaxDim)
floatStaticCheck(p) == CheckStrByValues(p, "metric_type", METRICS)
floatCheckTrain(p) == baseCheckTrain(p) /\ floatStaticCheck(p)
binaryStaticCheck(p) == CheckStrByValues(p, "metric_type", BinIDMapMetrics)
binaryCheckTrain(p) == baseCheckTrain(p) /\ binaryStaticCheck(p)

ivfStaticCheck(p) == CheckIntByRange(p, "nlist", 1, MaxNList) /\ floatStaticCheck(p)
ivfCheckTrain(p) == ivfStaticCheck(p) /\ floatCheckTrain(p)
binIVFFlatStaticCheck(p) ==
    CheckStrByValues(p, "metric_type", BinIvfMetrics) /\ CheckIntByRange(p, "nlist", 1, MaxNList)
hnswStaticCheck(p) ==
    /\ CheckIntByRange(p, "efConstruction", 1, MaxEf) /\ CheckIntByRange(p, "M", 1, MaxM)
    /\ CheckStrByValues(p, "metric_type", HnswMetrics)

checkNBits(p) ==
    "nbits" \in DOMAIN p => CheckIntByRange(p, "nbits", DefaultNBits, DefaultNBits)

\* The remainder of Go: of a negative divisor only the size counts.
divides(m, dim) == dim % (IF m < 0 THEN -m ELSE m) = 0
checkPQParams(p) == /\ {"dim", "m"} \subseteq DOMAIN p
                    /\ p["m"] # 0 /\ divides(p["m"], p["dim"])
\* The m of the GPU index may be 0: chosen by the library.
raftCheckPQParams(p) == /\ {"dim", "m"} \subseteq DOMAIN p
                        /\ p["m"] = 0 \/ divides(p["m"], p["dim"])
anyDimension(p) == "dim" \in DOMAIN p                                         \* mutant
checkScaNNParams(p) == "dim" \in DOMAIN p /\ p["dim"] % 2 = 0

CheckTrain(t, p) ==
    LET c == checker(t) IN
    CASE c \in {"flat", "diskann"} -> floatCheckTrain(p)
      [] c = "binFlat"    -> binaryCheckTrain(p)
      [] c = "binIVFFlat" -> binaryCheckTrain(p) /\ binIVFFlatStaticCheck(p)
      [] c = "ivfBase"    -> ivfCheckTrain(p)
      [] c = "ivfSQ"      -> checkNBits(p) /\ ivfCheckTrain(p)
      [] c = "ivfPQ"      -> ivfCheckTrain(p) /\ checkPQParams(p)
      [] c = "raftIVFPQ"  -> ivfCheckTrain(p) /\ raftCheckPQParams(p)
      [] c = "scaNN"      -> ivfCheckTrain(p) /\ checkScaNNParams(p)
      [] c = "hnsw"       -> hnswStaticCheck(p) /\ baseCheckTrain(p)

StaticCheck(t, p) ==
    LET c == checker(t) IN
    CASE c \in {"flat", "diskann"} -> floatStaticCheck(p)
      [] c = "binFlat"    -> binaryStaticCheck(p)
      [] c = "binIVFFlat" -> binIVFFlatStaticCheck(p)
      [] c = "hnsw"       -> hnswStaticCheck(p)
      [] OTHER            -> ivfStaticCheck(p)

CheckValidDataType(t, d) == CASE checker(t) \in {"binFlat", "binIVFFlat"} -> d = "BinaryVector"
                              [] checker(t) = "hnsw" -> d \in {"FloatVector", "BinaryVector"}
                              [] OTHER -> d = "FloatVector"

SetDefaultMetricTypeIfNotExist(t, p) ==
    setDefaultIfNotExist(p, "metric_type",
        IF checker(t) \in {"binFlat", "binIVFFlat"} THEN BinaryVectorDefaultMetricType
        ELSE FloatVectorDefaultMetricType)

\* panicIfNotValidAndSetDefaultMetricType accepts the build parameters of the automatic index.
autoIndexValid(t, p) == StaticCheck(t, SetDefaultMetricTypeIfNotExist(t, p))
-------------------------------------------------------------------------------
Init == indexType = "" /\ dataType = "" /\ params = <<>>

CreateIndex(t, d) ==
    /\ indexType = "" /\ indexType' = t /\ dataType' = d /\ UNCHANGED params

\* The parameters of an index type: what its checker looks at.  One that is given besides
\* is carried along and changes nothing.
paramsOf(t) ==
    {"dim", "metric_type"}
    \cup CASE checker(t) \in {"flat", "diskann", "binFlat"} -> {}
           [] checker(t) = "hnsw" -> {"efConstruction", "M"}
           [] checker(t) \in {"ivfPQ", "raftIVFPQ"} -> {"nlist", "m"}
           [] checker(t) = "ivfSQ" -> {"nlist", "nbits"}
           [] checker(t) \in {"ivfBase", "binIVFFlat", "scaNN"} -> {"nlist"}

SetParam(key, v) ==
    /\ indexType # "" /\ key \in paramsOf(indexType) \ DOMAIN params
    /\ params' = [k \in DOMAIN params \cup {key} |-> IF k = key THEN v ELSE params[k]]
    /\ UNCHANGED <<indexType, dataType>>

Next ==
    \/ \E t \in IndexTypes : \E d \in {"FloatVector", "BinaryVector"} : CreateIndex(t, d)
    \/ \E key \in DOMAIN Tries : \E v \in Tries[key] : SetParam(key, v)
-------------------------------------------------------------------------------
accepted == indexType # "" /\ CheckTrain(indexType, params) /\ CheckValidDataType(indexType, dataType)

\* What is accepted can be built: the metric is one for the type of the vectors, a product
\* quantizer divides the dimension evenly, and the scalar quantizer keeps its 8 bits.  The
\* code leaves two holes: HNSW takes the metric of either type of vectors, and m may be
\* negative.
Buildable ==
    accepted =>
        /\ params["dim"] \in 1..MaxDim
        /\ indexType # "HNSW" =>
               params["metric_type"] \in IF dataType = "BinaryVector" THEN BinIDMapMetrics ELSE METRICS
        /\ indexType \in {"IVF_PQ", "GPU_IVF_PQ"} /\ params["m"] > 0 =>
               params["dim"] = params["m"] * (params["dim"] \div params["m"])
        /\ indexType = "SCANN" => params["dim"] # 2 * (params["dim"] \div 2) + 1
        /\ indexType = "IVF_SQ8" /\ "nbits" \in DOMAIN params => params["nbits"] = DefaultNBits

\* The two checks go together: parameters that pass CheckTrain are also good for the
\* automatic index, and the default metric is acceptable wherever some metric is.
ChecksAgree ==
    indexType # "" =>
        /\ CheckTrain(indexType, params) => StaticCheck(indexType, params)
        /\ "metric_type" \notin DOMAIN params =>
            ((\E x \in HnswMetrics \cup BinIDMapMetrics :
                CheckTrain(indexType, setDefaultIfNotExist(params, "metric_type", x)))
             => /\ CheckTrain(indexType, SetDefaultMetricTypeIfNotExist(indexType, params))
                /\ autoIndexValid(indexType, params))
===============================================================================
