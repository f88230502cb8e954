----------------------------- MODULE ParamFormat -----------------------------
(***************************************************************************)
(* The formatters of pkg/util/paramtable that compute: the rates, levels   *)
(* and quotas of quotaConfig, each of which may look at other items, and   *)
(* the clamps of the node configurations.  Every read formats anew, so the *)
(* values below are functions of what is configured now.                   *)
(*                                                                         *)
(* Rates and times are counted in halves and levels in twentieths, so that *)
(* the fractions a float has and an int has not are there.  Text that does *)
(* not parse reads as 0 (getAndConvert) and needs no value of its own.     *)
(***************************************************************************)
EXTENDS Integers, FiniteSets

VARIABLES
    family,  \* the items being configured
    conf     \* what is configured of them: key |-> value
vars == <<family, conf>>

MB  == 1048576
Max == 1000 * MB      \* defaultMax, no limit
Min == 0              \* defaultMin
MaxMB == Max \div MB  \* defaultDiskQuotaInMB

DmlRates == {"insertRate", "upsertRate", "deleteRate", "bulkLoadRate"}
DqlRates == {"searchRate", "queryRate"}
PlainRates == {"ddl.collectionRate", "ddl.partitionRate", "indexRate", "flushRate",
               "flushRate.collection", "compactionRate", "queueLatency", "nqInQueue",
               "readResultRate"}
Levels == {"dataNode", "queryNode", "growingSegments"}
Disks == {"diskQuota"}
Others == {"collectInterval", "ttDelay", "minRateRatio", "coolOffSpeed", "nprobe", "ttl",
           "capacity", "chunkRows"}
Families == DmlRates \cup DqlRates \cup PlainRates \cup Levels \cup Disks \cup Others

\* The values tried: below, at and above every bound of the family.
RateKeys == {"max", "min", "collection.max", "collection.min"}
keysOf(f) ==
    CASE f \in DmlRates \cup DqlRates -> RateKeys
      [] f \in Levels -> {"low", "high"}
      [] f \in Disks -> {"quota", "collection.quota"}
      [] f = "nprobe" -> {"nlist", "nprobe"}
      [] OTHER -> {"value"}
valuesOf(f) ==
    CASE f \in DmlRates \cup DqlRates \cup PlainRates -> {-2, -1, 2, 6}
      [] f \in Levels -> {-1, 0, 3, 4, 8, 17, 19, 20, 21}
      [] f \in Disks -> {-2, 0, 2, 6}
      [] f = "nprobe" -> {0, 6, 20, 256, 300}
      [] f \in {"minRateRatio", "coolOffSpeed"} -> {-1, 0, 1, 18, 20, 21}
      [] f \in {"collectInterval", "ttDelay"} -> {-2, 0, 1, 2, 131070, 131072}
      [] OTHER -> {-2, 0, 254, 256, 1022, 1024, 2000}

Init == family = "none" /\ conf = <<>>
-------------------------------------------------------------------------------
Get(key, default) == IF key \in DOMAIN conf THEN conf[key] ELSE default
\* The flag of the family; memory and disk protection are on by default.
enabled == Get("enabled", family \in {"dataNode", "queryNode", "diskQuota"})

getAsInt(v) == IF v % 2 = 0 THEN v \div 2 ELSE 0
megaBytes2Bytes(v) == IF v = MaxMB THEN Max ELSE v * MB

checkMinMaxLegal(min, max) == min <= max

\* A maximal rate in MB/s; below 0 it is replaced.
dmlMax(key, otherwise) ==
    LET v == Get(key, Max)
        rate == IF v # Max THEN megaBytes2Bytes(v) ELSE v
    IN IF ~enabled THEN Max ELSE IF rate < 0 THEN otherwise ELSE rate

dmlMinUnchecked(key, max) ==                                                  \* mutant
    LET rate == megaBytes2Bytes(Get(key, Min))
    IN IF ~enabled \/ rate < 0 THEN Min ELSE rate
\* A minimal rate in MB/s, at most the maximal one.
dmlMin(key, max) ==
    LET rate == megaBytes2Bytes(Get(key, Min))
    IN IF ~enabled \/ rate < 0 \/ ~checkMinMaxLegal(rate, max) THEN Min ELSE rate

dqlMax(key, otherwise) ==
    LET v == Get(key, Max) IN IF ~enabled THEN Max ELSE IF v < 0 THEN otherwise ELSE v

dqlMin(key, max) ==
    LET v == Get(key, Min)
    IN IF ~enabled \/ v < 0 \/ ~checkMinMaxLegal(v, max) THEN Min ELSE v

\* The four items of a kind of request: the rate of the cluster and of a collection.
ratesOf(Mx(_, _), Mn(_, _)) ==
    LET max == Mx("max", Max)
        collMax == Mx("collection.max", max)
    IN [max |-> max, min |-> Mn("min", max),
        collMax |-> collMax, collMin |-> Mn("collection.min", collMax)]
insertRate   == ratesOf(dmlMax, dmlMin)
upsertRate   == ratesOf(dmlMax, dmlMin)
deleteRate   == ratesOf(dmlMax, dmlMin)
bulkLoadRate == ratesOf(dmlMax, dmlMin)
searchRate   == ratesOf(dqlMax, dqlMin)
queryRate    == ratesOf(dqlMax, dqlMin)
rates == CASE family = "insertRate" -> insertRate [] family = "upsertRate" -> upsertRate
           [] family = "deleteRate" -> deleteRate [] family = "bulkLoadRate" -> bulkLoadRate
           [] family = "searchRate" -> searchRate [] OTHER -> queryRate

\* The rates and thresholds without a minimum; those of ddl, flush and compaction are
\* tested as an int and returned as they are.
plainDefault == IF family = "flushRate.collection" THEN -2 ELSE Max
readsInt == family \notin {"indexRate", "queueLatency", "nqInQueue"}
plainRate ==
    LET v == Get("value", plainDefault)
        tested == IF readsInt THEN getAsInt(v) ELSE v
    IN IF ~enabled \/ tested < 0 THEN Max ELSE v

\* MaxReadResultRate converts before it tests.
maxReadResultRate ==
    LET v == Get("value", Max)
    IN IF ~enabled THEN Max ELSE IF v # Max THEN megaBytes2Bytes(v) ELSE v
-------------------------------------------------------------------------------
inUnit(v) == 0 < v /\ v <= 20
\* defaultLowWaterLevel 0.85, defaultHighWaterLevel 0.95; 0.2 and 0.4 for growing segments,
\* which are formatted whether the protection is on or not.
lowDefault  == IF family = "growingSegments" THEN 4 ELSE 17
highDefault == IF family = "growingSegments" THEN 8 ELSE 19
levelsOn == enabled \/ family = "growingSegments"

lowWaterLevel ==
    LET v == Get("low", lowDefault) IN IF levelsOn /\ inUnit(v) THEN v ELSE lowDefault

highUnchecked ==                                                              \* mutant
    LET v == Get("high", highDefault) IN IF inUnit(v) THEN v ELSE highDefault
\* Replaced by the default when it is below the low level.
highWaterLevel ==
    LET v == Get("high", highDefault)
    IN CASE ~levelsOn -> IF family = "dataNode" THEN 20 ELSE highDefault
         [] ~inUnit(v) \/ ~checkMinMaxLegal(lowWaterLevel, v) -> highDefault
         [] OTHER -> v

diskQuota ==
    LET v == Get("quota", MaxMB) IN IF ~enabled \/ v <= 0 THEN Max ELSE megaBytes2Bytes(v)
diskQuotaPerCollection ==
    LET v == Get("collection.quota", MaxMB)
    IN IF ~enabled THEN Max ELSE IF v <= 0 THEN diskQuota ELSE megaBytes2Bytes(v)

\* Three seconds unless the value is a whole number in (0, 65536).
quotaCenterCollectInterval ==
    LET v == Get("value", 6)
    IN IF getAsInt(v) <= 0 \/ getAsInt(v) >= 65536 THEN 6 ELSE v
maxTimeTickDelay ==
    LET v == Get("value", 600)
    IN IF ~enabled THEN Max ELSE IF v <= 0 \/ v >= 2 * 65536 THEN 600 ELSE v
minRateRatio == LET v == Get("value", 10) IN IF inUnit(v) THEN v ELSE 10
coolOffSpeed == LET v == Get("value", 18) IN IF inUnit(v) THEN v ELSE 18
-------------------------------------------------------------------------------
\* The interim index: nprobe is an eighth of nlist unless configured, and at most nlist.
nlist == getAsInt(Get("nlist", 256))
nprobeUncapped ==                                                             \* mutant
    LET v == getAsInt(Get("nprobe", 0)) IN IF v = 0 THEN nlist \div 8 ELSE v
interimIndexNProbe ==
    LET v == getAsInt(Get("nprobe", 0))
        nprobe == IF v = 0 THEN nlist \div 8 ELSE v
    IN IF nprobe > nlist THEN nlist ELSE nprobe
entityExpirationTTL == LET v == getAsInt(Get("value", -2)) IN IF v < 0 THEN -1 ELSE v
maxGeneralCapacity  == LET v == getAsInt(Get("value", 131072)) IN IF v < 512 THEN 512 ELSE v
chunkRows           == LET v == getAsInt(Get("value", 256)) IN IF v < 128 THEN 128 ELSE v
-------------------------------------------------------------------------------
Pick(f) == family = "none" /\ family' = f /\ UNCHANGED conf

\* A source changes the value of a key, or Save does.
Set(key, v) ==
    /\ conf' = [k \in DOMAIN conf \cup {key} |-> IF k = key THEN v ELSE conf[k]]
    /\ UNCHANGED family

Delete(key) ==
    /\ key \in DOMAIN conf /\ conf' = [k \in DOMAIN conf \ {key} |-> conf[k]]
    /\ UNCHANGED family

Next ==
    \/ \E f \in Families : Pick(f)
    \/ /\ family # "none"
       /\ \/ \E key \in keysOf(family) : \E v \in valuesOf(family) : Set(key, v)
          \/ \E on \in BOOLEAN : Set("enabled", on)
          \/ \E key \in DOMAIN conf : Delete(key)
-------------------------------------------------------------------------------
\* Whatever is configured for the cluster and for a collection, the minimal rate the quota
\* center reads is not above the maximal one, and none is negative (checkMinMaxLegal and
\* the tests "[0, inf)" of the formatters).
RatesOrdered ==
    family \in DmlRates \cup DqlRates =>
        /\ 0 <= rates.min /\ rates.min <= rates.max
        /\ 0 <= rates.collMin /\ rates.collMin <= rates.collMax

\* The water levels lie in (0, 1], and the high one is not below the low one unless the low
\* one is configured above the default of the high one: checkMinMaxLegal then puts in a
\* default that is below the low level itself (quota_param.go:991).
LevelsSound ==
    family \in Levels =>
        /\ inUnit(lowWaterLevel) /\ inUnit(highWaterLevel)
        /\ \/ lowWaterLevel <= highWaterLevel
           \/ lowWaterLevel > highDefault /\ highWaterLevel = highDefault

\* The other limits: a rate is negative only when a negative fraction slips through
\* getAsInt, the read result rate only when it is configured so (the test after the
\* conversion is dead), quotas are positive, times and ratios in their ranges, and nprobe
\* is at most nlist, whatever nlist is changed to.
LimitsSound ==
    /\ family \in PlainRates \ {"readResultRate"} =>
           plainRate >= 0 \/ (readsInt /\ plainRate = -1)
    /\ family = "readResultRate" => maxReadResultRate >= 0 \/ Get("value", Max) < 0
    /\ family \in Disks => diskQuota > 0 /\ diskQuotaPerCollection > 0
    /\ family = "collectInterval" => quotaCenterCollectInterval \in 1..(2 * 65536 - 1)
    /\ family = "ttDelay" => maxTimeTickDelay > 0
    /\ family = "minRateRatio" => inUnit(minRateRatio)
    /\ family = "coolOffSpeed" => inUnit(coolOffSpeed)
    /\ family = "nprobe" => interimIndexNProbe <= nlist
    /\ family = "ttl" => entityExpirationTTL >= -1
    /\ family = "capacity" => maxGeneralCapacity >= 512
    /\ family = "chunkRows" => chunkRows >= 128
===============================================================================
