------------------------------- MODULE InfoCache -------------------------------
(***************************************************************************)
(* metricsinfo.MetricsCacheManager: the cached system information, who      *)
(* collects it anew, and readers that look at the retention before they     *)
(* take the lock of the information.                                        *)
(***************************************************************************)
EXTENDS Integers

CONSTANTS MaxTime, Retentions, DefaultMetricsRetention

VARIABLES
    clock,
    systemInfo,     \* when the cached information was collected, -1 without
    invalid, lastUpdated, retention,
    collecting,     \* when a collector began to collect, -1 without
    gpc, gRetention,\* a reader: idle, check; the retention it read
    got,            \* what it got: [info, age, of: the retention read] or NoInfo
    invalidated     \* history: no update since the last invalidation
vars == <<clock, systemInfo, invalid, lastUpdated, retention, collecting, gpc, gRetention, got,
          invalidated>>

NoInfo == [info |-> -1, age |-> 0, of |-> 0]

Init ==
    /\ clock = 0 /\ systemInfo = -1 /\ invalid = FALSE /\ lastUpdated = 0
    /\ retention = DefaultMetricsRetention /\ collecting = -1
    /\ gpc = "idle" /\ gRetention = 0 /\ got = NoInfo /\ invalidated = FALSE

Tick ==
    /\ clock < MaxTime /\ clock' = clock + 1 /\ got' = NoInfo
    /\ UNCHANGED <<systemInfo, invalid, lastUpdated, retention, collecting, gpc, gRetention, invalidated>>

SetRetention(r) ==
    /\ retention' = r /\ got' = NoInfo
    /\ UNCHANGED <<clock, systemInfo, invalid, lastUpdated, collecting, gpc, gRetention, invalidated>>
ResetRetention == SetRetention(DefaultMetricsRetention)

InvalidateSystemInfoMetrics ==
    /\ invalid' = TRUE /\ invalidated' = TRUE /\ got' = NoInfo
    /\ UNCHANGED <<clock, systemInfo, lastUpdated, retention, collecting, gpc, gRetention>>

\* Whoever misses collects the information, which takes time, and updates the cache.
Collect ==
    /\ collecting = -1 /\ collecting' = clock /\ got' = NoInfo
    /\ UNCHANGED <<clock, systemInfo, invalid, lastUpdated, retention, gpc, gRetention, invalidated>>
UpdateSystemInfoMetrics ==
    /\ collecting # -1 /\ systemInfo' = collecting /\ collecting' = -1
    /\ invalid' = FALSE /\ lastUpdated' = clock /\ invalidated' = FALSE /\ got' = NoInfo
    /\ UNCHANGED <<clock, retention, gpc, gRetention>>

GetRetention ==
    /\ gpc = "idle" /\ gpc' = "check" /\ gRetention' = retention /\ got' = NoInfo
    /\ UNCHANGED <<clock, systemInfo, invalid, lastUpdated, retention, collecting, invalidated>>
usableOld == systemInfo # -1 /\ clock - lastUpdated < gRetention                  \* mutant
usable == ~invalid /\ systemInfo # -1 /\ clock - lastUpdated < gRetention
GetSystemInfoMetrics ==
    /\ gpc = "check" /\ gpc' = "idle" /\ gRetention' = 0
    /\ got' = IF usable THEN [info |-> systemInfo, age |-> clock - lastUpdated, of |-> gRetention]
              ELSE NoInfo
    /\ UNCHANGED <<clock, systemInfo, invalid, lastUpdated, retention, collecting, invalidated>>

Next ==
    \/ Tick \/ ResetRetention \/ InvalidateSystemInfoMetrics \/ Collect \/ UpdateSystemInfoMetrics
    \/ GetRetention \/ GetSystemInfoMetrics
    \/ \E r \in Retentions : SetRetention(r)
-------------------------------------------------------------------------------
\* A reader never gets information that was invalidated and not updated since, nor any that
\* is older than the retention it read.  (It may be older than a retention set meanwhile,
\* and an update whose information was collected before the invalidation undoes it.)
NoneInvalidated == got # NoInfo => ~invalidated /\ got.age < got.of
===============================================================================
