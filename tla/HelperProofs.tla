----------------------------- MODULE HelperProofs -----------------------------
(***************************************************************************)
(* GoroutinesSound, FailuresContained and KeysConsistent for any number of  *)
(* goroutines, calls, keys, batches and options.  Each helper has an        *)
(* inductive invariant of its own, which a step of another helper leaves    *)
(* alone.                                                                  *)
(***************************************************************************)
EXTENDS Helpers, FiniteSetTheorems, TLAPS

(* InfoCache *)

\* An invalidated cache is marked as such until it is updated.
CacheInv == Cache!NoneInvalidated /\ (cInvalidated => cInvalid)

\* A new cache satisfies the invariant.
LEMMA CacheInit == Cache!Init => CacheInv
  BY DEF Cache!Init, CacheInv, Cache!NoneInvalidated, Cache!NoInfo

\* No step of a reader, a collector or an invalidation breaks it.
LEMMA CacheStep == CacheInv /\ [Cache!Next]_cVars => CacheInv'
  <1> SUFFICES ASSUME CacheInv, [Cache!Next]_cVars PROVE CacheInv'
    OBVIOUS
  <1> USE DEF CacheInv, Cache!NoneInvalidated
  <1>1. CASE Cache!Tick
    BY <1>1 DEF Cache!Tick
  <1>2. CASE \E r \in Retentions \cup {DefaultMetricsRetention} : Cache!SetRetention(r)
    BY <1>2 DEF Cache!SetRetention
  <1>3. CASE Cache!InvalidateSystemInfoMetrics
    BY <1>3 DEF Cache!InvalidateSystemInfoMetrics
  <1>4. CASE Cache!Collect
    BY <1>4 DEF Cache!Collect
  <1>5. CASE Cache!UpdateSystemInfoMetrics
    BY <1>5 DEF Cache!UpdateSystemInfoMetrics
  <1>6. CASE Cache!GetRetention
    BY <1>6 DEF Cache!GetRetention
  <1>7. CASE Cache!GetSystemInfoMetrics
    BY <1>7 DEF Cache!GetSystemInfoMetrics, Cache!usable, Cache!NoInfo
  <1>8. CASE UNCHANGED cVars
    BY <1>8 DEF cVars
  <1> QED
    BY <1>1, <1>2, <1>3, <1>4, <1>5, <1>6, <1>7, <1>8 DEF Cache!Next, Cache!ResetRetention

-------------------------------------------------------------------------------
(* Futures *)

\* Futures that AwaitAll has passed have ended well, and what a closed future holds no
\* longer changes.
FuturesInv ==
    /\ zFpc \in [1..N -> {"run", "wrote", "end"}]
    /\ zErr \in [1..N -> {"unset", "nil", "error"}]
    /\ zClosed \in [1..N -> BOOLEAN]
    /\ zAt \in 1..(N + 1) /\ zResult \in {-1, 0} \cup (1..N)
    /\ \A i \in 1..N : /\ zClosed[i] => zFpc[i] = "end"
                       /\ zFpc[i] # "run" => zErr[i] # "unset"
    /\ \A i \in 1..N : i < zAt => zClosed[i] /\ zErr[i] = "nil"
    /\ zResult = 0 => zAt = N + 1
    /\ zResult > 0 => zResult = zAt /\ zClosed[zResult] /\ zErr[zResult] = "error"

\* Before any goroutine has run.
LEMMA FuturesInit == Awaited!Init => FuturesInv
  BY HelpersAssumption DEF Awaited!Init, Awaited!Futures, Awaited!None, FuturesInv

\* A goroutine writes before it closes, and AwaitAll reads after.
LEMMA FuturesStep == FuturesInv /\ [Awaited!Next]_zVars => FuturesInv'
  <1> SUFFICES ASSUME FuturesInv, [Awaited!Next]_zVars PROVE FuturesInv'
    OBVIOUS
  <1> USE HelpersAssumption DEF FuturesInv
  <1>1. ASSUME NEW i \in 1..N, Awaited!Fn(i) PROVE FuturesInv'
    BY <1>1 DEF Awaited!Fn
  <1>2. ASSUME NEW i \in 1..N, Awaited!CloseCh(i) PROVE FuturesInv'
    BY <1>2 DEF Awaited!CloseCh, Awaited!mayClose
  <1>3. CASE Awaited!AwaitAll
    BY <1>3 DEF Awaited!AwaitAll, Awaited!None, Awaited!Nil
  <1>4. CASE UNCHANGED zVars
    BY <1>4 DEF zVars
  <1> QED
    BY <1>1, <1>2, <1>3, <1>4 DEF Awaited!Next, Awaited!Futures

\* The invariant gives what AwaitAll promises.
LEMMA FuturesSound == FuturesInv => Awaited!FirstErrorOrNil
  BY HelpersAssumption DEF FuturesInv, Awaited!FirstErrorOrNil, Awaited!Nil, Awaited!Futures

-------------------------------------------------------------------------------
(* GroupChecker *)

Steps == {"idle", "init", "have", "remove", "gone"}

\* A checker that is not being stopped is the one in the map, whoever is about to start
\* or to remove a checker has that one, and there is only one of each.
GroupInv ==
    /\ gStep \in [Callers -> Steps]
    /\ gHolds \in [Callers -> Nat] /\ gMade \in Nat /\ gGroups \in 0..gMade
    /\ gInited \subseteq 1..gMade /\ gStopping \subseteq gInited /\ gWorker \subseteq gInited
    /\ \A g \in gInited \ gStopping : gGroups = g
    /\ \A p \in Callers :
          /\ gStep[p] = "init" => /\ gHolds[p] = gGroups /\ gHolds[p] \notin gInited
                                  /\ gHolds[p] \in 1..gMade
          /\ gStep[p] = "remove" => gHolds[p] = gGroups /\ gHolds[p] \in gStopping
    /\ \A p, q \in Callers :
          gStep[p] = gStep[q] /\ gStep[p] \in {"init", "remove"} => p = q

\* Nobody has asked for a checker.
LEMMA GroupInit == Group!Init => GroupInv
  BY DEF Group!Init, Group!None, GroupInv, Steps

\* Callers that get, start, stop and remove checkers, and goroutines that end.
LEMMA GroupStep == GroupInv /\ [Group!Next]_gVars => GroupInv'
  <1> SUFFICES ASSUME GroupInv, [Group!Next]_gVars PROVE GroupInv'
    OBVIOUS
  <1> USE DEF GroupInv, Group!None, Steps
  <1>1. ASSUME NEW p \in Callers, Group!GetGroupChecker(p) PROVE GroupInv'
    <2>1. CASE gGroups = 0
      <3>1. gInited \ gStopping = {}
        BY <2>1
      <3>2. \A q \in Callers : gStep[q] # "init" /\ gStep[q] # "remove"
        BY <2>1
      <3> QED
        BY <1>1, <2>1, <3>1, <3>2 DEF Group!GetGroupChecker
    <2>2. CASE gGroups # 0
      BY <1>1, <2>2 DEF Group!GetGroupChecker
    <2> QED
      BY <2>1, <2>2
  <1>2. ASSUME NEW p \in Callers, Group!DoInit(p) PROVE GroupInv'
    <2>1. /\ gStep[p] = "init" /\ gInited' = gInited \cup {gHolds[p]}
          /\ gWorker' = gWorker \cup {gHolds[p]} /\ gStep' = [gStep EXCEPT ![p] = "have"]
          /\ gGroups' = gGroups /\ gMade' = gMade /\ gStopping' = gStopping /\ gHolds' = gHolds
      BY <1>2 DEF Group!DoInit
    <2>2. /\ gHolds[p] = gGroups /\ gHolds[p] \in 1..gMade
          /\ \A q \in Callers : gStep[q] = "init" => q = p
      BY <2>1
    <2>3. /\ gStep' \in [Callers -> Steps] /\ gStep'[p] = "have"
          /\ \A q \in Callers : q # p => gStep'[q] = gStep[q]
      BY <2>1
    <2>4. \A g \in gInited' \ gStopping' : gGroups' = g
      BY <2>1, <2>2
    <2>5. \A q \in Callers : gStep'[q] # "init"
      BY <2>2, <2>3
    <2>6. \A q \in Callers : gStep'[q] = "remove" => gHolds[q] = gGroups /\ gHolds[q] \in gStopping
      BY <2>3
    <2>7. \A q, r \in Callers : gStep'[q] = gStep'[r] /\ gStep'[q] = "remove" => q = r
      BY <2>3
    <2> QED
      BY <2>1, <2>2, <2>3, <2>4, <2>5, <2>6, <2>7
  <1>3. ASSUME NEW p \in Callers, Group!Stop(p) PROVE GroupInv'
    <2>1. /\ gStep[p] = "have" /\ gGroups' = gGroups /\ gMade' = gMade /\ gInited' = gInited
          /\ gHolds' = gHolds
          /\ gHolds[p] \in gInited =>
                gWorker' = gWorker /\ gStopping' = gStopping \cup {gHolds[p]}
      BY <1>3 DEF Group!Stop
    <2>2. CASE gHolds[p] \in gStopping
      <3>1. gStep' = [gStep EXCEPT ![p] = "idle"] /\ gStopping' = gStopping
        BY <1>3, <2>1, <2>2 DEF Group!Stop
      <3>2. /\ gStep' \in [Callers -> Steps] /\ gStep'[p] = "idle"
            /\ \A q \in Callers : q # p => gStep'[q] = gStep[q]
        BY <3>1
      <3>3. \A q \in Callers : gStep'[q] \in {"init", "remove"} => gStep'[q] = gStep[q]
        BY <3>2
      <3>4. \A q \in Callers :
               /\ gStep'[q] = "init" => /\ gHolds[q] = gGroups /\ gHolds[q] \notin gInited
                                        /\ gHolds[q] \in 1..gMade
               /\ gStep'[q] = "remove" => gHolds[q] = gGroups /\ gHolds[q] \in gStopping
        BY <3>3
      <3>5. \A q, r \in Callers :
               gStep'[q] = gStep'[r] /\ gStep'[q] \in {"init", "remove"} => q = r
        BY <3>3
      <3>6. gWorker' = gWorker
        BY <2>1, <2>2
      <3> QED
        BY <2>1, <3>1, <3>2, <3>4, <3>5, <3>6
    <2>3. CASE gHolds[p] \in gInited \ gStopping
      <3>1. gStep' = [gStep EXCEPT ![p] = "remove"]
        BY <1>3, <2>3 DEF Group!Stop
      <3>2. /\ gStep' \in [Callers -> Steps] /\ gStep'[p] = "remove"
            /\ \A q \in Callers : q # p => gStep'[q] = gStep[q]
        BY <3>1
      <3>3. gHolds[p] = gGroups
        BY <2>1, <2>3
      <3>4. \A q \in Callers : gStep[q] # "remove"
        BY <2>3, <3>3
      <3>5. /\ gWorker' = gWorker /\ gStopping' = gStopping \cup {gHolds[p]}
            /\ gHolds[p] \in gInited
        BY <2>1, <2>3
      <3>6. /\ gStopping' \subseteq gInited
            /\ \A g \in gInited \ gStopping' : gGroups = g
        BY <3>5
      <3>7. \A q \in Callers :
               /\ gStep'[q] = "init" => /\ gHolds[q] = gGroups /\ gHolds[q] \notin gInited
                                        /\ gHolds[q] \in 1..gMade
               /\ gStep'[q] = "remove" => gHolds[q] = gGroups /\ gHolds[q] \in gStopping'
        BY <3>2, <3>3, <3>4, <3>5
      <3>8. \A q, r \in Callers :
               gStep'[q] = gStep'[r] /\ gStep'[q] \in {"init", "remove"} => q = r
        BY <3>2, <3>4
      <3> QED
        BY <2>1, <3>2, <3>5, <3>6, <3>7, <3>8
    <2>4. CASE gHolds[p] \notin gInited
      <3>1. /\ gStep' = [q \in Callers |-> "gone"] /\ gWorker' = {} /\ gStopping' = gStopping
        BY <1>3, <2>4 DEF Group!Stop
      <3>2. gStep' \in [Callers -> Steps] /\ \A q \in Callers : gStep'[q] = "gone"
        BY <3>1
      <3> QED
        BY <2>1, <3>1, <3>2
    <2> QED
      BY <2>2, <2>3, <2>4
  <1>4. ASSUME NEW p \in Callers, Group!GetAndRemove(p) PROVE GroupInv'
    <2>1. /\ gStep[p] = "remove" /\ gGroups' = 0 /\ gStep' = [gStep EXCEPT ![p] = "idle"]
          /\ gMade' = gMade /\ gInited' = gInited /\ gStopping' = gStopping /\ gWorker' = gWorker
          /\ gHolds' = gHolds
      BY <1>4 DEF Group!GetAndRemove
    <2>2. gHolds[p] = gGroups /\ gHolds[p] \in gStopping /\ gHolds[p] \in gInited
      BY <2>1
    <2>3. /\ gStep' \in [Callers -> Steps] /\ gStep'[p] = "idle"
          /\ \A q \in Callers : q # p => gStep'[q] = gStep[q]
      BY <2>1
    <2>4. gInited \ gStopping = {}
      BY <2>2
    <2>5. \A q \in Callers : gStep'[q] # "init" /\ gStep'[q] # "remove"
      BY <2>1, <2>2, <2>3
    <2> QED
      BY <2>1, <2>3, <2>4, <2>5
  <1>5. ASSUME NEW g \in gWorker, Group!WorkEnds(g) PROVE GroupInv'
    BY <1>5 DEF Group!WorkEnds
  <1>6. CASE UNCHANGED gVars
    BY <1>6 DEF gVars
  <1> QED
    BY <1>1, <1>2, <1>3, <1>4, <1>5, <1>6 DEF Group!Next

\* The invariant leaves no worker that nobody can stop.
LEMMA GroupSound == GroupInv => Group!NoLostWorker
  BY DEF GroupInv, Group!NoLostWorker

-------------------------------------------------------------------------------
(* EtcdSource *)

\* A refresher whose stop is done has ended or was never started, and is not started any
\* more: UpdateOptions starts the second one, once, before anybody can have read it.
EtcdInv ==
    /\ etcdRpc \in [1..2 -> {"none", "wait", "prefix", "get", "store", "stop", "self", "ended"}]
    /\ etcdStopOnce \in [1..2 -> {"new", "running", "done"}]
    /\ etcdCurrent \in 1..2 /\ etcdClosing \in 1..2
    /\ \A r \in 1..2 : etcdStopOnce[r] = "done" => etcdRpc[r] \in {"none", "ended"}
    /\ etcdUpc = "idle" /\ etcdCpc = "idle" => etcdStopOnce[1] # "done"
    /\ etcdCurrent = 2 => etcdUpc = "returned"
    /\ etcdClosing = 2 \/ etcdStopOnce[2] = "done" => etcdCurrent = 2
    /\ etcdCpc = "returned" => etcdRpc[etcdClosing] \in {"none", "ended"}

\* The refresher of a new source does not run.
LEMMA EtcdInit == Etcd!Init => EtcdInv
  BY DEF Etcd!Init, Etcd!Refreshers, EtcdInv

\* The steps of refreshers, UpdateOptions and Close.
LEMMA EtcdStep == EtcdInv /\ [Etcd!Next]_etcdVars => EtcdInv'
  <1> SUFFICES ASSUME EtcdInv, [Etcd!Next]_etcdVars PROVE EtcdInv'
    OBVIOUS
  <1> USE DEF EtcdInv, Etcd!At, Etcd!others, Etcd!stopFirst, Etcd!stopOver, Etcd!waited
  <1>1. CASE Etcd!GetConfigurations
    BY <1>1 DEF Etcd!GetConfigurations
  <1>2. ASSUME NEW r \in 1..2, Etcd!Refresh(r) PROVE EtcdInv'
    <2>1. CASE Etcd!Tick(r)
      BY <2>1 DEF Etcd!Tick
    <2>2. CASE Etcd!End(r)
      BY <2>2 DEF Etcd!End
    <2>3. CASE Etcd!ReadPrefix(r)
      BY <2>3 DEF Etcd!ReadPrefix
    <2>4. CASE Etcd!Get(r)
      BY <2>4 DEF Etcd!Get
    <2>5. CASE Etcd!Store(r)
      BY <2>5 DEF Etcd!Store
    <2>6. CASE Etcd!StopSelf(r)
      BY <2>6 DEF Etcd!StopSelf
    <2> QED
      BY <1>2, <2>1, <2>2, <2>3, <2>4, <2>5, <2>6 DEF Etcd!Refresh
  <1>3. CASE Etcd!UpdateOptions
    BY <1>3 DEF Etcd!UpdateOptions
  <1>4. CASE Etcd!UpdateStop
    BY <1>4 DEF Etcd!UpdateStop
  <1>5. CASE Etcd!UpdateReplace
    BY <1>5 DEF Etcd!UpdateReplace
  <1>6. CASE Etcd!Close
    BY <1>6 DEF Etcd!Close
  <1>7. CASE Etcd!CloseStop
    BY <1>7 DEF Etcd!CloseStop
  <1>8. CASE Etcd!CloseReturn
    BY <1>8 DEF Etcd!CloseReturn
  <1>9. CASE UNCHANGED etcdVars
    BY <1>9 DEF etcdVars
  <1> QED
    BY <1>1, <1>2, <1>3, <1>4, <1>5, <1>6, <1>7, <1>8, <1>9
       DEF Etcd!Next, Etcd!Updating, Etcd!Closing, Etcd!Refreshers

\* The invariant is about what Close leaves running.
LEMMA EtcdSound == EtcdInv => Etcd!QuietAfterClose
  BY DEF EtcdInv, Etcd!QuietAfterClose

-------------------------------------------------------------------------------
(* ConcurrentMap *)

MapSteps == {"idle", "inc", "store", "dec"}
At(st, v) == {p \in Procs : st[p] = v}

\* The length, once the calls under way have counted, is the number of keys less the ones
\* that a late Store has put back.
MapInv ==
    /\ mStep \in [Procs -> MapSteps] /\ mLen \in Int /\ mRevived \in Int
    /\ IsFiniteSet(mInner)
    /\ mLen + Cardinality(At(mStep, "inc")) - Cardinality(At(mStep, "dec"))
          = Cardinality(mInner) - mRevived

\* The map is empty and nobody counts.
LEMMA MapInit == Map!Init => MapInv
  <1> SUFFICES ASSUME Map!Init PROVE MapInv
    OBVIOUS
  <1>1. At(mStep, "inc") = {} /\ At(mStep, "dec") = {}
    BY DEF Map!Init, At
  <1>2. Cardinality({}) = 0 /\ IsFiniteSet({})
    BY FS_EmptySet
  <1> QED
    BY <1>1, <1>2 DEF Map!Init, MapInv, MapSteps

\* Every step moves the two sides of the equation together.
LEMMA MapStep == MapInv /\ [Map!Next]_mVars => MapInv'
  <1> SUFFICES ASSUME MapInv, [Map!Next]_mVars PROVE MapInv'
    OBVIOUS
  <1>0. /\ mStep \in [Procs -> MapSteps] /\ mLen \in Int /\ mRevived \in Int
        /\ IsFiniteSet(mInner) /\ Cardinality(mInner) \in Int
        /\ mLen + Cardinality(At(mStep, "inc")) - Cardinality(At(mStep, "dec"))
              = Cardinality(mInner) - mRevived
    BY FS_CardinalityType DEF MapInv
  <1>1. \A k : /\ IsFiniteSet(mInner \cup {k}) /\ IsFiniteSet(mInner \ {k})
               /\ Cardinality(mInner \cup {k})
                     = IF k \in mInner THEN Cardinality(mInner) ELSE Cardinality(mInner) + 1
               /\ Cardinality(mInner \ {k})
                     = IF k \in mInner THEN Cardinality(mInner) - 1 ELSE Cardinality(mInner)
    BY <1>0, FS_AddElement, FS_RemoveElement
  <1> DEFINE Inc == Cardinality(At(mStep, "inc"))
             Dec == Cardinality(At(mStep, "dec"))
  <1>2. ASSUME NEW p \in Procs, NEW s \in MapSteps, mStep' = [mStep EXCEPT ![p] = s]
        PROVE  /\ mStep' \in [Procs -> MapSteps]
               /\ Inc \in Int /\ Dec \in Int /\ Inc' \in Int /\ Dec' \in Int
               /\ s = "inc" /\ mStep[p] # "inc" => Inc' = Inc + 1
               /\ s # "inc" /\ mStep[p] = "inc" => Inc' = Inc - 1
               /\ (s = "inc" <=> mStep[p] = "inc") => Inc' = Inc
               /\ s = "dec" /\ mStep[p] # "dec" => Dec' = Dec + 1
               /\ s # "dec" /\ mStep[p] = "dec" => Dec' = Dec - 1
               /\ (s = "dec" <=> mStep[p] = "dec") => Dec' = Dec
    <2>1. PICK t : t = mStep'
      OBVIOUS
    <2>2. t = [mStep EXCEPT ![p] = s]
      BY <1>2, <2>1
    <2>3. t \in [Procs -> MapSteps]
      BY <1>0, <2>2
    <2>a. mStep \in [Procs -> MapSteps]
      BY <1>0
    <2>4. ASSUME NEW v
          PROVE  /\ Cardinality(At(mStep, v)) \in Int /\ Cardinality(At(t, v)) \in Int
                 /\ s = v /\ mStep[p] # v => Cardinality(At(t, v)) = Cardinality(At(mStep, v)) + 1
                 /\ s # v /\ mStep[p] = v => Cardinality(At(t, v)) = Cardinality(At(mStep, v)) - 1
                 /\ (s = v <=> mStep[p] = v) => Cardinality(At(t, v)) = Cardinality(At(mStep, v))
      <3> DEFINE A == At(mStep, v)
                 B == At(t, v)
      <3>1. IsFiniteSet(A) /\ IsFiniteSet(B)
        <4>1. A \subseteq Procs /\ B \subseteq Procs
          BY DEF At
        <4> QED
          BY <4>1, HelpersAssumption, FS_Subset
      <3>2. Cardinality(A) \in Int /\ Cardinality(B) \in Int
        BY <3>1, FS_CardinalityType
      <3>3. p \in A <=> mStep[p] = v
        BY DEF At
      <3>4. /\ s = v => B = A \cup {p}
            /\ s # v => B = A \ {p}
        BY <2>a, <2>2 DEF At
      <3>5. Cardinality(A \cup {p}) = IF p \in A THEN Cardinality(A) ELSE Cardinality(A) + 1
        BY <3>1, FS_AddElement
      <3>6. Cardinality(A \ {p}) = IF p \in A THEN Cardinality(A) - 1 ELSE Cardinality(A)
        BY <3>1, FS_RemoveElement
      <3> HIDE DEF A, B
      <3>7. /\ Cardinality(A) \in Int /\ Cardinality(B) \in Int
            /\ s = v /\ mStep[p] # v => Cardinality(B) = Cardinality(A) + 1
            /\ s # v /\ mStep[p] = v => Cardinality(B) = Cardinality(A) - 1
            /\ (s = v <=> mStep[p] = v) => Cardinality(B) = Cardinality(A)
        BY ONLY <3>2, <3>3, <3>4, <3>5, <3>6
      <3> QED
        BY ONLY <3>7 DEF A, B
    <2>5. Inc' = Cardinality(At(t, "inc")) /\ Dec' = Cardinality(At(t, "dec"))
      BY <2>1
    <2>6. /\ Inc \in Int /\ Inc' \in Int
          /\ s = "inc" /\ mStep[p] # "inc" => Inc' = Inc + 1
          /\ s # "inc" /\ mStep[p] = "inc" => Inc' = Inc - 1
          /\ (s = "inc" <=> mStep[p] = "inc") => Inc' = Inc
      BY <2>4, <2>5, Zenon
    <2>7. /\ Dec \in Int /\ Dec' \in Int
          /\ s = "dec" /\ mStep[p] # "dec" => Dec' = Dec + 1
          /\ s # "dec" /\ mStep[p] = "dec" => Dec' = Dec - 1
          /\ (s = "dec" <=> mStep[p] = "dec") => Dec' = Dec
      BY <2>4, <2>5, Zenon
    <2> HIDE DEF Inc, Dec
    <2> QED
      BY <2>1, <2>3, <2>6, <2>7
  <1> HIDE DEF Inc, Dec
  <1>A. mLen + Inc - Dec = Cardinality(mInner) - mRevived
    BY <1>0 DEF Inc, Dec
  <1>B. ASSUME mStep' \in [Procs -> MapSteps], mLen' \in Int, mRevived' \in Int,
               IsFiniteSet(mInner'), mLen' + Inc' - Dec' = Cardinality(mInner') - mRevived'
        PROVE  MapInv'
    BY <1>B DEF MapInv, Inc, Dec
  <1>3. ASSUME NEW p \in Procs, NEW k \in MapKeys, Map!Insert(p, k) PROVE MapInv'
    <2>1. mStep[p] = "idle" /\ mLen' = mLen /\ mRevived' = mRevived /\ mInner' = mInner \cup {k}
          /\ mStep' = [mStep EXCEPT ![p] = IF k \in mInner THEN "store" ELSE "inc"]
      BY <1>3 DEF Map!Insert, Map!Begin
    <2>2. CASE k \in mInner
      <3>1. mStep' = [mStep EXCEPT ![p] = "store"] /\ "store" \in MapSteps
        BY <2>1, <2>2 DEF MapSteps
      <3>2. /\ Inc \in Int /\ Dec \in Int /\ Inc' = Inc /\ Dec' = Dec
        BY <3>1, <1>2, <2>1, <2>2
      <3>3. mStep' \in [Procs -> MapSteps]
        BY <3>1, <1>2
      <3>4. IsFiniteSet(mInner') /\ Cardinality(mInner') = Cardinality(mInner)
        BY <1>0, <1>1, <2>1, <2>2
      <3>5. /\ mLen' \in Int /\ mRevived' \in Int
            /\ mLen' + Inc' - Dec' = Cardinality(mInner') - mRevived'
        BY <1>0, <1>A, <2>1, <2>2, <3>2, <3>4
      <3> QED
        BY <1>B, <3>3, <3>4, <3>5
    <2>3. CASE k \notin mInner
      <3>1. mStep' = [mStep EXCEPT ![p] = "inc"] /\ "inc" \in MapSteps
        BY <2>1, <2>3 DEF MapSteps
      <3>2. /\ Inc \in Int /\ Dec \in Int /\ Inc' = Inc + 1 /\ Dec' = Dec
        BY <3>1, <1>2, <2>1, <2>3
      <3>3. mStep' \in [Procs -> MapSteps]
        BY <3>1, <1>2
      <3>4. IsFiniteSet(mInner') /\ Cardinality(mInner') = Cardinality(mInner) + 1
        BY <1>0, <1>1, <2>1, <2>3
      <3>5. /\ mLen' \in Int /\ mRevived' \in Int
            /\ mLen' + Inc' - Dec' = Cardinality(mInner') - mRevived'
        BY <1>0, <1>A, <2>1, <2>3, <3>2, <3>4
      <3> QED
        BY <1>B, <3>3, <3>4, <3>5
    <2> QED
      BY <2>1, <2>2, <2>3
  <1>4. ASSUME NEW p \in Procs, NEW k \in MapKeys, Map!GetOrInsert(p, k) PROVE MapInv'
    <2>1. mStep[p] = "idle" /\ mLen' = mLen /\ mRevived' = mRevived /\ mInner' = mInner \cup {k}
          /\ mStep' = [mStep EXCEPT ![p] = IF k \in mInner THEN "idle" ELSE "inc"]
      BY <1>4 DEF Map!GetOrInsert, Map!Begin
    <2>2. CASE k \in mInner
      <3>1. mStep' = [mStep EXCEPT ![p] = "idle"] /\ "idle" \in MapSteps
        BY <2>1, <2>2 DEF MapSteps
      <3>2. /\ Inc \in Int /\ Dec \in Int /\ Inc' = Inc /\ Dec' = Dec
        BY <3>1, <1>2, <2>1, <2>2
      <3>3. mStep' \in [Procs -> MapSteps]
        BY <3>1, <1>2
      <3>4. IsFiniteSet(mInner') /\ Cardinality(mInner') = Cardinality(mInner)
        BY <1>0, <1>1, <2>1, <2>2
      <3>5. /\ mLen' \in Int /\ mRevived' \in Int
            /\ mLen' + Inc' - Dec' = Cardinality(mInner') - mRevived'
        BY <1>0, <1>A, <2>1, <2>2, <3>2, <3>4
      <3> QED
        BY <1>B, <3>3, <3>4, <3>5
    <2>3. CASE k \notin mInner
      <3>1. mStep' = [mStep EXCEPT ![p] = "inc"] /\ "inc" \in MapSteps
        BY <2>1, <2>3 DEF MapSteps
      <3>2. /\ Inc \in Int /\ Dec \in Int /\ Inc' = Inc + 1 /\ Dec' = Dec
        BY <3>1, <1>2, <2>1, <2>3
      <3>3. mStep' \in [Procs -> MapSteps]
        BY <3>1, <1>2
      <3>4. IsFiniteSet(mInner') /\ Cardinality(mInner') = Cardinality(mInner) + 1
        BY <1>0, <1>1, <2>1, <2>3
      <3>5. /\ mLen' \in Int /\ mRevived' \in Int
            /\ mLen' + Inc' - Dec' = Cardinality(mInner') - mRevived'
        BY <1>0, <1>A, <2>1, <2>3, <3>2, <3>4
      <3> QED
        BY <1>B, <3>3, <3>4, <3>5
    <2> QED
      BY <2>1, <2>2, <2>3
  <1>5. ASSUME NEW p \in Procs, NEW k \in MapKeys, Map!Remove(p, k) PROVE MapInv'
    <2>1. mStep[p] = "idle" /\ mLen' = mLen /\ mRevived' = mRevived /\ mInner' = mInner \ {k}
          /\ mStep' = [mStep EXCEPT ![p] = IF k \in mInner THEN "dec" ELSE "idle"]
      BY <1>5 DEF Map!Remove, Map!Begin
    <2>2. CASE k \in mInner
      <3>1. mStep' = [mStep EXCEPT ![p] = "dec"] /\ "dec" \in MapSteps
        BY <2>1, <2>2 DEF MapSteps
      <3>2. /\ Inc \in Int /\ Dec \in Int /\ Inc' = Inc /\ Dec' = Dec + 1
        BY <3>1, <1>2, <2>1, <2>2
      <3>3. mStep' \in [Procs -> MapSteps]
        BY <3>1, <1>2
      <3>4. IsFiniteSet(mInner') /\ Cardinality(mInner') = Cardinality(mInner) - 1
        BY <1>0, <1>1, <2>1, <2>2
      <3>5. /\ mLen' \in Int /\ mRevived' \in Int
            /\ mLen' + Inc' - Dec' = Cardinality(mInner') - mRevived'
        BY <1>0, <1>A, <2>1, <2>2, <3>2, <3>4
      <3> QED
        BY <1>B, <3>3, <3>4, <3>5
    <2>3. CASE k \notin mInner
      <3>1. mStep' = [mStep EXCEPT ![p] = "idle"] /\ "idle" \in MapSteps
        BY <2>1, <2>3 DEF MapSteps
      <3>2. /\ Inc \in Int /\ Dec \in Int /\ Inc' = Inc /\ Dec' = Dec
        BY <3>1, <1>2, <2>1, <2>3
      <3>3. mStep' \in [Procs -> MapSteps]
        BY <3>1, <1>2
      <3>4. IsFiniteSet(mInner') /\ Cardinality(mInner') = Cardinality(mInner)
        BY <1>0, <1>1, <2>1, <2>3
      <3>5. /\ mLen' \in Int /\ mRevived' \in Int
            /\ mLen' + Inc' - Dec' = Cardinality(mInner') - mRevived'
        BY <1>0, <1>A, <2>1, <2>3, <3>2, <3>4
      <3> QED
        BY <1>B, <3>3, <3>4, <3>5
    <2> QED
      BY <2>1, <2>2, <2>3
  <1>6. ASSUME NEW p \in Procs, Map!Store(p) PROVE MapInv'
    <2>1. PICK k : k = mKey[p]
      OBVIOUS
    <2>2. mStep[p] = "store" /\ mLen' = mLen /\ mInner' = mInner \cup {k}
          /\ mRevived' = mRevived + (IF k \in mInner THEN 0 ELSE 1)
          /\ mStep' = [mStep EXCEPT ![p] = "idle"]
      BY <1>6, <2>1 DEF Map!Store
    <2>3. CASE k \in mInner
      <3>1. mStep' = [mStep EXCEPT ![p] = "idle"] /\ "idle" \in MapSteps
        BY <2>2, <2>3 DEF MapSteps
      <3>2. /\ Inc \in Int /\ Dec \in Int /\ Inc' = Inc /\ Dec' = Dec
        BY <3>1, <1>2, <2>2, <2>3
      <3>3. mStep' \in [Procs -> MapSteps]
        BY <3>1, <1>2
      <3>4. IsFiniteSet(mInner') /\ Cardinality(mInner') = Cardinality(mInner)
        BY <1>0, <1>1, <2>2, <2>3
      <3>5. /\ mLen' \in Int /\ mRevived' \in Int
            /\ mLen' + Inc' - Dec' = Cardinality(mInner') - mRevived'
        BY <1>0, <1>A, <2>2, <2>3, <3>2, <3>4
      <3> QED
        BY <1>B, <3>3, <3>4, <3>5
    <2>4. CASE k \notin mInner
      <3>1. mStep' = [mStep EXCEPT ![p] = "idle"] /\ "idle" \in MapSteps
        BY <2>2, <2>4 DEF MapSteps
      <3>2. /\ Inc \in Int /\ Dec \in Int /\ Inc' = Inc /\ Dec' = Dec
        BY <3>1, <1>2, <2>2, <2>4
      <3>3. mStep' \in [Procs -> MapSteps]
        BY <3>1, <1>2
      <3>4. IsFiniteSet(mInner') /\ Cardinality(mInner') = Cardinality(mInner) + 1
        BY <1>0, <1>1, <2>2, <2>4
      <3>5. /\ mLen' \in Int /\ mRevived' \in Int
            /\ mLen' + Inc' - Dec' = Cardinality(mInner') - mRevived'
        BY <1>0, <1>A, <2>2, <2>4, <3>2, <3>4
      <3> QED
        BY <1>B, <3>3, <3>4, <3>5
    <2> QED
      BY <2>2, <2>3, <2>4
  <1>7. ASSUME NEW p \in Procs, Map!Count(p) PROVE MapInv'
    <2>1. mRevived' = mRevived /\ mInner' = mInner /\ mStep[p] \in {"inc", "dec"}
          /\ mLen' = (IF mStep[p] = "inc" THEN mLen + 1 ELSE mLen - 1)
          /\ mStep' = [mStep EXCEPT ![p] = "idle"]
      BY <1>7 DEF Map!Count
    <2>2. CASE mStep[p] = "inc"
      <3>1. mStep' = [mStep EXCEPT ![p] = "idle"] /\ "idle" \in MapSteps
        BY <2>1, <2>2 DEF MapSteps
      <3>2. /\ Inc \in Int /\ Dec \in Int /\ Inc' = Inc - 1 /\ Dec' = Dec
        BY <3>1, <1>2, <2>1, <2>2
      <3>3. mStep' \in [Procs -> MapSteps]
        BY <3>1, <1>2
      <3>4. IsFiniteSet(mInner') /\ Cardinality(mInner') = Cardinality(mInner)
        BY <1>0, <1>1, <2>1, <2>2
      <3>5. /\ mLen' \in Int /\ mRevived' \in Int
            /\ mLen' + Inc' - Dec' = Cardinality(mInner') - mRevived'
        BY <1>0, <1>A, <2>1, <2>2, <3>2, <3>4
      <3> QED
        BY <1>B, <3>3, <3>4, <3>5
    <2>3. CASE mStep[p] = "dec"
      <3>1. mStep' = [mStep EXCEPT ![p] = "idle"] /\ "idle" \in MapSteps
        BY <2>1, <2>3 DEF MapSteps
      <3>2. /\ Inc \in Int /\ Dec \in Int /\ Inc' = Inc /\ Dec' = Dec - 1
        BY <3>1, <1>2, <2>1, <2>3
      <3>3. mStep' \in [Procs -> MapSteps]
        BY <3>1, <1>2
      <3>4. IsFiniteSet(mInner') /\ Cardinality(mInner') = Cardinality(mInner)
        BY <1>0, <1>1, <2>1, <2>3
      <3>5. /\ mLen' \in Int /\ mRevived' \in Int
            /\ mLen' + Inc' - Dec' = Cardinality(mInner') - mRevived'
        BY <1>0, <1>A, <2>1, <2>3, <3>2, <3>4
      <3> QED
        BY <1>B, <3>3, <3>4, <3>5
    <2> QED
      BY <2>1, <2>2, <2>3
  <1>8. CASE UNCHANGED mVars
    <2>1. mStep' = mStep /\ mLen' = mLen /\ mRevived' = mRevived /\ mInner' = mInner
      BY <1>8 DEF mVars
    <2> QED
      BY <2>1 DEF MapInv
  <1> QED
    BY <1>3, <1>4, <1>5, <1>6, <1>7, <1>8 DEF Map!Next

\* When nobody is about to count, the length is exact.
LEMMA MapSound == MapInv => Map!LenExact
  <1> SUFFICES ASSUME MapInv, \A p \in Procs : mStep[p] = "idle"
               PROVE  mLen = Cardinality(mInner) - mRevived
    BY Zenon DEF Map!LenExact, Map!Cardinality, Cardinality
  <1>1. At(mStep, "inc") = {} /\ At(mStep, "dec") = {}
    BY DEF At
  <1>2. Cardinality({}) = 0
    BY FS_EmptySet
  <1> QED
    BY <1>1, <1>2 DEF MapInv

-------------------------------------------------------------------------------
(* Parallel *)

Started == DOMAIN pWpc
EndOf(b) == Par!endOf(b)

\* Every goroutine has a batch of its own below the next to start, and together the batches
\* hold every index below that one.
ParTypes ==
    /\ pTotal \in Nat /\ pNPerBatch \in Nat /\ pBegin \in Nat /\ pCount \in Nat
    /\ pRoutineNum \in Nat /\ pQuit \in BOOLEAN
    /\ Started \subseteq Nat /\ IsFiniteSet(Started)
    /\ pWpc \in [Started -> {"start", "run", "send", "end"}]
    /\ pIdx \in [Started -> Nat] /\ pErr \in [Started -> BOOLEAN]
ParBatches ==
    /\ pMpc \in {"idle", "spawn", "collect", "wait", "returned"}
    /\ pMpc = "idle" => Started = {} /\ pBegin = 0 /\ pTotal = 0
    /\ pMpc # "idle" /\ pTotal > 0 => pNPerBatch > 0
    /\ pMpc \notin {"idle", "spawn"} => pBegin >= pTotal
    /\ pRoutineNum = Cardinality(Started)
    /\ \A b \in Started : b < pTotal /\ b < pBegin /\ b <= pIdx[b] /\ pIdx[b] <= EndOf(b)
    /\ \A n \in Nat : n < pBegin /\ n < pTotal => \E b \in Started : b <= n /\ n < EndOf(b)
ParRan ==
    /\ \A b \in Started : \A n \in Nat : b <= n /\ n < pIdx[b] => n \in pRan
    /\ pRan \subseteq 0..(pTotal - 1)
    /\ pFailed # {} <=> \E b \in Started : pErr[b]
\* What is known of the goroutines when the caller is at a step of its own.
ParEnds ==
    /\ \A b \in Started : pErr[b] => pWpc[b] \in {"send", "end"}
    /\ \A b \in Started : pWpc[b] = "send" /\ ~pErr[b] => pIdx[b] = EndOf(b)
    /\ pMpc \in {"idle", "spawn"} => ~pQuit /\ pCount = 0 /\ \A b \in Started : pWpc[b] # "end"
    /\ pMpc = "collect" =>
          /\ ~pQuit /\ pCount = Cardinality({b \in Started : pWpc[b] = "end"})
          /\ \A b \in Started : pWpc[b] = "end" => ~pErr[b] /\ pIdx[b] = EndOf(b)
    /\ pMpc \in {"wait", "returned"} =>
          /\ pResult \in {"nil", "error"}
          /\ pResult = "nil" => \A b \in Started : pWpc[b] = "end" /\ ~pErr[b] /\ pIdx[b] = EndOf(b)
          /\ pResult = "error" => \E b \in Started : pErr[b]
    /\ pMpc = "returned" => \A b \in Started : pWpc[b] = "end"
ParInv == ParTypes /\ ParBatches /\ ParRan /\ ParEnds

\* A quotient of natural numbers, which is 1 at least when the divisor is not larger.
LEMMA Quotient ==
    ASSUME NEW x \in Nat, NEW n \in Nat, n >= 1
    PROVE  x \div n \in Nat /\ (x >= n => x \div n >= 1)
  <1>1. x = (n * (x \div n)) + (x % n) /\ x % n \in 0..(n - 1) /\ x \div n \in Int
    OBVIOUS
  <1> DEFINE q == x \div n
  <1> HIDE DEF q
  <1>2. q \in Int /\ x = n * q + (x % n)
    BY <1>1 DEF q
  <1>3. q < 0 => n * q <= - n
    BY <1>2
  <1>4. q >= 0
    BY <1>1, <1>2, <1>3
  <1>5. q = 0 => n * q = 0
    BY <1>2
  <1>6. q \in Nat /\ (x >= n => q >= 1)
    BY <1>1, <1>2, <1>4, <1>5
  <1> QED
    BY <1>6 DEF q

\* A call with something to do gives every goroutine one index at least.
LEMMA BatchSize ==
    ASSUME NEW t \in Nat, NEW m \in Int
    PROVE  Par!nPerBatchOf(t, m) \in Nat /\ (t > 0 => Par!nPerBatchOf(t, m) > 0)
  <1> DEFINE n == IF m <= 0 THEN 1 ELSE m
  <1>1. n \in Nat /\ n >= 1
    OBVIOUS
  <1>2. Par!nPerBatchOf(t, m) = (t + n - 1) \div n
    BY DEF Par!nPerBatchOf
  <1> HIDE DEF n
  <1>3. t + n - 1 \in Nat /\ (t > 0 => t + n - 1 >= n)
    BY <1>1
  <1>4. (t + n - 1) \div n \in Nat /\ (t + n - 1 >= n => (t + n - 1) \div n >= 1)
    BY <1>1, <1>3, Quotient
  <1> QED
    BY <1>2, <1>3, <1>4

\* Nothing is started.
LEMMA ParInit == Par!Init => ParInv
  <1> SUFFICES ASSUME Par!Init PROVE ParInv
    OBVIOUS
  <1>1. Started = {} /\ IsFiniteSet({}) /\ Cardinality({}) = 0
    BY FS_EmptySet DEF Par!Init, Started
  <1>2. ParTypes
    <2>1. \A X : <<>> \in [1..0 -> X]
      <3> SUFFICES ASSUME NEW X PROVE <<>> \in [1..0 -> X]
        OBVIOUS
      <3>1. <<>> \in Seq(X) /\ Len(<<>>) = 0
        OBVIOUS
      <3>2. \A q \in Seq(X) : q \in [1..Len(q) -> X]
        OBVIOUS
      <3> QED
        BY <3>1, <3>2
    <2>2. 1..0 = {}
      OBVIOUS
    <2>3. /\ pWpc \in [{} -> {"start", "run", "send", "end"}]
          /\ pIdx \in [{} -> Nat] /\ pErr \in [{} -> BOOLEAN]
      BY <2>1, <2>2, Zenon DEF Par!Init
    <2>4. /\ pTotal \in Nat /\ pNPerBatch \in Nat /\ pBegin \in Nat /\ pCount \in Nat
          /\ pRoutineNum \in Nat /\ pQuit \in BOOLEAN
      BY DEF Par!Init
    <2> QED
      BY <1>1, <2>3, <2>4, Zenon DEF ParTypes
  <1>3. ParBatches
    BY <1>1 DEF Par!Init, ParBatches
  <1>4. ParRan
    BY <1>1 DEF Par!Init, ParRan
  <1>5. ParEnds
    BY <1>1 DEF Par!Init, ParEnds
  <1> QED
    BY <1>2, <1>3, <1>4, <1>5 DEF ParInv

\* Where a batch ends.
LEMMA EndBounds ==
    ASSUME ParTypes, NEW b \in Nat
    PROVE  /\ EndOf(b) \in Nat /\ EndOf(b) <= pTotal /\ EndOf(b) <= b + pNPerBatch
           /\ EndOf(b) = pTotal \/ EndOf(b) = b + pNPerBatch
  BY DEF ParTypes, EndOf, Par!endOf

\* The arguments are batched.
LEMMA ParBatch ==
    ASSUME ParInv, NEW t \in Nat, Par!Batch(t) PROVE ParInv'
  <1>1. /\ pMpc = "idle" /\ pMpc' = "spawn" /\ pTotal' = t
        /\ \E n \in Parallels : pNPerBatch' = Par!nPerBatchOf(t, n)
        /\ pWpc' = pWpc /\ pIdx' = pIdx /\ pErr' = pErr /\ pQuit' = pQuit /\ pBegin' = pBegin
        /\ pCount' = pCount /\ pRoutineNum' = pRoutineNum /\ pResult' = pResult
        /\ pRan' = pRan /\ pFailed' = pFailed
    BY DEF Par!Batch, Par!history
  <1>2. pNPerBatch' \in Nat /\ (t > 0 => pNPerBatch' > 0)
    BY <1>1, BatchSize, HelpersAssumption
  <1>3. Started = {} /\ Started' = {} /\ pBegin = 0  /\ pTotal = 0
    BY <1>1 DEF ParInv, ParBatches, Started
  <1>4. ParTypes'
    BY <1>1, <1>2, <1>3 DEF ParInv, ParTypes
  <1>5. ParBatches'
    BY <1>1, <1>2, <1>3 DEF ParInv, ParBatches
  <1>6. ParRan'
    <2>1. pFailed = {} /\ pRan = {}
      BY <1>3 DEF ParInv, ParRan
    <2> QED
      BY <1>1, <1>3, <2>1 DEF ParInv, ParRan
  <1>7. ParEnds'
    BY <1>1, <1>3 DEF ParInv, ParEnds
  <1> QED
    BY <1>4, <1>5, <1>6, <1>7 DEF ParInv

\* The next goroutine is started, or all have been.
LEMMA ParSpawn ==
    ASSUME ParInv, Par!Spawn PROVE ParInv'
  <1>t. ParTypes /\ ParBatches /\ ParRan /\ ParEnds
    BY DEF ParInv
  <1>0. /\ pMpc = "spawn" /\ pTotal' = pTotal /\ pNPerBatch' = pNPerBatch /\ pQuit' = pQuit
        /\ pCount' = pCount /\ pRan' = pRan /\ pFailed' = pFailed
    BY DEF Par!Spawn, Par!args, Par!history
  <1>e. \A b : EndOf(b)' = EndOf(b)
    BY <1>0 DEF EndOf, Par!endOf
  <1>1. CASE pBegin < pTotal
    <2>1. /\ pWpc' = [b \in Started \cup {pBegin} |-> IF b = pBegin THEN "start" ELSE pWpc[b]]
          /\ pIdx' = [b \in Started \cup {pBegin} |-> IF b = pBegin THEN pBegin ELSE pIdx[b]]
          /\ pErr' = [b \in Started \cup {pBegin} |-> IF b = pBegin THEN FALSE ELSE pErr[b]]
          /\ pBegin' = pBegin + pNPerBatch /\ pRoutineNum' = pRoutineNum + 1
          /\ pMpc' = pMpc /\ pResult' = pResult
      <3>1. DOMAIN pIdx = Started /\ DOMAIN pErr = Started
        BY <1>t DEF ParTypes
      <3> QED
        BY <1>1, <3>1 DEF Par!Spawn, Started
    <2>2. Started' = Started \cup {pBegin} /\ pBegin \notin Started /\ pBegin \in Nat
      BY <1>t, <2>1 DEF Started, ParBatches, ParTypes
    <2>3. IsFiniteSet(Started') /\ Cardinality(Started') = Cardinality(Started) + 1
      BY <1>t, <2>2, FS_AddElement DEF ParTypes
    <2>4. pNPerBatch \in Nat /\ pNPerBatch > 0 /\ pTotal \in Nat
      BY <1>t, <1>0, <1>1, <2>2 DEF ParBatches, ParTypes
    <2>5. ParTypes'
      <3>1. /\ pWpc' \in [Started' -> {"start", "run", "send", "end"}]
            /\ pIdx' \in [Started' -> Nat]
        BY <1>t, <2>1, <2>2 DEF ParTypes
      <3>2. pErr' \in [Started' -> BOOLEAN]
        BY <1>t, <2>1, <2>2, Zenon DEF ParTypes
      <3>3. /\ pTotal' \in Nat /\ pNPerBatch' \in Nat /\ pBegin' \in Nat /\ pCount' \in Nat
            /\ pRoutineNum' \in Nat /\ Started' \subseteq Nat
        BY <1>t, <1>0, <2>1, <2>2, <2>4 DEF ParTypes
      <3>4. pQuit' \in BOOLEAN
        BY <1>t, <1>0 DEF ParTypes
      <3> QED
        BY <2>3, <3>1, <3>2, <3>3, <3>4, Zenon DEF ParTypes
    <2>6. /\ EndOf(pBegin) \in Nat /\ pBegin < EndOf(pBegin)
          /\ EndOf(pBegin) = pTotal \/ EndOf(pBegin) = pBegin'
      BY <1>1, <2>1, <2>2, <2>4 DEF EndOf, Par!endOf
    <2>7. ParBatches'
      <3>1. \A b \in Started' : /\ b < pTotal' /\ b < pBegin' /\ b <= pIdx'[b]
                                /\ pIdx'[b] <= (EndOf(b))'
        <4> SUFFICES ASSUME NEW b \in Started'
                     PROVE  /\ b < pTotal /\ b < pBegin' /\ b <= pIdx'[b]
                            /\ pIdx'[b] <= EndOf(b)
          BY <1>0, <1>e
        <4>1. CASE b = pBegin
          <5>1. pIdx'[b] = pBegin
            BY <2>1, <2>2, <4>1
          <5> QED
            BY <1>1, <2>1, <2>2, <2>4, <2>6, <4>1, <5>1
        <4>2. CASE b # pBegin
          <5>1. b \in Started /\ pIdx'[b] = pIdx[b] /\ b \in Nat
            BY <1>t, <2>1, <2>2, <4>2 DEF ParTypes
          <5> QED
            BY <1>t, <2>1, <2>2, <2>4, <5>1 DEF ParBatches
        <4> QED
          BY <4>1, <4>2
      <3>2. \A n \in Nat : n < pBegin' /\ n < pTotal' =>
                              \E b \in Started' : b <= n /\ n < (EndOf(b))'
        <4> SUFFICES ASSUME NEW n \in Nat, n < pBegin', n < pTotal
                     PROVE  \E b \in Started' : b <= n /\ n < EndOf(b)
          BY <1>0, <1>e
        <4>1. CASE n < pBegin
          BY <1>t, <2>2, <4>1 DEF ParBatches
        <4>2. CASE n >= pBegin
          BY <2>2, <2>6, <4>2
        <4> QED
          BY <2>2, <4>1, <4>2
      <3>3. pRoutineNum' = Cardinality(Started')
        BY <1>t, <2>1, <2>3 DEF ParBatches
      <3> QED
        BY <1>0, <2>1, <2>4, <3>1, <3>2, <3>3 DEF ParBatches
    <2>8. ParRan'
      <3>1. \A b \in Started' : \A n \in Nat : b <= n /\ n < pIdx'[b] => n \in pRan
        <4> SUFFICES ASSUME NEW b \in Started', NEW n \in Nat, b <= n, n < pIdx'[b]
                     PROVE  n \in pRan
          OBVIOUS
        <4>1. b # pBegin /\ b \in Started /\ pIdx'[b] = pIdx[b]
          BY <2>1, <2>2
        <4> QED
          BY <1>t, <4>1 DEF ParRan
      <3>2. (\E b \in Started' : pErr'[b]) <=> \E b \in Started : pErr[b]
        BY <2>1, <2>2
      <3> QED
        BY <1>t, <1>0, <3>1, <3>2 DEF ParRan
    <2>9. ParEnds'
      <3>1. \A b \in Started' : \/ b \in Started /\ pWpc'[b] = pWpc[b] /\ pErr'[b] = pErr[b]
                                   /\ pIdx'[b] = pIdx[b]
                                \/ b = pBegin /\ pWpc'[b] = "start" /\ pErr'[b] = FALSE
        BY <2>1, <2>2
      <3> QED
        BY <1>t, <1>0, <1>e, <2>1, <3>1 DEF ParEnds
    <2> QED
      BY <2>5, <2>7, <2>8, <2>9 DEF ParInv
  <1>2. CASE ~(pBegin < pTotal)
    <2>1. /\ pWpc' = pWpc /\ pIdx' = pIdx /\ pErr' = pErr /\ pBegin' = pBegin
          /\ pRoutineNum' = pRoutineNum
          /\ IF pRoutineNum = 0 THEN pMpc' = "returned" /\ pResult' = "nil"
             ELSE pMpc' = "collect" /\ pResult' = pResult
      BY <1>2 DEF Par!Spawn
    <2>2. Started' = Started
      BY <2>1 DEF Started
    <2>3. pBegin >= pTotal /\ pBegin \in Nat /\ pTotal \in Nat
      BY <1>t, <1>2 DEF ParTypes
    <2>4. ParTypes' /\ ParRan'
      BY <1>t, <1>0, <2>1, <2>2 DEF ParTypes, ParRan
    <2>5. ParBatches'
      BY <1>t, <1>0, <1>e, <2>1, <2>2, <2>3 DEF ParBatches
    <2>6. ParEnds'
      <3>1. pRoutineNum = 0 => Started = {}
        BY <1>t, FS_EmptySet DEF ParBatches, ParTypes
      <3>2. {b \in Started : pWpc[b] = "end"} = {} /\ Cardinality({}) = 0
        BY <1>t, <1>0, FS_EmptySet DEF ParEnds
      <3>3. CASE pRoutineNum = 0
        BY <1>t, <1>0, <1>e, <2>1, <2>2, <3>1, <3>3 DEF ParEnds
      <3>4. CASE pRoutineNum # 0
        <4>1. pMpc' = "collect"
          BY <2>1, <3>4
        <4>2. {b \in Started' : pWpc'[b] = "end"} = {}
          BY <2>1, <2>2, <3>2
        <4> QED
          BY <1>t, <1>0, <1>e, <2>1, <2>2, <3>2, <4>1, <4>2 DEF ParEnds
      <3> QED
        BY <3>3, <3>4
    <2> QED
      BY <2>4, <2>5, <2>6 DEF ParInv
  <1> QED
    BY <1>1, <1>2

\* A goroutine only changes where it is: it starts, or it leaves through quit.
LEMMA ParLeave ==
    ASSUME ParInv, NEW b \in Started, Par!Start(b) \/ Par!Quit(b) PROVE ParInv'
  <1>t. ParTypes /\ ParBatches /\ ParRan /\ ParEnds
    BY DEF ParInv
  <1>0. /\ pTotal' = pTotal /\ pNPerBatch' = pNPerBatch /\ pIdx' = pIdx /\ pErr' = pErr
        /\ pQuit' = pQuit /\ pMpc' = pMpc /\ pBegin' = pBegin /\ pCount' = pCount
        /\ pRoutineNum' = pRoutineNum /\ pResult' = pResult /\ pRan' = pRan /\ pFailed' = pFailed
    BY DEF Par!Start, Par!Quit, Par!args, Par!history
  <1>e. \A a : EndOf(a)' = EndOf(a)
    BY <1>0 DEF EndOf, Par!endOf
  <1>1. PICK w \in {"run", "end"} :
            /\ pWpc' = [pWpc EXCEPT ![b] = w]
            /\ w = "end" => pQuit
            /\ w = "run" => pWpc[b] = "start"
            /\ pWpc[b] # "end"
    <2>1. CASE Par!Start(b)
      BY <2>1 DEF Par!Start
    <2>2. CASE Par!Quit(b)
      BY <2>2 DEF Par!Quit
    <2> QED
      BY <2>1, <2>2
  <1>2. Started' = Started
    BY <1>1 DEF Started
  <1>3. ParTypes'
    BY <1>t, <1>0, <1>1, <1>2 DEF ParTypes
  <1>4. ParBatches' /\ ParRan'
    BY <1>t, <1>0, <1>e, <1>2 DEF ParBatches, ParRan
  <1>5. /\ pWpc'[b] = w
        /\ \A a \in Started : a # b => pWpc'[a] = pWpc[a]
    BY <1>t, <1>1 DEF ParTypes
  <1>6. ParEnds'
    <2>1. pMpc = "collect" => {a \in Started' : pWpc'[a] = "end"} = {a \in Started : pWpc[a] = "end"}
      <3> SUFFICES ASSUME pMpc = "collect"
                   PROVE  {a \in Started' : pWpc'[a] = "end"} = {a \in Started : pWpc[a] = "end"}
        OBVIOUS
      <3>1. w = "run"
        BY <1>t, <1>1 DEF ParEnds
      <3> QED
        BY <1>1, <1>2, <1>5, <3>1
    <2>2. \A a \in Started : pErr[a] => pWpc'[a] \in {"send", "end"}
      <3> SUFFICES ASSUME NEW a \in Started, pErr[a] PROVE pWpc'[a] \in {"send", "end"}
        OBVIOUS
      <3>1. pWpc[a] \in {"send", "end"}
        BY <1>t DEF ParEnds
      <3> QED
        BY <1>1, <1>5, <3>1
    <2>3. \A a \in Started : pWpc'[a] = "send" => pWpc[a] = "send"
      BY <1>1, <1>5
    <2>4. pMpc \in {"idle", "spawn", "collect"} =>
             \A a \in Started : pWpc'[a] = "end" => pWpc[a] = "end"
      BY <1>t, <1>1, <1>5 DEF ParEnds
    <2>5. pMpc \in {"wait", "returned"} =>
             \A a \in Started : pWpc[a] = "end" => pWpc'[a] = "end"
      BY <1>1, <1>5
    <2> QED
      BY <1>t, <1>0, <1>e, <1>2, <2>1, <2>2, <2>3, <2>4, <2>5 DEF ParEnds
  <1> QED
    BY <1>3, <1>4, <1>6 DEF ParInv

\* A goroutine calls f once more, or has called it for its whole batch.
LEMMA ParRun ==
    ASSUME ParInv, NEW b \in Started, Par!Run(b) PROVE ParInv'
  <1>t. ParTypes /\ ParBatches /\ ParRan /\ ParEnds
    BY DEF ParInv
  <1>0. /\ pTotal' = pTotal /\ pNPerBatch' = pNPerBatch /\ pQuit' = pQuit /\ pMpc' = pMpc
        /\ pBegin' = pBegin /\ pCount' = pCount /\ pRoutineNum' = pRoutineNum
        /\ pResult' = pResult /\ pWpc[b] = "run"
    BY DEF Par!Run, Par!args
  <1>e. \A a : EndOf(a)' = EndOf(a)
    BY <1>0 DEF EndOf, Par!endOf
  <1>r. ~pErr[b] /\ b \in Nat /\ pIdx[b] \in Nat /\ EndOf(b) \in Nat /\ EndOf(b) <= pTotal
        /\ pIdx[b] <= EndOf(b) /\ pTotal \in Nat
    BY <1>t, <1>0, EndBounds DEF ParEnds, ParTypes, ParBatches
  <1>1. CASE pIdx[b] < EndOf(b)
    <2>1. PICK e \in BOOLEAN :
              /\ pRan' = pRan \cup {pIdx[b]}
              /\ pFailed' = IF e THEN pFailed \cup {pIdx[b]} ELSE pFailed
              /\ pErr' = [pErr EXCEPT ![b] = e]
              /\ pWpc' = [pWpc EXCEPT ![b] = IF e THEN "send" ELSE "run"]
              /\ pIdx' = [pIdx EXCEPT ![b] = pIdx[b] + 1]
      BY <1>1, Zenon DEF Par!Run, EndOf
    <2>2. Started' = Started
      BY <2>1 DEF Started
    <2>3. ParTypes'
      <3>1. /\ pWpc' \in [Started -> {"start", "run", "send", "end"}] /\ pIdx' \in [Started -> Nat]
        BY <1>t, <1>r, <2>1 DEF ParTypes
      <3>2. pErr' \in [Started -> BOOLEAN]
        BY <1>t, <2>1 DEF ParTypes
      <3> QED
        BY <1>t, <1>0, <2>2, <3>1, <3>2, Zenon DEF ParTypes
    <2>4. /\ pWpc'[b] = (IF e THEN "send" ELSE "run") /\ pErr'[b] = e /\ pIdx'[b] = pIdx[b] + 1
          /\ \A a \in Started : a # b => pWpc'[a] = pWpc[a] /\ pErr'[a] = pErr[a] /\ pIdx'[a] = pIdx[a]
      BY <1>t, <2>1 DEF ParTypes
    <2>5. ParBatches'
      <3>1. \A a \in Started : a <= pIdx'[a] /\ pIdx'[a] <= EndOf(a)
        <4> SUFFICES ASSUME NEW a \in Started PROVE a <= pIdx'[a] /\ pIdx'[a] <= EndOf(a)
          OBVIOUS
        <4>1. a <= pIdx[a] /\ pIdx[a] <= EndOf(a)
          BY <1>t DEF ParBatches
        <4> QED
          BY <1>1, <1>r, <2>4, <4>1
      <3> QED
        BY <1>t, <1>0, <1>e, <2>2, <3>1 DEF ParBatches
    <2>6. ParRan'
      <3>1. \A a \in Started : \A n \in Nat : a <= n /\ n < pIdx'[a] => n \in pRan'
        <4> SUFFICES ASSUME NEW a \in Started, NEW n \in Nat, a <= n, n < pIdx'[a]
                     PROVE  n \in pRan'
          OBVIOUS
        <4>1. n < pIdx[a] \/ (a = b /\ n = pIdx[b])
          BY <1>r, <2>4
        <4> QED
          BY <1>t, <2>1, <4>1 DEF ParRan
      <3>2. pRan' \subseteq 0..(pTotal - 1)
        <4>1. pIdx[b] \in 0..(pTotal - 1)
          BY <1>1, <1>r
        <4> QED
          BY <1>t, <2>1, <4>1 DEF ParRan
      <3>3. pFailed' # {} <=> \E a \in Started : pErr'[a]
        <4>1. CASE e
          BY <2>1, <2>4, <4>1
        <4>2. CASE ~e
          BY <1>t, <1>r, <2>1, <2>4, <4>2 DEF ParRan
        <4> QED
          BY <4>1, <4>2
      <3> QED
        BY <1>0, <2>2, <3>1, <3>2, <3>3 DEF ParRan
    <2>7. ParEnds'
      <3>1. \A a \in Started : pErr'[a] => pWpc'[a] \in {"send", "end"}
        BY <1>t, <1>r, <2>4 DEF ParEnds
      <3>2. \A a \in Started : pWpc'[a] = "send" /\ ~pErr'[a] => pIdx'[a] = EndOf(a)
        BY <1>t, <1>r, <2>4 DEF ParEnds
      <3>3. \A a \in Started : pWpc'[a] = "end" <=> pWpc[a] = "end"
        BY <1>0, <2>4
      <3>4. \A a \in Started : pWpc[a] = "end" => pErr'[a] = pErr[a] /\ pIdx'[a] = pIdx[a]
        BY <1>0, <2>4
      <3>5. (\E a \in Started : pErr[a]) => \E a \in Started : pErr'[a]
        BY <1>r, <2>4
      <3>6. {a \in Started' : pWpc'[a] = "end"} = {a \in Started : pWpc[a] = "end"}
        BY <2>2, <3>3
      <3> QED
        BY <1>t, <1>0, <1>e, <2>2, <3>1, <3>2, <3>3, <3>4, <3>5, <3>6 DEF ParEnds
    <2> QED
      BY <2>3, <2>5, <2>6, <2>7 DEF ParInv
  <1>2. CASE ~(pIdx[b] < EndOf(b))
    <2>1. /\ pWpc' = [pWpc EXCEPT ![b] = "send"] /\ pIdx' = pIdx /\ pErr' = pErr
          /\ pRan' = pRan /\ pFailed' = pFailed
      BY <1>2, Zenon DEF Par!Run, EndOf, Par!history
    <2>2. Started' = Started
      BY <2>1 DEF Started
    <2>3. ParTypes'
      BY <1>t, <1>0, <2>1, <2>2 DEF ParTypes
    <2>4. ParBatches' /\ ParRan'
      BY <1>t, <1>0, <1>e, <2>1, <2>2 DEF ParBatches, ParRan
    <2>5. pWpc'[b] = "send" /\ \A a \in Started : a # b => pWpc'[a] = pWpc[a]
      BY <1>t, <2>1 DEF ParTypes
    <2>6. pIdx[b] = EndOf(b)
      BY <1>2, <1>r
    <2>7. \A a \in Started : pWpc'[a] = "end" <=> pWpc[a] = "end"
      BY <1>0, <2>5
    <2>8. {a \in Started' : pWpc'[a] = "end"} = {a \in Started : pWpc[a] = "end"}
      BY <2>2, <2>7
    <2>9. ParEnds'
      BY <1>t, <1>0, <1>e, <1>r, <2>1, <2>2, <2>5, <2>6, <2>7, <2>8 DEF ParEnds
    <2> QED
      BY <2>3, <2>4, <2>9 DEF ParInv
  <1> QED
    BY <1>1, <1>2

\* A goroutine hands its result to the caller.
LEMMA ParMeet ==
    ASSUME ParInv, NEW b \in Started, Par!Meet(b) PROVE ParInv'
  <1>t. ParTypes /\ ParBatches /\ ParRan /\ ParEnds
    BY DEF ParInv
  <1>0. /\ pTotal' = pTotal /\ pNPerBatch' = pNPerBatch /\ pIdx' = pIdx /\ pErr' = pErr
        /\ pBegin' = pBegin /\ pRoutineNum' = pRoutineNum /\ pRan' = pRan /\ pFailed' = pFailed
        /\ pWpc[b] = "send" /\ pMpc = "collect" /\ pWpc' = [pWpc EXCEPT ![b] = "end"]
    BY DEF Par!Meet, Par!args, Par!history
  <1>e. \A a : EndOf(a)' = EndOf(a)
    BY <1>0 DEF EndOf, Par!endOf
  <1>1. Started' = Started
    BY <1>0 DEF Started
  <1>2. pWpc'[b] = "end" /\ \A a \in Started : a # b => pWpc'[a] = pWpc[a]
    BY <1>t, <1>0 DEF ParTypes
  <1>3. ParRan'
    BY <1>t, <1>0, <1>1 DEF ParRan
  <1> DEFINE Old == {a \in Started : pWpc[a] = "end"}
             New == {a \in Started' : pWpc'[a] = "end"}
  <1>4. New = Old \cup {b} /\ b \notin Old
    BY <1>0, <1>1, <1>2
  <1>5. /\ IsFiniteSet(Old) /\ IsFiniteSet(New) /\ Cardinality(New) = Cardinality(Old) + 1
        /\ New \subseteq Started /\ (Cardinality(Started) = Cardinality(New) => New = Started)
    <2>1. Old \subseteq Started /\ New \subseteq Started /\ IsFiniteSet(Started)
      BY <1>t, <1>1 DEF ParTypes
    <2> HIDE DEF Old, New
    <2>2. IsFiniteSet(Old)
      BY <2>1, FS_Subset
    <2>3. IsFiniteSet(New) /\ Cardinality(New) = Cardinality(Old) + 1
      BY <1>4, <2>2, FS_AddElement
    <2> QED
      BY <2>1, <2>2, <2>3, FS_Subset
  <1>6. pCount = Cardinality(Old) /\ ~pQuit
    BY <1>t, <1>0 DEF ParEnds
  <1>7. \A a \in Started : pErr[a] => pWpc'[a] \in {"send", "end"}
    BY <1>t, <1>2 DEF ParEnds
  <1>8. \A a \in Started : pWpc'[a] = "send" /\ ~pErr[a] => pIdx[a] = EndOf(a)
    BY <1>t, <1>2 DEF ParEnds
  <1>9. pBegin >= pTotal /\ (pTotal > 0 => pNPerBatch > 0)
    BY <1>t, <1>0 DEF ParBatches
  <1>a. CASE pErr[b]
    <2>1. pQuit' = TRUE /\ pMpc' = "wait" /\ pResult' = "error" /\ pCount' = pCount
      BY <1>a DEF Par!Meet
    <2>2. ParTypes'
      BY <1>t, <1>0, <1>1, <2>1 DEF ParTypes
    <2>3. ParBatches'
      BY <1>t, <1>0, <1>e, <1>1, <1>9, <2>1 DEF ParBatches
    <2>4. ParEnds'
      BY <1>0, <1>e, <1>1, <1>7, <1>8, <1>a, <2>1 DEF ParEnds
    <2> QED
      BY <1>3, <2>2, <2>3, <2>4 DEF ParInv
  <1>b. CASE ~pErr[b]
    <2>1. /\ pCount' = pCount + 1 /\ pQuit' = pQuit
          /\ IF pCount' = pRoutineNum THEN pMpc' = "wait" /\ pResult' = "nil"
             ELSE pMpc' = pMpc /\ pResult' = pResult
      BY <1>b DEF Par!Meet
    <2>2. pIdx[b] = EndOf(b)
      BY <1>t, <1>0, <1>b DEF ParEnds
    <2>3. \A a \in Started : pWpc'[a] = "end" => ~pErr[a] /\ pIdx[a] = EndOf(a)
      BY <1>t, <1>0, <1>2, <1>b, <2>2 DEF ParEnds
    <2>4. pCount' = Cardinality(New)
      BY <1>5, <1>6, <2>1
    <2>5. ParTypes'
      <3>1. pCount' \in Nat
        BY <1>t, <2>1 DEF ParTypes
      <3> QED
        BY <1>t, <1>0, <1>1, <2>1, <3>1 DEF ParTypes
    <2>6. ParBatches'
      <3>1. pMpc' \in {"wait", "collect"}
        BY <1>0, <2>1
      <3> QED
        BY <1>t, <1>0, <1>e, <1>1, <1>9, <3>1 DEF ParBatches
    <2>7. ParEnds'
      <3>1. CASE pCount' = pRoutineNum
        <4>1. New = Started
          BY <1>t, <1>5, <2>4, <3>1 DEF ParBatches
        <4>2. \A a \in Started : pWpc'[a] = "end"
          BY <1>1, <4>1
        <4>3. pMpc' = "wait" /\ pResult' = "nil"
          BY <2>1, <3>1
        <4> HIDE DEF New, Old
        <4> QED
          BY <1>0, <1>e, <1>1, <1>7, <1>8, <2>3, <4>2, <4>3 DEF ParEnds
      <3>2. CASE pCount' # pRoutineNum
        <4>1. pMpc' = "collect"
          BY <1>0, <2>1, <3>2
        <4> QED
          BY <1>0, <1>e, <1>1, <1>6, <1>7, <1>8, <2>1, <2>3, <2>4, <4>1 DEF ParEnds
      <3> QED
        BY <3>1, <3>2
    <2> QED
      BY <1>3, <2>5, <2>6, <2>7 DEF ParInv
  <1> QED
    BY <1>a, <1>b

\* The caller returns when every goroutine has ended.
LEMMA ParReturn ==
    ASSUME ParInv, Par!Return \/ UNCHANGED pVars PROVE ParInv'
  <1>t. ParTypes /\ ParBatches /\ ParRan /\ ParEnds
    BY DEF ParInv
  <1>1. /\ pTotal' = pTotal /\ pNPerBatch' = pNPerBatch /\ pIdx' = pIdx /\ pErr' = pErr
        /\ pQuit' = pQuit /\ pBegin' = pBegin /\ pCount' = pCount /\ pWpc' = pWpc
        /\ pRoutineNum' = pRoutineNum /\ pResult' = pResult /\ pRan' = pRan /\ pFailed' = pFailed
        /\ \/ pMpc' = pMpc
           \/ pMpc = "wait" /\ pMpc' = "returned" /\ \A b \in Started : pWpc[b] = "end"
    BY DEF Par!Return, Par!WaitOver, Par!args, Par!history, pVars, Started
  <1>e. \A a : EndOf(a)' = EndOf(a)
    BY <1>1 DEF EndOf, Par!endOf
  <1>2. Started' = Started
    BY <1>1 DEF Started
  <1>3. ParTypes' /\ ParRan'
    BY <1>t, <1>1, <1>2 DEF ParTypes, ParRan
  <1>4. ParBatches'
    BY <1>t, <1>1, <1>2, <1>e DEF ParBatches
  <1>5. {a \in Started' : pWpc'[a] = "end"} = {a \in Started : pWpc[a] = "end"}
    BY <1>1, <1>2
  <1>6. CASE pMpc' = pMpc
    BY <1>t, <1>1, <1>2, <1>3, <1>4, <1>5, <1>e, <1>6 DEF ParInv, ParEnds
  <1>7. CASE pMpc = "wait" /\ pMpc' = "returned" /\ \A b \in Started : pWpc[b] = "end"
    BY <1>t, <1>1, <1>2, <1>3, <1>4, <1>e, <1>7 DEF ParInv, ParEnds
  <1> QED
    BY <1>1, <1>6, <1>7

\* Every step of the caller and of the goroutines keeps the invariant.
LEMMA ParStep == ParInv /\ [Par!Next]_pVars => ParInv'
  <1> SUFFICES ASSUME ParInv, [Par!Next]_pVars PROVE ParInv'
    OBVIOUS
  <1>1. ASSUME Par!ProcessFuncParallel \/ Par!ProcessTaskParallel PROVE ParInv'
    <2>1. PICK t \in Nat : Par!Batch(t)
      BY <1>1, HelpersAssumption DEF Par!ProcessFuncParallel, Par!ProcessTaskParallel
    <2> QED
      BY <2>1, ParBatch
  <1>2. ASSUME NEW b \in Started, Par!Start(b) \/ Par!Run(b) \/ Par!Meet(b) \/ Par!Quit(b)
        PROVE  ParInv'
    BY <1>2, ParLeave, ParRun, ParMeet
  <1> QED
    BY <1>1, <1>2, ParSpawn, ParReturn DEF Par!Next, Started

\* The batches hold every index, so when all have ended without an error f was called with
\* every one.
LEMMA ParSound == ParInv => Par!AllOrError
  <1> SUFFICES ASSUME ParInv, pMpc = "returned"
               PROVE  /\ \A b \in Started : pWpc[b] = "end"
                      /\ pResult = "nil" => pRan = 0..(pTotal - 1) /\ pFailed = {}
                      /\ pResult # "nil" => pFailed # {}
    BY DEF Par!AllOrError, Started
  <1>t. ParTypes /\ ParBatches /\ ParRan /\ ParEnds
    BY DEF ParInv
  <1>1. pResult # "nil" => pFailed # {}
    BY <1>t DEF ParRan, ParEnds
  <1>2. ASSUME pResult = "nil" PROVE pRan = 0..(pTotal - 1) /\ pFailed = {}
    <2>1. \A b \in Started : ~pErr[b] /\ pIdx[b] = EndOf(b)
      BY <1>t, <1>2 DEF ParEnds
    <2>2. pFailed = {}
      BY <1>t, <2>1 DEF ParRan
    <2>3. ASSUME NEW n \in 0..(pTotal - 1) PROVE n \in pRan
      <3>1. pTotal \in Nat /\ pBegin \in Nat /\ pBegin >= pTotal
        BY <1>t DEF ParTypes, ParBatches
      <3>2. n \in Nat /\ n < pTotal /\ n < pBegin
        BY <3>1
      <3>3. PICK b \in Started : b <= n /\ n < EndOf(b)
        BY <1>t, <3>2 DEF ParBatches
      <3> QED
        BY <1>t, <2>1, <3>2, <3>3 DEF ParRan
    <2> QED
      BY <1>t, <2>2, <2>3 DEF ParRan
  <1> QED
    BY <1>t, <1>1, <1>2 DEF ParEnds

-------------------------------------------------------------------------------
(* StreamFactory *)

FactorySteps == {"idle", "auth", "once", "open", "returned"}
Answers == {"none", "error", "nil", "client"}

\* Until once.Do is over nobody has a stream, and one caller alone is inside it; afterwards
\* there is the client, or somebody was told that there is none.
FactoryInv ==
    /\ fStep \in [Callers -> FactorySteps] /\ fGot \in [Callers -> Answers]
    /\ fOnce \in {"new", "running", "done"} /\ fOpened \in {0, 1}
    /\ \A p \in Callers : fGot[p] # "none" => fStep[p] = "returned"
    /\ fOnce # "done" => /\ fSc = "nil" /\ fOpened = 0
                         /\ \A p \in Callers : fGot[p] \in {"none", "error"}
    /\ fOnce # "running" => \A p \in Callers : fStep[p] # "open"
    /\ fOnce = "running" => \A p, q \in Callers : fStep[p] = "open" /\ fStep[q] = "open" => p = q
    /\ fOnce = "done" =>
          \/ fSc = "client" /\ fOpened = 1 /\ \A p \in Callers : fGot[p] # "nil"
          \/ /\ fSc = "nil" /\ fOpened = 0 /\ fFirstErr
             /\ \E q \in Callers : fGot[q] = "error"
             /\ \A p \in Callers : fGot[p] # "client"

\* Nobody has called.
LEMMA FactoryInit == Factory!Init => FactoryInv
  BY DEF Factory!Init, FactoryInv, FactorySteps, Answers

\* A caller goes on to another step, gets an answer, enters once.Do or leaves it.
LEMMA FactoryStep == FactoryInv /\ [Factory!Next]_fVars => FactoryInv'
  <1> SUFFICES ASSUME FactoryInv, [Factory!Next]_fVars PROVE FactoryInv'
    OBVIOUS
  <1>0. fStep \in [Callers -> FactorySteps] /\ fGot \in [Callers -> Answers]
    BY DEF FactoryInv
  <1>1. ASSUME NEW p \in Callers, Factory!NewMsgStream(p) \/ Factory!getAuthentication(p)
        PROVE  FactoryInv'
    <2>1. /\ fOnce' = fOnce /\ fSc' = fSc /\ fOpened' = fOpened /\ fFirstErr' = fFirstErr
          /\ fStep[p] \in {"idle", "auth"}
          /\ \/ /\ \E t \in {"auth", "once"} : fStep' = [fStep EXCEPT ![p] = t]
                /\ fGot' = fGot
             \/ /\ fStep' = [fStep EXCEPT ![p] = "returned"]
                /\ fGot' = [fGot EXCEPT ![p] = "error"]
      BY <1>1 DEF Factory!NewMsgStream, Factory!getAuthentication, Factory!Goto, Factory!Answer
    <2>2. CASE fGot' = fGot /\ \E t \in {"auth", "once"} : fStep' = [fStep EXCEPT ![p] = t]
      <3>1. PICK t \in {"auth", "once"} : fStep' = [fStep EXCEPT ![p] = t]
        BY <2>2
      <3>2. /\ fStep'[p] = t /\ \A q \in Callers : q # p => fStep'[q] = fStep[q]
            /\ fStep' \in [Callers -> FactorySteps]
        BY <1>0, <3>1 DEF FactorySteps
      <3>3. fGot[p] = "none"
        BY <2>1 DEF FactoryInv
      <3> QED
        BY <2>1, <2>2, <3>2, <3>3 DEF FactoryInv
    <2>3. CASE /\ fStep' = [fStep EXCEPT ![p] = "returned"]
               /\ fGot' = [fGot EXCEPT ![p] = "error"]
      <3>1. /\ fStep'[p] = "returned" /\ \A q \in Callers : q # p => fStep'[q] = fStep[q]
            /\ fStep' \in [Callers -> FactorySteps]
            /\ fGot'[p] = "error" /\ \A q \in Callers : q # p => fGot'[q] = fGot[q]
            /\ fGot' \in [Callers -> Answers]
        BY <1>0, <2>3 DEF FactorySteps, Answers
      <3> QED
        BY <2>1, <3>1 DEF FactoryInv
    <2> QED
      BY <2>1, <2>2, <2>3
  <1>2. ASSUME NEW p \in Callers, Factory!NewClient(p) PROVE FactoryInv'
    <2>1. /\ fStep[p] = "once" /\ fOnce # "running"
          /\ fSc' = fSc /\ fOpened' = fOpened /\ fFirstErr' = fFirstErr
      BY <1>2 DEF Factory!NewClient
    <2>2. CASE fOnce = "new"
      <3>1. fOnce' = "running" /\ fStep' = [fStep EXCEPT ![p] = "open"] /\ fGot' = fGot
        BY <1>2, <2>2 DEF Factory!NewClient, Factory!Goto
      <3>2. /\ fStep'[p] = "open" /\ \A q \in Callers : q # p => fStep'[q] = fStep[q]
            /\ fStep' \in [Callers -> FactorySteps]
        BY <1>0, <3>1 DEF FactorySteps
      <3>3. fGot[p] = "none"
        BY <2>1 DEF FactoryInv
      <3> QED
        BY <2>1, <2>2, <3>1, <3>2, <3>3 DEF FactoryInv
    <2>3. CASE fOnce # "new"
      <3>1. /\ fOnce = "done" /\ fOnce' = fOnce
            /\ fStep' = [fStep EXCEPT ![p] = "returned"] /\ fGot' = [fGot EXCEPT ![p] = fSc]
        BY <1>2, <2>1, <2>3 DEF Factory!NewClient, Factory!Answer, FactoryInv
      <3>2. fSc \in {"nil", "client"}
        BY <3>1 DEF FactoryInv
      <3>3. /\ fStep'[p] = "returned" /\ \A q \in Callers : q # p => fStep'[q] = fStep[q]
            /\ fStep' \in [Callers -> FactorySteps]
            /\ fGot'[p] = fSc /\ \A q \in Callers : q # p => fGot'[q] = fGot[q]
            /\ fGot' \in [Callers -> Answers]
        BY <1>0, <3>1, <3>2 DEF FactorySteps, Answers
      <3>4. fGot[p] # "error"
        BY <2>1 DEF FactoryInv
      <3> QED
        BY <2>1, <3>1, <3>2, <3>3, <3>4 DEF FactoryInv
    <2> QED
      BY <2>2, <2>3
  <1>3. ASSUME NEW p \in Callers, Factory!OpenClient(p) PROVE FactoryInv'
    <2>1. /\ fStep[p] = "open" /\ fOnce' = "done" /\ fStep' = [fStep EXCEPT ![p] = "returned"]
          /\ fOnce = "running" /\ fSc = "nil" /\ fOpened = 0
          /\ \A q \in Callers : q # p => fStep[q] # "open"
      BY <1>3 DEF Factory!OpenClient, Factory!Answer, FactoryInv
    <2>2. PICK r \in {"client", "error"} :
              /\ fGot' = [fGot EXCEPT ![p] = r]
              /\ r = "client" => fOpened' = 1 /\ fSc' = "client"
              /\ r = "error" => fOpened' = 0 /\ fSc' = "nil" /\ fFirstErr'
      BY <1>3, <2>1 DEF Factory!OpenClient, Factory!Answer
    <2>3. /\ fStep'[p] = "returned" /\ \A q \in Callers : q # p => fStep'[q] = fStep[q]
          /\ fStep' \in [Callers -> FactorySteps]
          /\ fGot'[p] = r /\ \A q \in Callers : q # p => fGot'[q] = fGot[q]
          /\ fGot' \in [Callers -> Answers]
      BY <1>0, <2>1, <2>2 DEF FactorySteps, Answers
    <2>4. \A q \in Callers : fGot[q] \in {"none", "error"}
      BY <2>1 DEF FactoryInv
    <2> QED
      BY <2>1, <2>2, <2>3, <2>4 DEF FactoryInv
  <1>4. CASE UNCHANGED fVars
    BY <1>4 DEF fVars, FactoryInv
  <1> QED
    BY <1>1, <1>2, <1>3, <1>4 DEF Factory!Next

\* What the cases of the invariant say of the answers.
LEMMA FactorySound == FactoryInv => Factory!OneClient
  BY DEF FactoryInv, Factory!OneClient

-------------------------------------------------------------------------------
(* Retry *)

Config == [attempts : Nat, sleep : Nat, maxSleepTime : Nat]
Errors == {"err", "ctx", "unrecoverable", "refused", "ctxFinal"}

\* The loop runs fn only below its attempts, and fn runs late only once, unless there is no
\* sleep at all: the sleep after a late call is interrupted.
RetryTypes ==
    /\ rC \in Config /\ rOpts \in Seq(Option) /\ rTries \in Nat /\ rLateCalls \in Nat
    /\ rLeft \in Nat \cup {-1}
    /\ rPc \in {"idle", "options", "run", "failed", "sleep", "returned"}
RetryBounds ==
    /\ rTries <= rC.attempts /\ rC.sleep <= rC.maxSleepTime
    /\ rTries = 0 => 2 * rC.sleep <= rC.maxSleepTime
    /\ rPc \in {"idle", "options"} => rTries = 0 /\ rLateCalls = 0 /\ rOutcome = "none"
    /\ rPc = "options" => rLeft # 0
    /\ rPc = "run" => rTries < rC.attempts /\ rOutcome # "ok"
    /\ rPc \in {"failed", "sleep"} => rTries >= 1 /\ rOutcome \in Errors
    /\ rPc = "sleep" => rLastErr \in {"err", "ctx"}
    /\ rPc = "returned" =>
          (rResult = "nil" <=> rOutcome = "ok" \/ (rC.attempts = 0 /\ rLeft # 0))
RetryLate ==
    rLateCalls >= 1 =>
        \/ rC.sleep = 0
        \/ rLateCalls = 1 /\ rPc # "run" /\ rCtxDone /\ (rPc = "sleep" => rTimerLate)
RetryInv == RetryTypes /\ RetryBounds /\ RetryLate

\* The defaults: 10 attempts, and more than the first sleep doubled.
LEMMA RetryInit == Retrying!Init => RetryInv
  BY DEF Retrying!Init, Retrying!newDefaultConfig, Retrying!NoDeadline, RetryInv, RetryTypes,
         RetryBounds, RetryLate, Config

\* No option brings the longest sleep below the first one doubled.
LEMMA ApplyBounds ==
    ASSUME NEW cfg \in Config, NEW o \in Option, 2 * cfg.sleep <= cfg.maxSleepTime
    PROVE  /\ Retrying!apply(cfg, o) \in Config
           /\ 2 * Retrying!apply(cfg, o).sleep <= Retrying!apply(cfg, o).maxSleepTime
  <1>1. o.opt \in {"Attempts", "Sleep", "MaxSleepTime"} /\ o.n \in Nat
    BY DEF Option
  <1>2. CASE o.opt = "Attempts"
    <2>1. Retrying!apply(cfg, o) = [cfg EXCEPT !.attempts = o.n]
      BY <1>2 DEF Retrying!apply
    <2> QED
      BY <1>1, <2>1 DEF Config
  <1>3. CASE o.opt = "Sleep"
    <2>1. Retrying!apply(cfg, o) =
             [cfg EXCEPT !.sleep = o.n,
                         !.maxSleepTime = IF 2 * o.n > cfg.maxSleepTime THEN 2 * o.n
                                          ELSE cfg.maxSleepTime]
      BY <1>3 DEF Retrying!apply, Config
    <2>2. PICK m : m = IF 2 * o.n > cfg.maxSleepTime THEN 2 * o.n ELSE cfg.maxSleepTime
      OBVIOUS
    <2>3. m \in Nat /\ 2 * o.n <= m
      BY <1>1, <2>2 DEF Config
    <2>4. Retrying!apply(cfg, o) = [attempts |-> cfg.attempts, sleep |-> o.n, maxSleepTime |-> m]
      BY <2>1, <2>2 DEF Config
    <2>5. cfg.attempts \in Nat
      BY DEF Config
    <2> QED
      BY <1>1, <2>3, <2>4, <2>5 DEF Config
  <1>4. CASE o.opt = "MaxSleepTime"
    <2>1. Retrying!apply(cfg, o) =
             [cfg EXCEPT !.maxSleepTime = IF 2 * cfg.sleep > o.n THEN 2 * cfg.sleep ELSE o.n]
      BY <1>4 DEF Retrying!apply
    <2> QED
      BY <1>1, <2>1 DEF Config
  <1> QED
    BY <1>1, <1>2, <1>3, <1>4

\* Each step of the loop, of its caller and of the context.
LEMMA RetryStep == RetryInv /\ [Retrying!Next]_rVars => RetryInv'
  <1> SUFFICES ASSUME RetryInv, [Retrying!Next]_rVars PROVE RetryInv'
    OBVIOUS
  <1>t. RetryTypes /\ RetryBounds /\ RetryLate
    BY DEF RetryInv
  <1>c. /\ rC \in Config /\ rC.attempts \in Nat /\ rC.sleep \in Nat /\ rC.maxSleepTime \in Nat
        /\ rTries \in Nat /\ rLateCalls \in Nat
    BY <1>t DEF RetryTypes, Config
  <1>1. CASE Retrying!Call
    <2>1. /\ rPc = "idle" /\ rOpts' \in OptionLists /\ rLeft' \in Deadlines
          /\ rC' = rC /\ rTries' = rTries /\ rOutcome' = rOutcome /\ rLateCalls' = rLateCalls
          /\ \/ rLeft' = 0 /\ rPc' = "returned" /\ rResult' = "ctxErr"
             \/ rLeft' # 0 /\ rPc' = "options"
      BY <1>1 DEF Retrying!Call
    <2>2. rOpts' \in Seq(Option) /\ rLeft' \in Nat \cup {-1}
      BY <2>1, HelpersAssumption
    <2> QED
      BY <1>t, <2>1, <2>2 DEF RetryInv, RetryTypes, RetryBounds, RetryLate
  <1>2. CASE Retrying!Option
    <2>1. /\ rPc = "options" /\ rOpts # <<>> /\ rOpts' = Tail(rOpts) /\ rPc' = rPc
          /\ rC' = Retrying!apply(rC, Head(rOpts)) /\ rTries' = rTries /\ rOutcome' = rOutcome
          /\ rLateCalls' = rLateCalls /\ rLeft' = rLeft
      BY <1>2 DEF Retrying!Option
    <2>2. Head(rOpts) \in Option /\ rOpts' \in Seq(Option)
      BY <1>t, <2>1 DEF RetryTypes
    <2>3. rTries = 0 /\ 2 * rC.sleep <= rC.maxSleepTime
      BY <1>t, <2>1 DEF RetryBounds
    <2>4. rC' \in Config /\ 2 * rC'.sleep <= rC'.maxSleepTime
      BY <1>c, <2>1, <2>2, <2>3, ApplyBounds
    <2>5. rC'.attempts \in Nat /\ rC'.sleep \in Nat /\ rC'.maxSleepTime \in Nat
      BY <2>4 DEF Config
    <2> QED
      BY <1>t, <2>1, <2>2, <2>3, <2>4, <2>5 DEF RetryInv, RetryTypes, RetryBounds, RetryLate
  <1>3. CASE Retrying!Begin
    <2>1. /\ rPc = "options" /\ rC' = rC /\ rOpts' = rOpts /\ rTries' = rTries
          /\ rOutcome' = rOutcome /\ rLateCalls' = rLateCalls /\ rLeft' = rLeft
          /\ \/ rC.attempts = 0 /\ rPc' = "returned" /\ rResult' = "nil"
             \/ rC.attempts # 0 /\ rPc' = "run"
      BY <1>3 DEF Retrying!Begin
    <2> QED
      BY <1>t, <1>c, <2>1 DEF RetryInv, RetryTypes, RetryBounds, RetryLate
  <1>4. CASE Retrying!Cancel
    <2>1. /\ rPc' = rPc /\ rC' = rC /\ rOpts' = rOpts /\ rTries' = rTries /\ rOutcome' = rOutcome
          /\ rLastErr' = rLastErr /\ rLateCalls' = rLateCalls /\ rLeft' = rLeft
          /\ rResult' = rResult /\ rTimerLate' = rTimerLate /\ rCtxDone'
      BY <1>4 DEF Retrying!Cancel
    <2> QED
      BY <1>t, <2>1 DEF RetryInv, RetryTypes, RetryBounds, RetryLate
  <1>5. CASE Retrying!Fn
    <2>1. /\ rPc = "run" /\ rTries' = rTries + 1 /\ rC' = rC /\ rOpts' = rOpts
          /\ rOutcome' \in {"ok"} \cup Errors
          /\ \/ rOutcome' = "ok" /\ rPc' = "returned" /\ rResult' = "nil"
             \/ rOutcome' # "ok" /\ rPc' = "failed"
      BY <1>5 DEF Retrying!Fn, Retrying!Return, Retrying!Retried, Retrying!Final, Errors
    <2>2. rLateCalls' = IF rCtxDone THEN rLateCalls + 1 ELSE rLateCalls
      BY <1>5 DEF Retrying!Fn
    <2>3. PICK d \in {0, 2} : Retrying!Elapse(d)
      BY <1>5, Zenon DEF Retrying!Fn
    <2>4. rLeft' \in Nat \cup {-1} /\ (rCtxDone => rCtxDone')
      <3>1. rLeft \in Nat \cup {-1}
        BY <1>t DEF RetryTypes
      <3>2. rCtxDone => rCtxDone'
        BY <2>3, Zenon DEF Retrying!Elapse
      <3>3. d \in Nat /\ rLeft' = IF rLeft = -1 THEN rLeft ELSE IF d > rLeft THEN 0 ELSE rLeft - d
        BY <2>3 DEF Retrying!Elapse, Retrying!NoDeadline
      <3>4. rLeft' \in Nat \cup {-1}
        BY ONLY <3>1, <3>3
      <3> QED
        BY <3>2, <3>4
    <2>5. RetryTypes'
      BY <1>t, <1>c, <2>1, <2>2, <2>4 DEF RetryTypes
    <2>6. RetryBounds'
      <3>1. rTries < rC.attempts
        BY <1>t, <2>1 DEF RetryBounds
      <3>2. "ok" \notin Errors
        BY DEF Errors
      <3> QED
        BY <1>t, <1>c, <2>1, <3>1, <3>2 DEF RetryBounds
    <2>7. RetryLate'
      BY <1>t, <1>c, <2>1, <2>2, <2>4 DEF RetryLate
    <2> QED
      BY <2>5, <2>6, <2>7 DEF RetryInv
  <1>6. CASE Retrying!Failed
    <2>1. /\ rPc = "failed" /\ rC' = rC /\ rOpts' = rOpts /\ rTries' = rTries
          /\ rOutcome' = rOutcome /\ rLeft' = rLeft /\ rCtxDone' = rCtxDone
          /\ rLateCalls' = rLateCalls
      BY <1>6 DEF Retrying!Failed
    <2>2. rOutcome \in Errors /\ rTries >= 1
      BY <1>t, <2>1 DEF RetryBounds
    <2>3. \/ rPc' = "returned" /\ rResult' # "nil"
          \/ /\ rPc' = "sleep" /\ rLastErr' = rOutcome /\ rTimerLate' = rCtxDone
             /\ rOutcome \notin {"unrecoverable", "refused", "ctxFinal"}
      BY <1>6, <2>2 DEF Retrying!Failed, Retrying!Return, Retrying!notCtx, Retrying!Final, Errors
    <2>4. RetryTypes' /\ RetryLate'
      BY <1>t, <2>1, <2>3 DEF RetryTypes, RetryLate
    <2>5. RetryBounds'
      BY <1>t, <1>c, <2>1, <2>2, <2>3 DEF RetryBounds, Errors
    <2> QED
      BY <2>4, <2>5 DEF RetryInv
  <1>7. CASE Retrying!Wake
    <2>1. /\ rPc = "sleep" /\ (rTimerLate => rC.sleep = 0)
          /\ rC' = [rC EXCEPT !.sleep = IF 2 * rC.sleep > rC.maxSleepTime THEN rC.maxSleepTime
                                        ELSE 2 * rC.sleep]
          /\ rOpts' = rOpts /\ rTries' = rTries /\ rOutcome' = rOutcome
          /\ rLateCalls' = rLateCalls /\ Retrying!Elapse(rC.sleep)
      BY <1>7, Zenon DEF Retrying!Wake
    <2>2. \/ rTries < rC.attempts /\ rPc' = "run"
          \/ rPc' = "returned" /\ rResult' \in {rLastErr, "el"}
      BY <1>7 DEF Retrying!Wake, Retrying!again, Retrying!Return, Retrying!lastResult
    <2>3. /\ rC' \in Config /\ rC'.attempts = rC.attempts /\ rC'.maxSleepTime = rC.maxSleepTime
          /\ rC'.sleep = IF 2 * rC.sleep > rC.maxSleepTime THEN rC.maxSleepTime ELSE 2 * rC.sleep
      BY <1>c, <2>1 DEF Config
    <2>4. rLeft' \in Nat \cup {-1}
      BY <1>t, <1>c, <2>1 DEF RetryTypes, Retrying!Elapse, Retrying!NoDeadline
    <2>5. RetryTypes'
      BY <1>t, <2>1, <2>2, <2>3, <2>4 DEF RetryTypes
    <2>6. /\ rOutcome \in Errors /\ rTries >= 1 /\ rLastErr \in {"err", "ctx"}
          /\ rTries <= rC.attempts
      BY <1>t, <2>1 DEF RetryBounds
    <2>7. rC'.sleep <= rC'.maxSleepTime /\ (rC.sleep = 0 => rC'.sleep = 0)
      BY <1>c, <2>3
    <2>8. RetryBounds'
      BY <1>c, <2>1, <2>2, <2>3, <2>6, <2>7 DEF RetryBounds, Errors
    <2>9. RetryLate'
      BY <1>t, <1>c, <2>1, <2>7 DEF RetryLate
    <2> QED
      BY <2>5, <2>8, <2>9 DEF RetryInv
  <1>8. CASE Retrying!Interrupted
    <2>1. /\ rPc = "sleep" /\ rPc' = "returned" /\ rResult' \in {rLastErr, "el"}
          /\ rC' = rC /\ rOpts' = rOpts /\ rTries' = rTries /\ rOutcome' = rOutcome
          /\ rLeft' = rLeft /\ rCtxDone' = rCtxDone /\ rLateCalls' = rLateCalls
      BY <1>8 DEF Retrying!Interrupted, Retrying!Return, Retrying!lastResult
    <2>2. /\ rOutcome \in Errors /\ rTries >= 1 /\ rLastErr \in {"err", "ctx"}
          /\ rTries <= rC.attempts
      BY <1>t, <2>1 DEF RetryBounds
    <2> QED
      BY <1>t, <1>c, <2>1, <2>2 DEF RetryInv, RetryTypes, RetryBounds, RetryLate, Errors
  <1>9. CASE UNCHANGED rVars
    BY <1>t, <1>9 DEF rVars, RetryInv, RetryTypes, RetryBounds, RetryLate
  <1> QED
    BY <1>1, <1>2, <1>3, <1>4, <1>5, <1>6, <1>7, <1>8, <1>9 DEF Retrying!Next

\* The bounds on attempts and sleeps, and on calls after the context is done.
LEMMA RetrySound == RetryInv => Retrying!Bounded /\ Retrying!CancelStops
  BY DEF RetryInv, RetryTypes, RetryBounds, RetryLate, Retrying!Bounded, Retrying!CancelStops

-------------------------------------------------------------------------------
(* Batches *)

\* How many keys the loop has gone through, and what it has committed of them.
Through == IF bI < Len(bKeys) THEN bI ELSE Len(bKeys)
BatchesInv ==
    /\ bKeys \in Seq(BatchKeys) /\ bLimit \in Nat /\ bI \in Nat
    /\ bOutcome \in {"call", "loop", "nil", "error"}
    /\ bCommitted = SubSeq(bKeys, 1, Through)
    /\ bOutcome = "call" => bI = 0
    /\ bOutcome # "call" => bLimit >= 1
    /\ bI > 0 => Len(bBatch) \in 1..bLimit
    /\ bOutcome = "nil" => bI >= Len(bKeys)
    /\ bOutcome = "error" => bI < Len(bKeys)

\* The permutations of a set of keys are sequences of keys.
LEMMA PermutationsAreSeqs ==
    ASSUME NEW S, NEW T \in SUBSET S, IsFiniteSet(S), NEW q, q \in Saves!SetToSeqs(T)
    PROVE  q \in Seq(S)
  <1>1. IsFiniteSet(T) /\ Cardinality(T) \in Nat
    BY FS_Subset, FS_CardinalityType
  <1>2. Saves!Cardinality(T) = Cardinality(T)
    BY Zenon DEF Saves!Cardinality, Cardinality
  <1>3. q \in [1..Cardinality(T) -> T]
    BY <1>2 DEF Saves!SetToSeqs
  <1> QED
    BY <1>1, <1>3

\* Two neighbouring pieces of a sequence are one.
LEMMA Join ==
    ASSUME NEW S, NEW q \in Seq(S), NEW a \in Nat, NEW e \in Nat, a <= e, e <= Len(q)
    PROVE  /\ SubSeq(q, 1, a) \o SubSeq(q, a + 1, e) = SubSeq(q, 1, e)
           /\ Len(SubSeq(q, a + 1, e)) = e - a
  <1> DEFINE u == SubSeq(q, 1, a)
             v == SubSeq(q, a + 1, e)
             w == SubSeq(q, 1, e)
  <1>1. u \in Seq(S) /\ Len(u) = a /\ \A j \in 1..a : u[j] = q[j]
    OBVIOUS
  <1>2. v \in Seq(S) /\ Len(v) = e - a /\ \A j \in 1..(e - a) : v[j] = q[a + j]
    OBVIOUS
  <1>3. w \in Seq(S) /\ Len(w) = e /\ \A j \in 1..e : w[j] = q[j]
    OBVIOUS
  <1> HIDE DEF u, v, w
  <1>4. u \o v \in Seq(S) /\ Len(u \o v) = e
    <2>1. u \o v \in Seq(S) /\ Len(u \o v) = Len(u) + Len(v)
      <3>1. u \in Seq(S) /\ v \in Seq(S)
        BY <1>1, <1>2
      <3> QED
        BY ONLY <3>1
    <2>2. Len(u) + Len(v) = e
      BY <1>1, <1>2
    <2> QED
      BY <2>1, <2>2, Zenon
  <1>5. \A j \in 1..e : (u \o v)[j] = w[j]
    <2> SUFFICES ASSUME NEW j \in 1..e PROVE (u \o v)[j] = w[j]
      OBVIOUS
    <2>1. CASE j <= a
      BY <1>1, <1>2, <1>3, <2>1
    <2>2. CASE j > a
      <3>1. (u \o v)[j] = v[j - a] /\ j - a \in 1..(e - a)
        BY <1>1, <1>2, <2>2
      <3>2. v[j - a] = q[a + (j - a)] /\ a + (j - a) = j
        BY <1>2, <3>1
      <3> QED
        BY <1>3, <3>1, <3>2
    <2>3. j <= a \/ j > a
      OBVIOUS
    <2> QED
      BY <2>1, <2>2, <2>3, Zenon
  <1>6. u \o v = w
    BY <1>3, <1>4, <1>5
  <1> QED
    BY <1>2, <1>6 DEF u, v, w

\* Nothing is called.
LEMMA BatchesInit == Saves!Init => BatchesInv
  <1> SUFFICES ASSUME Saves!Init PROVE BatchesInv
    OBVIOUS
  <1>1. bKeys = <<>> /\ bLimit = 0 /\ bI = 0 /\ bCommitted = <<>> /\ bOutcome = "call"
    BY DEF Saves!Init
  <1>2. bKeys \in Seq(BatchKeys) /\ Len(bKeys) = 0 /\ SubSeq(bKeys, 1, 0) = <<>>
    BY <1>1
  <1> QED
    BY <1>1, <1>2 DEF BatchesInv, Through

\* A batch takes up where the last one ended.
LEMMA BatchesStep == BatchesInv /\ [Saves!Next]_bVars => BatchesInv'
  <1> SUFFICES ASSUME BatchesInv, [Saves!Next]_bVars PROVE BatchesInv'
    OBVIOUS
  <1>0. bKeys \in Seq(BatchKeys) /\ bLimit \in Nat /\ bI \in Nat /\ Len(bKeys) \in Nat
    BY DEF BatchesInv
  <1>1. ASSUME NEW S \in SUBSET BatchKeys, NEW l \in Limits, Saves!Call(S, l) PROVE BatchesInv'
    <2>1. /\ bOutcome = "call" /\ bOutcome' = "loop" /\ bKeys' \in Saves!SetToSeqs(S)
          /\ bLimit' = l /\ bI' = bI /\ bBatch' = bBatch /\ bCommitted' = bCommitted
      BY <1>1 DEF Saves!Call
    <2>2. PICK k : k = bKeys'
      OBVIOUS
    <2>3. k \in Seq(BatchKeys)
      BY <2>1, <2>2, PermutationsAreSeqs, HelpersAssumption
    <2>4. l \in Nat /\ l >= 1 /\ bI = 0
      BY <2>1, HelpersAssumption DEF BatchesInv
    <2>5. bCommitted = <<>>
      BY <1>0, <2>4 DEF BatchesInv, Through
    <2>6. SubSeq(k, 1, 0) = <<>> /\ Len(k) \in Nat
      BY <2>3
    <2>7. Through' = 0
      BY <2>1, <2>2, <2>4, <2>6 DEF Through
    <2>8. bCommitted' = SubSeq(bKeys', 1, Through')
      BY <2>1, <2>2, <2>5, <2>6, <2>7, Zenon
    <2>9. /\ bKeys' \in Seq(BatchKeys) /\ bLimit' \in Nat /\ bLimit' >= 1 /\ bI' \in Nat
          /\ ~(bI' > 0)
      BY <2>1, <2>2, <2>3, <2>4
    <2> QED
      BY <2>1, <2>8, <2>9 DEF BatchesInv
  <1>2. ASSUME Saves!Batch PROVE BatchesInv'
    <2>1. bOutcome = "loop" /\ bKeys' = bKeys /\ bLimit' = bLimit /\ bLimit >= 1
      BY <1>2 DEF Saves!Batch, BatchesInv
    <2>2. CASE /\ bI' = bI /\ bBatch' = bBatch /\ bCommitted' = bCommitted
               /\ \/ bI >= Len(bKeys) /\ bOutcome' = "nil"
                  \/ bI < Len(bKeys) /\ bOutcome' = "error"
      BY <2>1, <2>2 DEF BatchesInv, Through
    <2>3. CASE /\ bI < Len(bKeys) /\ bBatch' = Saves!buildKvGroup(bI)
               /\ bCommitted' = bCommitted \o bBatch' /\ bI' = bI + bLimit
               /\ bOutcome' = bOutcome
      <3>1. PICK e : e = IF bI + bLimit < Len(bKeys) THEN bI + bLimit ELSE Len(bKeys)
        OBVIOUS
      <3>2. e \in Nat /\ bI < e /\ e <= Len(bKeys) /\ e <= bI + bLimit
        BY <1>0, <2>1, <2>3, <3>1
      <3>3. bBatch' = SubSeq(bKeys, bI + 1, e) /\ bCommitted = SubSeq(bKeys, 1, bI)
        BY <2>3, <3>1 DEF Saves!buildKvGroup, Saves!end, Saves!min, BatchesInv, Through
      <3>4. /\ SubSeq(bKeys, 1, bI) \o SubSeq(bKeys, bI + 1, e) = SubSeq(bKeys, 1, e)
            /\ Len(SubSeq(bKeys, bI + 1, e)) = e - bI
        BY <1>0, <3>2, Join
      <3>5. bCommitted' = SubSeq(bKeys, 1, e) /\ Len(bBatch') = e - bI
        BY <2>3, <3>3, <3>4
      <3>6. Len(bBatch') \in 1..bLimit
        BY <1>0, <3>2, <3>5
      <3>7. Through' = e /\ bI' \in Nat
        BY <1>0, <2>1, <2>3, <3>1 DEF Through
      <3> QED
        BY <1>0, <2>1, <2>3, <3>5, <3>6, <3>7 DEF BatchesInv
    <2> QED
      BY <1>2, <2>2, <2>3 DEF Saves!Batch
  <1>3. CASE UNCHANGED bVars
    BY <1>3 DEF bVars, BatchesInv, Through
  <1> QED
    BY <1>1, <1>2, <1>3 DEF Saves!Next

\* What is committed is a prefix of the keys.
LEMMA BatchesSound == BatchesInv => Saves!BatchesExact
  <1> SUFFICES ASSUME BatchesInv PROVE Saves!BatchesExact
    OBVIOUS
  <1>0. /\ bKeys \in Seq(BatchKeys) /\ bI \in Nat /\ Len(bKeys) \in Nat
        /\ bCommitted = SubSeq(bKeys, 1, Through)
    BY DEF BatchesInv
  <1>1. Through \in Nat /\ Through <= Len(bKeys) /\ (bI < Len(bKeys) => Through < Len(bKeys))
        /\ (bI >= Len(bKeys) => Through = Len(bKeys))
    BY <1>0 DEF Through
  <1>2. bCommitted \in Seq(BatchKeys) /\ Len(bCommitted) = Through
    BY <1>0, <1>1
  <1>3. SubSeq(bCommitted, 1, Through) = bCommitted
    BY <1>2
  <1>4. Saves!IsPrefix(bCommitted, bKeys)
    BY <1>0, <1>1, <1>2, <1>3 DEF Saves!IsPrefix
  <1>5. SubSeq(bKeys, 1, Len(bKeys)) = bKeys
    BY <1>0
  <1>6. bOutcome = "nil" => bCommitted = bKeys
    BY <1>0, <1>1, <1>5 DEF BatchesInv
  <1>7. bOutcome = "error" => Len(bCommitted) < Len(bKeys)
    BY <1>1, <1>2 DEF BatchesInv
  <1> QED
    BY <1>4, <1>6, <1>7 DEF BatchesInv, Saves!BatchesExact

-------------------------------------------------------------------------------
(* Subscriptions *)

\* A subscription that is left at the i-th channel although the loop has been there.
Left(i) ==
    <<subChannels[i], SubName>> \in subSubs =>
        i \in subFailedAt \/ <<subChannels[i], SubName>> \in subRenewed

\* The loop leaves nothing behind it unexplained, and nobody but GetChannelLatestMsgID has a
\* subscription of its name, which is held by a consumer until Close.
SubsLoop ==
    /\ subChannels \in Seq(Channels) /\ subAt \in Nat
    /\ subPc \in {"idle", "delete", "returned", "panicked"}
    /\ subPc = "idle" => subAt = 1
    /\ subPc = "delete" => \A i \in DOMAIN subChannels : i < subAt => Left(i)
    /\ subPc = "returned" =>
          \A i \in DOMAIN subChannels : Left(i) \/ \E j \in subAbsentAt : j < i
SubsOwn ==
    /\ subGpc \in {"idle", "stream"} => \A x : <<x, OwnName>> \notin subSubs
    /\ subGpc \in {"consumer", "close"} =>
          \A x : <<x, OwnName>> \in subSubs =>
                    x = subChannelName /\ <<x, OwnName>> \in subConnected
    /\ subGpc = "returned" => (\A x : <<x, OwnName>> \notin subSubs) \/ subUnsubscribeFailed
SubsInv == SubsLoop /\ SubsOwn

\* There are no subscriptions.
LEMMA SubsInit == Subs!Init => SubsInv
  <1> SUFFICES ASSUME Subs!Init PROVE SubsInv
    OBVIOUS
  <1>1. /\ subSubs = {} /\ subPc = "idle" /\ subChannels = <<>> /\ subAt = 1 /\ subGpc = "idle"
    BY DEF Subs!Init
  <1>2. SubsLoop
    BY <1>1 DEF SubsLoop
  <1>3. SubsOwn
    BY <1>1 DEF SubsOwn
  <1> QED
    BY <1>2, <1>3 DEF SubsInv

\* The lists of channels that a disposer is given are sequences of channels.
LEMMA ListsAreSeqs ==
    ASSUME NEW q, q \in Subs!SetToAllKPermutations(Channels)
    PROVE  q \in Seq(Channels)
  <1>1. PICK T \in SUBSET Channels : q \in Subs!SetToSeqs(T)
    BY DEF Subs!SetToAllKPermutations
  <1>2. IsFiniteSet(T) /\ Cardinality(T) \in Nat
    BY HelpersAssumption, FS_Subset, FS_CardinalityType
  <1>3. Subs!Cardinality(T) = Cardinality(T)
    BY Zenon DEF Subs!Cardinality, Cardinality
  <1>4. q \in [1..Cardinality(T) -> T]
    BY <1>1, <1>3 DEF Subs!SetToSeqs
  <1> QED
    BY <1>2, <1>4

\* Subscriptions come and go under SubName alone, renewed with every Subscribe.
LEMMA SubsStep == SubsInv /\ [Subs!Next]_subVars => SubsInv'
  <1> SUFFICES ASSUME SubsInv, [Subs!Next]_subVars PROVE SubsInv'
    OBVIOUS
  <1>0. SubsLoop /\ SubsOwn /\ SubName # OwnName
    BY HelpersAssumption DEF SubsInv
  <1> DEFINE SameLoop == /\ subPc' = subPc /\ subChannels' = subChannels /\ subAt' = subAt
                         /\ subFailedAt' = subFailedAt /\ subAbsentAt' = subAbsentAt
             SameOwn  == /\ subGpc' = subGpc /\ subChannelName' = subChannelName
                         /\ subUnsubscribeFailed' = subUnsubscribeFailed
  \* The loop is not disturbed by who subscribes, or by subscriptions that go.
  <1>a. ASSUME SameLoop,
               \A x : x \in subSubs' => x \in subSubs \/ x \in subRenewed',
               \A x : x \in subRenewed /\ x \in subSubs' => x \in subRenewed'
        PROVE  SubsLoop'
    <2>1. \A i : Left(i) => Left(i)'
      BY <1>a DEF Left
    <2> QED
      BY <1>0, <1>a, <2>1 DEF SubsLoop
  \* Nor is the other call by what happens to subscriptions of other names.
  <1>b. ASSUME SameOwn,
               \A x : <<x, OwnName>> \in subSubs' => <<x, OwnName>> \in subSubs,
               \A x : <<x, OwnName>> \in subConnected => <<x, OwnName>> \in subConnected'
        PROVE  SubsOwn'
    BY <1>0, <1>b DEF SubsOwn
  <1>1. ASSUME NEW channel \in Channels, Subs!Consume(channel) PROVE SubsInv'
    <2>1. /\ SameLoop /\ SameOwn
          /\ subSubs' = subSubs \cup {<<channel, SubName>>}
          /\ subConnected' = subConnected \cup {<<channel, SubName>>}
          /\ subRenewed' = subRenewed \cup {<<channel, SubName>>}
      BY <1>1 DEF Subs!Consume, Subs!Subscribe, Subs!disposer, Subs!latest
    <2>2. SubsLoop'
      BY <1>a, <2>1
    <2>3. SubsOwn'
      BY <1>0, <1>b, <2>1
    <2> QED
      BY <2>2, <2>3 DEF SubsInv
  <1>2. ASSUME NEW channel \in Channels, Subs!Crash(channel) PROVE SubsInv'
    <2>1. /\ SameLoop /\ SameOwn /\ subSubs' = subSubs /\ subRenewed' = subRenewed
          /\ subConnected' = subConnected \ {<<channel, SubName>>}
      BY <1>2 DEF Subs!Crash, Subs!disposer, Subs!latest
    <2>2. SubsLoop'
      BY <1>a, <2>1
    <2>3. SubsOwn'
      BY <1>0, <1>b, <2>1
    <2> QED
      BY <2>2, <2>3 DEF SubsInv
  <1>3. ASSUME Subs!UnsubscribeChannels PROVE SubsInv'
    <2>1. /\ subPc = "idle" /\ subPc' \in {"delete", "panicked"}
          /\ subChannels' \in Subs!SetToAllKPermutations(Channels)
          /\ subSubs' = subSubs /\ subConnected' = subConnected /\ subAt' = subAt /\ SameOwn
      BY <1>3 DEF Subs!UnsubscribeChannels, Subs!NewAdminClient, Subs!latest
    <2>2. PICK q : q = subChannels'
      OBVIOUS
    <2>3. q \in Seq(Channels)
      BY <2>1, <2>2, ListsAreSeqs
    <2>4. subAt = 1
      BY <1>0, <2>1 DEF SubsLoop
    <2>5. \A n \in DOMAIN q : n \in Nat /\ ~(n < 1)
      BY <2>3
    <2>6. SubsLoop'
      BY <2>1, <2>2, <2>3, <2>4, <2>5 DEF SubsLoop
    <2>7. SubsOwn'
      BY <1>b, <2>1
    <2> QED
      BY <2>6, <2>7 DEF SubsInv
  <1>4. ASSUME Subs!DeleteOne PROVE SubsInv'
    <2>1. PICK sub : sub = <<subChannels[subAt], SubName>>
      OBVIOUS
    <2>2. /\ subPc = "delete" /\ subAt <= Len(subChannels) /\ subChannels' = subChannels /\ SameOwn
          /\ \/ /\ subPc' = "panicked" /\ subSubs' = subSubs /\ subConnected' = subConnected
                /\ subAt' = subAt
             \/ /\ subSubs' = subSubs \ {sub} /\ subConnected' = subConnected \ {sub}
                /\ subRenewed' = subRenewed \ {sub} /\ subAt' = subAt + 1 /\ subPc' = subPc
                /\ subFailedAt' = subFailedAt
             \/ /\ sub \notin subSubs /\ subPc' = "returned"
                /\ subAbsentAt' = subAbsentAt \cup {subAt} /\ subSubs' = subSubs
                /\ subConnected' = subConnected /\ subRenewed' = subRenewed
                /\ subFailedAt' = subFailedAt /\ subAt' = subAt
             \/ /\ subFailedAt' = subFailedAt \cup {subAt} /\ subAt' = subAt + 1
                /\ subSubs' = subSubs /\ subConnected' = subConnected
                /\ subRenewed' = subRenewed /\ subPc' = subPc
      BY <1>4, <2>1 DEF Subs!DeleteOne, Subs!Delete, Subs!latest
    <2>3. /\ subAt \in Nat /\ subChannels \in Seq(Channels)
          /\ \A n \in DOMAIN subChannels : n \in Nat /\ (n < subAt => Left(n))
      BY <1>0, <2>2 DEF SubsLoop
    <2>4. SubsOwn'
      <3>1. \A x : <<x, OwnName>> # sub
        BY <1>0, <2>1
      <3> QED
        BY <1>b, <2>2, <3>1
    <2>5. SubsLoop'
      <3>1. CASE subPc' = "panicked" /\ subAt' = subAt
        BY <2>2, <2>3, <3>1 DEF SubsLoop
      <3>2. CASE /\ subSubs' = subSubs \ {sub} /\ subRenewed' = subRenewed \ {sub}
                 /\ subAt' = subAt + 1 /\ subPc' = subPc /\ subFailedAt' = subFailedAt
        <4>1. \A n \in DOMAIN subChannels : n < subAt + 1 => Left(n)'
          <5> SUFFICES ASSUME NEW n \in DOMAIN subChannels, n < subAt + 1,
                              <<subChannels[n], SubName>> \in subSubs'
                       PROVE  n \in subFailedAt' \/ <<subChannels[n], SubName>> \in subRenewed'
            BY <2>2 DEF Left
          <5>1. n # subAt /\ n < subAt /\ <<subChannels[n], SubName>> # sub
            BY <2>1, <2>3, <3>2
          <5>2. Left(n) /\ <<subChannels[n], SubName>> \in subSubs
            BY <2>3, <3>2, <5>1
          <5> QED
            BY <3>2, <5>1, <5>2 DEF Left
        <4> QED
          BY <2>2, <2>3, <3>2, <4>1 DEF SubsLoop
      <3>3. CASE /\ sub \notin subSubs /\ subPc' = "returned"
                 /\ subAbsentAt' = subAbsentAt \cup {subAt} /\ subSubs' = subSubs
                 /\ subRenewed' = subRenewed /\ subFailedAt' = subFailedAt /\ subAt' = subAt
        <4>1. \A n : Left(n) => Left(n)'
          BY <2>2, <3>3 DEF Left
        <4>2. \A n \in DOMAIN subChannels : Left(n)' \/ \E j \in subAbsentAt' : j < n
          <5> SUFFICES ASSUME NEW n \in DOMAIN subChannels
                       PROVE  Left(n)' \/ \E j \in subAbsentAt' : j < n
            OBVIOUS
          <5>1. CASE n < subAt
            BY <2>3, <4>1, <5>1
          <5>2. CASE n = subAt
            <6>1. Left(n)
              BY <2>1, <3>3, <5>2 DEF Left
            <6> QED
              BY <4>1, <6>1
          <5>3. CASE subAt < n
            BY <3>3, <5>3
          <5> QED
            BY <2>3, <5>1, <5>2, <5>3
        <4> QED
          BY <2>2, <2>3, <3>3, <4>2 DEF SubsLoop
      <3>4. CASE /\ subFailedAt' = subFailedAt \cup {subAt} /\ subAt' = subAt + 1
                 /\ subSubs' = subSubs /\ subRenewed' = subRenewed /\ subPc' = subPc
        <4>1. \A n : Left(n) => Left(n)'
          BY <2>2, <3>4 DEF Left
        <4>2. \A n \in DOMAIN subChannels : n < subAt + 1 => Left(n)'
          <5> SUFFICES ASSUME NEW n \in DOMAIN subChannels, n < subAt + 1 PROVE Left(n)'
            OBVIOUS
          <5>1. n < subAt \/ n = subAt
            BY <2>3
          <5>2. CASE n < subAt
            BY <2>3, <4>1, <5>2
          <5>3. CASE n = subAt
            BY <2>2, <3>4, <5>3 DEF Left
          <5> QED
            BY <5>1, <5>2, <5>3
        <4> QED
          BY <2>2, <2>3, <3>4, <4>2 DEF SubsLoop
      <3> QED
        BY <2>2, <3>1, <3>2, <3>3, <3>4
    <2> QED
      BY <2>4, <2>5 DEF SubsInv
  <1>5. ASSUME Subs!Unsubscribed PROVE SubsInv'
    <2>1. /\ subPc = "delete" /\ subAt > Len(subChannels) /\ subPc' = "returned"
          /\ subSubs' = subSubs /\ subConnected' = subConnected /\ subChannels' = subChannels
          /\ subAt' = subAt /\ subFailedAt' = subFailedAt /\ subAbsentAt' = subAbsentAt
          /\ subRenewed' = subRenewed /\ SameOwn
      BY <1>5 DEF Subs!Unsubscribed, Subs!latest
    <2>2. \A n \in DOMAIN subChannels : Left(n)
      <3>1. subAt \in Nat /\ subChannels \in Seq(Channels)
        BY <1>0 DEF SubsLoop
      <3>2. \A n \in DOMAIN subChannels : n < subAt
        BY <2>1, <3>1
      <3> QED
        BY <1>0, <2>1, <3>2 DEF SubsLoop
    <2>3. \A n \in DOMAIN subChannels : Left(n)'
      BY <2>1, <2>2 DEF Left
    <2>4. SubsLoop'
      BY <1>0, <2>1, <2>3 DEF SubsLoop
    <2>5. SubsOwn'
      BY <1>b, <2>1
    <2> QED
      BY <2>4, <2>5 DEF SubsInv
  <1>6. ASSUME Subs!GetChannelLatestMsgID PROVE SubsInv'
    <2>1. /\ subGpc = "idle" /\ subGpc' \in {"stream", "returned"} /\ subSubs' = subSubs
          /\ subRenewed' = subRenewed /\ SameLoop
      BY <1>6 DEF Subs!GetChannelLatestMsgID, Subs!disposer
    <2>2. SubsLoop'
      BY <1>a, <2>1
    <2>3. SubsOwn'
      BY <1>0, <2>1 DEF SubsOwn
    <2> QED
      BY <2>2, <2>3 DEF SubsInv
  <1>7. ASSUME Subs!AsConsumer PROVE SubsInv'
    <2>1. /\ subGpc = "stream" /\ SameLoop /\ subChannelName' = subChannelName
          /\ \/ /\ subGpc' = "consumer" /\ subSubs' = subSubs \cup {<<subChannelName, OwnName>>}
                /\ subConnected' = subConnected \cup {<<subChannelName, OwnName>>}
                /\ subRenewed' = subRenewed \cup {<<subChannelName, OwnName>>}
             \/ subGpc' = "close" /\ subSubs' = subSubs /\ subRenewed' = subRenewed
      BY <1>7 DEF Subs!AsConsumer, Subs!Subscribe, Subs!disposer
    <2>2. SubsLoop'
      BY <1>a, <2>1
    <2>3. SubsOwn'
      BY <1>0, <2>1 DEF SubsOwn
    <2> QED
      BY <2>2, <2>3 DEF SubsInv
  <1>8. ASSUME Subs!GetLatestMsgID PROVE SubsInv'
    <2>1. /\ subGpc = "consumer" /\ subGpc' = "close" /\ SameLoop /\ subSubs' = subSubs
          /\ subConnected' = subConnected /\ subChannelName' = subChannelName
          /\ subRenewed' = subRenewed
      BY <1>8 DEF Subs!GetLatestMsgID, Subs!closeAfterError, Subs!disposer
    <2>2. SubsLoop'
      BY <1>a, <2>1
    <2>3. SubsOwn'
      BY <1>0, <2>1 DEF SubsOwn
    <2> QED
      BY <2>2, <2>3 DEF SubsInv
  <1>9. ASSUME Subs!DeferredClose PROVE SubsInv'
    <2>1. PICK own : own = {<<subChannelName, OwnName>>} \cap subConnected
      OBVIOUS
    <2>2. /\ subGpc = "close" /\ subGpc' = "returned" /\ SameLoop /\ subRenewed' = subRenewed
          /\ \/ subSubs' = subSubs \ own /\ own # {}
             \/ subUnsubscribeFailed' = (own # {}) /\ subSubs' = subSubs
      BY <1>9, <2>1 DEF Subs!DeferredClose, Subs!disposer
    <2>3. \A x : <<x, OwnName>> \in subSubs => <<x, OwnName>> \in own
      BY <1>0, <2>1, <2>2 DEF SubsOwn
    <2>4. SubsLoop'
      BY <1>a, <2>2
    <2>5. (\A x : <<x, OwnName>> \notin subSubs') \/ subUnsubscribeFailed'
      BY <2>2, <2>3
    <2> QED
      BY <2>2, <2>4, <2>5 DEF SubsInv, SubsOwn
  <1>A. CASE UNCHANGED subVars
    <2>1. SubsLoop'
      BY <1>a, <1>A DEF subVars
    <2>2. SubsOwn'
      BY <1>b, <1>A DEF subVars
    <2> QED
      BY <2>1, <2>2 DEF SubsInv
  <1> QED
    BY <1>1, <1>2, <1>3, <1>4, <1>5, <1>6, <1>7, <1>8, <1>9, <1>A DEF Subs!Next

\* What is left behind the loop is explained, and nothing is left of the other call.
LEMMA SubsSound == SubsInv => Subs!LeftExplained /\ Subs!NoLeftover
  BY DEF SubsInv, SubsLoop, SubsOwn, Left, Subs!LeftExplained, Subs!NoLeftover

-------------------------------------------------------------------------------
(* Sets *)

SetCalls == {"none", "Upsert", "Remove", "Contain", "Insert", "TryRemove", "Collect"}
CallRec == [name : SetCalls, args : Seq(Elements), at : Nat, unvisited : SUBSET Elements,
            met : SUBSET Elements, done : BOOLEAN, ok : BOOLEAN, before : SUBSET Elements,
            after : SUBSET Elements, sometime : SUBSET Elements, always : SUBSET Elements,
            alone : BOOLEAN]

Passed(c, e) == \E j \in 1..Len(c.args) : j < c.at /\ c.args[j] = e
Given(c, e) == \E j \in 1..Len(c.args) : c.args[j] = e

\* A call that is over: what Explained says of it, element by element.
OverInv(c) ==
    /\ c.alone => /\ c.name \in {"Upsert", "Insert"} =>
                        \A e : e \in c.after <=> e \in c.before \/ Given(c, e)
                  /\ c.name \in {"Remove", "TryRemove"} =>
                        \A e : e \in c.after <=> e \in c.before /\ ~Given(c, e)
                  /\ c.name \notin {"Upsert", "Insert", "Remove", "TryRemove"} => c.after = c.before
                  /\ c.name \in {"Contain", "TryRemove"} =>
                        (c.ok <=> \A j \in 1..Len(c.args) : c.args[j] \in c.before)
                  /\ c.name = "Insert" =>
                        (c.ok <=> ~\A j \in 1..Len(c.args) : c.args[j] \in c.before)
                  /\ c.name = "Collect" => c.met = c.before
    /\ c.name = "Contain" =>
          IF c.ok THEN \A j \in 1..Len(c.args) : c.args[j] \in c.sometime
          ELSE \E j \in 1..Len(c.args) : c.args[j] \notin c.always
    /\ c.name = "Collect" => c.always \subseteq c.met /\ c.met \subseteq c.sometime

\* A call under way, when the map holds s: what has been in it all the time is in s and was
\* at the start, what is or was has been at some time, and alone the call has got as far as
\* at, or as the elements that Collect has not visited.
UnderWay(c, s) ==
    /\ c.name # "none"
    /\ c.always \subseteq s /\ s \subseteq c.sometime
    /\ c.always \subseteq c.before /\ c.before \subseteq c.sometime
    /\ c.at >= 1 /\ c.at <= Len(c.args) + 1
    /\ c.name \in {"Insert", "TryRemove"} => c.at = 1 /\ Len(c.args) = 1
    /\ c.alone => /\ c.name = "Upsert" => \A e : e \in s <=> e \in c.before \/ Passed(c, e)
                  /\ c.name = "Remove" => \A e : e \in s <=> e \in c.before /\ ~Passed(c, e)
                  /\ c.name \notin {"Upsert", "Remove"} => s = c.before
    /\ c.name = "Contain" => \A j \in 1..Len(c.args) : j < c.at =>
                                /\ c.args[j] \in c.sometime
                                /\ c.alone => c.args[j] \in c.before
    /\ c.name = "Collect" => /\ \A e \in c.always : e \in c.met \/ e \in c.unvisited
                             /\ c.met \subseteq c.sometime
                             /\ c.alone => c.met = c.before \ c.unvisited

CallInv(c, s) == c \in CallRec /\ IF c.done THEN OverInv(c) ELSE UnderWay(c, s)

SetsInv == jInner \subseteq Elements /\ jCall \in [Procs -> CallRec] /\
           \A p \in Procs : CallInv(jCall[p], jInner)

\* The first record of every process is explained.
LEMMA NoCallInv == ASSUME NEW s PROVE CallInv(ConcSet!NoCall, s)
  <1> DEFINE c == ConcSet!NoCall
  <1>0. <<>> \in Seq(Elements) /\ "none" \in SetCalls
    BY DEF SetCalls
  <1>1. c \in CallRec
    BY <1>0 DEF CallRec, ConcSet!NoCall
  <1>2. c.done /\ c.name = "none" /\ c.after = {} /\ c.before = {}
    BY DEF ConcSet!NoCall
  <1> HIDE DEF c
  <1>3. OverInv(c)
    BY <1>2 DEF OverInv
  <1> QED
    BY <1>1, <1>2, <1>3 DEF CallInv, c

\* What a step of another process, or the end of a step of its own, does to a record.
Seen(d, s, a) == [d EXCEPT !.sometime = @ \cup s, !.always = @ \cap s, !.alone = @ /\ a]
Sees(d, s, a, n) ==
    /\ n \in CallRec /\ n.name = d.name /\ n.args = d.args /\ n.at = d.at
    /\ n.unvisited = d.unvisited /\ n.met = d.met /\ n.done = d.done /\ n.ok = d.ok
    /\ n.before = d.before /\ n.after = d.after
    /\ n.sometime = d.sometime \cup s /\ n.always = d.always \cap s
    /\ n.alone = (d.alone /\ a)

\* The fields of that record.
LEMMA SeenFields ==
    ASSUME NEW d \in CallRec, NEW s \in SUBSET Elements, NEW a \in BOOLEAN
    PROVE  Sees(d, s, a, Seen(d, s, a))
  <1>1. /\ d.sometime \cup s \in SUBSET Elements /\ d.always \cap s \in SUBSET Elements
        /\ (d.alone /\ a) \in BOOLEAN
    BY DEF CallRec
  <1>2. PICK n : n = Seen(d, s, a)
    OBVIOUS
  <1>3. Sees(d, s, a, n)
    BY <1>1, <1>2 DEF CallRec, Seen, Sees
  <1> QED
    BY <1>2, <1>3

\* A step of another process, which may change the map.
LEMMA OtherStep ==
    ASSUME NEW c, NEW s \in SUBSET Elements, NEW t \in SUBSET Elements, NEW n,
           CallInv(c, s), ~c.done, n = Seen(c, t, t = s)
    PROVE  CallInv(n, t)
  <1>0. c \in CallRec /\ UnderWay(c, s)
    BY DEF CallInv
  <1>a. PICK a \in BOOLEAN : a = (t = s)
    OBVIOUS
  <1>b. n = Seen(c, t, a)
    BY <1>a
  <1>1. /\ n \in CallRec /\ n.name = c.name /\ n.args = c.args /\ n.at = c.at
        /\ n.unvisited = c.unvisited /\ n.met = c.met /\ n.done = c.done
        /\ n.before = c.before /\ n.sometime = c.sometime \cup t /\ n.always = c.always \cap t
        /\ n.alone = (c.alone /\ a)
    <2>1. Sees(c, t, a, Seen(c, t, a))
      BY <1>0, SeenFields
    <2>2. Sees(c, t, a, n)
      BY <1>b, <2>1
    <2> QED
      BY <2>2 DEF Sees
  <1>2. n.alone => c.alone /\ t = s
    BY <1>a, <1>1
  <1>3. \A e : Passed(n, e) <=> Passed(c, e)
    BY <1>1 DEF Passed
  <1>4. UnderWay(n, t)
    BY <1>0, <1>1, <1>2, <1>3 DEF UnderWay
  <1> QED
    BY <1>1, <1>4 DEF CallInv

Further(c) == [c EXCEPT !.at = @ + 1]

\* A call goes on to its next element.
LEMMA GoesOn ==
    ASSUME NEW c, NEW s \in SUBSET Elements, NEW t \in SUBSET Elements, NEW n, NEW x,
           CallInv(c, s), ~c.done, c.at <= Len(c.args), x = c.args[c.at],
           n = Seen(Further(c), t, TRUE),
           \/ c.name = "Upsert" /\ t = s \cup {x}
           \/ c.name = "Remove" /\ t = s \ {x}
           \/ c.name = "Contain" /\ t = s /\ x \in s
    PROVE  CallInv(n, t)
  <1>0. c \in CallRec /\ UnderWay(c, s) /\ c.at \in Nat /\ c.args \in Seq(Elements)
    BY DEF CallInv, CallRec
  <1>1. PICK d : d = Further(c)
    OBVIOUS
  <1>2. /\ d \in CallRec /\ d.name = c.name /\ d.args = c.args /\ d.at = c.at + 1
        /\ d.done = c.done /\ d.before = c.before
        /\ d.sometime = c.sometime /\ d.always = c.always /\ d.alone = c.alone
    <2>1. c \in CallRec /\ c.at + 1 \in Nat
      BY <1>0
    <2>2. d = [c EXCEPT !.at = c.at + 1]
      BY <1>1 DEF Further
    <2> QED
      BY ONLY <2>1, <2>2 DEF CallRec
  <1>3. Sees(d, t, TRUE, n)
    BY <1>1, <1>2, SeenFields
  <1>4. /\ n \in CallRec /\ n.name = c.name /\ n.args = c.args /\ n.at = c.at + 1
        /\ n.done = c.done /\ n.before = c.before
        /\ n.sometime = c.sometime \cup t /\ n.always = c.always \cap t
    BY <1>2, <1>3 DEF Sees
  <1>5. n.alone <=> c.alone
    BY <1>2, <1>3 DEF Sees
  <1>6. Len(c.args) \in Nat /\ c.at \in 1..Len(c.args)
    BY <1>0 DEF UnderWay
  <1>i. c.at \in Nat /\ Len(c.args) \in Nat /\ 1 <= c.at /\ c.at <= Len(c.args)
    BY ONLY <1>0, <1>6
  <1>n. n.at = c.at + 1 /\ Len(n.args) = Len(c.args)
    BY ONLY <1>4
  <1>7. \A e : Passed(n, e) <=> Passed(c, e) \/ e = x
    <2> SUFFICES ASSUME NEW e PROVE Passed(n, e) <=> Passed(c, e) \/ e = x
      OBVIOUS
    <2>1. \A j \in 1..Len(c.args) : j < n.at <=> j < c.at \/ j = c.at
      BY ONLY <1>i, <1>n
    <2>2. Passed(n, e) <=> \E j \in 1..Len(c.args) : (j < c.at \/ j = c.at) /\ c.args[j] = e
      BY <1>4, <2>1, Zenon DEF Passed
    <2> QED
      BY <1>6, <2>2, Zenon DEF Passed
  <1>8. UnderWay(n, t)
    <2>1. n.at >= 1 /\ n.at <= Len(n.args) + 1
      BY ONLY <1>i, <1>n
    <2>2. CASE c.name = "Upsert" /\ t = s \cup {x}
      <3>1. n.alone => \A e : e \in t <=> e \in n.before \/ Passed(n, e)
        BY <1>0, <1>4, <1>5, <1>7, <2>2 DEF UnderWay
      <3> QED
        BY <1>0, <1>4, <1>5, <2>1, <2>2, <3>1, Zenon DEF UnderWay
    <2>3. CASE c.name = "Remove" /\ t = s \ {x}
      <3>1. n.alone => \A e : e \in t <=> e \in n.before /\ ~Passed(n, e)
        BY <1>0, <1>4, <1>5, <1>7, <2>3 DEF UnderWay
      <3> QED
        BY <1>0, <1>4, <1>5, <2>1, <2>3, <3>1, Zenon DEF UnderWay
    <2>4. CASE c.name = "Contain" /\ t = s /\ x \in s
      <3>1. \A j \in 1..Len(c.args) : j < n.at =>
                /\ c.args[j] \in n.sometime
                /\ n.alone => c.args[j] \in n.before
        <4> SUFFICES ASSUME NEW j \in 1..Len(c.args), j < n.at
                     PROVE  c.args[j] \in n.sometime /\ (n.alone => c.args[j] \in n.before)
          OBVIOUS
        <4>1. CASE j < c.at
          BY <1>0, <1>4, <1>5, <2>4, <4>1 DEF UnderWay
        <4>2. CASE j = c.at
          <5>1. c.args[j] = x
            BY <4>2
          <5>2. x \in s /\ s \subseteq c.sometime /\ (c.alone => s = c.before)
            BY <1>0, <2>4 DEF UnderWay
          <5>3. n.sometime = c.sometime \cup t /\ n.before = c.before /\ n.args = c.args
            BY <1>4
          <5>4. x \in n.sometime
            BY ONLY <5>2, <5>3
          <5>5. n.alone => x \in n.before
            BY ONLY <1>5, <5>2, <5>3
          <5> QED
            BY ONLY <5>1, <5>3, <5>4, <5>5
        <4>3. \A i \in 1..Len(c.args) : i < n.at => i < c.at \/ i = c.at
          BY ONLY <1>i, <1>n
        <4> QED
          BY <4>1, <4>2, <4>3, Zenon
      <3> QED
        BY <1>0, <1>4, <1>5, <2>1, <2>4, <3>1 DEF UnderWay
    <2> QED
      BY <2>2, <2>3, <2>4
  <1> QED
    BY <1>4, <1>8 DEF CallInv

\* Collect visits an element.
LEMMA Visits ==
    ASSUME NEW c, NEW s \in SUBSET Elements, NEW n, NEW x \in Elements,
           CallInv(c, s), ~c.done, c.name = "Collect", x \in c.unvisited,
           n = Seen([c EXCEPT !.unvisited = @ \ {x}, !.met = @ \cup ({x} \cap s)], s, TRUE)
    PROVE  CallInv(n, s)
  <1>0. c \in CallRec /\ UnderWay(c, s)
    BY DEF CallInv
  <1>1. PICK d : d = [c EXCEPT !.unvisited = @ \ {x}, !.met = @ \cup ({x} \cap s)]
    OBVIOUS
  <1>2. /\ d \in CallRec /\ d.name = c.name /\ d.args = c.args /\ d.at = c.at
        /\ d.done = c.done /\ d.before = c.before /\ d.unvisited = c.unvisited \ {x}
        /\ d.met = c.met \cup ({x} \cap s)
        /\ d.sometime = c.sometime /\ d.always = c.always /\ d.alone = c.alone
    BY <1>0, <1>1 DEF CallRec
  <1>3. Sees(d, s, TRUE, n)
    BY <1>1, <1>2, SeenFields
  <1>4. /\ n \in CallRec /\ n.name = c.name /\ n.args = c.args /\ n.at = c.at
        /\ n.done = c.done /\ n.before = c.before /\ n.unvisited = c.unvisited \ {x}
        /\ n.met = c.met \cup ({x} \cap s)
        /\ n.sometime = c.sometime \cup s /\ n.always = c.always \cap s
    BY <1>2, <1>3 DEF Sees
  <1>5. n.alone <=> c.alone
    BY <1>2, <1>3 DEF Sees
  <1>6. /\ \A e \in n.always : e \in n.met \/ e \in n.unvisited
        /\ n.met \subseteq n.sometime
    BY <1>0, <1>4 DEF UnderWay
  <1>7. n.alone => n.met = n.before \ n.unvisited
    BY <1>0, <1>4, <1>5 DEF UnderWay
  <1>8. UnderWay(n, s)
    BY <1>0, <1>4, <1>5, <1>6, <1>7 DEF UnderWay
  <1> QED
    BY <1>4, <1>8 DEF CallInv

\* A call returns.
LEMMA ReturnsInv ==
    ASSUME NEW c, NEW s \in SUBSET Elements, NEW t \in SUBSET Elements, NEW n, NEW x, NEW ok \in BOOLEAN,
           CallInv(c, s), ~c.done, x = c.args[c.at],
           n = Seen([c EXCEPT !.done = TRUE, !.ok = ok, !.after = t], t, TRUE),
           \/ c.name \in {"Upsert", "Remove"} /\ c.at > Len(c.args) /\ t = s
           \/ c.name = "Contain" /\ c.at > Len(c.args) /\ ok /\ t = s
           \/ c.name = "Contain" /\ c.at <= Len(c.args) /\ x \notin s /\ ~ok /\ t = s
           \/ c.name = "Insert" /\ t = s \cup {x} /\ (ok <=> x \notin s)
           \/ c.name = "TryRemove" /\ t = s \ {x} /\ (ok <=> x \in s)
           \/ c.name = "Collect" /\ c.unvisited = {} /\ t = s
    PROVE  CallInv(n, t)
  <1>0. c \in CallRec /\ UnderWay(c, s) /\ c.at \in Nat /\ c.args \in Seq(Elements)
    BY DEF CallInv, CallRec
  <1>1. PICK d : d = [c EXCEPT !.done = TRUE, !.ok = ok, !.after = t]
    OBVIOUS
  <1>2. /\ d \in CallRec /\ d.name = c.name /\ d.args = c.args /\ d.met = c.met
        /\ d.done = TRUE /\ d.ok = ok /\ d.after = t /\ d.before = c.before
        /\ d.sometime = c.sometime /\ d.always = c.always /\ d.alone = c.alone
    BY <1>0, <1>1 DEF CallRec
  <1>3. Sees(d, t, TRUE, n)
    BY <1>1, <1>2, SeenFields
  <1>4. /\ n \in CallRec /\ n.name = c.name /\ n.args = c.args /\ n.met = c.met
        /\ n.done = TRUE /\ n.ok = ok /\ n.after = t /\ n.before = c.before
        /\ n.sometime = c.sometime \cup t /\ n.always = c.always \cap t
    BY <1>2, <1>3 DEF Sees
  <1>5. n.alone <=> c.alone
    BY <1>2, <1>3 DEF Sees
  <1>6. Len(c.args) \in Nat /\ c.at >= 1
    BY <1>0 DEF UnderWay
  <1>7. c.at > Len(c.args) => \A j \in 1..Len(c.args) : j < c.at
    BY <1>0, <1>6
  <1>8. /\ c.at > Len(c.args) => \A e : Passed(c, e) <=> Given(c, e)
        /\ \A e : Given(n, e) <=> Given(c, e)
    BY <1>4, <1>7 DEF Passed, Given
  <1>9. OverInv(n)
    <2>1. CASE c.name = "Upsert" /\ c.at > Len(c.args) /\ t = s
      BY <1>0, <1>4, <1>5, <1>8, <2>1 DEF UnderWay, OverInv
    <2>2. CASE c.name = "Remove" /\ c.at > Len(c.args) /\ t = s
      BY <1>0, <1>4, <1>5, <1>8, <2>2 DEF UnderWay, OverInv
    <2>3. CASE c.name = "Contain" /\ c.at > Len(c.args) /\ ok /\ t = s
      BY <1>0, <1>4, <1>5, <1>7, <2>3 DEF UnderWay, OverInv
    <2>4. CASE c.name = "Contain" /\ c.at <= Len(c.args) /\ x \notin s /\ ~ok /\ t = s
      <3>a. c.at \in 1..Len(c.args)
        <4>1. c.at \in Nat /\ c.at >= 1 /\ c.at <= Len(c.args)
          BY <1>0, <1>6, <2>4
        <4> QED
          BY ONLY <1>6, <4>1
      <3>b. x \notin n.always /\ (c.alone => x \notin c.before)
        BY <1>0, <1>4, <2>4 DEF UnderWay
      <3>1. c.at \in 1..Len(c.args) /\ x \notin n.always /\ (c.alone => x \notin c.before)
        BY <3>a, <3>b
      <3>2. \E j \in 1..Len(n.args) : n.args[j] \notin n.always
        BY <1>4, <3>1
      <3>3. n.alone => ~(\A j \in 1..Len(n.args) : n.args[j] \in n.before)
        BY <1>4, <1>5, <3>1
      <3>4. n.alone => n.after = n.before
        BY <1>0, <1>4, <1>5, <2>4 DEF UnderWay
      <3> QED
        BY <1>4, <2>4, <3>2, <3>3, <3>4 DEF OverInv
    <2>5. ASSUME c.name \in {"Insert", "TryRemove"}
          PROVE  /\ \A j \in 1..Len(c.args) : j = 1 /\ c.args[j] = x
                 /\ 1 \in 1..Len(c.args) /\ c.at = 1
                 /\ \A e : Given(c, e) <=> e = x
                 /\ (\A j \in 1..Len(c.args) : c.args[j] \in c.before) <=> x \in c.before
                 /\ c.alone => s = c.before
      <3>1. c.at = 1 /\ Len(c.args) = 1 /\ (c.alone => s = c.before)
        BY <1>0, <2>5 DEF UnderWay
      <3>2. 1 \in 1..Len(c.args) /\ \A j \in 1..Len(c.args) : j = 1
        BY <3>1
      <3>3. c.args[1] = x
        BY <3>1
      <3> QED
        BY <3>1, <3>2, <3>3 DEF Given
    <2>6. CASE c.name = "Insert" /\ t = s \cup {x} /\ (ok <=> x \notin s)
      <3>1. n.alone => \A e : e \in n.after <=> e \in n.before \/ Given(n, e)
        BY <1>4, <1>5, <1>8, <2>5, <2>6
      <3>2. n.alone => (n.ok <=> ~\A j \in 1..Len(n.args) : n.args[j] \in n.before)
        BY <1>4, <1>5, <2>5, <2>6, Zenon
      <3> QED
        BY <1>4, <2>6, <3>1, <3>2, Zenon DEF OverInv
    <2>7. CASE c.name = "TryRemove" /\ t = s \ {x} /\ (ok <=> x \in s)
      <3>1. n.alone => \A e : e \in n.after <=> e \in n.before /\ ~Given(n, e)
        BY <1>4, <1>5, <1>8, <2>5, <2>7
      <3>2. n.alone => (n.ok <=> \A j \in 1..Len(n.args) : n.args[j] \in n.before)
        BY <1>4, <1>5, <2>5, <2>7, Zenon
      <3> QED
        BY <1>4, <2>7, <3>1, <3>2, Zenon DEF OverInv
    <2>8. CASE c.name = "Collect" /\ c.unvisited = {} /\ t = s
      BY <1>0, <1>4, <1>5, <2>8 DEF UnderWay, OverInv
    <2> QED
      BY <2>1, <2>2, <2>3, <2>4, <2>6, <2>7, <2>8
  <1> QED
    BY <1>4, <1>9 DEF CallInv

\* A call begins.
LEMMA BeginsInv ==
    ASSUME NEW s \in SUBSET Elements, NEW name \in SetCalls \ {"none"}, NEW args \in Seq(Elements),
           name \in {"Insert", "TryRemove"} => Len(args) = 1, NEW n,
           n = [ConcSet!NoCall EXCEPT !.name = name, !.args = args, !.unvisited = Elements,
                                      !.done = FALSE, !.before = s, !.sometime = s, !.always = s]
    PROVE  CallInv(n, s)
  <1>1. n = [name |-> name, args |-> args, at |-> 1, unvisited |-> Elements, met |-> {},
             done |-> FALSE, ok |-> TRUE, before |-> s, after |-> {}, sometime |-> s,
             always |-> s, alone |-> TRUE]
    BY DEF ConcSet!NoCall
  <1>2. n \in CallRec
    <2>1. name \in SetCalls /\ args \in Seq(Elements) /\ s \in SUBSET Elements
      OBVIOUS
    <2> QED
      BY ONLY <1>1, <2>1 DEF CallRec
  <1>3. /\ n.name = name /\ n.args = args /\ n.at = 1 /\ n.unvisited = Elements /\ n.met = {}
        /\ n.done = FALSE /\ n.before = s /\ n.sometime = s /\ n.always = s
    BY ONLY <1>1
  <1>4. Len(args) \in Nat
    OBVIOUS
  <1>5. \A j \in 1..Len(args) : ~(j < 1)
    BY ONLY <1>4
  <1>6. \A e : ~Passed(n, e)
    BY <1>3, <1>5 DEF Passed
  <1>7. n.at >= 1 /\ n.at <= Len(n.args) + 1
    BY ONLY <1>3, <1>4
  <1>8. UnderWay(n, s)
    BY <1>3, <1>5, <1>6, <1>7 DEF UnderWay
  <1> QED
    BY <1>2, <1>3, <1>8 DEF CallInv

\* No call was made.
LEMMA SetsInit == ConcSet!Init => SetsInv
  <1> SUFFICES ASSUME ConcSet!Init PROVE SetsInv
    OBVIOUS
  <1>1. jInner = {} /\ jCall = [p \in Procs |-> ConcSet!NoCall]
    BY DEF ConcSet!Init
  <1>2. CallInv(ConcSet!NoCall, jInner)
    BY NoCallInv
  <1>3. ConcSet!NoCall \in CallRec
    BY <1>2 DEF CallInv
  <1> QED
    BY <1>1, <1>2, <1>3 DEF SetsInv

\* One process goes on, all see what it does to the map.
LEMMA SetMoves ==
    ASSUME SetsInv, NEW p \in Procs, ~jCall[p].done, NEW d, NEW t \in SUBSET Elements,
           ConcSet!Step(p, d, t), CallInv(Seen(d, t, TRUE), t)
    PROVE  SetsInv'
  <1>0. /\ jInner \in SUBSET Elements /\ jCall \in [Procs -> CallRec]
        /\ \A q \in Procs : CallInv(jCall[q], jInner)
    BY DEF SetsInv
  <1>1. /\ jInner' = t
        /\ jCall' = [q \in Procs |->
                       IF jCall[q].done THEN IF q = p THEN d ELSE jCall[q]
                       ELSE Seen(IF q = p THEN d ELSE jCall[q], t, q = p \/ t = jInner)]
    BY Zenon DEF ConcSet!Step, Seen
  <1>2. ASSUME NEW q \in Procs PROVE CallInv(jCall'[q], t)
    <2>1. CASE q = p
      <3>1. jCall'[q] = Seen(d, t, q = p \/ t = jInner)
        BY <1>1, <2>1
      <3>2. (q = p \/ t = jInner) = TRUE
        BY <2>1
      <3>3. jCall'[q] = Seen(d, t, TRUE)
        BY <3>1, <3>2
      <3> QED
        BY <3>3
    <2>2. CASE q # p /\ jCall[q].done
      <3>1. jCall'[q] = jCall[q]
        BY <1>1, <2>2
      <3>2. CallInv(jCall[q], t)
        BY <1>0, <2>2 DEF CallInv
      <3> QED
        BY <3>1, <3>2
    <2>3. CASE q # p /\ ~jCall[q].done
      <3>1. jCall'[q] = Seen(jCall[q], t, q = p \/ t = jInner)
        BY <1>1, <2>3
      <3>2. (q = p \/ t = jInner) = (t = jInner)
        BY <2>3
      <3>3. jCall'[q] = Seen(jCall[q], t, t = jInner)
        BY <3>1, <3>2
      <3>4. PICK c, n, s : c = jCall[q] /\ n = jCall'[q] /\ s = jInner
        OBVIOUS
      <3>5. CallInv(c, s) /\ ~c.done /\ n = Seen(c, t, t = s) /\ s \in SUBSET Elements
        BY <1>0, <2>3, <3>3, <3>4
      <3>6. CallInv(n, t)
        BY <3>5, OtherStep
      <3> QED
        BY <3>4, <3>6
    <2> QED
      BY <2>1, <2>2, <2>3
  <1>3. \A q \in Procs : jCall'[q] \in CallRec
    BY <1>2 DEF CallInv
  <1>4. jCall' \in [Procs -> CallRec]
    <2>1. DOMAIN jCall' = Procs /\ jCall' = [q \in Procs |-> jCall'[q]]
      BY <1>1
    <2> QED
      BY <1>3, <2>1
  <1> QED
    BY <1>1, <1>2, <1>4 DEF SetsInv

\* Every step of a call keeps the invariant of all calls.
LEMMA SetsStep == SetsInv /\ [ConcSet!Next]_jVars => SetsInv'
  <1> SUFFICES ASSUME SetsInv, [ConcSet!Next]_jVars PROVE SetsInv'
    OBVIOUS
  <1>0. /\ jInner \in SUBSET Elements /\ jCall \in [Procs -> CallRec]
        /\ \A q \in Procs : CallInv(jCall[q], jInner)
    BY DEF SetsInv
  <1>1. ASSUME NEW p \in Procs, NEW name \in SetCalls \ {"none"}, NEW args \in Seq(Elements),
               name \in {"Insert", "TryRemove"} => Len(args) = 1, ConcSet!Begin(p, name, args)
        PROVE  SetsInv'
    <2>1. PICK n : n = [ConcSet!NoCall EXCEPT !.name = name, !.args = args,
                               !.unvisited = Elements, !.done = FALSE, !.before = jInner,
                               !.sometime = jInner, !.always = jInner]
      OBVIOUS
    <2>2. jCall' = [jCall EXCEPT ![p] = n] /\ jInner' = jInner
      BY <1>1, <2>1, Zenon DEF ConcSet!Begin
    <2>3. PICK s \in SUBSET Elements : s = jInner
      BY <1>0
    <2>4. CallInv(n, s)
      BY <1>1, <2>1, <2>3, BeginsInv, Zenon
    <2>5. n \in CallRec
      BY <2>4 DEF CallInv
    <2>6. \A q \in Procs : CallInv(jCall'[q], jInner')
      <3> SUFFICES ASSUME NEW q \in Procs PROVE CallInv(jCall'[q], jInner)
        BY <2>2
      <3>1. CASE q = p
        <4>1. jCall'[q] = n
          BY <1>0, <2>2, <3>1
        <4> QED
          BY <2>3, <2>4, <4>1
      <3>2. CASE q # p
        <4>1. jCall'[q] = jCall[q]
          BY <1>0, <2>2, <3>2
        <4> QED
          BY <1>0, <4>1
      <3> QED
        BY <3>1, <3>2
    <2>7. jCall' \in [Procs -> CallRec]
      BY <1>0, <2>2, <2>5
    <2> QED
      BY <1>0, <2>2, <2>6, <2>7 DEF SetsInv
  <1>2. ASSUME NEW p \in Procs, ConcSet!Call(p) PROVE SetsInv'
    <2>1. CASE \E elements \in ArgLists, name \in {"Upsert", "Remove", "Contain"} :
                    ConcSet!Begin(p, name, elements)
      <3>1. PICK elements \in ArgLists, name \in {"Upsert", "Remove", "Contain"} :
                    ConcSet!Begin(p, name, elements)
        BY <2>1
      <3>2. elements \in Seq(Elements) /\ name \in SetCalls \ {"none"}
            /\ name \notin {"Insert", "TryRemove"}
        BY HelpersAssumption DEF SetCalls
      <3> QED
        BY <1>1, <3>1, <3>2
    <2>2. CASE \E e \in Elements, name \in {"Insert", "TryRemove"} : ConcSet!Begin(p, name, <<e>>)
      <3>1. PICK e \in Elements, name \in {"Insert", "TryRemove"} : ConcSet!Begin(p, name, <<e>>)
        BY <2>2
      <3>2. <<e>> \in Seq(Elements) /\ Len(<<e>>) = 1 /\ name \in SetCalls \ {"none"}
        BY DEF SetCalls
      <3> QED
        BY <1>1, <3>1, <3>2
    <2>3. CASE ConcSet!Begin(p, "Collect", <<>>)
      <3>1. <<>> \in Seq(Elements) /\ "Collect" \in SetCalls \ {"none"}
            /\ "Collect" \notin {"Insert", "TryRemove"}
        BY DEF SetCalls
      <3> QED
        BY <1>1, <2>3, <3>1
    <2> QED
      BY <1>2, <2>1, <2>2, <2>3 DEF ConcSet!Call
  <1>3. ASSUME NEW p \in Procs,
               \/ ConcSet!Upsert(p) \/ ConcSet!RemoveEach(p) \/ ConcSet!ContainEach(p)
               \/ ConcSet!InsertOne(p) \/ ConcSet!TryRemove(p) \/ ConcSet!CollectEach(p)
        PROVE  SetsInv'
    <2>a. PICK c : c = jCall[p]
      OBVIOUS
    <2>b. PICK s \in SUBSET Elements : s = jInner
      BY <1>0
    <2>1. c = jCall[p] /\ s = jInner
      BY <2>a, <2>b
    <2>2. CallInv(c, s) /\ ~jCall[p].done /\ ~c.done
      BY <1>0, <1>3, <2>1, Zenon DEF ConcSet!Upsert, ConcSet!RemoveEach, ConcSet!ContainEach,
             ConcSet!InsertOne, ConcSet!TryRemove, ConcSet!CollectEach, ConcSet!is
    <2>3. c \in CallRec /\ c.args \in Seq(Elements) /\ c.at \in Nat /\ UnderWay(c, s)
      BY <2>2 DEF CallInv, CallRec
    <2>4. PICK x : x = c.args[c.at]
      OBVIOUS
    <2>x. /\ Len(c.args) \in Nat /\ c.at >= 1
          /\ c.at <= Len(c.args) => x \in Elements
          /\ c.name \in {"Insert", "TryRemove"} => x \in Elements
      BY <2>3, <2>4 DEF UnderWay
    <2>f. /\ ConcSet!over(p) <=> c.at > Len(c.args)
          /\ ConcSet!item(p) = x /\ ConcSet!further(p) = Further(c)
          /\ \A name : ConcSet!is(p, name) => c.name = name
      BY <2>1, <2>4 DEF ConcSet!over, ConcSet!item, ConcSet!further, ConcSet!is, Further
    <2>r. \A ok, t : ConcSet!returns(p, ok, t) = [c EXCEPT !.done = TRUE, !.ok = ok, !.after = t]
      BY <2>1, Zenon DEF ConcSet!returns
    <2>g. ASSUME NEW t \in SUBSET Elements, c.at <= Len(c.args),
                 ConcSet!Step(p, ConcSet!further(p), t),
                 \/ c.name = "Upsert" /\ t = s \cup {x}
                 \/ c.name = "Remove" /\ t = s \ {x}
                 \/ c.name = "Contain" /\ t = s /\ x \in s
          PROVE  SetsInv'
      <3>1. PICK d : d = Further(c)
        OBVIOUS
      <3>2. ConcSet!Step(p, d, t)
        BY <2>f, <2>g, <3>1
      <3>3. PICK n : n = Seen(Further(c), t, TRUE)
        OBVIOUS
      <3>a. CallInv(c, s) /\ ~c.done /\ c.at <= Len(c.args)
        BY <2>2, <2>g
      <3>b. \/ c.name = "Upsert" /\ t = s \cup {x}
            \/ c.name = "Remove" /\ t = s \ {x}
            \/ c.name = "Contain" /\ t = s /\ x \in s
        BY <2>g
      <3>4. CallInv(n, t)
        BY ONLY s \in SUBSET Elements, t \in SUBSET Elements, <2>4, <3>a, <3>b, <3>3, GoesOn
      <3> QED
        BY <2>2, <3>1, <3>2, <3>3, <3>4, SetMoves
    <2>h. ASSUME NEW t \in SUBSET Elements, NEW ok \in BOOLEAN,
                 ConcSet!Step(p, ConcSet!returns(p, ok, t), t),
                 \/ c.name \in {"Upsert", "Remove"} /\ c.at > Len(c.args) /\ t = s
                 \/ c.name = "Contain" /\ c.at > Len(c.args) /\ ok /\ t = s
                 \/ c.name = "Contain" /\ c.at <= Len(c.args) /\ x \notin s /\ ~ok /\ t = s
                 \/ c.name = "Insert" /\ t = s \cup {x} /\ (ok <=> x \notin s)
                 \/ c.name = "TryRemove" /\ t = s \ {x} /\ (ok <=> x \in s)
                 \/ c.name = "Collect" /\ c.unvisited = {} /\ t = s
          PROVE  SetsInv'
      <3>1. PICK d : d = [c EXCEPT !.done = TRUE, !.ok = ok, !.after = t]
        OBVIOUS
      <3>2. ConcSet!Step(p, d, t)
        BY <2>r, <2>h, <3>1, Zenon
      <3>3. CallInv(Seen([c EXCEPT !.done = TRUE, !.ok = ok, !.after = t], t, TRUE), t)
        BY <2>2, <2>4, <2>h, ReturnsInv, Zenon
      <3> QED
        BY <2>2, <3>1, <3>2, <3>3, SetMoves
    <2>5. CASE ConcSet!Upsert(p)
      <3>1. c.name = "Upsert"
        BY <2>5, <2>f DEF ConcSet!Upsert
      <3>2. CASE c.at > Len(c.args)
        <4>1. ConcSet!Step(p, ConcSet!returns(p, TRUE, s), s)
          BY <2>1, <2>5, <2>f, <3>2, Zenon DEF ConcSet!Upsert
        <4> QED
          BY <2>h, <3>1, <3>2, <4>1
      <3>3. CASE ~(c.at > Len(c.args))
        <4>1. ConcSet!Step(p, ConcSet!further(p), s \cup {x})
          BY <2>1, <2>5, <2>f, <3>3, Zenon DEF ConcSet!Upsert
        <4>2. c.at <= Len(c.args) /\ s \cup {x} \in SUBSET Elements
          BY <2>3, <2>x, <3>3
        <4> QED
          BY <2>g, <3>1, <4>1, <4>2
      <3> QED
        BY <3>2, <3>3
    <2>6. CASE ConcSet!RemoveEach(p)
      <3>1. c.name = "Remove"
        BY <2>6, <2>f DEF ConcSet!RemoveEach
      <3>2. CASE c.at > Len(c.args)
        <4>1. ConcSet!Step(p, ConcSet!returns(p, TRUE, s), s)
          BY <2>1, <2>6, <2>f, <3>2, Zenon DEF ConcSet!RemoveEach
        <4> QED
          BY <2>h, <3>1, <3>2, <4>1
      <3>3. CASE ~(c.at > Len(c.args))
        <4>1. ConcSet!Step(p, ConcSet!further(p), s \ {x})
          BY <2>1, <2>6, <2>f, <3>3, Zenon DEF ConcSet!RemoveEach
        <4>2. c.at <= Len(c.args) /\ s \ {x} \in SUBSET Elements
          BY <2>3, <2>x, <3>3
        <4> QED
          BY <2>g, <3>1, <4>1, <4>2
      <3> QED
        BY <3>2, <3>3
    <2>7. CASE ConcSet!ContainEach(p)
      <3>1. c.name = "Contain"
        BY <2>7, <2>f DEF ConcSet!ContainEach
      <3>2. CASE c.at > Len(c.args)
        <4>1. ConcSet!Step(p, ConcSet!returns(p, ConcSet!over(p), s), s)
          BY <2>1, <2>7, <2>f, <3>2, Zenon DEF ConcSet!ContainEach
        <4>2. ConcSet!over(p) = TRUE
          BY <2>f, <3>2 DEF ConcSet!over
        <4>3. ConcSet!Step(p, ConcSet!returns(p, TRUE, s), s)
          BY <4>1, <4>2
        <4> QED
          BY <2>h, <3>1, <3>2, <4>3
      <3>3. CASE ~(c.at > Len(c.args)) /\ x \notin s
        <4>1. ConcSet!Step(p, ConcSet!returns(p, ConcSet!over(p), s), s)
          BY <2>1, <2>7, <2>f, <3>3, Zenon DEF ConcSet!ContainEach
        <4>2. ConcSet!over(p) = FALSE
          BY <2>f, <3>3 DEF ConcSet!over
        <4>3. ConcSet!Step(p, ConcSet!returns(p, FALSE, s), s)
          BY <4>1, <4>2
        <4>4. c.at <= Len(c.args)
          BY <2>3, <2>x, <3>3
        <4> QED
          BY <2>h, <3>1, <3>3, <4>3, <4>4
      <3>4. CASE ~(c.at > Len(c.args)) /\ x \in s
        <4>1. ConcSet!Step(p, ConcSet!further(p), s)
          BY <2>1, <2>7, <2>f, <3>4, Zenon DEF ConcSet!ContainEach
        <4>2. c.at <= Len(c.args)
          BY <2>3, <2>x, <3>4
        <4> QED
          BY <2>g, <3>1, <3>4, <4>1, <4>2
      <3> QED
        BY <3>2, <3>3, <3>4
    <2>8. CASE ConcSet!InsertOne(p)
      <3>1. c.name = "Insert"
        BY <2>8, <2>f DEF ConcSet!InsertOne
      <3>2. PICK ok \in BOOLEAN : ok = (x \notin s)
        OBVIOUS
      <3>3. ConcSet!Step(p, ConcSet!returns(p, ok, s \cup {x}), s \cup {x})
        BY <2>1, <2>8, <2>f, <3>2 DEF ConcSet!InsertOne
      <3>4. s \cup {x} \in SUBSET Elements
        BY <2>x, <3>1
      <3> QED
        BY <2>h, <3>1, <3>2, <3>3, <3>4
    <2>9. CASE ConcSet!TryRemove(p)
      <3>1. c.name = "TryRemove"
        BY <2>9, <2>f DEF ConcSet!TryRemove
      <3>2. PICK ok \in BOOLEAN : ok = (x \in s)
        <4>1. (x \in s) \in BOOLEAN
          OBVIOUS
        <4> QED
          BY <4>1, Zenon
      <3>3. ConcSet!Step(p, ConcSet!returns(p, ok, s \ {x}), s \ {x})
        BY <2>1, <2>9, <2>f, <3>2 DEF ConcSet!TryRemove
      <3>4. s \ {x} \in SUBSET Elements
        OBVIOUS
      <3> QED
        BY <2>h, <3>1, <3>2, <3>3, <3>4
    <2>10. CASE ConcSet!CollectEach(p)
      <3>1. c.name = "Collect"
        BY <2>10, <2>f, Zenon DEF ConcSet!CollectEach
      <3>2. CASE c.unvisited = {}
        <4>1. ConcSet!Step(p, ConcSet!returns(p, TRUE, s), s)
          BY <2>1, <2>10, <3>2, Zenon DEF ConcSet!CollectEach
        <4> QED
          BY <2>h, <3>1, <3>2, <4>1
      <3>3. CASE c.unvisited # {}
        <4>1. PICK e \in c.unvisited :
                  ConcSet!Step(p, [c EXCEPT !.unvisited = @ \ {e}, !.met = @ \cup ({e} \cap s)], s)
          BY <2>1, <2>10, <3>3, Zenon DEF ConcSet!CollectEach
        <4>2. e \in Elements
          BY <2>3 DEF CallRec
        <4>3. PICK d : d = [c EXCEPT !.unvisited = @ \ {e}, !.met = @ \cup ({e} \cap s)]
          OBVIOUS
        <4>4. CallInv(Seen(d, s, TRUE), s)
          BY <2>2, <3>1, <4>2, <4>3, Visits, Zenon
        <4> QED
          BY <2>2, <4>1, <4>3, <4>4, SetMoves
      <3> QED
        BY <3>2, <3>3
    <2> QED
      BY <1>3, <2>5, <2>6, <2>7, <2>8, <2>9, <2>10
  <1>4. CASE UNCHANGED jVars
    BY <1>4 DEF jVars, SetsInv
  <1> QED
    BY <1>2, <1>3, <1>4 DEF ConcSet!Next

\* Element by element, the calls that are over are explained.
LEMMA SetsSound == SetsInv => ConcSet!Explained
  <1> SUFFICES ASSUME SetsInv, NEW p \in Procs, jCall[p].done, NEW c, c = jCall[p]
               PROVE  /\ c.alone =>
                            /\ c.after = ConcSet!expected(c)
                            /\ c.name = "Contain" => c.ok = ConcSet!Contain(c.before, c.args)
                            /\ c.name = "Insert" => c.ok = ~ConcSet!Contain(c.before, c.args)
                            /\ c.name = "TryRemove" => c.ok = ConcSet!Contain(c.before, c.args)
                            /\ c.name = "Collect" => c.met = c.before
                      /\ c.name = "Contain" =>
                            IF c.ok THEN ConcSet!Seqs!ToSet(c.args) \subseteq c.sometime
                            ELSE ~(ConcSet!Seqs!ToSet(c.args) \subseteq c.always)
                      /\ c.name = "Collect" => c.always \subseteq c.met /\ c.met \subseteq c.sometime
    BY Zenon DEF ConcSet!Explained
  <1>1. c \in CallRec /\ OverInv(c) /\ c.args \in Seq(Elements) /\ c.ok \in BOOLEAN
    BY DEF SetsInv, CallInv, CallRec
  <1>2. \A e : e \in ConcSet!Seqs!ToSet(c.args) <=> Given(c, e)
    BY <1>1 DEF ConcSet!Seqs!ToSet, Given
  <1>3. ConcSet!Contain(c.before, c.args) <=> \A j \in 1..Len(c.args) : c.args[j] \in c.before
    BY <1>1 DEF ConcSet!Contain
  <1>4. c.alone => c.after = ConcSet!expected(c)
    BY <1>1, <1>2 DEF OverInv, ConcSet!expected, ConcSet!Insert, ConcSet!Remove
  <1>5. c.alone => /\ c.name = "Contain" => c.ok = ConcSet!Contain(c.before, c.args)
                   /\ c.name = "Insert" => c.ok = ~ConcSet!Contain(c.before, c.args)
                   /\ c.name = "TryRemove" => c.ok = ConcSet!Contain(c.before, c.args)
                   /\ c.name = "Collect" => c.met = c.before
    BY <1>1, <1>3 DEF OverInv, ConcSet!Contain
  <1>6. c.name = "Contain" =>
            IF c.ok THEN ConcSet!Seqs!ToSet(c.args) \subseteq c.sometime
            ELSE ~(ConcSet!Seqs!ToSet(c.args) \subseteq c.always)
    BY <1>1, <1>2 DEF OverInv, Given
  <1>7. c.name = "Collect" => c.always \subseteq c.met /\ c.met \subseteq c.sometime
    BY <1>1 DEF OverInv
  <1> QED
    BY <1>4, <1>5, <1>6, <1>7

-------------------------------------------------------------------------------
(* ConfigView *)

\* The two spellings of a parameter.
W(p) == View!written(p)
Fm(p) == View!formatKey(View!written(p))
Env == vSources.EnvironmentSource
File == vSources.FileSource

\* The spellings are told apart, and each says which parameter it is of.
LEMMA Spellings ==
    /\ \A p, q : W(p) # Fm(q)
    /\ \A p, q : W(p) = W(q) => p = q
    /\ \A p, q : Fm(p) = Fm(q) => p = q
    /\ \A p : View!formatKey(W(p)) = Fm(p) /\ View!formatKey(Fm(p)) = Fm(p)
    /\ \A p : W(p).segs = p /\ W(p).dotted /\ Fm(p).segs = p /\ ~Fm(p).dotted
  BY DEF W, Fm, View!written, View!formatKey

\* What was set at run time is what the histories say, under the spelling it was set in; a
\* file has both spellings of its parameters, the environment has the formatted one.
ViewInv ==
    /\ DOMAIN vSources = {"EnvironmentSource", "FileSource"}
    /\ DOMAIN vSingle \subseteq ViewPaths /\ DOMAIN vGrouped \subseteq ViewPaths
    /\ DOMAIN vOverlays = {Fm(p) : p \in DOMAIN vSingle} \cup {W(p) : p \in DOMAIN vGrouped}
    /\ \A p \in DOMAIN vSingle : vOverlays[Fm(p)] = vSingle[p]
    /\ \A p \in DOMAIN vGrouped : vOverlays[W(p)] = vGrouped[p]
    /\ \A k \in DOMAIN Env : \E p \in ViewPaths : k = Fm(p)
    /\ \A k \in DOMAIN File : \E p \in ViewPaths : k = W(p) \/ k = Fm(p)
    /\ \A p \in ViewPaths : /\ W(p) \in DOMAIN File <=> Fm(p) \in DOMAIN File
                            /\ W(p) \in DOMAIN File => File[W(p)] = File[Fm(p)]

\* No source, nothing set.
LEMMA ViewInit == View!Init => ViewInv
  BY DEF View!Init, ViewInv, Env, File

\* The sources are read.
LEMMA ViewSources ==
    ASSUME ViewInv, NEW env \in SUBSET ViewPaths, NEW file \in SUBSET ViewPaths, NEW v, NEW w,
           View!AddSources(env, file, v, w)
    PROVE  ViewInv'
  <1>1. /\ DOMAIN vSources' = {"EnvironmentSource", "FileSource"}
        /\ Env' = View!NewEnvSource([p \in env |-> w])
        /\ File' = View!loadFromFile([p \in file |-> v])
        /\ vOverlays' = vOverlays /\ vSingle' = vSingle /\ vGrouped' = vGrouped
    BY DEF View!AddSources, Env, File
  <1>2. /\ DOMAIN Env' = {Fm(p) : p \in env}
        /\ DOMAIN File' = {W(p) : p \in file} \cup {Fm(p) : p \in file}
    BY <1>1 DEF View!NewEnvSource, View!loadFromFile, W, Fm
  <1>3. \A p \in file : File'[W(p)] = v /\ File'[Fm(p)] = v
    <2> SUFFICES ASSUME NEW p \in file PROVE File'[W(p)] = v /\ File'[Fm(p)] = v
      OBVIOUS
    <2>1. W(p).segs = p /\ Fm(p).segs = p
      BY Spellings
    <2> QED
      BY <1>1, <2>1 DEF View!loadFromFile, W, Fm
  <1>4. \A k \in DOMAIN Env' : \E p \in ViewPaths : k = Fm(p)
    BY <1>2
  <1>5. \A k \in DOMAIN File' : \E p \in ViewPaths : k = W(p) \/ k = Fm(p)
    BY <1>2
  <1>6. \A p \in ViewPaths : /\ W(p) \in DOMAIN File' <=> Fm(p) \in DOMAIN File'
                             /\ W(p) \in DOMAIN File' => File'[W(p)] = File'[Fm(p)]
    BY <1>2, <1>3, Spellings
  <1> QED
    BY <1>1, <1>4, <1>5, <1>6 DEF ViewInv

\* The calls at run time.
LEMMA ViewStep == ViewInv /\ [View!Next]_vVars => ViewInv'
  <1> SUFFICES ASSUME ViewInv, [View!Next]_vVars PROVE ViewInv'
    OBVIOUS
  <1>1. ASSUME NEW p \in ViewPaths, NEW v, vOverlays' = View!put(vOverlays, Fm(p), v),
               vSingle' = View!put(vSingle, p, v), UNCHANGED <<vSources, vGrouped>>
        PROVE  ViewInv'
    <2>1. /\ DOMAIN vOverlays' = DOMAIN vOverlays \cup {Fm(p)} /\ vOverlays'[Fm(p)] = v
          /\ \A k \in DOMAIN vOverlays : k # Fm(p) => vOverlays'[k] = vOverlays[k]
          /\ DOMAIN vSingle' = DOMAIN vSingle \cup {p} /\ vSingle'[p] = v
          /\ \A q \in DOMAIN vSingle : q # p => vSingle'[q] = vSingle[q]
      BY <1>1 DEF View!put
    <2>2. DOMAIN vOverlays' = {Fm(q) : q \in DOMAIN vSingle'} \cup {W(q) : q \in DOMAIN vGrouped'}
      BY <1>1, <2>1 DEF ViewInv
    <2>3. /\ \A q \in DOMAIN vSingle' : vOverlays'[Fm(q)] = vSingle'[q]
          /\ \A q \in DOMAIN vGrouped' : vOverlays'[W(q)] = vGrouped'[q]
      BY <1>1, <2>1, Spellings DEF ViewInv
    <2> QED
      BY <1>1, <2>1, <2>2, <2>3 DEF ViewInv, Env, File
  <1>2. ASSUME NEW p \in ViewPaths, View!Reset(p) PROVE ViewInv'
    <2>1. /\ DOMAIN vOverlays' = DOMAIN vOverlays \ {Fm(p)}
          /\ \A k \in DOMAIN vOverlays' : vOverlays'[k] = vOverlays[k]
          /\ DOMAIN vSingle' = DOMAIN vSingle \ {p}
          /\ \A q \in DOMAIN vSingle' : vSingle'[q] = vSingle[q]
          /\ UNCHANGED <<vSources, vGrouped>>
      BY <1>2 DEF View!Reset, View!drop, Fm
    <2>2. DOMAIN vOverlays' = {Fm(q) : q \in DOMAIN vSingle'} \cup {W(q) : q \in DOMAIN vGrouped'}
      BY <2>1, Spellings DEF ViewInv
    <2>3. /\ \A q \in DOMAIN vSingle' : vOverlays'[Fm(q)] = vSingle'[q]
          /\ \A q \in DOMAIN vGrouped' : vOverlays'[W(q)] = vGrouped'[q]
      BY <2>1, <2>2 DEF ViewInv
    <2> QED
      BY <2>1, <2>2, <2>3 DEF ViewInv, Env, File
  <1>3. ASSUME NEW p \in ViewPaths, NEW v, View!SaveGroup(p, v) PROVE ViewInv'
    <2>1. /\ DOMAIN vOverlays' = DOMAIN vOverlays \cup {W(p)} /\ vOverlays'[W(p)] = v
          /\ \A k \in DOMAIN vOverlays : k # W(p) => vOverlays'[k] = vOverlays[k]
          /\ DOMAIN vGrouped' = DOMAIN vGrouped \cup {p} /\ vGrouped'[p] = v
          /\ \A q \in DOMAIN vGrouped : q # p => vGrouped'[q] = vGrouped[q]
          /\ UNCHANGED <<vSources, vSingle>>
      BY <1>3 DEF View!SaveGroup, View!SetMapConfig, View!put, W
    <2>2. DOMAIN vOverlays' = {Fm(q) : q \in DOMAIN vSingle'} \cup {W(q) : q \in DOMAIN vGrouped'}
      BY <2>1 DEF ViewInv
    <2>3. /\ \A q \in DOMAIN vSingle' : vOverlays'[Fm(q)] = vSingle'[q]
          /\ \A q \in DOMAIN vGrouped' : vOverlays'[W(q)] = vGrouped'[q]
      BY <2>1, Spellings DEF ViewInv
    <2> QED
      BY <2>1, <2>2, <2>3 DEF ViewInv, Env, File
  <1>4. ASSUME NEW p \in ViewPaths, NEW v, View!Save(p, v) \/ View!Delete(p) PROVE ViewInv'
    BY <1>1, <1>4 DEF View!Save, View!Delete, Fm
  <1>5. CASE UNCHANGED vVars
    BY <1>5 DEF vVars, ViewInv, Env, File
  <1> QED
    BY <1>2, <1>3, <1>4, <1>5, ViewSources DEF View!Next

\* Every key of a source has an owner, the environment before the file.
LEMMA Owners ==
    ASSUME ViewInv
    PROVE  /\ DOMAIN View!keySourceMap = DOMAIN Env \cup DOMAIN File
           /\ \A k \in DOMAIN Env : View!keySourceMap[k] = "EnvironmentSource"
           /\ \A k \in DOMAIN File \ DOMAIN Env : View!keySourceMap[k] = "FileSource"
  <1>1. /\ vSources["EnvironmentSource"] = Env /\ vSources["FileSource"] = File
        /\ View!GetPriority[1] = "EnvironmentSource" /\ View!GetPriority[2] = "FileSource"
    BY DEF Env, File, View!GetPriority
  <1>2. UNION {DOMAIN vSources[s] : s \in DOMAIN vSources} = DOMAIN Env \cup DOMAIN File
    BY <1>1 DEF ViewInv
  <1>3. DOMAIN View!keySourceMap = DOMAIN Env \cup DOMAIN File
    BY <1>2 DEF View!keySourceMap
  <1> DEFINE Of(k, i) == /\ k \in DOMAIN vSources[View!GetPriority[i]]
                         /\ \A j \in 1..(i - 1) : k \notin DOMAIN vSources[View!GetPriority[j]]
  <1>4. \A k \in DOMAIN Env \cup DOMAIN File :
            View!keySourceMap[k] = View!GetPriority[CHOOSE i \in 1..2 : Of(k, i)]
    BY <1>2 DEF View!keySourceMap
  <1>5. \A k \in DOMAIN Env : \A i \in 1..2 : Of(k, i) <=> i = 1
    BY <1>1
  <1>6. \A k \in DOMAIN File \ DOMAIN Env : \A i \in 1..2 : Of(k, i) <=> i = 2
    BY <1>1
  <1> HIDE DEF Of
  <1>7. \A k \in DOMAIN Env : (CHOOSE i \in 1..2 : Of(k, i)) = 1
    BY <1>5
  <1>8. \A k \in DOMAIN File \ DOMAIN Env : (CHOOSE i \in 1..2 : Of(k, i)) = 2
    BY <1>6
  <1> QED
    BY <1>1, <1>3, <1>4, <1>7, <1>8

\* What a single read gives.
LEMMA Reads ==
    ASSUME ViewInv, NEW p \in ViewPaths
    PROVE  /\ p \in DOMAIN vSingle =>
                 View!GetConfig(W(p)) = IF vSingle[p] = View!TombValue THEN View!None ELSE vSingle[p]
           /\ p \notin DOMAIN vSingle /\ Fm(p) \in DOMAIN Env => View!GetConfig(W(p)) = Env[Fm(p)]
           /\ p \notin DOMAIN vSingle /\ Fm(p) \notin DOMAIN Env /\ W(p) \in DOMAIN File =>
                 View!GetConfig(W(p)) = File[W(p)]
           /\ p \notin DOMAIN vSingle /\ Fm(p) \notin DOMAIN Env /\ W(p) \notin DOMAIN File =>
                 View!GetConfig(W(p)) = View!None
  <1>1. Fm(p) \in DOMAIN vOverlays <=> p \in DOMAIN vSingle
    BY Spellings DEF ViewInv
  <1>2. p \in DOMAIN vSingle => vOverlays[Fm(p)] = vSingle[p]
    BY DEF ViewInv
  <1>3. View!formatKey(W(p)) = Fm(p)
    BY Spellings
  <1>4. Fm(p) \in DOMAIN File <=> W(p) \in DOMAIN File
    BY DEF ViewInv
  <1>5. W(p) \in DOMAIN File => File[W(p)] = File[Fm(p)]
    BY DEF ViewInv
  <1>6. vSources["EnvironmentSource"] = Env /\ vSources["FileSource"] = File
    BY DEF Env, File
  <1>7. CASE p \in DOMAIN vSingle
    BY <1>1, <1>2, <1>3, <1>7 DEF View!GetConfig
  <1>8. CASE p \notin DOMAIN vSingle /\ Fm(p) \in DOMAIN View!keySourceMap
    <2>1. View!GetConfig(W(p)) = vSources[View!keySourceMap[Fm(p)]][Fm(p)]
      BY <1>1, <1>3, <1>8 DEF View!GetConfig
    <2> QED
      BY <1>4, <1>5, <1>6, <1>8, <2>1, Owners
  <1>9. CASE p \notin DOMAIN vSingle /\ Fm(p) \notin DOMAIN View!keySourceMap
    <2>1. View!GetConfig(W(p)) = View!None
      BY <1>1, <1>3, <1>9 DEF View!GetConfig
    <2> QED
      BY <1>4, <1>9, <2>1, Owners
  <1> QED
    BY <1>7, <1>8, <1>9

\* A single read is the last value set, else the source's.
LEMMA ViewSingleSound == ViewInv => View!SingleExact
  <1> SUFFICES ASSUME ViewInv, NEW p \in ViewPaths
               PROVE  View!GetConfig(W(p)) =
                        CASE p \in DOMAIN vSingle /\ vSingle[p] = View!TombValue -> View!None
                          [] p \in DOMAIN vSingle /\ vSingle[p] # View!TombValue -> vSingle[p]
                          [] p \notin DOMAIN vSingle /\ Fm(p) \in DOMAIN Env -> Env[Fm(p)]
                          [] p \notin DOMAIN vSingle /\ Fm(p) \notin DOMAIN Env /\ W(p) \in DOMAIN File ->
                                File[W(p)]
                          [] OTHER -> View!None
    BY Zenon DEF View!SingleExact, View!inFile, W, Fm, Env, File
  <1> QED
    BY Reads

\* The groups show p: it was given as one of a group, or the file has it and it was not deleted.
Shown(p) == p \in DOMAIN vGrouped \/ (W(p) \in DOMAIN File /\ View!GetConfig(W(p)) # View!None)
ValueOf(p) == IF p \in DOMAIN vGrouped THEN vGrouped[p] ELSE View!GetConfig(W(p))
Rest(g, p) == [segs |-> SubSeq(p, Len(g) + 1, Len(p)), dotted |-> TRUE]

\* Among all configurations, those in the written spelling.
LEMMA AllConfigs ==
    ASSUME ViewInv
    PROVE  /\ \A k \in DOMAIN View!GetConfigs :
                 (\E p \in ViewPaths : k = W(p) /\ Shown(p)) \/ (\E p \in ViewPaths : k = Fm(p))
           /\ \A p \in ViewPaths :
                 Shown(p) => W(p) \in DOMAIN View!GetConfigs /\ View!GetConfigs[W(p)] = ValueOf(p)
  <1>1. DOMAIN View!GetConfigs = {k \in DOMAIN View!keySourceMap : View!GetConfig(k) # View!None}
                                    \cup DOMAIN vOverlays
    BY DEF View!GetConfigs
  <1>2. \A k \in DOMAIN View!GetConfigs :
            View!GetConfigs[k] = IF k \in DOMAIN vOverlays THEN vOverlays[k] ELSE View!GetConfig(k)
    BY DEF View!GetConfigs
  <1>3. ASSUME NEW k \in DOMAIN View!GetConfigs
        PROVE  (\E p \in ViewPaths : k = W(p) /\ Shown(p)) \/ (\E p \in ViewPaths : k = Fm(p))
    <2>1. CASE k \in DOMAIN vOverlays
      BY <2>1 DEF ViewInv, Shown
    <2>2. CASE k \notin DOMAIN vOverlays
      <3>1. k \in DOMAIN Env \cup DOMAIN File /\ View!GetConfig(k) # View!None
        BY <1>1, <2>2, Owners
      <3>2. CASE k \in DOMAIN Env
        BY <3>2 DEF ViewInv
      <3>3. CASE k \in DOMAIN File
        <4>1. PICK p \in ViewPaths : k = W(p) \/ k = Fm(p)
          BY <3>3 DEF ViewInv
        <4> QED
          BY <3>1, <3>3, <4>1 DEF Shown
      <3> QED
        BY <3>1, <3>2, <3>3
    <2> QED
      BY <2>1, <2>2
  <1>4. ASSUME NEW p \in ViewPaths, Shown(p)
        PROVE  W(p) \in DOMAIN View!GetConfigs /\ View!GetConfigs[W(p)] = ValueOf(p)
    <2>1. W(p) \in DOMAIN vOverlays <=> p \in DOMAIN vGrouped
      BY Spellings DEF ViewInv
    <2>2. p \in DOMAIN vGrouped => vOverlays[W(p)] = vGrouped[p]
      BY DEF ViewInv
    <2>3. W(p) \in DOMAIN View!GetConfigs
      BY <1>1, <1>4, <2>1, Owners DEF Shown
    <2> QED
      BY <1>2, <2>1, <2>2, <2>3 DEF ValueOf
  <1> QED
    BY <1>3, <1>4

\* The prefix of a group comes off, and back on.
LEMMA Prefixes ==
    ASSUME NEW g \in ViewGroups, NEW p \in ViewPaths
    PROVE  /\ View!WithPrefix(g, W(p)) <=> View!IsStrictPrefix(g, p)
           /\ ~View!WithPrefix(g, Fm(p))
           /\ View!RemovePrefix(g, W(p)) = Rest(g, p)
           /\ View!IsStrictPrefix(g, p) => g \o Rest(g, p).segs = p
  <1>1. g \in Seq(STRING) /\ p \in Seq(STRING)
    BY HelpersAssumption
  <1>2. View!WithPrefix(g, W(p)) <=> View!IsStrictPrefix(g, p)
    BY Spellings DEF View!WithPrefix
  <1>3. ~View!WithPrefix(g, Fm(p))
    BY Spellings DEF View!WithPrefix
  <1>4. View!RemovePrefix(g, W(p)) = Rest(g, p)
    <2>1. W(p) = [segs |-> p, dotted |-> TRUE]
      BY DEF W, View!written
    <2>2. W(p).segs = p
      BY Spellings
    <2>3. PICK s : s = SubSeq(p, Len(g) + 1, Len(p))
      OBVIOUS
    <2>4. [[segs |-> p, dotted |-> TRUE] EXCEPT !.segs = s] = [segs |-> s, dotted |-> TRUE]
      <3>1. PICK w : w = [segs |-> p, dotted |-> TRUE]
        OBVIOUS
      <3>2. w \in [segs : {p, s}, dotted : {TRUE}]
        BY ONLY <3>1
      <3>3. PICK x : x = [w EXCEPT !.segs = s]
        OBVIOUS
      <3>4. x \in [segs : {p, s}, dotted : {TRUE}] /\ x.segs = s
        BY ONLY <3>2, <3>3
      <3>5. x = [segs |-> s, dotted |-> TRUE]
        BY ONLY <3>4
      <3> QED
        BY ONLY <3>1, <3>3, <3>5, Zenon
    <2>5. View!RemovePrefix(g, W(p)) = [W(p) EXCEPT !.segs = s]
      BY ONLY <2>2, <2>3, Zenon DEF View!RemovePrefix
    <2> QED
      BY ONLY <2>1, <2>3, <2>4, <2>5, Zenon DEF Rest
  <1>5. ASSUME View!IsStrictPrefix(g, p) PROVE g \o SubSeq(p, Len(g) + 1, Len(p)) = p
    <2>1. Len(g) <= Len(p) /\ SubSeq(g, 1, Len(g)) = SubSeq(p, 1, Len(g))
      BY <1>5 DEF View!IsStrictPrefix, View!IsPrefix
    <2>2. Len(g) \in Nat /\ Len(p) \in Nat
      BY <1>1
    <2>3. \A i \in 1..Len(g) : g[i] = p[i]
      <3> SUFFICES ASSUME NEW i \in 1..Len(g) PROVE g[i] = p[i]
        OBVIOUS
      <3>1. SubSeq(g, 1, Len(g))[i] = g[i] /\ SubSeq(p, 1, Len(g))[i] = p[i]
        BY <1>1, <2>1, <2>2
      <3> QED
        BY <2>1, <3>1
    <2>4. PICK r : r = SubSeq(p, Len(g) + 1, Len(p))
      OBVIOUS
    <2>5. r \in Seq(STRING) /\ Len(r) = Len(p) - Len(g) /\ \A i \in 1..Len(r) : r[i] = p[Len(g) + i]
      BY <1>1, <2>1, <2>2, <2>4
    <2>6. g \o r \in Seq(STRING) /\ Len(g \o r) = Len(p)
      BY <1>1, <2>1, <2>2, <2>5
    <2>7. \A i \in 1..Len(p) : (g \o r)[i] = p[i]
      <3> SUFFICES ASSUME NEW i \in 1..Len(p) PROVE (g \o r)[i] = p[i]
        OBVIOUS
      <3>1. CASE i <= Len(g)
        BY <1>1, <2>2, <2>3, <2>5, <3>1
      <3>2. CASE i > Len(g)
        <4>1. (g \o r)[i] = r[i - Len(g)]
          BY <1>1, <2>1, <2>2, <2>5, <3>2
        <4>2. r[i - Len(g)] = p[Len(g) + (i - Len(g))]
          BY <2>1, <2>2, <2>5, <3>2
        <4>3. Len(g) + (i - Len(g)) = i
          BY ONLY <2>2, i \in 1..Len(p)
        <4> QED
          BY <4>1, <4>2, <4>3, Zenon
      <3>3. i <= Len(g) \/ i > Len(g)
        BY ONLY <2>2, i \in 1..Len(p)
      <3> QED
        BY <3>1, <3>2, <3>3, Zenon
    <2>8. PICK q : q = g \o r
      OBVIOUS
    <2>9. q \in Seq(STRING) /\ Len(q) = Len(p) /\ \A i \in 1..Len(p) : q[i] = p[i]
      BY <2>6, <2>7, <2>8, Zenon
    <2>10. q = p
      BY ONLY <1>1, <2>9
    <2> QED
      BY <2>4, <2>8, <2>10, Zenon
  <1> QED
    BY <1>2, <1>3, <1>4, <1>5 DEF Rest

\* A group is the parameters it shows, under the rest of their names.
LEMMA ViewGroupSound == ViewInv => View!GroupExact
  <1> SUFFICES ASSUME ViewInv, NEW g \in ViewGroups
               PROVE  /\ DOMAIN View!GetBy(g) =
                            {Rest(g, p) : p \in {p \in ViewPaths : View!IsStrictPrefix(g, p) /\ Shown(p)}}
                      /\ \A p \in ViewPaths :
                            Rest(g, p) \in DOMAIN View!GetBy(g) /\ View!IsStrictPrefix(g, p) =>
                                View!GetBy(g)[Rest(g, p)] = ValueOf(p)
    BY Zenon DEF View!GroupExact, View!inFile, W, File, Shown, ValueOf, Rest
  <1>1. PICK all : all = View!GetConfigs
    OBVIOUS
  <1>2. PICK matched : matched = {k \in DOMAIN all : View!WithPrefix(g, k)}
    OBVIOUS
  <1>3. View!GetBy(g) = [key \in {View!RemovePrefix(g, k) : k \in matched} |->
                             all[View!written(g \o key.segs)]]
    BY <1>1, <1>2, Zenon DEF View!GetBy
  <1>4. matched = {W(p) : p \in {p \in ViewPaths : View!IsStrictPrefix(g, p) /\ Shown(p)}}
    BY <1>1, <1>2, AllConfigs, Prefixes
  <1>5. {View!RemovePrefix(g, k) : k \in matched} =
            {Rest(g, p) : p \in {p \in ViewPaths : View!IsStrictPrefix(g, p) /\ Shown(p)}}
    BY <1>4, Prefixes
  <1>6. DOMAIN View!GetBy(g) =
            {Rest(g, p) : p \in {p \in ViewPaths : View!IsStrictPrefix(g, p) /\ Shown(p)}}
    BY <1>3, <1>5
  <1>7. ASSUME NEW p \in ViewPaths, Rest(g, p) \in DOMAIN View!GetBy(g), View!IsStrictPrefix(g, p)
        PROVE  View!GetBy(g)[Rest(g, p)] = ValueOf(p)
    <2>1. View!GetBy(g)[Rest(g, p)] = all[View!written(g \o Rest(g, p).segs)]
      BY <1>3, <1>7
    <2>2. View!GetBy(g)[Rest(g, p)] = all[W(p)]
      BY <1>7, <2>1, Prefixes DEF W
    <2>3. PICK q \in ViewPaths : Rest(g, q) = Rest(g, p) /\ View!IsStrictPrefix(g, q) /\ Shown(q)
      BY <1>6, <1>7
    <2>4. q = p
      BY <1>7, <2>3, Prefixes
    <2> QED
      BY <1>1, <2>2, <2>3, <2>4, AllConfigs
  <1> QED
    BY <1>6, <1>7

-------------------------------------------------------------------------------
(* EventDispatcher *)

\* A group holds the handlers with a registration in force under its key, and no other;
\* the last event went to those it should.
EventsInv ==
    /\ \A k \in DOMAIN wRegistry : wRegistry[k] \in [Handlers -> Nat]
    /\ \A w \in wWatching : /\ w[2] \in Handlers /\ w[1] \in DOMAIN wRegistry
                            /\ wRegistry[w[1]][w[2]] > 0
                            /\ w[3] = "prefix" => w[1] \in wKeyPrefix
    /\ \A k \in DOMAIN wRegistry : \A h \in Handlers :
          wRegistry[k][h] > 0 => \E w \in wWatching : w[1] = k /\ w[2] = h
    /\ Events!NoStranger /\ Events!WatchersTold

\* Nobody watches.
LEMMA EventsInit == Events!Init => EventsInv
  BY DEF Events!Init, EventsInv, Events!NoStranger, Events!WatchersTold

\* A new registration under k, of either kind.
LEMMA EventsRegister ==
    ASSUME EventsInv, NEW k, NEW h \in Handlers, NEW kind,
           wRegistry' = Events!set(k, Events!append(k, h)),
           wWatching' = wWatching \cup {<<k, h, kind>>},
           wKeyPrefix \subseteq wKeyPrefix', kind = "prefix" => k \in wKeyPrefix',
           Events!noEvent
    PROVE  EventsInv'
  <1>1. /\ Events!group(k) \in [Handlers -> Nat]
        /\ Events!append(k, h) \in [Handlers -> Nat]
        /\ Events!append(k, h)[h] > 0
        /\ \A j \in Handlers : j # h => Events!append(k, h)[j] = Events!group(k)[j]
    BY DEF EventsInv, Events!group, Events!append, Events!noHandlers
  <1>2. /\ DOMAIN wRegistry' = DOMAIN wRegistry \cup {k} /\ wRegistry'[k] = Events!append(k, h)
        /\ \A x \in DOMAIN wRegistry : x # k => wRegistry'[x] = wRegistry[x]
    BY DEF Events!set
  <1>3. \A j \in Handlers : Events!append(k, h)[j] > 0 /\ j # h =>
            k \in DOMAIN wRegistry /\ wRegistry[k][j] > 0
    BY <1>1 DEF Events!group, Events!noHandlers
  <1>4. \A j \in Handlers : k \in DOMAIN wRegistry /\ wRegistry[k][j] > 0 =>
            Events!append(k, h)[j] > 0
    BY <1>1 DEF Events!group
  <1>5. \A x \in DOMAIN wRegistry' : wRegistry'[x] \in [Handlers -> Nat]
    BY <1>1, <1>2 DEF EventsInv
  <1>6. \A w \in wWatching' : /\ w[2] \in Handlers /\ w[1] \in DOMAIN wRegistry'
                              /\ wRegistry'[w[1]][w[2]] > 0
                              /\ w[3] = "prefix" => w[1] \in wKeyPrefix'
    BY <1>1, <1>2, <1>4 DEF EventsInv
  <1>7. ASSUME NEW x \in DOMAIN wRegistry', NEW j \in Handlers, wRegistry'[x][j] > 0
        PROVE  \E w \in wWatching' : w[1] = x /\ w[2] = j
    <2>1. CASE x = k /\ j = h
      <3>1. <<k, h, kind>> \in wWatching' /\ <<k, h, kind>>[1] = x /\ <<k, h, kind>>[2] = j
        BY <2>1
      <3> QED
        BY <3>1
    <2>2. CASE ~(x = k /\ j = h)
      BY <1>2, <1>3, <1>7, <2>2 DEF EventsInv
    <2> QED
      BY <2>1, <2>2
  <1>8. (Events!NoStranger /\ Events!WatchersTold)'
    BY DEF Events!noEvent, Events!NoStranger, Events!WatchersTold
  <1> QED
    BY <1>5, <1>6, <1>7, <1>8 DEF EventsInv

\* All registrations of a handler under k go.
LEMMA EventsUnregister ==
    ASSUME EventsInv, NEW k, NEW h \in Handlers, Events!Unregister(k, h)
    PROVE  EventsInv'
  <1>1. /\ k \in DOMAIN wRegistry /\ wRegistry[k] \in [Handlers -> Nat]
        /\ wRegistry' = [x \in DOMAIN wRegistry \cup {k} |->
                            IF x = k THEN [wRegistry[k] EXCEPT ![h] = 0] ELSE wRegistry[x]]
        /\ wWatching' = {w \in wWatching : ~(w[1] = k /\ w[2] = h)}
        /\ wKeyPrefix' = wKeyPrefix
    BY DEF EventsInv, Events!Unregister, Events!without, Events!set, Events!group
  <1>2. /\ DOMAIN wRegistry' = DOMAIN wRegistry
        /\ wRegistry'[k] = [wRegistry[k] EXCEPT ![h] = 0]
        /\ \A x \in DOMAIN wRegistry : x # k => wRegistry'[x] = wRegistry[x]
    BY <1>1
  <1>3. \A x \in DOMAIN wRegistry' : wRegistry'[x] \in [Handlers -> Nat]
    BY <1>1, <1>2 DEF EventsInv
  <1>4. \A w \in wWatching' : /\ w[2] \in Handlers /\ w[1] \in DOMAIN wRegistry'
                              /\ wRegistry'[w[1]][w[2]] > 0
                              /\ w[3] = "prefix" => w[1] \in wKeyPrefix'
    BY <1>1, <1>2 DEF EventsInv
  <1>5. \A x \in DOMAIN wRegistry' : \A j \in Handlers :
            wRegistry'[x][j] > 0 => \E w \in wWatching' : w[1] = x /\ w[2] = j
    BY <1>1, <1>2 DEF EventsInv
  <1>6. (Events!NoStranger /\ Events!WatchersTold)'
    BY DEF Events!Unregister, Events!noEvent, Events!NoStranger, Events!WatchersTold
  <1> QED
    BY <1>3, <1>4, <1>5, <1>6 DEF EventsInv

\* An event goes to the group of its key or to those of the prefixes.
LEMMA EventsDispatch ==
    ASSUME EventsInv, NEW k, Events!Dispatch(k)
    PROVE  EventsInv'
  <1>1. /\ wTold' = Events!handlersOf(k) /\ wEventKey' = k
        /\ wRegistry' = wRegistry /\ wKeyPrefix' = wKeyPrefix /\ wWatching' = wWatching
    BY DEF Events!Dispatch
  <1>2. \A x, h : h \in Events!members(x) <=>
                      h \in Handlers /\ x \in DOMAIN wRegistry /\ wRegistry[x][h] > 0
    BY DEF Events!members, Events!group, Events!noHandlers, EventsInv
  <1>3. \A x, h : h \in Events!members(x) => \E w \in wWatching : w[1] = x /\ w[2] = h
    BY <1>2 DEF EventsInv
  <1>4. \A h : h \in Events!ofPrefixes(k) <=>
                   \E x \in wKeyPrefix : Events!IsPrefix(x, k) /\ h \in Events!members(x)
    BY DEF Events!ofPrefixes
  <1>5. Events!NoStranger'
    BY <1>1, <1>3, <1>4 DEF Events!NoStranger, Events!handlersOf
  <1>6. Events!WatchersTold'
    <2> SUFFICES ASSUME NEW w \in wWatching,
                        \/ w[1] = k
                        \/ w[3] = "prefix" /\ Events!IsPrefix(w[1], k) /\ k \notin DOMAIN wRegistry
                 PROVE  w[2] \in Events!handlersOf(k)
      BY <1>1 DEF Events!WatchersTold
    <2>1. w[2] \in Events!members(w[1]) /\ w[1] \in DOMAIN wRegistry
      BY <1>2 DEF EventsInv
    <2>2. w[3] = "prefix" => w[1] \in wKeyPrefix
      BY DEF EventsInv
    <2> QED
      BY <1>4, <2>1, <2>2 DEF Events!handlersOf
  <1> QED
    BY <1>1, <1>5, <1>6 DEF EventsInv

\* The four operations.
LEMMA EventsStep == EventsInv /\ [Events!Next]_wVars => EventsInv'
  <1> SUFFICES ASSUME EventsInv, [Events!Next]_wVars PROVE EventsInv'
    OBVIOUS
  <1>1. ASSUME NEW h \in Handlers, NEW k, Events!Register(k, h) PROVE EventsInv'
    BY <1>1, EventsRegister, "key" # "prefix" DEF Events!Register
  <1>2. ASSUME NEW h \in Handlers, NEW k, Events!RegisterForKeyPrefix(k, h) PROVE EventsInv'
    BY <1>2, EventsRegister DEF Events!RegisterForKeyPrefix
  <1>3. ASSUME NEW h \in Handlers, NEW k, Events!Unregister(k, h) PROVE EventsInv'
    BY <1>3, EventsUnregister
  <1>4. ASSUME NEW k, Events!Dispatch(k) PROVE EventsInv'
    BY <1>4, EventsDispatch
  <1>5. CASE UNCHANGED wVars
    BY <1>5 DEF wVars, EventsInv, Events!NoStranger, Events!WatchersTold
  <1> QED
    BY <1>1, <1>2, <1>3, <1>4, <1>5 DEF Events!Next

-------------------------------------------------------------------------------
(* The helpers together *)

HelpersInv == /\ RetryInv /\ MapInv /\ ParInv /\ GroupInv /\ FactoryInv /\ FuturesInv
              /\ CacheInv /\ BatchesInv /\ SetsInv /\ EtcdInv /\ SubsInv /\ ViewInv /\ EventsInv

\* The first state of each helper.
LEMMA HelpersStart == HelpersInit => HelpersInv
  BY RetryInit, MapInit, ParInit, GroupInit, FactoryInit, FuturesInit, CacheInit, BatchesInit,
     SetsInit, EtcdInit, SubsInit, ViewInit, EventsInit
     DEF HelpersInit, HelpersInv

\* A step is one of the helper that was picked, and leaves the others as they are.
LEMMA StepOfOne ==
    ASSUME [HelpersNext]_<<part, helperVars>>
    PROVE  /\ [Retrying!Next]_rVars /\ [Map!Next]_mVars /\ [Par!Next]_pVars
           /\ [Group!Next]_gVars /\ [Factory!Next]_fVars /\ [Awaited!Next]_zVars
           /\ [Cache!Next]_cVars /\ [Saves!Next]_bVars /\ [ConcSet!Next]_jVars
           /\ [Etcd!Next]_etcdVars /\ [Subs!Next]_subVars /\ [View!Next]_vVars
           /\ [Events!Next]_wVars
  <1>1. CASE PickHelper \/ UNCHANGED <<part, helperVars>>
    BY <1>1 DEF PickHelper, helperVars
  <1>2. CASE NextRetrying
    BY <1>2 DEF NextRetrying
  <1>3. CASE NextMap
    BY <1>3 DEF NextMap
  <1>4. CASE NextPar
    BY <1>4 DEF NextPar
  <1>5. CASE NextGroup
    BY <1>5 DEF NextGroup
  <1>6. CASE NextFactory
    BY <1>6 DEF NextFactory
  <1>7. CASE NextAwaited
    BY <1>7 DEF NextAwaited
  <1>8. CASE NextCache
    BY <1>8 DEF NextCache
  <1>9. CASE NextSaves
    BY <1>9 DEF NextSaves
  <1>10. CASE NextConcSet
    BY <1>10 DEF NextConcSet
  <1>11. CASE NextEtcd
    BY <1>11 DEF NextEtcd
  <1>12. CASE NextSubs
    BY <1>12 DEF NextSubs
  <1>13. CASE NextView
    BY <1>13 DEF NextView
  <1>14. CASE NextEvents
    BY <1>14 DEF NextEvents
  <1> QED
    BY <1>1, <1>2, <1>3, <1>4, <1>5, <1>6, <1>7, <1>8, <1>9, <1>10, <1>11, <1>12, <1>13, <1>14
       DEF HelpersNext

\* No step of any helper breaks the invariant of one.
LEMMA HelpersStep == HelpersInv /\ [HelpersNext]_<<part, helperVars>> => HelpersInv'
  BY StepOfOne, RetryStep, MapStep, ParStep, GroupStep, FactoryStep, FuturesStep, CacheStep,
     BatchesStep, SetsStep, EtcdStep, SubsStep, ViewStep, EventsStep
     DEF HelpersInv

\* The invariants hold for every number of goroutines, calls, keys, batches and options.
LEMMA HelpersAlways == HelpersSpec => []HelpersInv
  BY HelpersStart, HelpersStep, PTL DEF HelpersSpec

\* What goroutines share stays right however their steps interleave, and a call that starts
\* or stops them returns with the right answer and leaves none behind: ConcurrentMap,
\* ConcurrentSet, GroupChecker, the cache of system information, ProcessFuncParallel,
\* AwaitAll and the refresher of the etcd source.
THEOREM GoroutinesCorrect == HelpersSpec => []GoroutinesSound
  <1>1. HelpersInv => GoroutinesSound
    BY MapSound, SetsSound, GroupSound, ParSound, FuturesSound, EtcdSound
       DEF HelpersInv, CacheInv, GoroutinesSound
  <1> QED
    BY <1>1, HelpersAlways, PTL

\* A failure in the middle is retried within bounds or reported, and what it leaves undone is
\* known: retry.Do and Handle, the pulsar client of the process, UnsubscribeChannels,
\* GetChannelLatestMsgID and the saves in batches.
THEOREM FailuresCorrect == HelpersSpec => []FailuresContained
  <1>1. HelpersInv => FailuresContained
    BY RetrySound, FactorySound, SubsSound, BatchesSound DEF HelpersInv, FailuresContained
  <1> QED
    BY <1>1, HelpersAlways, PTL

\* After any sequence of calls the spellings and groupings of a key tell the same story:
\* GetConfig and GetBy over what was set, deleted and reset at run time and what the sources
\* hold, and the dispatcher over what was registered and unregistered.
THEOREM KeysCorrect == HelpersSpec => []KeysConsistent
  <1>1. HelpersInv => KeysConsistent
    BY ViewSingleSound, ViewGroupSound DEF HelpersInv, EventsInv, KeysConsistent
  <1> QED
    BY <1>1, HelpersAlways, PTL

===============================================================================
