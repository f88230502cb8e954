------------------------------- MODULE Helpers -------------------------------
(***************************************************************************)
(* The helpers that goroutines share, that go on after a failure, or that   *)
(* find one thing under several keys, side by side: a behaviour picks one   *)
(* of them (part) and runs it, the others stay as they start.               *)
(***************************************************************************)
EXTENDS Integers, Sequences, FiniteSets

CONSTANTS
    Procs, Callers,                                  \* goroutines
    MapKeys, MaxOps,                                 \* ConcurrentMap
    Elements, ArgLists, MaxCalls,                    \* Sets
    MaxCheckers,                                     \* GroupChecker
    MaxTime, Retentions, DefaultMetricsRetention,    \* InfoCache
    Totals, TaskLists, Parallels,                    \* Parallel
    N,                                               \* Futures
    MaxFetches,                                      \* EtcdSource
    OptionLists, Deadlines,                          \* Retry
    Channels, NoName, SubName, OwnName,              \* Subscriptions
    BatchKeys, Limits,                               \* Batches
    ViewPaths, ViewGroups, ViewValues,               \* ConfigView
    EventKeys, EventPrefixes, Handlers, MaxRegistered  \* EventDispatcher

Option == [opt : {"Attempts", "Sleep", "MaxSleepTime"}, n : Nat]

\* Lists of arguments hold elements, counts and durations are natural numbers (a context
\* without a deadline has -1), a batch takes one key at least, parameters are named by
\* sequences of segments, and the random name of GetChannelLatestMsgID is nobody else's.
ASSUME HelpersAssumption ==
    /\ IsFiniteSet(Procs) /\ ArgLists \subseteq Seq(Elements)
    /\ Totals \cup TaskLists \subseteq Nat /\ Parallels \subseteq Int
    /\ N \in Nat
    /\ OptionLists \subseteq Seq(Option) /\ Deadlines \subseteq Nat \cup {-1}
    /\ IsFiniteSet(Channels) /\ SubName # OwnName
    /\ IsFiniteSet(BatchKeys) /\ Limits \subseteq Nat \ {0}
    /\ ViewPaths \cup ViewGroups \subseteq Seq(STRING) /\ MaxRegistered \in Nat

VARIABLES
    part,
    rFnName, rPc, rC, rOpts, rTries, rOutcome, rLastErr, rLeft, rCtxDone, rTimerLate, rLateCalls,
    rResult,
    mInner, mLen, mStep, mKey, mRevived, mOps,
    pTotal, pNPerBatch, pWpc, pIdx, pErr, pQuit, pMpc, pBegin, pCount, pRoutineNum, pResult, pRan,
    pFailed,
    gGroups, gMade, gInited, gStopping, gWorker, gHolds, gStep,
    fOnce, fSc, fOpened, fFirstErr, fStep, fGot,
    vSources, vLoaded, vOverlays, vGrouped, vSingle,
    wRegistry, wKeyPrefix, wTold, wEventKey, wWatching,
    zFpc, zErr, zClosed, zAt, zResult,
    cClock, cSystemInfo, cInvalid, cLastUpdated, cRetention, cCollecting, cGpc, cGRetention, cGot,
    cInvalidated,
    bKeys, bLimit, bI, bBatch, bCommitted, bOutcome,
    jInner, jCall, jCalls,
    etcdLock, etcdCurrent, etcdRpc, etcdIntervalDone, etcdStopOnce, etcdUpc, etcdCpc, etcdClosing,
    etcdFetches, etcdFailed,
    subSubs, subConnected, subPc, subChannels, subAt, subFailedAt, subAbsentAt, subRenewed,
    subGpc, subChannelName, subAnswer, subUnsubscribeFailed

rVars == <<rFnName, rPc, rC, rOpts, rTries, rOutcome, rLastErr, rLeft, rCtxDone, rTimerLate,
            rLateCalls, rResult>>
mVars == <<mInner, mLen, mStep, mKey, mRevived, mOps>>
pVars == <<pTotal, pNPerBatch, pWpc, pIdx, pErr, pQuit, pMpc, pBegin, pCount, pRoutineNum,
            pResult, pRan, pFailed>>
gVars == <<gGroups, gMade, gInited, gStopping, gWorker, gHolds, gStep>>
fVars == <<fOnce, fSc, fOpened, fFirstErr, fStep, fGot>>
vVars == <<vSources, vLoaded, vOverlays, vGrouped, vSingle>>
wVars == <<wRegistry, wKeyPrefix, wTold, wEventKey, wWatching>>
zVars == <<zFpc, zErr, zClosed, zAt, zResult>>
cVars == <<cClock, cSystemInfo, cInvalid, cLastUpdated, cRetention, cCollecting, cGpc,
            cGRetention, cGot, cInvalidated>>
bVars == <<bKeys, bLimit, bI, bBatch, bCommitted, bOutcome>>
jVars == <<jInner, jCall, jCalls>>
etcdVars == <<etcdLock, etcdCurrent, etcdRpc, etcdIntervalDone, etcdStopOnce, etcdUpc, etcdCpc,
            etcdClosing, etcdFetches, etcdFailed>>
subVars == <<subSubs, subConnected, subPc, subChannels, subAt, subFailedAt, subAbsentAt,
            subRenewed, subGpc, subChannelName, subAnswer, subUnsubscribeFailed>>
helperVars == <<rVars, mVars, pVars, gVars, fVars, vVars, wVars, zVars, cVars, bVars, jVars,
                etcdVars, subVars>>

Retrying == INSTANCE Retry
    WITH fnName <- rFnName, pc <- rPc, c <- rC, opts <- rOpts, tries <- rTries, outcome <-
         rOutcome, lastErr <- rLastErr, left <- rLeft, ctxDone <- rCtxDone, timerLate <-
         rTimerLate, lateCalls <- rLateCalls, result <- rResult

Map == INSTANCE ConcurrentMap
    WITH Keys <- MapKeys, inner <- mInner, len <- mLen, step <- mStep, key <- mKey, revived <-
         mRevived, ops <- mOps

Par == INSTANCE Parallel
    WITH total <- pTotal, nPerBatch <- pNPerBatch, wpc <- pWpc, idx <- pIdx, err <- pErr, quit <-
         pQuit, mpc <- pMpc, begin <- pBegin, count <- pCount, routineNum <- pRoutineNum, result
         <- pResult, ran <- pRan, failed <- pFailed

Group == INSTANCE GroupChecker
    WITH Procs <- Callers, groups <- gGroups, made <- gMade, inited <- gInited, stopping <-
         gStopping, worker <- gWorker, holds <- gHolds, step <- gStep

Factory == INSTANCE StreamFactory
    WITH Procs <- Callers, once <- fOnce, sc <- fSc, opened <- fOpened, firstErr <- fFirstErr,
         step <- fStep, got <- fGot

View == INSTANCE ConfigView
    WITH Paths <- ViewPaths, Groups <- ViewGroups, Values <- ViewValues, sources <- vSources,
         loaded <- vLoaded, overlays <- vOverlays, grouped <- vGrouped, single <- vSingle

Events == INSTANCE EventDispatcher
    WITH Keys <- EventKeys, KeyPrefixes <- EventPrefixes, registry <- wRegistry, keyPrefix <-
         wKeyPrefix, told <- wTold, eventKey <- wEventKey, watching <- wWatching

Awaited == INSTANCE Futures
    WITH fpc <- zFpc, err <- zErr, closed <- zClosed, at <- zAt, result <- zResult

Cache == INSTANCE InfoCache
    WITH clock <- cClock, systemInfo <- cSystemInfo, invalid <- cInvalid, lastUpdated <-
         cLastUpdated, retention <- cRetention, collecting <- cCollecting, gpc <- cGpc, gRetention
         <- cGRetention, got <- cGot, invalidated <- cInvalidated

Saves == INSTANCE Batches
    WITH Keys <- BatchKeys, keys <- bKeys, limit <- bLimit, i <- bI, batch <- bBatch, committed <-
         bCommitted, outcome <- bOutcome

ConcSet == INSTANCE Sets
    WITH inner <- jInner, call <- jCall, calls <- jCalls

Etcd == INSTANCE EtcdSource
    WITH lock <- etcdLock, current <- etcdCurrent, rpc <- etcdRpc, intervalDone <-
         etcdIntervalDone, stopOnce <- etcdStopOnce, upc <- etcdUpc, cpc <- etcdCpc, closing <-
         etcdClosing, fetches <- etcdFetches, failed <- etcdFailed

Subs == INSTANCE Subscriptions
    WITH subs <- subSubs, connected <- subConnected, pc <- subPc, channels <- subChannels, at <-
         subAt, failedAt <- subFailedAt, absentAt <- subAbsentAt, renewed <- subRenewed, gpc <-
         subGpc, channelName <- subChannelName, answer <- subAnswer, unsubscribeFailed <-
         subUnsubscribeFailed

HelperParts == {"retry", "map", "parallel", "group", "factory", "view", "dispatch", "futures",
                "cache", "batches", "sets", "etcd", "subs"}
PickHelper == part = "none" /\ part' \in HelperParts /\ UNCHANGED helperVars

HelpersInit ==
    /\ part = "none"
    /\ Retrying!Init /\ Map!Init /\ Par!Init /\ Group!Init /\ Factory!Init /\ View!Init
    /\ Events!Init /\ Awaited!Init /\ Cache!Init /\ Saves!Init /\ ConcSet!Init /\ Etcd!Init
    /\ Subs!Init

\* One step of the part that was picked.
Only(p) == part = p /\ UNCHANGED part
NextRetrying ==
    /\ Only("retry") /\ Retrying!Next
    /\ UNCHANGED <<mVars, pVars, gVars, fVars, vVars, wVars, zVars, cVars, bVars, jVars, etcdVars,
                   subVars>>
NextMap ==
    /\ Only("map") /\ Map!Next
    /\ UNCHANGED <<rVars, pVars, gVars, fVars, vVars, wVars, zVars, cVars, bVars, jVars, etcdVars,
                   subVars>>
NextPar ==
    /\ Only("parallel") /\ Par!Next
    /\ UNCHANGED <<rVars, mVars, gVars, fVars, vVars, wVars, zVars, cVars, bVars, jVars, etcdVars,
                   subVars>>
NextGroup ==
    /\ Only("group") /\ Group!Next
    /\ UNCHANGED <<rVars, mVars, pVars, fVars, vVars, wVars, zVars, cVars, bVars, jVars, etcdVars,
                   subVars>>
NextFactory ==
    /\ Only("factory") /\ Factory!Next
    /\ UNCHANGED <<rVars, mVars, pVars, gVars, vVars, wVars, zVars, cVars, bVars, jVars, etcdVars,
                   subVars>>
NextView ==
    /\ Only("view") /\ View!Next
    /\ UNCHANGED <<rVars, mVars, pVars, gVars, fVars, wVars, zVars, cVars, bVars, jVars, etcdVars,
                   subVars>>
NextEvents ==
    /\ Only("dispatch") /\ Events!Next
    /\ UNCHANGED <<rVars, mVars, pVars, gVars, fVars, vVars, zVars, cVars, bVars, jVars, etcdVars,
                   subVars>>
NextAwaited ==
    /\ Only("futures") /\ Awaited!Next
    /\ UNCHANGED <<rVars, mVars, pVars, gVars, fVars, vVars, wVars, cVars, bVars, jVars, etcdVars,
                   subVars>>
NextCache ==
    /\ Only("cache") /\ Cache!Next
    /\ UNCHANGED <<rVars, mVars, pVars, gVars, fVars, vVars, wVars, zVars, bVars, jVars, etcdVars,
                   subVars>>
NextSaves ==
    /\ Only("batches") /\ Saves!Next
    /\ UNCHANGED <<rVars, mVars, pVars, gVars, fVars, vVars, wVars, zVars, cVars, jVars, etcdVars,
                   subVars>>
NextConcSet ==
    /\ Only("sets") /\ ConcSet!Next
    /\ UNCHANGED <<rVars, mVars, pVars, gVars, fVars, vVars, wVars, zVars, cVars, bVars, etcdVars,
                   subVars>>
NextEtcd ==
    /\ Only("etcd") /\ Etcd!Next
    /\ UNCHANGED <<rVars, mVars, pVars, gVars, fVars, vVars, wVars, zVars, cVars, bVars, jVars,
                   subVars>>
NextSubs ==
    /\ Only("subs") /\ Subs!Next
    /\ UNCHANGED <<rVars, mVars, pVars, gVars, fVars, vVars, wVars, zVars, cVars, bVars, jVars,
                   etcdVars>>

HelpersNext == PickHelper \/ NextRetrying \/ NextMap \/ NextPar \/ NextGroup \/ NextFactory \/
               NextView \/ NextEvents \/ NextAwaited \/ NextCache \/ NextSaves \/ NextConcSet \/
               NextEtcd \/ NextSubs

HelpersSpec == HelpersInit /\ [][HelpersNext]_<<part, helperVars>>
-------------------------------------------------------------------------------
\* What goroutines share stays right however their steps interleave, and a call that starts
\* or stops them returns with the right answer and leaves none behind:
\* - between calls the length of a ConcurrentMap is the number of its keys, up to the one
\*   race of Insert and Remove (LenExact of ConcurrentMap);
\* - the calls of a ConcurrentSet answer from moments of their own time (Explained of Sets);
\* - no worker of a GroupChecker is left that nobody can stop (NoLostWorker of
\*   GroupChecker);
\* - no reader gets information that was invalidated (NoneInvalidated of InfoCache);
\* - ProcessFuncParallel returns nil only after every call, without goroutines left
\*   (AllOrError of Parallel);
\* - AwaitAll returns nil only when all tasks ended well, else the first error in order
\*   (FirstErrorOrNil of Futures);
\* - no refresh is under way after Close (QuietAfterClose of EtcdSource).
GoroutinesSound ==
    /\ part = "map" => Map!LenExact
    /\ part = "sets" => ConcSet!Explained
    /\ part = "group" => Group!NoLostWorker
    /\ part = "cache" => Cache!NoneInvalidated
    /\ part = "parallel" => Par!AllOrError
    /\ part = "futures" => Awaited!FirstErrorOrNil
    /\ part = "etcd" => Etcd!QuietAfterClose

\* A failure in the middle is retried within bounds or reported, and what it leaves undone
\* is known:
\* - retry.Do and Handle never call more often than told, nor sleep longer (Bounded of
\*   Retry);
\* - they make no call after a cancellation they have seen (CancelStops of Retry);
\* - one pulsar client for all streams, or none after a failed first call (OneClient of
\*   StreamFactory);
\* - UnsubscribeChannels leaves a subscription only after an error, a renewal or a missing
\*   one (LeftExplained of Subscriptions);
\* - GetChannelLatestMsgID removes its subscription (NoLeftover of Subscriptions);
\* - the batches of a save are its keys, each once (BatchesExact of Batches).
FailuresContained ==
    /\ part = "retry" => Retrying!Bounded
    /\ part = "retry" => Retrying!CancelStops
    /\ part = "factory" => Factory!OneClient
    /\ part = "subs" => Subs!LeftExplained
    /\ part = "subs" => Subs!NoLeftover
    /\ part = "batches" => Saves!BatchesExact

\* After any sequence of calls, the spellings of a key agree on what was last given for it,
\* and groups and watchers see it:
\* - a group shows its parameters with the values single reads give, or with the group's own
\*   where SaveGroup gave one (GroupExact of ConfigView);
\* - a single read gives what was last set, deleted or reset for the key (SingleExact of
\*   ConfigView);
\* - only who watches a key is told of its events (NoStranger of EventDispatcher);
\* - who watches a key is told of its events, and of a prefix unless the key has its own
\*   group (WatchersTold of EventDispatcher).
KeysConsistent ==
    /\ part = "view" => View!GroupExact
    /\ part = "view" => View!SingleExact
    /\ part = "dispatch" => Events!NoStranger
    /\ part = "dispatch" => Events!WatchersTold
===============================================================================
