---------------------------- MODULE ConfigManager ----------------------------
(***************************************************************************)
(* The configuration of the process (pkg/config): a Manager over several    *)
(* sources (environment, files, etcd), each with a priority, the refresher  *)
(* goroutine of a source that reloads it and fires events, the events'      *)
(* way through the Manager, the values set at run time, a reader            *)
(* (ParamItem.get) and a watcher (the enableProduce flag of a stream).      *)
(***************************************************************************)
EXTENDS Naturals, FiniteSets

CONSTANTS
    Keys,        \* spellings of keys, such as a.b and ab
    formatKey,   \* the spelling under which a key is looked up
    Values,
    Sources,     \* the sources the program adds
    Contents,    \* what a source may hold
    Initially,   \* what the sources hold at the start
    Changing,    \* the sources whose content changes
    MayFail,     \* the content may become unreadable
    EarlyTick,   \* a refresher may tick before all sources are added
    WatchRaces,  \* a refresher may run while a watcher is being set up
    RuntimeCalls \* which of the calls that change a value at run time are made

NoValue  == "no value"
TombValue == "TOMB_VAULE"
NoSource == "no source"
Broken   == [k \in Keys |-> "broken"]

Config == [Keys -> Values \cup {NoValue}]
RefreshedSources == {"FileSource", "EtcdSource"}

ASSUME SourcesAssumption ==
    /\ Sources \subseteq {"EnvironmentSource"} \cup RefreshedSources
    /\ Changing \subseteq Sources \cap RefreshedSources
ASSUME ContentsAssumption ==
    /\ Keys # {} /\ formatKey \in [Keys -> Keys]
    /\ \A k \in Keys : formatKey[formatKey[k]] = formatKey[k]
    /\ Contents \subseteq Config
    /\ Initially \subseteq [Sources -> Contents]
ASSUME FlagsAssumption ==
    {MayFail, EarlyTick, WatchRaces} \subseteq BOOLEAN

GetPriority(s) == CASE s = "EtcdSource" -> 1
                    [] s = "EnvironmentSource" -> 11
                    [] s = "FileSource" -> 21

VARIABLES
    store,         \* what each source's file or server holds, or Broken
    \* the Manager
    sources, keySourceMap, overlays, forbiddenKeys,
    \* the sources: configs (currentConfig of etcd) and the refresher's handler
    configs, handler,
    \* the refreshers: where they are, intervalDone closed, and their locals
    rpc, intervalDone, newConfig, events, ev, target,
    \* AddSource and pullSourceConfigs
    mpc, adding, pullTodo, pullKey, pullOwner,
    \* Close
    toClose, closing,
    \* a reader in ParamItem.get, and what it got
    dpc, readKey, readOwner, got,
    \* a stream watching a key
    wpc, watched

managerVars   == <<sources, keySourceMap, overlays, forbiddenKeys>>
refreshVars   == <<rpc, intervalDone, newConfig, events, ev, target>>
addVars       == <<mpc, adding, pullTodo, pullKey, pullOwner>>
closeVars     == <<toClose, closing>>
readVars      == <<dpc, readKey, readOwner, got>>
watchVars     == <<wpc, watched>>
vars == <<store, managerVars, configs, handler, refreshVars, addVars, closeVars,
          readVars, watchVars>>

WatchKey == formatKey[CHOOSE k \in Keys : TRUE]
NoEvent  == [type |-> "none", key |-> WatchKey, value |-> NoValue]
Event    == [type : {"CREATE", "UPDATE", "DELETE", "none"}, key : Keys,
             value : Values \cup {NoValue}]
Empty    == [k \in Keys |-> NoValue]

Init ==
    /\ store \in Initially
    /\ sources = {} /\ keySourceMap = [k \in Keys |-> NoSource]
    /\ overlays = Empty /\ forbiddenKeys = {}
    /\ configs = [s \in Sources |-> Empty]
    /\ handler = [s \in Sources |-> FALSE]
    /\ rpc = [s \in Sources |-> "off"]
    /\ intervalDone = [s \in Sources |-> FALSE]
    /\ newConfig = [s \in Sources |-> Empty]
    /\ events = [s \in Sources |-> {}]
    /\ ev = [s \in Sources |-> NoEvent]
    /\ target = [s \in Sources |-> NoSource]
    /\ mpc = "idle" /\ adding = NoSource
    /\ pullTodo = {} /\ pullKey = WatchKey /\ pullOwner = NoSource
    /\ toClose = {} /\ closing = NoSource
    /\ dpc = "idle" /\ readKey = WatchKey /\ readOwner = NoSource /\ got = NoValue
    /\ wpc = "none" /\ watched = NoValue

\* The etcd source fires its events under its own lock, the file source does not.
Locked(s) == s = "EtcdSource" /\ rpc[s] \in {"fire", "find", "write", "dispatch"}

Holds(s, k) == configs[s][k] # NoValue

\* A value deleted at run time counts as none.
asStored(v) == v                                                           \* mutant
unlessTomb(v) == IF v = TombValue THEN NoValue ELSE v

\* GetConfig, when nothing runs in between.
GetConfig(k) ==
    LET r == formatKey[k]
    IN IF overlays[r] # NoValue
       THEN unlessTomb(overlays[r])
       ELSE IF keySourceMap[r] = NoSource THEN NoValue ELSE configs[keySourceMap[r]][r]
-------------------------------------------------------------------------------
(* AddSource *)

\* The sources whose refresher start() runs.
startsFirst(s) == s \in RefreshedSources /\ sources = {}                     \* mutant
starts(s) == s \in RefreshedSources

\* AddSource up to the load of the source; its refresher is started, if it has one.
AddSource(s) ==
    /\ mpc = "idle" /\ s \in Sources \ sources
    /\ sources' = sources \cup {s}
    /\ IF store[s] = Broken
       THEN UNCHANGED <<configs, rpc, mpc, adding>>
       ELSE /\ configs' = [configs EXCEPT ![s] = store[s]]
            /\ rpc' = [rpc EXCEPT ![s] = IF starts(s) THEN "wait" ELSE @]
            /\ mpc' = "copy" /\ adding' = s
    /\ UNCHANGED <<store, keySourceMap, overlays, forbiddenKeys, handler, intervalDone,
                   newConfig, events, ev, target, pullTodo, pullKey, pullOwner, closeVars,
                   readVars, watchVars>>

\* GetConfigurations returns a copy to pullSourceConfigs.
PullCopy ==
    /\ mpc = "copy" /\ ~Locked(adding)
    /\ mpc' = "pull" /\ pullTodo' = {k \in Keys : Holds(adding, k)}
    /\ UNCHANGED <<store, managerVars, configs, handler, refreshVars, adding, pullKey,
                   pullOwner, closeVars, readVars, watchVars>>

\* One key of pullSourceConfigs: who owns it, then take it from a lesser owner.
PullGet ==
    /\ mpc = "pull"
    /\ \E k \in pullTodo : /\ pullKey' = k /\ pullOwner' = keySourceMap[k]
                           /\ pullTodo' = pullTodo \ {k}
    /\ mpc' = "put"
    /\ UNCHANGED <<store, managerVars, configs, handler, refreshVars, adding, closeVars,
                   readVars, watchVars>>

PullPutAlways == keySourceMap' = [keySourceMap EXCEPT ![pullKey] = adding]     \* mutant
PullInsert ==
    keySourceMap' = IF pullOwner = NoSource \/ GetPriority(pullOwner) > GetPriority(adding)
                    THEN [keySourceMap EXCEPT ![pullKey] = adding] ELSE keySourceMap
PullPut ==
    /\ mpc = "put" /\ mpc' = "pull"
    /\ PullInsert
    /\ UNCHANGED <<store, sources, overlays, forbiddenKeys, configs, handler, refreshVars,
                   adding, pullTodo, pullKey, pullOwner, closeVars, readVars, watchVars>>

SetEventHandler ==
    /\ mpc = "pull" /\ pullTodo = {}
    /\ pullKey' = WatchKey /\ pullOwner' = NoSource
    /\ handler' = [handler EXCEPT ![adding] = adding \in RefreshedSources]
    /\ mpc' = "idle" /\ adding' = NoSource
    /\ UNCHANGED <<store, managerVars, configs, refreshVars, pullTodo, closeVars, readVars,
                   watchVars>>
-------------------------------------------------------------------------------
(* The refresher of source s: refreshPeriodically, the source's fetchFunc, and *)
(* the Manager's OnEvent for each event it fires.                          *)

CreatesAndDeletes(current, updated) ==                                     \* mutant
    {[type |-> "CREATE", key |-> k, value |-> updated[k]] :
        k \in {k \in Keys : current[k] = NoValue /\ updated[k] # NoValue}}
    \cup {[type |-> "DELETE", key |-> k, value |-> current[k]] :
        k \in {k \in Keys : current[k] # NoValue /\ updated[k] = NoValue}}
PopulateEvents(current, updated) ==
    {[type |-> "CREATE", key |-> k, value |-> updated[k]] :
        k \in {k \in Keys : current[k] = NoValue /\ updated[k] # NoValue}}
    \cup {[type |-> "UPDATE", key |-> k, value |-> updated[k]] :
        k \in {k \in Keys : NoValue \notin {current[k], updated[k]} /\ current[k] # updated[k]}}
    \cup {[type |-> "DELETE", key |-> k, value |-> current[k]] :
        k \in {k \in Keys : current[k] # NoValue /\ updated[k] = NoValue}}

\* A tick: read the file or the server.  When that fails the refresher stops itself,
\* that is, it closes intervalDone and waits for its own return.
Fetch(s) ==
    /\ rpc[s] = "wait"
    /\ EarlyTick \/ (sources = Sources /\ mpc = "idle")
    /\ WatchRaces \/ wpc # "read"
    /\ IF store[s] = Broken
       THEN /\ rpc' = [rpc EXCEPT ![s] = "stuck"]
            /\ intervalDone' = [intervalDone EXCEPT ![s] = TRUE]
            /\ UNCHANGED newConfig
       ELSE /\ rpc' = [rpc EXCEPT ![s] = "fetched"]
            /\ newConfig' = [newConfig EXCEPT ![s] = store[s]]
            /\ UNCHANGED intervalDone
    /\ UNCHANGED <<store, managerVars, configs, handler, events, ev, target, addVars,
                   closeVars, readVars, watchVars>>

\* fireEvents: nothing is fired while no handler is set.
FireEvents(s) ==
    /\ rpc[s] = "fetched"
    /\ rpc' = [rpc EXCEPT ![s] = "fire"]
    /\ events' = [events EXCEPT ![s] = IF handler[s] THEN PopulateEvents(configs[s], newConfig[s])
                                       ELSE {}]
    /\ UNCHANGED <<store, managerVars, configs, handler, intervalDone, newConfig, ev, target,
                   addVars, closeVars, readVars, watchVars>>

\* Whether an event of s is ignored, given the owner of its key.
ignoresNone(s, e, owner) == FALSE                                          \* mutant
ignoreChange(s, e, owner) ==
    IF e.type = "DELETE" THEN owner # s
    ELSE owner # NoSource /\ owner # s /\ GetPriority(owner) < GetPriority(s)

\* OnEvent for the next event, up to its look at keySourceMap.
OnEvent(s) ==
    /\ rpc[s] = "fire"
    /\ \E e \in events[s] :
          LET owner == keySourceMap[e.key]
              ignored == formatKey[e.key] \in forbiddenKeys \/ ignoreChange(s, e, owner)
          IN /\ events' = [events EXCEPT ![s] = @ \ {e}]
             /\ IF ignored THEN UNCHANGED <<ev, target>>
                ELSE ev' = [ev EXCEPT ![s] = e] /\ target' = [target EXCEPT ![s] = s]
             /\ rpc' = [rpc EXCEPT ![s] = CASE ignored -> "fire"
                                            [] ~ignored /\ e.type = "DELETE" -> "find"
                                            [] ~ignored /\ e.type # "DELETE" /\ owner = s
                                                  -> "dispatch"
                                            [] OTHER -> "write"]
    /\ UNCHANGED <<store, managerVars, configs, handler, intervalDone, newConfig, addVars,
                   closeVars, readVars, watchVars>>

\* findNextBestSource: of the other sources that hold the key, one of the least
\* priority value.
noCandidates(s, k) == {}                                                   \* mutant
candidates(s, k) == {t \in sources \ {s} : Holds(t, k)}
FindNextBestSource(s) ==
    /\ rpc[s] = "find"
    /\ \A t \in sources \ {s} : ~Locked(t)
    /\ LET C == candidates(s, ev[s].key)
       IN target' = [target EXCEPT ![s] =
                        IF C = {} THEN NoSource
                        ELSE CHOOSE t \in C : \A u \in C : GetPriority(t) <= GetPriority(u)]
    /\ rpc' = [rpc EXCEPT ![s] = "write"]
    /\ UNCHANGED <<store, managerVars, configs, handler, intervalDone, newConfig, events, ev,
                   addVars, closeVars, readVars, watchVars>>

\* updateEvent enters the new owner.
UpdateEvent(s) ==
    /\ rpc[s] = "write"
    /\ keySourceMap' = [keySourceMap EXCEPT ![ev[s].key] = target[s]]
    /\ rpc' = [rpc EXCEPT ![s] = "dispatch"]
    /\ UNCHANGED <<store, sources, overlays, forbiddenKeys, configs, handler, intervalDone,
                   newConfig, events, ev, target, addVars, closeVars, readVars, watchVars>>

\* Dispatch hands the event to the handlers of the key; the stream's handler stores
\* the event's value.
Dispatch(s) ==
    /\ rpc[s] = "dispatch"
    /\ watched' = IF wpc = "on" /\ formatKey[ev[s].key] = WatchKey THEN ev[s].value ELSE watched
    /\ rpc' = [rpc EXCEPT ![s] = "fire"]
    /\ ev' = [ev EXCEPT ![s] = NoEvent] /\ target' = [target EXCEPT ![s] = NoSource]
    /\ UNCHANGED <<store, managerVars, configs, handler, intervalDone, newConfig, events,
                   addVars, closeVars, readVars, wpc>>

\* All events are out: the new content becomes the source's.
Commit(s) ==
    /\ rpc[s] = "fire" /\ events[s] = {}
    /\ configs' = [configs EXCEPT ![s] = newConfig[s]]
    /\ rpc' = [rpc EXCEPT ![s] = "wait"]
    /\ newConfig' = [newConfig EXCEPT ![s] = Empty]
    /\ UNCHANGED <<store, managerVars, handler, intervalDone, events, ev, target,
                   addVars, closeVars, readVars, watchVars>>

StoppedBreaks(s) ==                                                        \* mutant
    rpc[s] = "wait" /\ intervalDone[s] /\ UNCHANGED vars
Stopped(s) ==
    /\ rpc[s] = "wait" /\ intervalDone[s]
    /\ rpc' = [rpc EXCEPT ![s] = "stopped"]
    /\ UNCHANGED <<store, managerVars, configs, handler, intervalDone, newConfig, events, ev,
                   target, addVars, closeVars, readVars, watchVars>>

Refresher(s) ==
    \/ Fetch(s) \/ FireEvents(s) \/ OnEvent(s) \/ FindNextBestSource(s) \/ UpdateEvent(s)
    \/ Dispatch(s) \/ Commit(s) \/ Stopped(s)
-------------------------------------------------------------------------------
(* Calls at run time *)

Overlay(call, k, v) ==
    /\ call \in RuntimeCalls
    /\ overlays' = [overlays EXCEPT ![k] = v]
    /\ UNCHANGED <<store, sources, keySourceMap, forbiddenKeys, configs, handler, refreshVars,
                   addVars, closeVars, readVars, watchVars>>

SetConfig(k, v)    == Overlay("SetConfig", formatKey[k], v)
SetMapConfig(k, v) == Overlay("SetMapConfig", k, v)
DeleteConfig(k)    == Overlay("DeleteConfig", formatKey[k], TombValue)
ResetConfig(k)     == Overlay("ResetConfig", formatKey[k], NoValue)

ForbidUpdate(k) ==
    /\ "ForbidUpdate" \in RuntimeCalls
    /\ forbiddenKeys' = forbiddenKeys \cup {formatKey[k]}
    /\ UNCHANGED <<store, sources, keySourceMap, overlays, configs, handler, refreshVars,
                   addVars, closeVars, readVars, watchVars>>

\* ParamItem.get: GetConfig looks at overlays, at keySourceMap and at the source, one
\* after the other.
GetOverlay(k) ==
    /\ dpc = "idle" /\ sources = Sources /\ mpc = "idle"
    /\ readKey' = formatKey[k]
    /\ got' = unlessTomb(overlays[formatKey[k]])
    /\ dpc' = IF overlays[formatKey[k]] = NoValue THEN "owner" ELSE "done"
    /\ UNCHANGED <<store, managerVars, configs, handler, refreshVars, addVars, closeVars,
                   readOwner, watchVars>>

GetOwner ==
    /\ dpc = "owner"
    /\ readOwner' = keySourceMap[readKey]
    /\ dpc' = IF keySourceMap[readKey] = NoSource THEN "done" ELSE "value"
    /\ UNCHANGED <<store, managerVars, configs, handler, refreshVars, addVars, closeVars,
                   readKey, got, watchVars>>

GetConfigurationByKey ==
    /\ dpc = "value" /\ ~Locked(readOwner)
    /\ got' = configs[readOwner][readKey]
    /\ dpc' = "done"
    /\ UNCHANGED <<store, managerVars, configs, handler, refreshVars, addVars, closeVars,
                   readKey, readOwner, watchVars>>

GetReturn ==
    /\ dpc = "done"
    /\ dpc' = "idle" /\ got' = NoValue /\ readOwner' = NoSource /\ readKey' = WatchKey
    /\ UNCHANGED <<store, managerVars, configs, handler, refreshVars, addVars, closeVars,
                   watchVars>>

\* No refresher is at work.
Quiet == \A s \in Sources : rpc[s] \in {"off", "wait", "stopped"}

\* NewMqMsgStream stores the value of TTMsgEnabled, then watches its key.
WatchRead ==
    /\ wpc = "none" /\ sources = Sources /\ mpc = "idle"
    /\ WatchRaces \/ Quiet
    /\ keySourceMap[WatchKey] = NoSource \/ ~Locked(keySourceMap[WatchKey])
    /\ watched' = GetConfig(WatchKey)
    /\ wpc' = "read"
    /\ UNCHANGED <<store, managerVars, configs, handler, refreshVars, addVars, closeVars,
                   readVars>>

Watch ==
    /\ wpc = "read" /\ wpc' = "on"
    /\ UNCHANGED <<store, managerVars, configs, handler, refreshVars, addVars, closeVars,
                   readVars, watched>>

\* Close stops the refreshers one after the other and waits for each.
CloseCall ==
    /\ toClose = {} /\ closing = NoSource /\ sources = Sources /\ mpc = "idle"
    /\ toClose' = sources
    /\ UNCHANGED <<store, managerVars, configs, handler, refreshVars, addVars, closing,
                   readVars, watchVars>>

CloseSource(s) ==
    /\ s \in toClose /\ closing = NoSource
    /\ closing' = s /\ toClose' = toClose \ {s}
    /\ intervalDone' = [intervalDone EXCEPT ![s] = TRUE]
    /\ UNCHANGED <<store, managerVars, configs, handler, rpc, newConfig, events, ev, target,
                   addVars, readVars, watchVars>>

ClosedSource ==
    /\ closing # NoSource /\ rpc[closing] \in {"off", "stopped"}
    /\ closing' = NoSource
    /\ UNCHANGED <<store, managerVars, configs, handler, refreshVars, addVars, toClose,
                   readVars, watchVars>>
-------------------------------------------------------------------------------
\* External: somebody edits the file or the keys on the server, or they become
\* unreadable.
Offered == Contents \cup IF MayFail THEN {Broken} ELSE {}

Change(s) ==
    /\ s \in Changing
    /\ \E c \in Offered : store' = [store EXCEPT ![s] = c]
    /\ UNCHANGED <<managerVars, configs, handler, refreshVars, addVars, closeVars, readVars,
                   watchVars>>

Add == (\E s \in Sources : AddSource(s)) \/ PullCopy \/ PullGet \/ PullPut \/ SetEventHandler

Get == (\E k \in Keys : GetOverlay(k)) \/ GetOwner \/ GetConfigurationByKey \/ GetReturn

Close == CloseCall \/ (\E s \in Sources : CloseSource(s)) \/ ClosedSource

Runtime == \E k \in Keys : \/ \E v \in Values : SetConfig(k, v) \/ SetMapConfig(k, v)
                           \/ DeleteConfig(k) \/ ResetConfig(k) \/ ForbidUpdate(k)

Next == \/ Add \/ Get \/ Close \/ Runtime \/ WatchRead \/ Watch
        \/ \E s \in Sources : Refresher(s) \/ Change(s)

Spec == Init /\ [][Next]_vars

\* The refreshers and the calls that were made are scheduled fairly, and both arms of
\* a refresher's select are taken in turn.
FairSpec ==
    /\ Spec
    /\ WF_vars(Add) /\ WF_vars(Watch)
    /\ \A s \in Sources : /\ WF_vars(Refresher(s) /\ ~Stopped(s)) /\ SF_vars(Stopped(s))
                          /\ WF_vars(CloseSource(s))
    /\ WF_vars(ClosedSource)
-------------------------------------------------------------------------------
(* Properties *)

TypeOK ==
    /\ store \in [Sources -> Contents \cup {Broken}]
    /\ sources \subseteq Sources
    /\ keySourceMap \in [Keys -> Sources \cup {NoSource}]
    /\ overlays \in [Keys -> Values \cup {NoValue, TombValue}]
    /\ forbiddenKeys \subseteq Keys
    /\ configs \in [Sources -> Config] /\ newConfig \in [Sources -> Config]
    /\ handler \in [Sources -> BOOLEAN] /\ intervalDone \in [Sources -> BOOLEAN]
    /\ rpc \in [Sources -> {"off", "wait", "fetched", "fire", "find", "write", "dispatch",
                            "stuck", "stopped"}]
    /\ events \in [Sources -> SUBSET Event] /\ ev \in [Sources -> Event]
    /\ target \in [Sources -> Sources \cup {NoSource}]
    /\ mpc \in {"idle", "copy", "pull", "put"} /\ adding \in Sources \cup {NoSource}
    /\ pullTodo \subseteq Keys /\ pullKey \in Keys /\ pullOwner \in Sources \cup {NoSource}
    /\ toClose \subseteq Sources /\ closing \in Sources \cup {NoSource}
    /\ dpc \in {"idle", "owner", "value", "done"} /\ readKey \in Keys
    /\ readOwner \in Sources \cup {NoSource} /\ got \in Values \cup {NoValue}
    /\ wpc \in {"none", "read", "on"} /\ watched \in Values \cup {NoValue}

\* The source a key should come from: of those that hold it the one of highest priority.
BestSource(k) ==
    LET C == {s \in sources : Holds(s, k)}
    IN IF C = {} THEN NoSource
       ELSE CHOOSE s \in C : \A t \in C : GetPriority(s) <= GetPriority(t)

\* Whenever no refresher is at work, every key that may be updated is read from the
\* source of highest priority that holds it, however the sources came to hold it.
Resolved ==
    Quiet /\ mpc = "idle" =>
        \A k \in Keys : formatKey[k] \notin forbiddenKeys => keySourceMap[k] = BestSource(k)

\* Whenever no refresher is at work, a stream that watches a key has the value the
\* sources give it; a key that was deleted from all of them leaves its last value.
WatcherCurrent ==
    Quiet /\ wpc = "on" /\ BestSource(WatchKey) # NoSource =>
        watched = configs[BestSource(WatchKey)][WatchKey]

\* A key that one source holds all the time is never reported missing to a reader,
\* whatever the refreshers do while it reads (ParamItem.get would fall back to the
\* default).
AlwaysHeld(k) == \E s \in Sources : \A c \in IF s \in Changing THEN Offered ELSE {store[s]} :
                                        c # Broken /\ c[k] # NoValue
NeverMissing == dpc = "done" /\ AlwaysHeld(readKey) => got # NoValue

\* A content that stays in a file or on the server, of a source that could be read when
\* it was added and whose refresher is not stopped, becomes the content of the source
\* and stays it (refreshPeriodically).
Refreshed ==
    \A s \in Changing : \A c \in Contents :
        <>[](store[s] = c /\ handler[s] /\ ~intervalDone[s]) => <>[](configs[s] = c)

\* Manager.Close returns: the refresher of every source notices that it is stopped,
\* unless one failed to fetch and waits for its own end, which it never reaches.
Stuck == \E s \in Sources : rpc[s] = "stuck"
CloseReturns == toClose # {} ~> Stuck \/ (toClose = {} /\ closing = NoSource)
-------------------------------------------------------------------------------
(* For TLC: one key in its two spellings, with two values. *)

MCKeys == {"a.b", "ab"}
MCFormat == [k \in MCKeys |-> "ab"]
\* A source holds both spellings of a key, or none.
Both(v) == [k \in MCKeys |-> v]
MCValues == {"true", "false"}
MCContents == {Both(v) : v \in Values \cup {NoValue}}
HeldContents == {Both(v) : v \in Values}
AnyContents == [Sources -> MCContents]
\* The environment holds the key, the other sources may.
EnvHolds == {c \in AnyContents : c["EnvironmentSource"] \in HeldContents}
AnyHeld == [Sources -> HeldContents]
===============================================================================
