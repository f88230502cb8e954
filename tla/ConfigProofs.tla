----------------------------- MODULE ConfigProofs -----------------------------
(***************************************************************************)
(* The Manager for any keys, values and contents: its types; that every key *)
(* ends with the source of highest priority that holds it while one source  *)
(* changes and refreshers wait until all sources are added; and, where it   *)
(* is the files that change, that readers find what is there and a watcher  *)
(* has the current value.                                                  *)
(***************************************************************************)
EXTENDS ConfigManager, TLAPS

-------------------------------------------------------------------------------
(* The invariant. *)

\* The refresher of s fires the events of a new content.
Firing(s) == rpc[s] \in {"fire", "find", "write", "dispatch"}

\* An event for k has still to be brought to keySourceMap.
Pending(s, k) == \/ \E e \in events[s] : e.key = k
                 \/ rpc[s] \in {"find", "write"} /\ ev[s].key = k

\* What keySourceMap has been told of k in source s.
Known(s, k) == IF Firing(s) /\ ~Pending(s, k) THEN newConfig[s][k] ELSE configs[s][k]

\* What it will have been told when s is done with k.
Told(s, t, k) == IF t = s THEN newConfig[s][k] ELSE configs[t][k]

\* x is the source of highest priority among C.
IsBest(x, C) == \/ C = {} /\ x = NoSource
                \/ x \in C /\ \A t \in C : GetPriority(x) <= GetPriority(t)

\* The keys that pullSourceConfigs has not entered yet.
Waiting == CASE mpc = "idle" -> {}
             [] mpc = "copy" -> Keys
             [] mpc = "pull" -> pullTodo
             [] mpc = "put"  -> pullTodo \cup {pullKey}

Holders(k) == {t \in sources : Known(t, k) # NoValue} \ (IF k \in Waiting THEN {adding} ELSE {})

\* A source and its refresher: its events tell the difference of the new content and the
\* committed one, each key once; a source that does not change has none.
SourceInv(s) ==
    /\ s \notin sources => rpc[s] = "off" /\ configs[s] = Empty
    /\ rpc[s] # "off" => s \in RefreshedSources /\ (mpc = "idle" \/ adding # s => handler[s])
    /\ ~Firing(s) => events[s] = {}
    /\ Firing(s) => events[s] \subseteq PopulateEvents(configs[s], newConfig[s])
    /\ rpc[s] \in {"find", "write"} =>
          /\ ev[s] \in PopulateEvents(configs[s], newConfig[s])
          /\ \A e \in events[s] : e.key # ev[s].key
    /\ rpc[s] = "find" => ev[s].type = "DELETE"
    /\ s \notin Changing =>
          /\ events[s] = {} /\ rpc[s] \notin {"find", "write", "dispatch"}
          /\ rpc[s] # "off" => configs[s] = store[s]
          /\ rpc[s] \in {"fetched", "fire"} => newConfig[s] = store[s]

\* Sources are added while no refresher is at work; a key that is not entered yet is
\* held by the source that is added.
AddInv ==
    /\ mpc # "idle" \/ sources # Sources => Quiet
    /\ mpc # "idle" => adding \in sources
    /\ mpc \in {"pull", "put"} => \A k \in Waiting : Holds(adding, k)
    /\ mpc = "put" => pullOwner = keySourceMap[pullKey] /\ pullKey \notin pullTodo

Added == sources = Sources /\ mpc = "idle"

\* Every key has the owner that the events so far give it, and the owner about to be
\* written is the one that the event gives; keys are forbidden to refreshers only.
OwnedInv ==
    /\ \A k \in Keys : formatKey[k] \notin forbiddenKeys \/ ~Added =>
          IsBest(keySourceMap[k], Holders(k))
    /\ \A s \in Sources : rpc[s] = "write" /\ formatKey[ev[s].key] \notin forbiddenKeys =>
          IsBest(target[s], {t \in sources : Told(s, t, ev[s].key) # NoValue})

OwnersInv == (\A s \in Sources : SourceInv(s)) /\ AddInv /\ OwnedInv

-------------------------------------------------------------------------------
(* Types. *)

\* The constants, as far as every proof needs them.
LEMMA ConstantFacts ==
    /\ WatchKey \in Keys /\ formatKey \in [Keys -> Keys] /\ Empty \in Config
    /\ Contents \subseteq Config /\ NoEvent \in Event
    /\ NoSource \notin Sources
  <1>1. WatchKey \in Keys
    BY ContentsAssumption DEF WatchKey
  <1> QED
    BY <1>1, ContentsAssumption, SourcesAssumption
    DEF Empty, Config, NoEvent, Event, NoSource, RefreshedSources

\* The source of highest priority, as findNextBestSource chooses it.
Best(C) == IF C = {} THEN NoSource
           ELSE CHOOSE s \in C : \A t \in C : GetPriority(s) <= GetPriority(t)

\* There is exactly one.
LEMMA BestFacts ==
    ASSUME NEW C, C \subseteq Sources
    PROVE  IsBest(Best(C), C) /\ \A x : IsBest(x, C) => x = Best(C)
  <1> DEFINE Least(x) == x \in C /\ \A t \in C : GetPriority(x) <= GetPriority(t)
  <1>1. C \subseteq {"EtcdSource", "EnvironmentSource", "FileSource"}
    BY SourcesAssumption DEF RefreshedSources
  <1>2. /\ GetPriority("EtcdSource") = 1 /\ GetPriority("EnvironmentSource") = 11
        /\ GetPriority("FileSource") = 21
    BY DEF GetPriority
  <1>3. C # {} => \E x : Least(x)
    <2>1. CASE "EtcdSource" \in C
      <3>1. Least("EtcdSource")
        BY <1>1, <1>2, <2>1
      <3> QED
        BY <3>1
    <2>2. CASE "EtcdSource" \notin C /\ "EnvironmentSource" \in C
      <3>1. Least("EnvironmentSource")
        BY <1>1, <1>2, <2>2
      <3> QED
        BY <3>1
    <2>3. CASE "EtcdSource" \notin C /\ "EnvironmentSource" \notin C /\ C # {}
      <3>1. "FileSource" \in C /\ \A t \in C : t = "FileSource"
        BY <1>1, <2>3
      <3>2. Least("FileSource")
        BY <1>2, <3>1
      <3> QED
        BY <3>2
    <2> QED
      BY <2>1, <2>2, <2>3
  <1>4. \A x, y : Least(x) /\ Least(y) => x = y
    <2> TAKE x, y
    <2> HAVE Least(x) /\ Least(y)
    <2>1. GetPriority(x) <= GetPriority(y) /\ GetPriority(y) <= GetPriority(x)
      OBVIOUS
    <2>2. /\ x \in {"EtcdSource", "EnvironmentSource", "FileSource"}
          /\ y \in {"EtcdSource", "EnvironmentSource", "FileSource"}
      BY <1>1
    <2> QED
      BY <1>2, <2>1, <2>2
  <1>5. C # {} => Least(Best(C))
    <2>1. SUFFICES ASSUME C # {} PROVE Least(Best(C))
      OBVIOUS
    <2>2. Best(C) = CHOOSE s \in C : \A t \in C : GetPriority(s) <= GetPriority(t)
      BY <2>1 DEF Best
    <2>3. \E s \in C : \A t \in C : GetPriority(s) <= GetPriority(t)
      BY <1>3, <2>1
    <2> QED
      BY <2>2, <2>3, Zenon
  <1>6. C = {} => Best(C) = NoSource
    BY DEF Best
  <1> QED
    BY <1>4, <1>5, <1>6 DEF IsBest

\* What an event says of the two contents it comes from.
LEMMA EventFacts ==
    ASSUME NEW c \in Config, NEW d \in Config, NEW e \in PopulateEvents(c, d)
    PROVE  /\ e \in Event /\ e.key \in Keys /\ e.type # "none"
           /\ e.type = "DELETE" => c[e.key] # NoValue /\ d[e.key] = NoValue
           /\ e.type # "DELETE" => d[e.key] # NoValue
           /\ c[e.key] # d[e.key]
           /\ e.value = IF e.type = "DELETE" THEN c[e.key] ELSE d[e.key]
           /\ e.type = IF d[e.key] = NoValue THEN "DELETE"
                       ELSE IF c[e.key] = NoValue THEN "CREATE" ELSE "UPDATE"
  BY DEF PopulateEvents, Event, Config

\* A key has at most one event.
LEMMA OneEvent ==
    ASSUME NEW c \in Config, NEW d \in Config, NEW e \in PopulateEvents(c, d),
           NEW f \in PopulateEvents(c, d), e.key = f.key
    PROVE  e = f
  <1>1. e.type = f.type /\ e.value = f.value /\ e \in Event /\ f \in Event
    BY EventFacts
  <1> QED
    BY <1>1 DEF Event

\* A key without an event has not changed.
LEMMA NoEventSame ==
    ASSUME NEW c \in Config, NEW d \in Config, NEW k \in Keys,
           \A e \in PopulateEvents(c, d) : e.key # k
    PROVE  c[k] = d[k]
  <1>1. SUFFICES ASSUME c[k] # d[k] PROVE FALSE
    OBVIOUS
  <1>2. CASE c[k] = NoValue
    <2>1. [type |-> "CREATE", key |-> k, value |-> d[k]] \in PopulateEvents(c, d)
      BY <1>1, <1>2 DEF PopulateEvents
    <2> QED
      BY <2>1
  <1>3. CASE d[k] = NoValue
    <2>1. [type |-> "DELETE", key |-> k, value |-> c[k]] \in PopulateEvents(c, d)
      BY <1>1, <1>3 DEF PopulateEvents
    <2> QED
      BY <2>1
  <1>4. CASE c[k] # NoValue /\ d[k] # NoValue
    <2>1. [type |-> "UPDATE", key |-> k, value |-> d[k]] \in PopulateEvents(c, d)
      BY <1>1, <1>4 DEF PopulateEvents
    <2> QED
      BY <2>1
  <1> QED
    BY <1>2, <1>3, <1>4

\* A reader that goes to a source goes to one.
TypeInv == TypeOK /\ (dpc = "value" => readOwner \in Sources)

\* Adding sources keeps the types.
LEMMA AddTypes ==
    ASSUME TypeInv, Add
    PROVE  TypeInv'
  <1> USE ConstantFacts DEF TypeInv, TypeOK, closeVars, readVars, watchVars, refreshVars, managerVars
  <1>1. ASSUME NEW s \in Sources, AddSource(s) PROVE TypeInv'
    <2>1. CASE store[s] = Broken
      BY <1>1, <2>1 DEF AddSource
    <2>2. CASE store[s] # Broken
      <3>1. store[s] \in Config
        BY <2>2
      <3>2. configs' \in [Sources -> Config]
        BY <1>1, <2>2, <3>1 DEF AddSource
      <3> QED
        BY <1>1, <2>2, <3>2 DEF AddSource
    <2> QED
      BY <2>1, <2>2
  <1>2. CASE PullCopy
    BY <1>2 DEF PullCopy
  <1>3. CASE PullGet
    BY <1>3 DEF PullGet
  <1>4. CASE PullPut
    BY <1>4 DEF PullPut, PullInsert
  <1>5. CASE SetEventHandler
    <2>1. (adding \in RefreshedSources) \in BOOLEAN
      OBVIOUS
    <2>2. handler' \in [Sources -> BOOLEAN]
      BY <1>5, <2>1, Zenon DEF SetEventHandler
    <2> QED
      BY <1>5, <2>2 DEF SetEventHandler
  <1> QED
    BY <1>1, <1>2, <1>3, <1>4, <1>5 DEF Add

\* So do the refreshers.
LEMMA RefresherTypes ==
    ASSUME TypeInv, NEW s \in Sources, Refresher(s)
    PROVE  TypeInv'
  <1> USE ConstantFacts DEF TypeInv, TypeOK, addVars, closeVars, readVars, watchVars, managerVars
  <1>1. CASE Fetch(s)
    <2>1. CASE store[s] = Broken
      BY <1>1, <2>1, ZenonT(60) DEF Fetch
    <2>2. CASE store[s] # Broken
      <3>1. newConfig' \in [Sources -> Config]
        BY <1>1, <2>2 DEF Fetch
      <3> QED
        BY <1>1, <2>2, <3>1 DEF Fetch
    <2> QED
      BY <2>1, <2>2
  <1>2. CASE FireEvents(s)
    <2>1. PopulateEvents(configs[s], newConfig[s]) \subseteq Event
      BY EventFacts
    <2>2. events' \in [Sources -> SUBSET Event]
      BY <1>2, <2>1 DEF FireEvents
    <2> QED
      BY <1>2, <2>2 DEF FireEvents
  <1>3. CASE OnEvent(s)
    <2>1. PICK e \in events[s] :
             LET owner == keySourceMap[e.key]
                 ignored == formatKey[e.key] \in forbiddenKeys \/ ignoreChange(s, e, owner)
             IN /\ events' = [events EXCEPT ![s] = @ \ {e}]
                /\ IF ignored THEN UNCHANGED <<ev, target>>
                   ELSE ev' = [ev EXCEPT ![s] = e] /\ target' = [target EXCEPT ![s] = s]
                /\ rpc' = [rpc EXCEPT ![s] = CASE ignored -> "fire"
                                               [] ~ignored /\ e.type = "DELETE" -> "find"
                                               [] ~ignored /\ e.type # "DELETE" /\ owner = s
                                                     -> "dispatch"
                                               [] OTHER -> "write"]
      BY <1>3 DEF OnEvent
    <2>2. e \in Event
      OBVIOUS
    <2>3. events' \in [Sources -> SUBSET Event]
      BY <2>1
    <2>4. ev' \in [Sources -> Event] /\ target' \in [Sources -> Sources \cup {NoSource}]
      BY <2>1, <2>2
    <2>5. rpc' \in [Sources -> {"off", "wait", "fetched", "fire", "find", "write", "dispatch",
                                "stuck", "stopped"}]
      BY <2>1
    <2>6. UNCHANGED <<store, managerVars, configs, handler, intervalDone, newConfig, addVars,
                      closeVars, readVars, watchVars>>
      BY <1>3 DEF OnEvent
    <2> QED
      BY <2>3, <2>4, <2>5, <2>6
  <1>4. CASE FindNextBestSource(s)
    <2>1. candidates(s, ev[s].key) \subseteq Sources
      BY DEF candidates
    <2> DEFINE C == candidates(s, ev[s].key)
               x == IF C = {} THEN NoSource
                    ELSE CHOOSE t \in C : \A u \in C : GetPriority(t) <= GetPriority(u)
    <2>2. target' = [target EXCEPT ![s] = x] /\ x \in Sources \cup {NoSource}
      <3>1. target' = [target EXCEPT ![s] = x]
        BY <1>4 DEF FindNextBestSource
      <3>2. x \in Sources \cup {NoSource}
        BY <2>1, BestFacts DEF Best
      <3> QED
        BY <3>1, <3>2
    <2> HIDE DEF x
    <2>3. target' \in [Sources -> Sources \cup {NoSource}]
      BY <2>2
    <2> QED
      BY <1>4, <2>3 DEF FindNextBestSource
  <1>5. CASE UpdateEvent(s)
    <2>1. ev[s].key \in Keys
      BY DEF Event
    <2> QED
      BY <1>5, <2>1 DEF UpdateEvent
  <1>6. CASE Dispatch(s)
    <2>1. ev[s].value \in Values \cup {NoValue}
      BY DEF Event
    <2> QED
      BY <1>6, <2>1 DEF Dispatch
  <1>7. CASE Commit(s)
    BY <1>7 DEF Commit
  <1>8. CASE Stopped(s)
    BY <1>8 DEF Stopped
  <1> QED
    BY <1>1, <1>2, <1>3, <1>4, <1>5, <1>6, <1>7, <1>8 DEF Refresher

\* And the calls at run time, readers, the watcher, Close and whoever edits a source.
LEMMA OtherTypes ==
    ASSUME TypeInv, Get \/ Close \/ Runtime \/ WatchRead \/ Watch \/ \E s \in Sources : Change(s)
    PROVE  TypeInv'
  <1> USE ConstantFacts
      DEF TypeInv, TypeOK, addVars, closeVars, readVars, watchVars, managerVars, refreshVars
  <1>0. ASSUME NEW k \in Keys PROVE unlessTomb(overlays[k]) \in Values \cup {NoValue}
    BY DEF unlessTomb, TombValue, NoValue
  <1>1. ASSUME NEW k \in Keys, GetOverlay(k) PROVE TypeInv'
    <2>1. got' \in Values \cup {NoValue}
      BY <1>0, <1>1 DEF GetOverlay
    <2> QED
      BY <1>1, <2>1 DEF GetOverlay
  <1>2. CASE GetOwner
    BY <1>2 DEF GetOwner
  <1>3. CASE GetConfigurationByKey
    <2>1. got' \in Values \cup {NoValue}
      BY <1>3 DEF GetConfigurationByKey, Config
    <2> QED
      BY <1>3, <2>1 DEF GetConfigurationByKey
  <1>4. CASE GetReturn
    BY <1>4 DEF GetReturn
  <1>5. CASE CloseCall \/ ClosedSource
    BY <1>5 DEF CloseCall, ClosedSource
  <1>6. ASSUME NEW s \in Sources, CloseSource(s) PROVE TypeInv'
    BY <1>6 DEF CloseSource
  <1>7. CASE Runtime
    BY <1>7 DEF Runtime, SetConfig, SetMapConfig, DeleteConfig, ResetConfig, ForbidUpdate, Overlay
  <1>8. CASE WatchRead
    <2>1. GetConfig(WatchKey) \in Values \cup {NoValue}
      BY <1>0 DEF GetConfig, Config
    <2> QED
      BY <1>8, <2>1 DEF WatchRead
  <1>9. CASE Watch
    BY <1>9 DEF Watch
  <1>10. ASSUME NEW s \in Sources, Change(s) PROVE TypeInv'
    <2>1. PICK c \in Offered : store' = [store EXCEPT ![s] = c]
      BY <1>10 DEF Change
    <2>2. c \in Contents \cup {Broken}
      BY DEF Offered
    <2>3. store' \in [Sources -> Contents \cup {Broken}]
      BY <2>1, <2>2
    <2> QED
      BY <1>10, <2>3 DEF Change
  <1> QED
    BY <1>1, <1>2, <1>3, <1>4, <1>5, <1>6, <1>7, <1>8, <1>9, <1>10 DEF Get, Close

\* The induction.
LEMMA TypeInvariance == Spec => []TypeInv
  <1>1. Init => TypeInv
    <2> SUFFICES ASSUME Init PROVE TypeInv
      OBVIOUS
    <2> USE ConstantFacts, ContentsAssumption DEF Init
    <2>1. store \in [Sources -> Contents \cup {Broken}]
      OBVIOUS
    <2>2. overlays \in [Keys -> Values \cup {NoValue, TombValue}]
      BY DEF Empty
    <2>3. events \in [Sources -> SUBSET Event] /\ ev \in [Sources -> Event]
      OBVIOUS
    <2> QED
      BY <2>1, <2>2, <2>3 DEF TypeInv, TypeOK
  <1>2. TypeInv /\ [Next]_vars => TypeInv'
    <2> SUFFICES ASSUME TypeInv, [Next]_vars PROVE TypeInv'
      OBVIOUS
    <2>1. CASE UNCHANGED vars
      BY <2>1 DEF vars, TypeInv, TypeOK, addVars, closeVars, readVars, watchVars, managerVars,
                  refreshVars
    <2> QED
      BY <2>1, AddTypes, RefresherTypes, OtherTypes DEF Next
  <1> QED
    BY <1>1, <1>2, PTL DEF Spec

\* Every variable of the Manager, its sources, refreshers, readers and watchers keeps its
\* type: no key is given to a source that is not there, and no reader or watcher gets the mark
\* of a deleted value.
THEOREM TypesKept == Spec => []TypeOK
  <1>1. TypeInv => TypeOK
    BY DEF TypeInv
  <1> QED
    BY <1>1, TypeInvariance, PTL
-------------------------------------------------------------------------------
(* What keySourceMap knows. *)

\* Every source has a priority.
LEMMA PriorityNat ==
    ASSUME NEW s \in Sources
    PROVE  GetPriority(s) \in Nat
  BY SourcesAssumption DEF GetPriority, RefreshedSources

\* A source that does not change has told all, firing or not.
LEMMA StaticKnown ==
    ASSUME NEW s \in Sources \ Changing, SourceInv(s), NEW k
    PROVE  Known(s, k) = configs[s][k]
  BY DEF SourceInv, Known, Firing

\* Only a source that changes has events.
LEMMA FiresChanging ==
    ASSUME NEW s \in Sources, SourceInv(s), events[s] # {} \/ rpc[s] \in {"find", "write", "dispatch"}
    PROVE  s \in Changing
  BY DEF SourceInv

\* Steps that leave owners, sources and refreshers alone.
LEMMA OwnersFrame ==
    ASSUME OwnersInv,
           UNCHANGED <<sources, keySourceMap, configs, handler, rpc, newConfig, events, ev, target,
                       mpc, adding, pullTodo, pullKey, pullOwner>>,
           forbiddenKeys \subseteq forbiddenKeys',
           \A s \in Sources \ Changing : store'[s] = store[s]
    PROVE  OwnersInv'
  <1>1. ASSUME NEW s \in Sources PROVE SourceInv(s)'
    BY DEF OwnersInv, SourceInv, Firing
  <1>2. AddInv'
    BY DEF OwnersInv, AddInv, Quiet, Waiting, Holds
  <1>3. \A k \in Keys : Holders(k)' = Holders(k)
    BY DEF Holders, Known, Firing, Pending, Waiting
  <1>4. OwnedInv'
    BY <1>3 DEF OwnersInv, OwnedInv, Told, IsBest, Added
  <1> QED
    BY <1>1, <1>2, <1>4 DEF OwnersInv
-------------------------------------------------------------------------------
(* Adding a source. *)

\* A new source owns nothing yet: its keys wait for the pull.
LEMMA AddSourceOwners ==
    ASSUME TypeInv, OwnersInv, NEW s \in Sources, AddSource(s)
    PROVE  OwnersInv'
  <1>1. /\ mpc = "idle" /\ s \notin sources /\ sources' = sources \cup {s}
        /\ UNCHANGED <<store, keySourceMap, forbiddenKeys, handler, newConfig, events, ev, target,
                       pullTodo, pullKey, pullOwner>>
    BY DEF AddSource
  <1>2. Quiet /\ SourceInv(s) /\ rpc[s] = "off" /\ configs[s] = Empty
    BY <1>1 DEF OwnersInv, AddInv, SourceInv
  <1>3. /\ configs \in [Sources -> Config] /\ sources \subseteq Sources
        /\ rpc \in [Sources -> {"off", "wait", "fetched", "fire", "find", "write", "dispatch",
                                "stuck", "stopped"}]
    BY DEF TypeInv, TypeOK
  <1>4. ASSUME NEW t \in Sources, NEW k PROVE Known(t, k) = configs[t][k]
    BY <1>2 DEF Quiet, Known, Firing
  <1>5. ASSUME NEW k \in Keys PROVE Holders(k) = {t \in sources : configs[t][k] # NoValue}
    BY <1>1, <1>3, <1>4 DEF Holders, Waiting
  <1>6. CASE store[s] = Broken
    <2>1. UNCHANGED <<configs, rpc, mpc, adding>>
      BY <1>6 DEF AddSource
    <2>2. ASSUME NEW t \in Sources PROVE SourceInv(t)'
      BY <1>1, <2>1 DEF OwnersInv, SourceInv, Firing
    <2>3. AddInv'
      BY <1>1, <1>2, <2>1 DEF AddInv, Quiet
    <2>4. ASSUME NEW k \in Keys PROVE Holders(k)' = Holders(k)
      <3>1. configs[s][k] = NoValue
        BY <1>2 DEF Empty
      <3>2. ASSUME NEW t \in Sources PROVE Known(t, k)' = configs[t][k]
        BY <1>2, <2>1 DEF Quiet, Known, Firing
      <3>3. Holders(k)' = {t \in sources \cup {s} : Known(t, k)' # NoValue}
        BY <1>1, <2>1 DEF Holders, Waiting
      <3> QED
        BY <1>3, <1>5, <3>1, <3>2, <3>3
    <2>5. OwnedInv'
      BY <1>1, <1>2, <2>1, <2>4 DEF OwnersInv, OwnedInv, Quiet, IsBest, Added
    <2> QED
      BY <2>2, <2>3, <2>5 DEF OwnersInv
  <1>7. CASE store[s] # Broken
    <2>1. /\ configs' = [configs EXCEPT ![s] = store[s]] /\ mpc' = "copy" /\ adding' = s
          /\ rpc' = [rpc EXCEPT ![s] = IF starts(s) THEN "wait" ELSE @]
      BY <1>7 DEF AddSource
    <2>2. Quiet'
      BY <1>2, <1>3, <2>1 DEF Quiet
    <2>3. ASSUME NEW t \in Sources PROVE SourceInv(t)'
      <3>1. SourceInv(t)
        BY DEF OwnersInv
      <3>2. CASE t = s
        BY <1>1, <1>2, <1>3, <2>1, <3>2 DEF SourceInv, Firing, starts
      <3>3. CASE t # s
        <4>1. rpc'[t] = rpc[t] /\ configs'[t] = configs[t]
          BY <1>3, <2>1, <3>3
        <4> QED
          BY <1>1, <3>1, <3>3, <4>1 DEF SourceInv, Firing
      <3> QED
        BY <3>2, <3>3
    <2>4. AddInv'
      BY <1>1, <2>1, <2>2 DEF AddInv
    <2>5. ASSUME NEW k \in Keys PROVE Holders(k)' = Holders(k)
      <3>1. ASSUME NEW t \in sources PROVE Known(t, k)' = configs[t][k]
        <4>1. configs'[t] = configs[t] /\ t \in Sources
          BY <1>1, <1>3, <2>1
        <4> QED
          BY <2>2, <4>1 DEF Quiet, Known, Firing
      <3>2. Holders(k)' = {t \in sources \cup {s} : Known(t, k)' # NoValue} \ {s}
        BY <1>1, <2>1 DEF Holders, Waiting
      <3> QED
        BY <1>1, <1>5, <3>1, <3>2
    <2>6. OwnedInv'
      BY <1>1, <2>2, <2>5 DEF OwnersInv, OwnedInv, Quiet, IsBest, Added
    <2> QED
      BY <2>3, <2>4, <2>6 DEF OwnersInv
  <1> QED
    BY <1>6, <1>7

\* The keys of the new source are entered one by one.
LEMMA PullOwners ==
    ASSUME TypeInv, OwnersInv, PullCopy \/ PullGet \/ PullPut \/ SetEventHandler
    PROVE  OwnersInv'
  <1>1. /\ mpc # "idle" /\ UNCHANGED <<store, sources, forbiddenKeys, configs, rpc, newConfig, events,
                                       ev, target>>
    BY DEF PullCopy, PullGet, PullPut, SetEventHandler, managerVars, refreshVars
  <1>2. Quiet /\ adding \in sources /\ adding \in Sources
    BY <1>1 DEF OwnersInv, AddInv, TypeInv, TypeOK
  <1>3. Quiet' /\ \A t \in Sources : ~Firing(t) /\ ~Firing(t)'
    BY <1>1, <1>2 DEF Quiet, Firing
  <1>4. ASSUME NEW t \in Sources, NEW k
        PROVE  Known(t, k) = configs[t][k] /\ Known(t, k)' = configs[t][k]
    BY <1>1, <1>3 DEF Known
  <1>5. sources \subseteq Sources /\ keySourceMap \in [Keys -> Sources \cup {NoSource}]
        /\ pullTodo \subseteq Keys /\ pullKey \in Keys /\ handler \in [Sources -> BOOLEAN]
    BY DEF TypeInv, TypeOK
  <1> DEFINE H(k) == {t \in sources : configs[t][k] # NoValue}
  <1>6. ASSUME NEW k
        PROVE  /\ Holders(k) = H(k) \ (IF k \in Waiting THEN {adding} ELSE {})
               /\ Holders(k)' = H(k) \ (IF k \in Waiting' THEN {adding'} ELSE {})
    BY <1>1, <1>4, <1>5 DEF Holders
  <1>7. ASSUME \A k \in Keys : IsBest(keySourceMap'[k], Holders(k)')
        PROVE  OwnedInv'
    BY <1>1, <1>3, <1>7 DEF OwnedInv, Quiet, IsBest
  <1>8. ASSUME UNCHANGED handler, mpc' # "idle", adding' = adding
        PROVE  \A t \in Sources : SourceInv(t)'
    BY <1>1, <1>8 DEF OwnersInv, SourceInv, Firing
  <1>9. CASE PullCopy
    <2>1. /\ mpc = "copy" /\ mpc' = "pull" /\ pullTodo' = {k \in Keys : Holds(adding, k)}
          /\ UNCHANGED <<keySourceMap, handler, adding, pullKey, pullOwner>>
      BY <1>9 DEF PullCopy, managerVars
    <2>2. Waiting = Keys /\ Waiting' = pullTodo'
      BY <2>1 DEF Waiting
    <2>3. AddInv'
      BY <1>1, <1>2, <1>3, <2>1, <2>2 DEF AddInv, Holds
    <2>4. ASSUME NEW k \in Keys PROVE Holders(k)' = Holders(k)
      BY <1>6, <2>1, <2>2 DEF Holds
    <2>5. OwnedInv'
      BY <1>1, <1>7, <2>1, <2>4 DEF OwnersInv, OwnedInv, IsBest, Added
    <2> QED
      BY <1>8, <2>1, <2>3, <2>5 DEF OwnersInv
  <1>10. CASE PullGet
    <2>1. PICK k \in pullTodo : /\ pullKey' = k /\ pullOwner' = keySourceMap[k]
                                /\ pullTodo' = pullTodo \ {k}
      BY <1>10 DEF PullGet
    <2>2. mpc = "pull" /\ mpc' = "put" /\ UNCHANGED <<keySourceMap, handler, adding>>
      BY <1>10 DEF PullGet, managerVars
    <2>3. Waiting = pullTodo /\ Waiting' = pullTodo
      BY <2>1, <2>2 DEF Waiting
    <2>4. AddInv'
      BY <1>1, <1>2, <1>3, <2>1, <2>2, <2>3 DEF OwnersInv, AddInv, Holds
    <2>5. ASSUME NEW x \in Keys PROVE Holders(x)' = Holders(x)
      BY <1>6, <2>2, <2>3
    <2>6. OwnedInv'
      BY <1>1, <1>7, <2>2, <2>5 DEF OwnersInv, OwnedInv, IsBest, Added
    <2> QED
      BY <1>8, <2>2, <2>4, <2>6 DEF OwnersInv
  <1>11. CASE PullPut
    <2>1. /\ mpc = "put" /\ mpc' = "pull" /\ PullInsert
          /\ UNCHANGED <<handler, adding, pullTodo, pullKey, pullOwner>>
      BY <1>11 DEF PullPut
    <2>2. pullOwner = keySourceMap[pullKey] /\ pullKey \notin pullTodo
      BY <2>1 DEF OwnersInv, AddInv
    <2>3. Waiting = pullTodo \cup {pullKey} /\ Waiting' = pullTodo
      BY <2>1 DEF Waiting
    <2>4. \A k \in Waiting : Holds(adding, k)
      BY <2>1 DEF OwnersInv, AddInv
    <2>5. AddInv'
      BY <1>1, <1>2, <1>3, <2>1, <2>3, <2>4 DEF AddInv, Holds
    <2>6. ASSUME NEW k \in Keys
          PROVE  IsBest(keySourceMap'[k], Holders(k)')
      <3>1. IsBest(keySourceMap[k], Holders(k))
        BY <1>1 DEF OwnersInv, OwnedInv, Added
      <3>2. CASE k # pullKey
        <4>1. Holders(k)' = Holders(k)
          BY <1>6, <2>1, <2>3, <3>2
        <4>2. keySourceMap'[k] = keySourceMap[k]
          BY <1>5, <2>1, <3>2 DEF PullInsert
        <4> QED
          BY <3>1, <4>1, <4>2 DEF IsBest
      <3>3. CASE k = pullKey
        <4>1. Holders(k)' = Holders(k) \cup {adding} /\ Holders(k) \subseteq Sources
          BY <1>2, <1>5, <1>6, <2>3, <2>4, <2>2, <3>3 DEF Holds
        <4>2. keySourceMap'[k] = IF pullOwner = NoSource \/ GetPriority(pullOwner) > GetPriority(adding)
                                 THEN adding ELSE keySourceMap[k]
          BY <1>5, <2>1, <3>3 DEF PullInsert
        <4>3. \A t \in Holders(k) \cup {adding} : GetPriority(t) \in Nat
          BY <1>2, <4>1, PriorityNat
        <4>4. NoSource \notin Holders(k)
          BY <4>1, ConstantFacts
        <4> QED
          BY <2>2, <3>1, <3>3, <4>1, <4>2, <4>3, <4>4 DEF IsBest
      <3> QED
        BY <3>2, <3>3
    <2>7. OwnedInv'
      BY <1>7, <2>6
    <2> QED
      BY <1>8, <2>1, <2>5, <2>7 DEF OwnersInv
  <1>12. CASE SetEventHandler
    <2>1. /\ mpc = "pull" /\ pullTodo = {} /\ mpc' = "idle" /\ keySourceMap' = keySourceMap
          /\ handler' = [handler EXCEPT ![adding] = adding \in RefreshedSources]
      BY <1>12 DEF SetEventHandler, managerVars
    <2>2. Waiting = {} /\ Waiting' = {}
      BY <2>1 DEF Waiting
    <2>3. AddInv'
      BY <1>3, <2>1 DEF AddInv
    <2>4. ASSUME NEW t \in Sources PROVE SourceInv(t)'
      <3>1. SourceInv(t)
        BY DEF OwnersInv
      <3>2. rpc[t] # "off" => handler'[t]
        <4>1. CASE t = adding
          BY <1>5, <2>1, <3>1, <4>1 DEF SourceInv
        <4>2. CASE t # adding
          BY <1>5, <2>1, <3>1, <4>2 DEF SourceInv
        <4> QED
          BY <4>1, <4>2
      <3> QED
        BY <1>1, <3>1, <3>2 DEF SourceInv, Firing
    <2>5. ASSUME NEW k \in Keys PROVE Holders(k)' = Holders(k)
      BY <1>6, <2>2
    <2>6. OwnedInv'
      BY <1>1, <1>7, <2>1, <2>5 DEF OwnersInv, OwnedInv, IsBest, Added
    <2> QED
      BY <2>3, <2>4, <2>6 DEF OwnersInv
  <1> QED
    BY <1>9, <1>10, <1>11, <1>12
-------------------------------------------------------------------------------
(* The refreshers. *)

\* A step of the refresher of s, with all sources added.
Apart(s) ==
    /\ mpc = "idle" /\ sources = Sources
    /\ UNCHANGED <<store, sources, forbiddenKeys, handler, mpc, adding, pullTodo, pullKey, pullOwner>>
    /\ \A t \in Sources \ {s} : /\ rpc'[t] = rpc[t] /\ newConfig'[t] = newConfig[t]
                                /\ events'[t] = events[t] /\ ev'[t] = ev[t]
                                /\ target'[t] = target[t] /\ configs'[t] = configs[t]
    /\ s \notin Changing => configs'[s] = configs[s]

\* It changes what is known of s only.
LEMMA ApartKnown ==
    ASSUME NEW s \in Sources, Apart(s), NEW k
    PROVE  /\ Holders(k) = {t \in Sources : Known(t, k) # NoValue}
           /\ Holders(k)' = {t \in Sources : Known(t, k)' # NoValue}
           /\ \A t \in Sources \ {s} : Known(t, k)' = Known(t, k)
           /\ Known(s, k)' = Known(s, k) => Holders(k)' = Holders(k)
  <1>1. Holders(k) = {t \in Sources : Known(t, k) # NoValue}
    BY DEF Apart, Holders, Waiting
  <1>2. Holders(k)' = {t \in Sources : Known(t, k)' # NoValue}
    BY DEF Apart, Holders, Waiting
  <1>3. \A t \in Sources \ {s} : Known(t, k)' = Known(t, k)
    BY DEF Apart, Known, Firing, Pending
  <1>4. Known(s, k)' = Known(s, k) => \A t \in Sources : Known(t, k)' = Known(t, k)
    BY <1>3
  <1> QED
    BY <1>1, <1>2, <1>3, <1>4

\* So it has to be right about s, the owners and the owner it is about to write.
LEMMA ApartOwners ==
    ASSUME TypeInv, OwnersInv, \A t, u \in Changing : t = u, NEW s \in Sources, Apart(s),
           SourceInv(s)',
           \A k \in Keys : formatKey[k] \notin forbiddenKeys => IsBest(keySourceMap'[k], Holders(k)'),
           (rpc[s] = "write" /\ formatKey[ev[s].key] \notin forbiddenKeys =>
                IsBest(target[s], {t \in sources : Told(s, t, ev[s].key) # NoValue}))'
    PROVE  OwnersInv'
  <1>1. ASSUME NEW t \in Sources PROVE SourceInv(t)'
    <2>1. CASE t = s
      BY <2>1
    <2>2. CASE t # s
      <3>1. SourceInv(t)
        BY DEF OwnersInv
      <3> QED
        BY <2>2, <3>1 DEF Apart, SourceInv, Firing
    <2> QED
      BY <2>1, <2>2
  <1>2. AddInv'
    BY DEF Apart, AddInv
  <1>3. ASSUME NEW t \in Sources, rpc'[t] = "write", formatKey[ev'[t].key] \notin forbiddenKeys'
        PROVE  IsBest(target[t], {u \in sources : Told(t, u, ev[t].key) # NoValue})'
    <2>1. CASE t = s
      BY <1>3, <2>1
    <2>2. CASE t # s
      <3>1. rpc[t] = "write" /\ SourceInv(t) /\ t \in Changing /\ s \notin Changing
        BY <1>3, <2>2, SourcesAssumption, FiresChanging DEF OwnersInv, Apart
      <3>2. /\ ev'[t] = ev[t] /\ target'[t] = target[t] /\ newConfig'[t] = newConfig[t]
            /\ forbiddenKeys' = forbiddenKeys /\ sources' = sources
        BY <2>2 DEF Apart
      <3>3. \A u \in Sources : configs'[u] = configs[u]
        BY <3>1 DEF Apart
      <3>4. \A u \in sources : Told(t, u, ev[t].key)' = Told(t, u, ev[t].key)
        BY <3>2, <3>3 DEF Told, TypeInv, TypeOK
      <3>5. IsBest(target[t], {u \in sources : Told(t, u, ev[t].key) # NoValue})
        BY <1>3, <3>1, <3>2 DEF OwnersInv, OwnedInv
      <3> QED
        BY <3>2, <3>4, <3>5 DEF IsBest
    <2> QED
      BY <2>1, <2>2
  <1>4. OwnedInv'
    BY <1>3 DEF OwnedInv, IsBest, Apart, Added
  <1> QED
    BY <1>1, <1>2, <1>4 DEF OwnersInv

\* While a refresher is at work, all sources are added.
LEMMA WorkingAdded ==
    ASSUME OwnersInv, NEW s \in Sources, rpc[s] \notin {"off", "wait", "stopped"}
    PROVE  mpc = "idle" /\ sources = Sources
  BY DEF OwnersInv, AddInv, Quiet

\* If what is known does not change, and the owners do not, only s is left to look at.
LEMMA KnownOwners ==
    ASSUME TypeInv, OwnersInv, NEW s \in Sources, Apart(s), keySourceMap' = keySourceMap,
           \A k \in Keys : Known(s, k)' = Known(s, k)
    PROVE  \A k \in Keys : formatKey[k] \notin forbiddenKeys => IsBest(keySourceMap'[k], Holders(k)')
  <1> SUFFICES ASSUME NEW k \in Keys, formatKey[k] \notin forbiddenKeys
               PROVE  IsBest(keySourceMap'[k], Holders(k)')
    OBVIOUS
  <1>1. Holders(k)' = Holders(k)
    BY ApartKnown
  <1>2. IsBest(keySourceMap[k], Holders(k))
    BY DEF OwnersInv, OwnedInv
  <1> QED
    BY <1>1, <1>2

\* Reading the file or the server tells the Manager nothing.
LEMMA FetchOwners ==
    ASSUME TypeInv, OwnersInv, EarlyTick = FALSE, \A t, u \in Changing : t = u,
           NEW s \in Sources, Fetch(s)
    PROVE  OwnersInv'
  <1>1. /\ rpc[s] = "wait" /\ sources = Sources /\ mpc = "idle"
        /\ UNCHANGED <<store, sources, keySourceMap, forbiddenKeys, configs, handler, events, ev, target,
                       mpc, adding, pullTodo, pullKey, pullOwner>>
    BY DEF Fetch, managerVars, addVars
  <1>2. /\ \A t \in Sources \ {s} : rpc'[t] = rpc[t] /\ newConfig'[t] = newConfig[t]
        /\ \/ rpc'[s] = "stuck" /\ newConfig'[s] = newConfig[s]
           \/ rpc'[s] = "fetched" /\ newConfig'[s] = store[s]
    BY DEF Fetch, TypeInv, TypeOK
  <1>3. Apart(s)
    BY <1>1, <1>2 DEF Apart
  <1>4. ~Firing(s) /\ ~Firing(s)'
    BY <1>1, <1>2 DEF Firing
  <1>5. \A k \in Keys : Known(s, k)' = Known(s, k)
    BY <1>1, <1>4 DEF Known
  <1>6. SourceInv(s)
    BY DEF OwnersInv
  <1>7. SourceInv(s)'
    BY <1>1, <1>2, <1>4, <1>6 DEF SourceInv
  <1>8. rpc'[s] # "write"
    BY <1>2
  <1> QED
    BY <1>1, <1>3, <1>5, <1>7, <1>8, KnownOwners, ApartOwners

\* The events announce every key whose value differs, so nothing else is told by firing them.
LEMMA FireOwners ==
    ASSUME TypeInv, OwnersInv, \A t, u \in Changing : t = u, NEW s \in Sources, FireEvents(s)
    PROVE  OwnersInv'
  <1>1. /\ rpc[s] = "fetched"
        /\ UNCHANGED <<store, sources, keySourceMap, forbiddenKeys, configs, handler, newConfig, ev,
                       target, mpc, adding, pullTodo, pullKey, pullOwner>>
    BY DEF FireEvents, managerVars, addVars
  <1>2. mpc = "idle" /\ sources = Sources
    BY <1>1, WorkingAdded
  <1>3. SourceInv(s) /\ handler[s] /\ events[s] = {} /\ ~Firing(s)
    BY <1>1, <1>2 DEF OwnersInv, SourceInv, Firing
  <1>4. /\ \A t \in Sources \ {s} : rpc'[t] = rpc[t] /\ events'[t] = events[t]
        /\ rpc'[s] = "fire" /\ events'[s] = PopulateEvents(configs[s], newConfig[s])
    BY <1>3 DEF FireEvents, TypeInv, TypeOK
  <1>5. Apart(s)
    BY <1>1, <1>2, <1>4 DEF Apart
  <1>6. configs[s] \in Config /\ newConfig[s] \in Config
    BY DEF TypeInv, TypeOK
  <1>7. ASSUME NEW k \in Keys PROVE Known(s, k)' = Known(s, k)
    <2>1. Known(s, k) = configs[s][k]
      BY <1>3 DEF Known
    <2>2. CASE \E e \in events'[s] : e.key = k
      BY <1>1, <2>1, <2>2 DEF Known, Pending
    <2>3. CASE ~\E e \in events'[s] : e.key = k
      <3>1. configs[s][k] = newConfig[s][k]
        BY <1>4, <1>6, <2>3, NoEventSame
      <3> QED
        BY <1>1, <2>1, <3>1 DEF Known
    <2> QED
      BY <2>2, <2>3
  <1>8. s \notin Changing => events'[s] = {}
    <2>1. SUFFICES ASSUME s \notin Changing PROVE events'[s] = {}
      OBVIOUS
    <2>2. configs[s] = newConfig[s]
      BY <1>1, <1>3, <2>1 DEF SourceInv
    <2>3. \A e \in events'[s] : configs[s][e.key] # newConfig[s][e.key]
      BY <1>4, <1>6, EventFacts
    <2> QED
      BY <2>2, <2>3
  <1>9. SourceInv(s)'
    BY <1>1, <1>3, <1>4, <1>8 DEF SourceInv, Firing
  <1>10. rpc'[s] # "write"
    BY <1>4
  <1> QED
    BY <1>1, <1>5, <1>7, <1>9, <1>10, KnownOwners, ApartOwners

\* What is settled for the key of an event once that event is dealt with.
LEMMA EventKnown ==
    ASSUME TypeInv, OwnersInv, \A t, u \in Changing : t = u, NEW s \in Changing, NEW k \in Keys,
           Pending(s, k), sources = Sources, mpc = "idle"
    PROVE  /\ {t \in sources : Told(s, t, k) # NoValue} \ {s} = Holders(k) \ {s}
           /\ s \in Holders(k) <=> configs[s][k] # NoValue
           /\ s \in {t \in sources : Told(s, t, k) # NoValue} <=> newConfig[s][k] # NoValue
  <1>1. Holders(k) = {t \in Sources : Known(t, k) # NoValue} /\ s \in Sources
    BY SourcesAssumption DEF Holders, Waiting
  <1>2. Known(s, k) = configs[s][k] /\ Told(s, s, k) = newConfig[s][k]
    BY DEF Known, Told
  <1>3. ASSUME NEW t \in Sources, t # s PROVE Known(t, k) = Told(s, t, k)
    <2>1. t \in Sources \ Changing /\ SourceInv(t)
      BY <1>3 DEF OwnersInv
    <2> QED
      BY <1>3, <2>1, StaticKnown DEF Told
  <1> QED
    BY <1>1, <1>2, <1>3

\* An event is ignored, dispatched to the owner it has, or left to be written, each time with
\* the best owner.
LEMMA OnEventOwners ==
    ASSUME TypeInv, OwnersInv, \A t, u \in Changing : t = u, NEW s \in Sources, OnEvent(s)
    PROVE  OwnersInv'
  <1>1. /\ rpc[s] = "fire"
        /\ UNCHANGED <<store, sources, keySourceMap, forbiddenKeys, configs, handler, newConfig,
                       mpc, adding, pullTodo, pullKey, pullOwner>>
    BY DEF OnEvent, managerVars, addVars
  <1>2. mpc = "idle" /\ sources = Sources
    BY <1>1, WorkingAdded
  <1>3. PICK e \in events[s] :
           LET owner == keySourceMap[e.key]
               ignored == formatKey[e.key] \in forbiddenKeys \/ ignoreChange(s, e, owner)
           IN /\ events' = [events EXCEPT ![s] = @ \ {e}]
              /\ IF ignored THEN UNCHANGED <<ev, target>>
                 ELSE ev' = [ev EXCEPT ![s] = e] /\ target' = [target EXCEPT ![s] = s]
              /\ rpc' = [rpc EXCEPT ![s] = CASE ignored -> "fire"
                                             [] ~ignored /\ e.type = "DELETE" -> "find"
                                             [] ~ignored /\ e.type # "DELETE" /\ owner = s
                                                   -> "dispatch"
                                             [] OTHER -> "write"]
    BY DEF OnEvent
  <1>4. SourceInv(s) /\ s \in Changing /\ Firing(s) /\ Pending(s, e.key)
    BY <1>1, FiresChanging DEF OwnersInv, Firing, Pending
  <1>5. configs[s] \in Config /\ newConfig[s] \in Config /\ e \in PopulateEvents(configs[s], newConfig[s])
    BY <1>4 DEF TypeInv, TypeOK, SourceInv
  <1>6. \A f \in events[s] \ {e} : f.key # e.key
    <2> SUFFICES ASSUME NEW f \in events[s] \ {e}, f.key = e.key PROVE FALSE
      OBVIOUS
    <2>1. f \in PopulateEvents(configs[s], newConfig[s])
      BY <1>4 DEF SourceInv
    <2> QED
      BY <1>5, <2>1, OneEvent
  <1>7. /\ e.key \in Keys
        /\ e.type = "DELETE" => configs[s][e.key] # NoValue /\ newConfig[s][e.key] = NoValue
        /\ e.type # "DELETE" => newConfig[s][e.key] # NoValue
    BY <1>5, EventFacts
  <1> DEFINE ignored == formatKey[e.key] \in forbiddenKeys \/ ignoreChange(s, e, keySourceMap[e.key])
  <1>8. /\ events'[s] = events[s] \ {e}
        /\ ~ignored => ev'[s] = e /\ target'[s] = s
        /\ rpc'[s] = CASE ignored -> "fire"
                       [] ~ignored /\ e.type = "DELETE" -> "find"
                       [] ~ignored /\ e.type # "DELETE" /\ keySourceMap[e.key] = s -> "dispatch"
                       [] OTHER -> "write"
        /\ \A t \in Sources \ {s} : /\ rpc'[t] = rpc[t] /\ events'[t] = events[t] /\ ev'[t] = ev[t]
                                    /\ target'[t] = target[t]
    BY <1>3 DEF TypeInv, TypeOK
  <1> HIDE DEF ignored
  <1>9. Apart(s)
    BY <1>1, <1>2, <1>8 DEF Apart
  <1>10. ASSUME NEW k \in Keys, k # e.key PROVE Known(s, k)' = Known(s, k)
    <2>1. rpc'[s] \in {"fire", "find", "write", "dispatch"} /\ (rpc'[s] \in {"find", "write"} => ev'[s] = e)
      BY <1>8
    <2>2. Firing(s)' /\ (Pending(s, k)' <=> Pending(s, k))
      BY <1>1, <1>8, <1>10, <2>1 DEF Firing, Pending
    <2> QED
      BY <1>1, <1>4, <2>2 DEF Known
  <1> DEFINE H == {t \in sources : Told(s, t, e.key) # NoValue}
  <1>11. /\ H \ {s} = Holders(e.key) \ {s}
         /\ s \in Holders(e.key) <=> configs[s][e.key] # NoValue
         /\ s \in H <=> newConfig[s][e.key] # NoValue
    BY <1>2, <1>4, <1>7, EventKnown
  <1>12. /\ Holders(e.key) \subseteq Sources /\ H \subseteq Sources
         /\ \A t \in Sources : GetPriority(t) \in Nat
    BY <1>2, PriorityNat DEF Holders
  <1>13. formatKey[e.key] \notin forbiddenKeys => IsBest(keySourceMap[e.key], Holders(e.key))
    BY <1>7 DEF OwnersInv, OwnedInv
  <1>14. H' = H
    BY <1>1 DEF Told
  <1>15. Known(s, e.key)' = (IF rpc'[s] \in {"find", "write"} THEN configs[s][e.key]
                            ELSE newConfig[s][e.key])
    <2>1. Firing(s)'
      BY <1>8 DEF Firing
    <2>2. Pending(s, e.key)' <=> rpc'[s] \in {"find", "write"}
      BY <1>6, <1>8 DEF Pending
    <2> QED
      BY <1>1, <2>1, <2>2 DEF Known
  <1>16. Holders(e.key)' = (IF rpc'[s] \in {"find", "write"} THEN Holders(e.key) ELSE H)
    <2>1. /\ Holders(e.key) = {t \in Sources : Known(t, e.key) # NoValue}
          /\ Holders(e.key)' = {t \in Sources : Known(t, e.key)' # NoValue}
          /\ \A t \in Sources \ {s} : Known(t, e.key)' = Known(t, e.key)
      BY <1>9, ApartKnown
    <2>2. Known(s, e.key) = configs[s][e.key]
      BY <1>4 DEF Known
    <2> QED
      BY <1>11, <1>12, <1>15, <2>1, <2>2
  <1> HIDE DEF H
  <1>17. ASSUME formatKey[e.key] \notin forbiddenKeys
         PROVE  IsBest(keySourceMap[e.key], Holders(e.key)')
    <2>1. CASE rpc'[s] \in {"find", "write"}
      BY <1>13, <1>16, <1>17, <2>1
    <2>2. CASE ignored
      <3>1. ignoreChange(s, e, keySourceMap[e.key])
        BY <1>17, <2>2 DEF ignored
      <3>2. Holders(e.key)' = H
        BY <1>8, <1>16, <2>2
      <3> QED
        BY <1>7, <1>11, <1>12, <1>13, <1>17, <3>1, <3>2 DEF IsBest, ignoreChange
    <2>3. CASE ~ignored /\ e.type # "DELETE" /\ keySourceMap[e.key] = s
      <3>1. Holders(e.key)' = H
        BY <1>8, <1>16, <2>3
      <3>2. s \in Holders(e.key)
        BY <1>13, <1>17, <2>3, ConstantFacts DEF IsBest
      <3> QED
        BY <1>7, <1>11, <1>13, <1>17, <2>3, <3>1, <3>2 DEF IsBest
    <2> QED
      BY <1>8, <2>1, <2>2, <2>3
  <1>18. ASSUME NEW k \in Keys, formatKey[k] \notin forbiddenKeys
         PROVE  IsBest(keySourceMap'[k], Holders(k)')
    <2>1. CASE k = e.key
      BY <1>1, <1>17, <1>18, <2>1
    <2>2. CASE k # e.key
      <3>1. Holders(k)' = Holders(k)
        BY <1>9, <1>10, <1>18, <2>2, ApartKnown
      <3> QED
        BY <1>1, <1>18, <3>1 DEF OwnersInv, OwnedInv
    <2> QED
      BY <2>1, <2>2
  <1>19. ASSUME rpc'[s] = "write"
         PROVE  IsBest(target[s], {t \in sources : Told(s, t, ev[s].key) # NoValue})'
    <2>1. ~ignored /\ e.type # "DELETE" /\ keySourceMap[e.key] # s
      BY <1>8, <1>19
    <2>2. formatKey[e.key] \notin forbiddenKeys /\ ~ignoreChange(s, e, keySourceMap[e.key])
      BY <2>1 DEF ignored
    <2>3. IsBest(s, H)
      <3>1. NoSource \notin Holders(e.key)
        BY <1>12, ConstantFacts
      <3>2. keySourceMap[e.key] = NoSource \/ GetPriority(s) <= GetPriority(keySourceMap[e.key])
        <4>1. keySourceMap[e.key] = NoSource \/ keySourceMap[e.key] \in Sources
          BY <1>12, <1>13, <2>2 DEF IsBest
        <4> QED
          BY <1>12, <2>1, <2>2, <4>1 DEF ignoreChange
      <3> QED
        BY <1>7, <1>11, <1>12, <1>13, <2>1, <2>2, <3>1, <3>2 DEF IsBest
    <2>4. ev'[s] = e /\ target'[s] = s
      BY <1>8, <2>1
    <2>5. {t \in sources : Told(s, t, ev[s].key) # NoValue}' = H
      BY <1>14, <2>4 DEF H
    <2> QED
      BY <2>3, <2>4, <2>5 DEF IsBest
  <1>20. SourceInv(s)'
    <2>1. rpc'[s] \in {"fire", "find", "write", "dispatch"}
      BY <1>8
    <2>2. rpc'[s] \in {"find", "write"} => ev'[s] = e
      BY <1>8
    <2>3. rpc'[s] = "find" => e.type = "DELETE"
      BY <1>8
    <2>4. events'[s] \subseteq PopulateEvents(configs[s], newConfig[s])
      BY <1>4, <1>8 DEF SourceInv
    <2> QED
      BY <1>1, <1>2, <1>4, <1>5, <1>6, <1>8, <2>1, <2>2, <2>3, <2>4 DEF SourceInv, Firing
  <1> QED
    BY <1>9, <1>18, <1>19, <1>20, ApartOwners

\* findNextBestSource finds the best of the sources that still hold a deleted key.
LEMMA FindOwners ==
    ASSUME TypeInv, OwnersInv, \A t, u \in Changing : t = u, NEW s \in Sources, FindNextBestSource(s)
    PROVE  OwnersInv'
  <1>1. /\ rpc[s] = "find"
        /\ UNCHANGED <<store, sources, keySourceMap, forbiddenKeys, configs, handler, newConfig, events,
                       ev, mpc, adding, pullTodo, pullKey, pullOwner>>
    BY DEF FindNextBestSource, managerVars, addVars
  <1>2. mpc = "idle" /\ sources = Sources
    BY <1>1, WorkingAdded
  <1>3. SourceInv(s) /\ s \in Changing
    BY <1>1, FiresChanging DEF OwnersInv
  <1> DEFINE C == candidates(s, ev[s].key)
  <1>4. target' = [target EXCEPT ![s] = Best(C)]
    BY DEF FindNextBestSource, Best
  <1>5. IsBest(Best(C), C)
    <2>1. C \subseteq Sources
      BY <1>2 DEF candidates
    <2> QED
      BY <2>1, BestFacts
  <1>6. C = {t \in sources : Told(s, t, ev[s].key) # NoValue}
    <2>1. newConfig[s][ev[s].key] = NoValue
      <3>1. configs[s] \in Config /\ newConfig[s] \in Config
        BY DEF TypeInv, TypeOK
      <3>2. ev[s] \in PopulateEvents(configs[s], newConfig[s]) /\ ev[s].type = "DELETE"
        BY <1>1, <1>3 DEF SourceInv
      <3> QED
        BY <3>1, <3>2, EventFacts
    <2> QED
      BY <1>2, <2>1 DEF candidates, Holds, Told
  <1> HIDE DEF C
  <1>7. /\ \A t \in Sources \ {s} : rpc'[t] = rpc[t] /\ target'[t] = target[t]
        /\ rpc'[s] = "write" /\ target'[s] = Best(C)
    BY <1>4 DEF FindNextBestSource, TypeInv, TypeOK
  <1>8. Apart(s)
    BY <1>1, <1>2, <1>7 DEF Apart
  <1>9. \A k \in Keys : Known(s, k)' = Known(s, k)
    BY <1>1, <1>7 DEF Known, Firing, Pending
  <1>10. SourceInv(s)'
    BY <1>1, <1>2, <1>3, <1>7 DEF SourceInv, Firing
  <1>11. IsBest(target[s], {t \in sources : Told(s, t, ev[s].key) # NoValue})'
    <2>1. {t \in sources : Told(s, t, ev[s].key) # NoValue}' = C
      BY <1>1, <1>6 DEF Told
    <2> QED
      BY <1>5, <1>7, <2>1 DEF IsBest
  <1> QED
    BY <1>1, <1>8, <1>9, <1>10, <1>11, KnownOwners, ApartOwners

\* The owner written is still the best one: no other source has changed meanwhile.
LEMMA UpdateOwners ==
    ASSUME TypeInv, OwnersInv, \A t, u \in Changing : t = u, NEW s \in Sources, UpdateEvent(s)
    PROVE  OwnersInv'
  <1>1. /\ rpc[s] = "write" /\ keySourceMap' = [keySourceMap EXCEPT ![ev[s].key] = target[s]]
        /\ UNCHANGED <<store, sources, forbiddenKeys, configs, handler, newConfig, events, ev, target,
                       mpc, adding, pullTodo, pullKey, pullOwner>>
    BY DEF UpdateEvent, addVars
  <1>2. mpc = "idle" /\ sources = Sources
    BY <1>1, WorkingAdded
  <1>3. SourceInv(s) /\ s \in Changing
    BY <1>1, FiresChanging DEF OwnersInv
  <1>4. (\A t \in Sources \ {s} : rpc'[t] = rpc[t]) /\ rpc'[s] = "dispatch"
    BY DEF UpdateEvent, TypeInv, TypeOK
  <1>5. Apart(s)
    BY <1>1, <1>2, <1>4 DEF Apart
  <1> DEFINE key == ev[s].key
             H == {t \in sources : Told(s, t, key) # NoValue}
  <1>6. key \in Keys /\ keySourceMap \in [Keys -> Sources \cup {NoSource}]
    BY DEF TypeInv, TypeOK, Event
  <1>7. ASSUME NEW k \in Keys, k # key PROVE Known(s, k)' = Known(s, k)
    BY <1>1, <1>4, <1>7 DEF Known, Firing, Pending
  <1>8. Holders(key)' = H
    <2>1. Known(s, key)' = newConfig[s][key]
      <3>1. Firing(s)' /\ ~Pending(s, key)'
        BY <1>1, <1>3, <1>4 DEF Firing, Pending, SourceInv
      <3> QED
        BY <1>1, <3>1 DEF Known
    <2>2. /\ Holders(key) = {t \in Sources : Known(t, key) # NoValue}
          /\ Holders(key)' = {t \in Sources : Known(t, key)' # NoValue}
          /\ \A t \in Sources \ {s} : Known(t, key)' = Known(t, key)
      <3>1. ASSUME NEW k
            PROVE  /\ Holders(k) = {t \in Sources : Known(t, k) # NoValue}
                   /\ Holders(k)' = {t \in Sources : Known(t, k)' # NoValue}
                   /\ \A t \in Sources \ {s} : Known(t, k)' = Known(t, k)
        BY <1>5, ApartKnown
      <3>2. key' = key
        BY <1>1
      <3> QED
        BY <3>1, <3>2
    <2>3. Pending(s, key)
      BY <1>1 DEF Pending
    <2>4. /\ H \ {s} = Holders(key) \ {s}
          /\ s \in H <=> newConfig[s][key] # NoValue
      BY <1>2, <1>3, <1>6, <2>3, EventKnown
    <2> QED
      BY <1>2, <2>1, <2>2, <2>4
  <1>9. ASSUME NEW k \in Keys, formatKey[k] \notin forbiddenKeys
        PROVE  IsBest(keySourceMap'[k], Holders(k)')
    <2>1. CASE k = key
      <3>1. IsBest(target[s], H)
        BY <1>1, <1>9, <2>1 DEF OwnersInv, OwnedInv
      <3>2. keySourceMap'[k] = target[s] /\ Holders(k)' = H
        BY <1>1, <1>6, <1>8, <2>1
      <3> QED
        BY <3>1, <3>2
    <2>2. CASE k # key
      <3>1. Holders(k)' = Holders(k)
        BY <1>5, <1>7, <1>9, <2>2, ApartKnown
      <3>2. keySourceMap'[k] = keySourceMap[k]
        BY <1>1, <1>6, <2>2
      <3> QED
        BY <1>9, <3>1, <3>2 DEF OwnersInv, OwnedInv
    <2> QED
      BY <2>1, <2>2
  <1>10. SourceInv(s)'
    BY <1>1, <1>2, <1>3, <1>4 DEF SourceInv, Firing
  <1>11. rpc'[s] # "write"
    BY <1>4
  <1> QED
    BY <1>5, <1>9, <1>10, <1>11, ApartOwners

\* Handing an event to the handlers changes no owner.
LEMMA DispatchOwners ==
    ASSUME TypeInv, OwnersInv, \A t, u \in Changing : t = u, NEW s \in Sources, Dispatch(s)
    PROVE  OwnersInv'
  <1>1. /\ rpc[s] = "dispatch"
        /\ UNCHANGED <<store, sources, keySourceMap, forbiddenKeys, configs, handler, newConfig, events,
                       mpc, adding, pullTodo, pullKey, pullOwner>>
    BY DEF Dispatch, managerVars, addVars
  <1>2. mpc = "idle" /\ sources = Sources /\ SourceInv(s)
    BY <1>1, WorkingAdded DEF OwnersInv
  <1>3. /\ \A t \in Sources \ {s} : rpc'[t] = rpc[t] /\ ev'[t] = ev[t] /\ target'[t] = target[t]
        /\ rpc'[s] = "fire"
    BY DEF Dispatch, TypeInv, TypeOK
  <1>4. Apart(s)
    BY <1>1, <1>2, <1>3 DEF Apart
  <1>5. \A k \in Keys : Known(s, k)' = Known(s, k)
    BY <1>1, <1>3 DEF Known, Firing, Pending
  <1>6. SourceInv(s)'
    BY <1>1, <1>2, <1>3, FiresChanging DEF SourceInv, Firing
  <1>7. rpc'[s] # "write"
    BY <1>3
  <1> QED
    BY <1>1, <1>4, <1>5, <1>6, <1>7, KnownOwners, ApartOwners

\* When all events are out the Manager knows the new content, which becomes the committed one.
LEMMA CommitOwners ==
    ASSUME TypeInv, OwnersInv, \A t, u \in Changing : t = u, NEW s \in Sources, Commit(s)
    PROVE  OwnersInv'
  <1>1. /\ rpc[s] = "fire" /\ events[s] = {}
        /\ UNCHANGED <<store, sources, keySourceMap, forbiddenKeys, handler, events, ev, target,
                       mpc, adding, pullTodo, pullKey, pullOwner>>
    BY DEF Commit, managerVars, addVars
  <1>2. mpc = "idle" /\ sources = Sources /\ SourceInv(s)
    BY <1>1, WorkingAdded DEF OwnersInv
  <1>3. /\ \A t \in Sources \ {s} : /\ rpc'[t] = rpc[t] /\ configs'[t] = configs[t]
                                    /\ newConfig'[t] = newConfig[t]
        /\ rpc'[s] = "wait" /\ configs'[s] = newConfig[s]
    BY DEF Commit, TypeInv, TypeOK
  <1>4. s \notin Changing => newConfig[s] = configs[s] /\ configs[s] = store[s]
    BY <1>1, <1>2 DEF SourceInv
  <1>5. Apart(s)
    BY <1>1, <1>2, <1>3, <1>4 DEF Apart
  <1>6. \A k \in Keys : Known(s, k)' = Known(s, k)
    BY <1>1, <1>3 DEF Known, Firing, Pending
  <1>7. SourceInv(s)'
    BY <1>1, <1>2, <1>3, <1>4 DEF SourceInv, Firing
  <1>8. rpc'[s] # "write"
    BY <1>3
  <1> QED
    BY <1>1, <1>5, <1>6, <1>7, <1>8, KnownOwners, ApartOwners

\* A refresher that stops was waiting.
LEMMA StoppedOwners ==
    ASSUME TypeInv, OwnersInv, NEW s \in Sources, Stopped(s)
    PROVE  OwnersInv'
  <1>1. /\ rpc[s] = "wait"
        /\ UNCHANGED <<store, sources, keySourceMap, forbiddenKeys, configs, handler, newConfig, events,
                       ev, target, mpc, adding, pullTodo, pullKey, pullOwner>>
    BY DEF Stopped, managerVars, addVars
  <1>2. (\A t \in Sources \ {s} : rpc'[t] = rpc[t]) /\ rpc'[s] = "stopped"
    BY DEF Stopped, TypeInv, TypeOK
  <1>3. ASSUME NEW t \in Sources PROVE SourceInv(t)'
    <2>1. SourceInv(t)
      BY DEF OwnersInv
    <2>2. CASE t = s
      BY <1>1, <1>2, <2>1, <2>2 DEF SourceInv, Firing
    <2>3. CASE t # s
      BY <1>1, <1>2, <2>1, <2>3 DEF SourceInv, Firing
    <2> QED
      BY <2>2, <2>3
  <1>4. AddInv'
    <2>1. Quiet => Quiet'
      BY <1>2 DEF Quiet
    <2> QED
      BY <1>1, <2>1 DEF OwnersInv, AddInv, Waiting, Holds
  <1>5. ASSUME NEW k PROVE Holders(k)' = Holders(k)
    <2>1. \A t \in Sources : Known(t, k)' = Known(t, k)
      BY <1>1, <1>2 DEF Known, Firing, Pending
    <2>2. sources \subseteq Sources
      BY DEF TypeInv, TypeOK
    <2> QED
      BY <1>1, <2>1, <2>2 DEF Holders, Waiting
  <1>6. \A t \in Sources : rpc'[t] = "write" => rpc[t] = "write"
    BY <1>2
  <1>7. OwnedInv'
    BY <1>1, <1>5, <1>6 DEF OwnersInv, OwnedInv, Told, IsBest, Added
  <1> QED
    BY <1>3, <1>4, <1>7 DEF OwnersInv

-------------------------------------------------------------------------------
(* The theorem. *)

\* The calls at run time, the reader, the watcher and Close.
LEMMA CallsFrame ==
    ASSUME Get \/ Close \/ Runtime \/ WatchRead \/ Watch \/ UNCHANGED vars
    PROVE  /\ UNCHANGED <<store, sources, keySourceMap, configs, handler, rpc, newConfig, events, ev,
                          target, mpc, adding, pullTodo, pullKey, pullOwner>>
           /\ forbiddenKeys \subseteq forbiddenKeys'
  <1> USE DEF managerVars, refreshVars, addVars
  <1>1. CASE Get
    BY <1>1 DEF Get, GetOverlay, GetOwner, GetConfigurationByKey, GetReturn
  <1>2. CASE Close
    BY <1>2 DEF Close, CloseCall, CloseSource, ClosedSource
  <1>3. CASE Runtime
    BY <1>3 DEF Runtime, SetConfig, SetMapConfig, DeleteConfig, ResetConfig, ForbidUpdate, Overlay
  <1>4. CASE WatchRead \/ Watch
    BY <1>4 DEF WatchRead, Watch
  <1>5. CASE UNCHANGED vars
    BY <1>5 DEF vars
  <1> QED
    BY <1>1, <1>2, <1>3, <1>4, <1>5

\* The induction.
LEMMA OwnersInvariance ==
    ASSUME EarlyTick = FALSE, \A s, t \in Changing : s = t
    PROVE  Spec => []OwnersInv
  <1>1. Init => OwnersInv
    <2> SUFFICES ASSUME Init PROVE OwnersInv
      OBVIOUS
    <2>1. ASSUME NEW s \in Sources PROVE SourceInv(s)
      BY DEF Init, SourceInv, Firing
    <2>2. AddInv
      BY DEF Init, AddInv, Quiet
    <2>3. OwnedInv
      BY DEF Init, OwnedInv, Holders, IsBest
    <2> QED
      BY <2>1, <2>2, <2>3 DEF OwnersInv
  <1>2. TypeInv /\ OwnersInv /\ [Next]_vars => OwnersInv'
    <2> SUFFICES ASSUME TypeInv, OwnersInv, [Next]_vars PROVE OwnersInv'
      OBVIOUS
    <2>1. CASE Add
      BY <2>1, AddSourceOwners, PullOwners DEF Add
    <2>2. CASE \/ Get \/ Close \/ Runtime \/ WatchRead \/ Watch \/ (\E s \in Sources : Change(s))
               \/ UNCHANGED vars
      <3>1. /\ UNCHANGED <<sources, keySourceMap, configs, handler, rpc, newConfig, events, ev, target,
                           mpc, adding, pullTodo, pullKey, pullOwner>>
            /\ forbiddenKeys \subseteq forbiddenKeys'
            /\ \A s \in Sources \ Changing : store'[s] = store[s]
        <4>1. CASE Get \/ Close \/ Runtime \/ WatchRead \/ Watch \/ UNCHANGED vars
          BY <4>1, CallsFrame
        <4>2. CASE \E s \in Sources : Change(s)
          BY <4>2 DEF Change, managerVars, refreshVars, addVars, TypeInv, TypeOK
        <4> QED
          BY <2>2, <4>1, <4>2
      <3> QED
        BY <3>1, OwnersFrame
    <2>3. ASSUME NEW s \in Sources, Refresher(s) PROVE OwnersInv'
      BY <2>3, FetchOwners, FireOwners, OnEventOwners, FindOwners, UpdateOwners, DispatchOwners,
         CommitOwners, StoppedOwners DEF Refresher
    <2> QED
      BY <2>1, <2>2, <2>3 DEF Next
  <1> QED
    BY <1>1, <1>2, TypeInvariance, PTL DEF Spec

\* Where one source changes (the files or etcd, not both) and no refresher ticks before all
\* sources are added, every key that may be updated is owned by the source of highest priority
\* that holds it whenever no refresher is at work, whatever the sources held before and however
\* often the content changed: no event of OnEvent, populateEvents or findNextBestSource is lost
\* or leaves a stale owner.
THEOREM OwnersResolved ==
    ASSUME EarlyTick = FALSE, \A s, t \in Changing : s = t
    PROVE  Spec => []Resolved
  <1>1. TypeInv /\ OwnersInv => Resolved
    <2> SUFFICES ASSUME TypeInv, OwnersInv, Quiet, mpc = "idle", NEW k \in Keys,
                        formatKey[k] \notin forbiddenKeys
                 PROVE  keySourceMap[k] = BestSource(k)
      BY DEF Resolved
    <2> DEFINE C == {s \in sources : Holds(s, k)}
    <2>1. C \subseteq Sources
      BY DEF TypeInv, TypeOK
    <2>2. Holders(k) = C
      <3>1. \A s \in sources : Known(s, k) = configs[s][k]
        BY DEF Known, Firing, Quiet, TypeInv, TypeOK
      <3> QED
        BY <3>1 DEF Holders, Waiting, Holds
    <2>3. IsBest(keySourceMap[k], C)
      BY <2>2 DEF OwnersInv, OwnedInv
    <2>4. keySourceMap[k] = Best(C)
      BY <2>1, <2>3, BestFacts
    <2> QED
      BY <2>4 DEF BestSource, Best
  <1> QED
    BY <1>1, TypeInvariance, OwnersInvariance, PTL
-------------------------------------------------------------------------------
(* Readers. *)

\* The contents: those of a source that does not change are what it was loaded with, and
\* a source that is always readable has one that it offers.
ContentInv ==
    \A s \in Sources :
        /\ store[s] \in Offered
        /\ s \in sources /\ s \notin Changing /\ store[s] # Broken => configs[s] = store[s]
        /\ s \in sources /\ Broken \notin Offered => configs[s] \in Contents
        /\ rpc[s] = "fetched" \/ Firing(s) => newConfig[s] \in Contents

\* A source that holds k and will hold it.
Lasting(o, k) ==
    /\ o \in Sources /\ Holds(o, k)
    /\ o \in Changing => \A c \in Offered : c # Broken /\ c[k] # NoValue

\* A key that is always held has a lasting owner, which no event takes it from, and a
\* reader of it is on its way to one.
ReadInv ==
    /\ Added => \A k \in Keys : AlwaysHeld(k) => Lasting(keySourceMap[k], k)
    /\ \A s \in Sources : rpc[s] \in {"find", "write"} => ~AlwaysHeld(ev[s].key)
    /\ dpc # "idle" => Added
    /\ dpc = "value" /\ AlwaysHeld(readKey) => Lasting(readOwner, readKey)
    /\ dpc = "done" /\ AlwaysHeld(readKey) => got # NoValue
    /\ overlays \in [Keys -> Values \cup {NoValue}]

\* Steps that leave the contents alone.
LEMMA ContentFrame ==
    ASSUME ContentInv, UNCHANGED <<store, sources, configs, newConfig>>,
           \A s \in Sources : rpc'[s] = "fetched" \/ Firing(s)' => rpc[s] = "fetched" \/ Firing(s)
    PROVE  ContentInv'
  BY DEF ContentInv, Offered

\* What a refresher commits is what it has read.
LEMMA ContentRefresher ==
    ASSUME TypeInv, OwnersInv, ContentInv, NEW s \in Sources, Refresher(s)
    PROVE  ContentInv'
  <1>1. CASE Fetch(s)
    <2>1. UNCHANGED <<store, sources, configs>> /\ rpc[s] = "wait"
      BY <1>1 DEF Fetch, managerVars
    <2>2. /\ \A t \in Sources \ {s} : rpc'[t] = rpc[t] /\ newConfig'[t] = newConfig[t]
          /\ \/ rpc'[s] = "stuck"
             \/ rpc'[s] = "fetched" /\ newConfig'[s] = store[s] /\ store[s] # Broken
      BY <1>1 DEF Fetch, TypeInv, TypeOK
    <2>3. store[s] \in Contents \cup {Broken}
      BY DEF TypeInv, TypeOK
    <2> QED
      BY <2>1, <2>2, <2>3 DEF ContentInv, Firing, Offered
  <1>2. CASE Commit(s)
    <2>1. UNCHANGED <<store, sources>> /\ rpc[s] = "fire"
      BY <1>2 DEF Commit, managerVars
    <2>2. /\ \A t \in Sources \ {s} : /\ rpc'[t] = rpc[t] /\ newConfig'[t] = newConfig[t]
                                      /\ configs'[t] = configs[t]
          /\ configs'[s] = newConfig[s] /\ rpc'[s] = "wait"
      BY <1>2 DEF Commit, TypeInv, TypeOK
    <2>3. newConfig[s] \in Contents /\ (s \notin Changing => newConfig[s] = store[s])
      BY <2>1 DEF ContentInv, Firing, OwnersInv, SourceInv
    <2> QED
      BY <2>1, <2>2, <2>3 DEF ContentInv, Firing, Offered
  <1>3. CASE FireEvents(s) \/ OnEvent(s) \/ FindNextBestSource(s) \/ UpdateEvent(s) \/ Dispatch(s)
             \/ Stopped(s)
    <2>1. UNCHANGED <<store, sources, configs, newConfig>>
      BY <1>3 DEF FireEvents, OnEvent, FindNextBestSource, UpdateEvent, Dispatch, Stopped, managerVars
    <2>2. \A t \in Sources \ {s} : rpc'[t] = rpc[t]
      BY <1>3 DEF FireEvents, OnEvent, FindNextBestSource, UpdateEvent, Dispatch, Stopped, TypeInv,
                  TypeOK
    <2>3. rpc[s] = "fetched" \/ Firing(s) \/ (rpc'[s] = "stopped")
      BY <1>3 DEF FireEvents, OnEvent, FindNextBestSource, UpdateEvent, Dispatch, Stopped, Firing,
                  TypeInv, TypeOK
    <2>4. \A t \in Sources : rpc'[t] = "fetched" \/ Firing(t)' => rpc[t] = "fetched" \/ Firing(t)
      BY <2>2, <2>3 DEF Firing
    <2> QED
      BY <2>1, <2>4, ContentFrame
  <1> QED
    BY <1>1, <1>2, <1>3 DEF Refresher

\* A source that is added holds what was loaded.
LEMMA ContentAdd ==
    ASSUME TypeInv, OwnersInv, ContentInv, Add
    PROVE  ContentInv'
  <1>1. ASSUME NEW s \in Sources, AddSource(s) PROVE ContentInv'
    <2>1. /\ s \notin sources /\ sources' = sources \cup {s} /\ UNCHANGED <<store, newConfig>>
      BY <1>1 DEF AddSource
    <2>2. /\ \A t \in Sources \ {s} : rpc'[t] = rpc[t] /\ configs'[t] = configs[t]
          /\ \/ store[s] = Broken /\ configs'[s] = configs[s] /\ rpc'[s] = rpc[s]
             \/ store[s] # Broken /\ configs'[s] = store[s] /\ rpc'[s] \in {rpc[s], "wait"}
      BY <1>1 DEF AddSource, TypeInv, TypeOK
    <2>3. store[s] \in Contents \cup {Broken} /\ rpc[s] = "off"
      BY <2>1 DEF TypeInv, TypeOK, OwnersInv, SourceInv
    <2> QED
      BY <2>1, <2>2, <2>3 DEF ContentInv, Firing, Offered
  <1>2. CASE PullCopy \/ PullGet \/ PullPut \/ SetEventHandler
    <2>1. UNCHANGED <<store, sources, configs, newConfig, rpc>>
      BY <1>2 DEF PullCopy, PullGet, PullPut, SetEventHandler, managerVars, refreshVars
    <2> QED
      BY <2>1, ContentFrame DEF Firing
  <1> QED
    BY <1>1, <1>2 DEF Add

\* The induction.
LEMMA ContentInvariance ==
    ASSUME EarlyTick = FALSE, \A s, t \in Changing : s = t
    PROVE  Spec => []ContentInv
  <1>1. Init => ContentInv
    <2> SUFFICES ASSUME Init PROVE ContentInv
      OBVIOUS
    <2>1. store \in [Sources -> Contents]
      BY ContentsAssumption DEF Init
    <2> QED
      BY <2>1 DEF Init, ContentInv, Offered, Firing
  <1>2. TypeInv /\ OwnersInv /\ ContentInv /\ [Next]_vars => ContentInv'
    <2> SUFFICES ASSUME TypeInv, OwnersInv, ContentInv, [Next]_vars PROVE ContentInv'
      OBVIOUS
    <2>1. CASE Add
      BY <2>1, ContentAdd
    <2>2. CASE Get \/ Close \/ Runtime \/ WatchRead \/ Watch \/ UNCHANGED vars
      BY <2>2, CallsFrame, ContentFrame DEF Firing
    <2>3. ASSUME NEW s \in Sources, Refresher(s) PROVE ContentInv'
      BY <2>3, ContentRefresher
    <2>4. ASSUME NEW s \in Sources, Change(s) PROVE ContentInv'
      <3>1. /\ UNCHANGED <<sources, configs, newConfig, rpc>> /\ s \in Changing
            /\ \A t \in Sources \ {s} : store'[t] = store[t]
            /\ store'[s] \in Offered
        BY <2>4 DEF Change, managerVars, refreshVars, TypeInv, TypeOK
      <3> QED
        BY <3>1 DEF ContentInv, Firing, Offered
    <2> QED
      BY <2>1, <2>2, <2>3, <2>4 DEF Next
  <1> QED
    BY <1>1, <1>2, TypeInvariance, OwnersInvariance, PTL DEF Spec

\* Whether a key is always held does not change.
LEMMA HeldSame ==
    ASSUME \A s \in Sources \ Changing : store'[s] = store[s], NEW k
    PROVE  AlwaysHeld(k)' <=> AlwaysHeld(k)
  BY DEF AlwaysHeld, Offered

\* Where only the files change, which have the lowest priority, the best owner of such a
\* key is a lasting one.
LEMMA LastingStart ==
    ASSUME TypeInv', ContentInv', sources' = Sources, Changing \subseteq {"FileSource"},
           NEW k \in Keys, AlwaysHeld(k)',
           IsBest(keySourceMap'[k], {t \in Sources : configs'[t][k] # NoValue})
    PROVE  Lasting(keySourceMap[k], k)'
  <1>1. PICK s \in Sources : \A c \in IF s \in Changing THEN Offered ELSE {store'[s]} :
                                c # Broken /\ c[k] # NoValue
    BY DEF AlwaysHeld, Offered
  <1>2. configs'[s][k] # NoValue
    <2>1. CASE s \in Changing
      <3>1. Broken \notin Offered /\ Contents \subseteq Offered
        BY <1>1, <2>1 DEF Offered
      <3>2. configs'[s] \in Contents
        BY <3>1 DEF ContentInv, Offered
      <3> QED
        BY <1>1, <2>1, <3>1, <3>2
    <2>2. CASE s \notin Changing
      <3>1. store'[s] # Broken /\ store'[s][k] # NoValue
        BY <1>1, <2>2
      <3>2. configs'[s] = store'[s]
        BY <2>2, <3>1 DEF ContentInv
      <3> QED
        BY <3>1, <3>2
    <2> QED
      BY <2>1, <2>2
  <1>3. PICK o : o = keySourceMap'[k]
    OBVIOUS
  <1>4. /\ o \in Sources /\ configs'[o][k] # NoValue
        /\ \A t \in Sources : configs'[t][k] # NoValue => GetPriority(o) <= GetPriority(t)
    BY <1>2, <1>3 DEF IsBest
  <1>5. ASSUME o \in Changing PROVE s = o
    <2>1. o = "FileSource" /\ GetPriority(o) = 21
      BY <1>5 DEF GetPriority
    <2>2. GetPriority(s) >= 21
      BY <1>2, <1>4, <2>1, PriorityNat
    <2> QED
      BY <2>1, <2>2, SourcesAssumption DEF GetPriority, RefreshedSources
  <1> QED
    BY <1>1, <1>3, <1>4, <1>5 DEF Lasting, Holds, Offered

\* A lasting holder stays one when its refresher commits.
LEMMA LastingKept ==
    ASSUME TypeInv, OwnersInv, ContentInv, NEW s \in Sources, Refresher(s), NEW o, NEW k, Lasting(o, k)
    PROVE  Lasting(o, k)'
  <1>1. CASE UNCHANGED configs
    BY <1>1 DEF Lasting, Holds, Offered
  <1>2. CASE Commit(s)
    <2>1. rpc[s] = "fire" /\ configs' = [configs EXCEPT ![s] = newConfig[s]]
      BY <1>2 DEF Commit
    <2>2. newConfig[s] \in Contents /\ (s \notin Changing => newConfig[s] = configs[s])
      BY <2>1 DEF ContentInv, Firing, OwnersInv, SourceInv
    <2>3. configs'[o][k] # NoValue
      BY <2>1, <2>2 DEF Lasting, Holds, Offered, TypeInv, TypeOK
    <2> QED
      BY <2>3 DEF Lasting, Holds, Offered
  <1>3. CASE Fetch(s) \/ FireEvents(s) \/ OnEvent(s) \/ FindNextBestSource(s) \/ UpdateEvent(s)
             \/ Dispatch(s) \/ Stopped(s)
    BY <1>1, <1>3 DEF Fetch, FireEvents, OnEvent, FindNextBestSource, UpdateEvent, Dispatch, Stopped
  <1> QED
    BY <1>2, <1>3 DEF Refresher

\* Steps that leave the reader alone.
LEMMA ReadFrame ==
    ASSUME TypeInv, ReadInv, \A s \in Sources \ Changing : store'[s] = store[s],
           UNCHANGED <<readVars, overlays>>, Added => Added',
           Added => \A o \in Sources, k \in Keys : Lasting(o, k) => Lasting(o, k)',
           Added' => \A k \in Keys : AlwaysHeld(k) => Lasting(keySourceMap[k], k)',
           \A s \in Sources : rpc'[s] \in {"find", "write"} => ~AlwaysHeld(ev'[s].key)
    PROVE  ReadInv'
  <1>1. ASSUME NEW k PROVE AlwaysHeld(k)' <=> AlwaysHeld(k)
    BY HeldSame
  <1>2. PICK r : r = readKey /\ r = readKey'
    BY DEF readVars
  <1>3. PICK o : o = readOwner /\ o = readOwner'
    BY DEF readVars
  <1>4. dpc' = dpc /\ got' = got /\ overlays' = overlays /\ r \in Keys
        /\ (dpc = "value" => o \in Sources)
    BY <1>2, <1>3 DEF readVars, TypeInv, TypeOK
  <1>5. (Added => \A k \in Keys : AlwaysHeld(k) => Lasting(keySourceMap[k], k))'
    BY <1>1
  <1>6. (\A s \in Sources : rpc[s] \in {"find", "write"} => ~AlwaysHeld(ev[s].key))'
    <2> SUFFICES ASSUME NEW s \in Sources, rpc'[s] \in {"find", "write"}
                 PROVE  ~AlwaysHeld(ev[s].key)'
      OBVIOUS
    <2>1. PICK k : k = ev'[s].key
      OBVIOUS
    <2>2. ~AlwaysHeld(k)
      BY <2>1
    <2>3. ~AlwaysHeld(k)'
      BY <1>1, <2>2
    <2> QED
      BY <2>1, <2>3
  <1>7. (dpc = "value" /\ AlwaysHeld(readKey) => Lasting(readOwner, readKey))'
    <2> SUFFICES ASSUME dpc' = "value", AlwaysHeld(readKey)' PROVE Lasting(readOwner, readKey)'
      OBVIOUS
    <2>1. AlwaysHeld(r)
      BY <1>1, <1>2
    <2>2. Lasting(o, r) /\ Added
      BY <1>2, <1>3, <1>4, <2>1 DEF ReadInv
    <2>3. Lasting(o, r)'
      BY <1>4, <2>2
    <2> QED
      BY <1>2, <1>3, <2>3
  <1>8. (dpc = "done" /\ AlwaysHeld(readKey) => got # NoValue)'
    <2>1. AlwaysHeld(readKey)' => AlwaysHeld(readKey)
      BY <1>1, <1>2
    <2> QED
      BY <1>4, <2>1 DEF ReadInv
  <1> QED
    BY <1>4, <1>5, <1>6, <1>7, <1>8 DEF ReadInv

\* When the last source is added, every key that is always held has a lasting owner.
LEMMA ReadAdd ==
    ASSUME TypeInv, TypeInv', OwnersInv, ContentInv', ReadInv, Changing \subseteq {"FileSource"}, Add
    PROVE  ReadInv'
  <1>1. ~Added
    BY DEF Add, AddSource, PullCopy, PullGet, PullPut, SetEventHandler, Added
  <1>2. Quiet /\ (\A k \in Keys : IsBest(keySourceMap[k], Holders(k)))
    BY <1>1 DEF OwnersInv, AddInv, OwnedInv, Added
  <1>3. UNCHANGED <<store, readVars, overlays>>
    BY DEF Add, AddSource, PullCopy, PullGet, PullPut, SetEventHandler, managerVars
  <1>4. \A t \in Sources : rpc'[t] \notin {"find", "write"}
    <2>1. CASE \E s \in Sources : AddSource(s)
      BY <1>2, <2>1 DEF AddSource, Quiet, TypeInv, TypeOK
    <2>2. CASE PullCopy \/ PullGet \/ PullPut \/ SetEventHandler
      BY <1>2, <2>2 DEF PullCopy, PullGet, PullPut, SetEventHandler, refreshVars, Quiet
    <2> QED
      BY <2>1, <2>2 DEF Add
  <1>5. ASSUME Added', NEW k \in Keys
        PROVE  IsBest(keySourceMap'[k], {t \in Sources : configs'[t][k] # NoValue})
    <2>1. \A t \in Sources : Known(t, k) = configs[t][k]
      BY <1>2 DEF Quiet, Known, Firing
    <2>2. ASSUME NEW s \in Sources, AddSource(s)
          PROVE  IsBest(keySourceMap'[k], {t \in Sources : configs'[t][k] # NoValue})
      <3>1. /\ mpc = "idle" /\ Sources = sources \cup {s} /\ s \notin sources /\ UNCHANGED keySourceMap
            /\ UNCHANGED configs
        BY <1>5, <2>2 DEF AddSource, Added
      <3>2. configs[s][k] = NoValue
        BY <3>1 DEF OwnersInv, SourceInv, Empty
      <3>3. Holders(k) = {t \in Sources : configs'[t][k] # NoValue}
        BY <2>1, <3>1, <3>2 DEF Holders, Waiting
      <3> QED
        BY <1>2, <3>1, <3>3
    <2>3. CASE SetEventHandler
      <3>1. /\ mpc = "pull" /\ pullTodo = {} /\ sources = Sources /\ UNCHANGED <<configs, keySourceMap>>
        BY <1>5, <2>3 DEF SetEventHandler, Added, managerVars
      <3>2. Holders(k) = {t \in Sources : configs'[t][k] # NoValue}
        BY <2>1, <3>1 DEF Holders, Waiting
      <3> QED
        BY <1>2, <3>1, <3>2
    <2>4. ~(PullCopy \/ PullGet \/ PullPut)
      BY <1>5 DEF PullCopy, PullGet, PullPut, Added
    <2> QED
      BY <2>2, <2>3, <2>4 DEF Add
  <1>6. ASSUME Added', NEW k \in Keys, AlwaysHeld(k) PROVE Lasting(keySourceMap[k], k)'
    <2>1. AlwaysHeld(k)' /\ sources' = Sources
      BY <1>3, <1>6, HeldSame DEF Added
    <2> QED
      BY <1>5, <1>6, <2>1, LastingStart
  <1> QED
    BY <1>1, <1>3, <1>4, <1>6, ReadFrame

\* No event takes such a key from its owner.
LEMMA ReadRefresher ==
    ASSUME TypeInv, OwnersInv, ContentInv, ReadInv, Changing \subseteq {"FileSource"},
           EarlyTick = FALSE, NEW s \in Sources, Refresher(s)
    PROVE  ReadInv'
  <1>1. UNCHANGED <<store, sources, mpc, readVars, overlays>>
    BY DEF Refresher, Fetch, FireEvents, OnEvent, FindNextBestSource, UpdateEvent, Dispatch, Commit,
           Stopped, managerVars, addVars
  <1>2. Added' <=> Added
    BY <1>1 DEF Added
  <1>3. ASSUME NEW o \in Sources, NEW k \in Keys, Lasting(o, k) PROVE Lasting(o, k)'
    BY <1>3, LastingKept
  <1>4. \A t \in Sources \ {s} : rpc'[t] = rpc[t] /\ ev'[t] = ev[t]
    BY DEF Refresher, Fetch, FireEvents, OnEvent, FindNextBestSource, UpdateEvent, Dispatch, Commit,
           Stopped, TypeInv, TypeOK
  <1>5. ASSUME NEW k \in Keys, Added, AlwaysHeld(k) PROVE keySourceMap'[k] = keySourceMap[k]
    <2>1. CASE UpdateEvent(s)
      <3>1. rpc[s] = "write" /\ keySourceMap' = [keySourceMap EXCEPT ![ev[s].key] = target[s]]
        BY <2>1 DEF UpdateEvent
      <3>2. k # ev[s].key
        BY <1>5, <3>1 DEF ReadInv
      <3> QED
        BY <3>1, <3>2 DEF TypeInv, TypeOK
    <2>2. CASE Fetch(s) \/ FireEvents(s) \/ OnEvent(s) \/ FindNextBestSource(s) \/ Dispatch(s)
               \/ Commit(s) \/ Stopped(s)
      BY <2>2 DEF Fetch, FireEvents, OnEvent, FindNextBestSource, Dispatch, Commit, Stopped, managerVars
    <2> QED
      BY <2>1, <2>2 DEF Refresher
  <1>6. ASSUME Added', NEW k \in Keys, AlwaysHeld(k) PROVE Lasting(keySourceMap[k], k)'
    <2>1. PICK o : o = keySourceMap[k] /\ o = keySourceMap'[k]
      BY <1>2, <1>5, <1>6
    <2>2. Lasting(o, k)
      BY <1>2, <1>6, <2>1 DEF ReadInv
    <2>3. Lasting(o, k)'
      BY <1>3, <2>2 DEF Lasting
    <2> QED
      BY <2>1, <2>3
  <1>7. ASSUME OnEvent(s), rpc'[s] \in {"find", "write"} PROVE ~AlwaysHeld(ev'[s].key)
    <2>1. rpc[s] = "fire" /\ Added
      BY <1>7, WorkingAdded DEF OnEvent, Added
    <2>2. PICK e \in events[s] :
             LET owner == keySourceMap[e.key]
                 ignored == formatKey[e.key] \in forbiddenKeys \/ ignoreChange(s, e, owner)
             IN /\ events' = [events EXCEPT ![s] = @ \ {e}]
                /\ IF ignored THEN UNCHANGED <<ev, target>>
                   ELSE ev' = [ev EXCEPT ![s] = e] /\ target' = [target EXCEPT ![s] = s]
                /\ rpc' = [rpc EXCEPT ![s] = CASE ignored -> "fire"
                                               [] ~ignored /\ e.type = "DELETE" -> "find"
                                               [] ~ignored /\ e.type # "DELETE" /\ owner = s
                                                     -> "dispatch"
                                               [] OTHER -> "write"]
      BY <1>7 DEF OnEvent
    <2>3. /\ ~ignoreChange(s, e, keySourceMap[e.key]) /\ ev'[s] = e
          /\ e.type = "DELETE" \/ keySourceMap[e.key] # s
      BY <1>7, <2>2 DEF TypeInv, TypeOK
    <2>4. /\ s \in Changing /\ newConfig[s] \in Contents /\ newConfig[s] \in Config
          /\ configs[s] \in Config /\ e \in PopulateEvents(configs[s], newConfig[s])
      BY <2>1, FiresChanging DEF OwnersInv, SourceInv, Firing, ContentInv, TypeInv, TypeOK
    <2>5. e.key \in Keys /\ (e.type = "DELETE" => newConfig[s][e.key] = NoValue)
      BY <2>4, EventFacts
    <2>6. SUFFICES ASSUME AlwaysHeld(e.key) PROVE FALSE
      BY <2>3
    <2>7. PICK o : o = keySourceMap[e.key] /\ Lasting(o, e.key)
      BY <2>1, <2>5, <2>6 DEF ReadInv
    <2>8. CASE e.type = "DELETE"
      <3>1. o = s
        BY <2>3, <2>7, <2>8 DEF ignoreChange
      <3>2. newConfig[s][e.key] # NoValue
        BY <2>4, <2>7, <3>1 DEF Lasting, Offered
      <3> QED
        BY <2>5, <2>8, <3>2
    <2>9. CASE e.type # "DELETE"
      <3>1. o \in Sources /\ o # s /\ ~(GetPriority(o) < GetPriority(s)) /\ o # NoSource
        BY <2>3, <2>7, <2>9, ConstantFacts DEF ignoreChange, Lasting
      <3>2. s = "FileSource" /\ GetPriority(s) = 21
        BY <2>4 DEF GetPriority
      <3> QED
        BY <3>1, <3>2, SourcesAssumption DEF GetPriority, RefreshedSources
    <2> QED
      BY <2>8, <2>9
  <1>8. ASSUME NEW t \in Sources, rpc'[t] \in {"find", "write"} PROVE ~AlwaysHeld(ev'[t].key)
    <2>1. CASE t # s
      BY <1>4, <1>8, <2>1 DEF ReadInv
    <2>2. CASE t = s /\ ~OnEvent(s)
      <3>1. rpc[s] = "find" /\ ev' = ev
        BY <1>8, <2>2 DEF Refresher, Fetch, FireEvents, FindNextBestSource, UpdateEvent, Dispatch, Commit,
                          Stopped, TypeInv, TypeOK
      <3> QED
        BY <2>2, <3>1 DEF ReadInv
    <2> QED
      BY <1>7, <1>8, <2>1, <2>2
  <1> QED
    BY <1>1, <1>2, <1>3, <1>6, <1>8, ReadFrame

\* A reader gets an overlay or the value of a lasting owner.
LEMMA ReadCalls ==
    ASSUME TypeInv, ReadInv, NoValue \notin Values, TombValue \notin Values,
           "DeleteConfig" \notin RuntimeCalls,
           Get \/ Close \/ Runtime \/ WatchRead \/ Watch \/ UNCHANGED vars
    PROVE  ReadInv'
  <1>1. UNCHANGED <<store, sources, keySourceMap, configs, rpc, ev, mpc>>
    BY CallsFrame
  <1>2. ASSUME NEW o, NEW k PROVE Lasting(o, k)' <=> Lasting(o, k)
    BY <1>1 DEF Lasting, Holds, Offered
  <1>3. ASSUME NEW k PROVE AlwaysHeld(k)' <=> AlwaysHeld(k)
    BY <1>1, HeldSame
  <1>4. /\ (Added => \A k \in Keys : AlwaysHeld(k) => Lasting(keySourceMap[k], k))'
        /\ (\A s \in Sources : rpc[s] \in {"find", "write"} => ~AlwaysHeld(ev[s].key))'
    <2>1. ASSUME Added', NEW k \in Keys, AlwaysHeld(k)' PROVE Lasting(keySourceMap[k], k)'
      <3>1. PICK o : o = keySourceMap[k] /\ o = keySourceMap'[k]
        BY <1>1
      <3>2. Lasting(o, k)
        BY <1>1, <1>3, <2>1, <3>1 DEF ReadInv, Added
      <3>3. Lasting(o, k)'
        BY <1>2, <3>2
      <3> QED
        BY <3>1, <3>3
    <2>2. ASSUME NEW s \in Sources, rpc'[s] \in {"find", "write"} PROVE ~AlwaysHeld(ev[s].key)'
      <3>1. PICK k : k = ev[s].key /\ k = ev'[s].key
        BY <1>1
      <3>2. ~AlwaysHeld(k)
        BY <1>1, <2>2, <3>1 DEF ReadInv
      <3>3. ~AlwaysHeld(k)'
        BY <1>3, <3>2
      <3> QED
        BY <3>1, <3>3
    <2> QED
      BY <2>1, <2>2
  <1>5. ASSUME UNCHANGED readVars, overlays' \in [Keys -> Values \cup {NoValue}] PROVE ReadInv'
    <2>1. PICK r : r = readKey /\ r = readKey'
      BY <1>5 DEF readVars
    <2>2. PICK o : o = readOwner /\ o = readOwner'
      BY <1>5 DEF readVars
    <2>3. AlwaysHeld(readKey)' => AlwaysHeld(readKey)
      BY <1>3, <2>1
    <2>4. Lasting(readOwner, readKey) => Lasting(readOwner, readKey)'
      BY <1>2, <2>1, <2>2
    <2> QED
      BY <1>1, <1>4, <1>5, <2>3, <2>4 DEF ReadInv, Added, readVars
  <1>6. CASE Runtime
    <2>1. UNCHANGED readVars
      BY <1>6 DEF Runtime, SetConfig, SetMapConfig, DeleteConfig, ResetConfig, ForbidUpdate, Overlay
    <2>2. formatKey \in [Keys -> Keys] /\ overlays \in [Keys -> Values \cup {NoValue}]
      BY ConstantFacts DEF ReadInv
    <2>3. overlays' \in [Keys -> Values \cup {NoValue}]
      BY <1>6, <2>2 DEF Runtime, SetConfig, SetMapConfig, DeleteConfig, ResetConfig, ForbidUpdate, Overlay
    <2> QED
      BY <1>5, <2>1, <2>3
  <1>7. CASE Close \/ WatchRead \/ Watch \/ UNCHANGED vars
    <2>1. UNCHANGED <<readVars, overlays>>
      BY <1>7 DEF Close, CloseCall, CloseSource, ClosedSource, WatchRead, Watch, vars, managerVars
    <2> QED
      BY <1>5, <2>1 DEF ReadInv
  <1>8. ASSUME Get PROVE overlays' \in [Keys -> Values \cup {NoValue}]
    BY <1>8 DEF Get, GetOverlay, GetOwner, GetConfigurationByKey, GetReturn, managerVars, ReadInv
  <1>9. ASSUME NEW k \in Keys, GetOverlay(k) PROVE ReadInv'
    <2>1. Added' /\ overlays[formatKey[k]] \in Values \cup {NoValue}
      BY <1>1, <1>9, ConstantFacts DEF GetOverlay, Added, ReadInv
    <2>2. \/ dpc' = "owner"
          \/ dpc' = "done" /\ got' # NoValue
      BY <1>9, <2>1 DEF GetOverlay, unlessTomb
    <2>3. Get
      BY <1>9 DEF Get
    <2> QED
      BY <1>4, <1>8, <2>1, <2>2, <2>3 DEF ReadInv
  <1>10. CASE GetOwner
    <2>1. /\ dpc = "owner" /\ readKey' = readKey /\ readOwner' = keySourceMap[readKey] /\ Added
          /\ dpc' = IF keySourceMap[readKey] = NoSource THEN "done" ELSE "value"
          /\ readKey \in Keys /\ Get
      BY <1>10 DEF GetOwner, ReadInv, TypeInv, TypeOK, Get
    <2>2. PICK r : r = readKey /\ r = readKey'
      BY <2>1
    <2>3. PICK o : o = keySourceMap[r] /\ o = readOwner'
      BY <2>1, <2>2
    <2>4. AlwaysHeld(r) => Lasting(o, r) /\ o # NoSource
      BY <2>1, <2>2, <2>3, ConstantFacts DEF ReadInv, Lasting
    <2>5. AlwaysHeld(r)' => Lasting(o, r)' /\ o # NoSource
      BY <1>2, <1>3, <2>4
    <2>6. (dpc = "value" /\ AlwaysHeld(readKey) => Lasting(readOwner, readKey))'
      BY <2>2, <2>3, <2>5
    <2>7. (dpc = "done" /\ AlwaysHeld(readKey) => got # NoValue)'
      <3>1. AlwaysHeld(readKey)' => dpc' # "done"
        BY <2>1, <2>2, <2>3, <2>5
      <3> QED
        BY <3>1
    <2>8. Added'
      BY <1>1, <2>1 DEF Added
    <2> QED
      BY <1>4, <1>8, <2>1, <2>6, <2>7, <2>8 DEF ReadInv
  <1>11. CASE GetConfigurationByKey
    <2>1. /\ dpc = "value" /\ dpc' = "done" /\ readKey' = readKey /\ got' = configs[readOwner][readKey]
          /\ Added /\ Get
      BY <1>11 DEF GetConfigurationByKey, ReadInv, Get
    <2>2. PICK r : r = readKey /\ r = readKey'
      BY <2>1
    <2>3. AlwaysHeld(r)' => AlwaysHeld(r)
      BY <1>3
    <2>4. AlwaysHeld(r) => got' # NoValue
      BY <2>1, <2>2 DEF ReadInv, Lasting, Holds
    <2>5. (dpc = "done" /\ AlwaysHeld(readKey) => got # NoValue)'
      BY <2>2, <2>3, <2>4
    <2>6. Added'
      BY <1>1, <2>1 DEF Added
    <2> QED
      BY <1>4, <1>8, <2>1, <2>5, <2>6 DEF ReadInv
  <1>12. CASE GetReturn
    <2>1. dpc' = "idle" /\ Get
      BY <1>12 DEF GetReturn, Get
    <2> QED
      BY <1>4, <1>8, <2>1 DEF ReadInv
  <1> QED
    BY <1>6, <1>7, <1>9, <1>10, <1>11, <1>12 DEF Get

\* Where only the files change, a key that some source holds all the time is never reported
\* missing: whatever the refresher does between the three looks of GetConfig, at overlays, at
\* keySourceMap and at the source, the owner it found still has a value.  Values may be set
\* and reset and keys forbidden meanwhile; a key deleted by DeleteConfig is of course missing.
THEOREM ReadersFind ==
    ASSUME EarlyTick = FALSE, Changing \subseteq {"FileSource"},
           "DeleteConfig" \notin RuntimeCalls, NoValue \notin Values, TombValue \notin Values
    PROVE  Spec => []NeverMissing
  <1>0. \A s, t \in Changing : s = t
    OBVIOUS
  <1>1. Init => ReadInv
    <2> SUFFICES ASSUME Init PROVE ReadInv
      OBVIOUS
    <2>1. Added => Sources = {}
      BY DEF Init, Added
    <2>2. ~\E k \in Keys : Added /\ AlwaysHeld(k)
      BY <2>1 DEF AlwaysHeld
    <2>3. overlays \in [Keys -> Values \cup {NoValue}]
      BY DEF Init, Empty
    <2> QED
      BY <2>2, <2>3 DEF Init, ReadInv
  <1>2. TypeInv /\ TypeInv' /\ OwnersInv /\ ContentInv /\ ContentInv' /\ ReadInv /\ [Next]_vars => ReadInv'
    <2> SUFFICES ASSUME TypeInv, TypeInv', OwnersInv, ContentInv, ContentInv', ReadInv, [Next]_vars
                 PROVE  ReadInv'
      OBVIOUS
    <2>1. CASE Add
      BY <2>1, ReadAdd
    <2>2. CASE Get \/ Close \/ Runtime \/ WatchRead \/ Watch \/ UNCHANGED vars
      BY <2>2, ReadCalls
    <2>3. ASSUME NEW s \in Sources, Refresher(s) PROVE ReadInv'
      BY <2>3, ReadRefresher
    <2>4. ASSUME NEW s \in Sources, Change(s) PROVE ReadInv'
      <3>1. /\ UNCHANGED <<sources, keySourceMap, overlays, configs, rpc, ev, mpc, readVars>>
            /\ \A t \in Sources \ Changing : store'[t] = store[t]
        BY <2>4 DEF Change, managerVars, refreshVars, addVars, TypeInv, TypeOK
      <3>2. ASSUME NEW o, NEW k PROVE Lasting(o, k)' <=> Lasting(o, k)
        BY <3>1 DEF Lasting, Holds, Offered
      <3>3. ASSUME Added', NEW k \in Keys, AlwaysHeld(k) PROVE Lasting(keySourceMap[k], k)'
        <4>1. PICK o : o = keySourceMap[k] /\ o = keySourceMap'[k]
          BY <3>1
        <4>2. Lasting(o, k)
          BY <3>1, <3>3, <4>1 DEF ReadInv, Added
        <4> QED
          BY <3>2, <4>1, <4>2
      <3>4. Added => Added'
        BY <3>1 DEF Added
      <3>5. \A t \in Sources : rpc'[t] \in {"find", "write"} => ~AlwaysHeld(ev'[t].key)
        BY <3>1 DEF ReadInv
      <3> QED
        BY <3>1, <3>2, <3>3, <3>4, <3>5, ReadFrame
    <2> QED
      BY <2>1, <2>2, <2>3, <2>4 DEF Next
  <1>3. ReadInv => NeverMissing
    BY DEF ReadInv, NeverMissing
  <1> QED
    BY <1>0, <1>1, <1>2, <1>3, TypeInvariance, OwnersInvariance, ContentInvariance, PTL DEF Spec
-------------------------------------------------------------------------------
(* The watcher. *)

\* The sources that hold k and do not change.
Statics(k) == {t \in Sources \ Changing : Holds(t, k)}

\* s is about to tell the watcher something, now or later in this refresh.
Telling(s) == rpc[s] \in {"find", "write", "dispatch"} /\ formatKey[ev[s].key] = WatchKey
Coming(s)  == Telling(s) \/ \E e \in events[s] : formatKey[e.key] = WatchKey

\* The watcher has the value of the best of the sources that do not change; where these do
\* not hold the key, that of the source that does, or that of its new content once all
\* events of this are out.
WatchedInv ==
    /\ \A t \in Statics(WatchKey) :
          (\A u \in Statics(WatchKey) : GetPriority(t) <= GetPriority(u))
              => watched = configs[t][WatchKey]
    /\ Statics(WatchKey) = {} => \A s \in Changing :
          /\ ~Firing(s) /\ configs[s][WatchKey] # NoValue => watched = configs[s][WatchKey]
          /\ Firing(s) /\ ~Coming(s) /\ newConfig[s][WatchKey] # NoValue
                => watched = newConfig[s][WatchKey]

\* No event reaches the watcher while a source of higher priority holds the key.
WatchInv ==
    /\ overlays = Empty /\ forbiddenKeys = {}
    /\ \A s \in Sources, k \in Keys : configs[s][k] = configs[s][formatKey[k]]
    /\ \A s \in Sources : rpc[s] = "dispatch" => ev[s] \in PopulateEvents(configs[s], newConfig[s])
    /\ \A s \in Sources : Telling(s) => Statics(WatchKey) = {}
    /\ wpc # "none" => Added /\ WatchedInv
    /\ wpc = "read" => Quiet

\* A file lists a key under both spellings (loadFromFile).
BothSpellings == \A c \in Contents, k \in Keys : c[k] = c[formatKey[k]]

WatchHyp == /\ EarlyTick = FALSE /\ WatchRaces = FALSE /\ RuntimeCalls = {}
            /\ Changing \subseteq {"FileSource"} /\ BothSpellings

\* The watched key is a formatted one.
LEMMA WatchKeyFacts == WatchKey \in Keys /\ formatKey[WatchKey] = WatchKey
  <1>1. \A k \in Keys : formatKey[formatKey[k]] = formatKey[k]
    BY ContentsAssumption
  <1>2. (CHOOSE k \in Keys : TRUE) \in Keys
    BY ContentsAssumption
  <1> QED
    BY <1>1, <1>2, ConstantFacts DEF WatchKey

\* The source of lowest priority is the one that changes.
LEMMA StaticFirst ==
    ASSUME Changing \subseteq {"FileSource"}, NEW s \in Changing, NEW t \in Sources \ Changing
    PROVE  GetPriority(t) < GetPriority(s)
  BY SourcesAssumption DEF GetPriority, RefreshedSources

\* Nothing of a key in either spelling is held by a source that does not change, or all.
LEMMA StaticsAlike ==
    ASSUME WatchInv, NEW k \in Keys, formatKey[k] = WatchKey
    PROVE  Statics(k) = Statics(WatchKey)
  BY DEF WatchInv, Statics, Holds

\* Nobody watches while sources are added.
LEMMA WatchAdd ==
    ASSUME TypeInv, OwnersInv, WatchInv, WatchHyp, Add
    PROVE  WatchInv'
  <1>1. ~Added
    BY DEF Add, AddSource, PullCopy, PullGet, PullPut, SetEventHandler, Added
  <1>2. Quiet /\ wpc = "none"
    BY <1>1 DEF OwnersInv, AddInv, Added, WatchInv
  <1>3. UNCHANGED <<overlays, forbiddenKeys, watchVars>>
    BY DEF Add, AddSource, PullCopy, PullGet, PullPut, SetEventHandler, managerVars
  <1>4. \A t \in Sources : rpc'[t] \notin {"find", "write", "dispatch"}
    <2>1. CASE \E s \in Sources : AddSource(s)
      BY <1>2, <2>1 DEF AddSource, Quiet, TypeInv, TypeOK
    <2>2. CASE PullCopy \/ PullGet \/ PullPut \/ SetEventHandler
      BY <1>2, <2>2 DEF PullCopy, PullGet, PullPut, SetEventHandler, refreshVars, Quiet
    <2> QED
      BY <2>1, <2>2 DEF Add
  <1>5. \A t \in Sources, k \in Keys : configs'[t][k] = configs'[t][formatKey[k]]
    <2>1. ASSUME NEW s \in Sources, AddSource(s)
          PROVE  \A t \in Sources, k \in Keys : configs'[t][k] = configs'[t][formatKey[k]]
      <3>1. CASE store[s] = Broken
        BY <2>1, <3>1 DEF AddSource, WatchInv
      <3>2. CASE store[s] # Broken
        <4>1. store[s] \in Contents /\ configs' = [configs EXCEPT ![s] = store[s]]
          BY <2>1, <3>2 DEF AddSource, TypeInv, TypeOK
        <4> QED
          BY <4>1 DEF WatchInv, WatchHyp, BothSpellings, TypeInv, TypeOK
      <3> QED
        BY <3>1, <3>2
    <2>2. CASE PullCopy \/ PullGet \/ PullPut \/ SetEventHandler
      BY <2>2 DEF PullCopy, PullGet, PullPut, SetEventHandler, WatchInv
    <2> QED
      BY <2>1, <2>2 DEF Add
  <1> QED
    BY <1>2, <1>3, <1>4, <1>5 DEF WatchInv, Telling, watchVars

\* A reader that finds the watcher's key finds the value of the best source.
LEMMA WatchReads ==
    ASSUME TypeInv, OwnersInv, WatchInv, WatchHyp, WatchRead
    PROVE  WatchInv'
  <1>1. /\ wpc = "none" /\ wpc' = "read" /\ Added /\ Quiet /\ watched' = GetConfig(WatchKey)
        /\ UNCHANGED <<sources, overlays, forbiddenKeys, configs, rpc, newConfig, events, ev, mpc>>
    BY DEF WatchRead, WatchHyp, managerVars, refreshVars, addVars, Added
  <1> DEFINE C == {t \in Sources : configs[t][WatchKey] # NoValue}
  <1>2. IsBest(keySourceMap[WatchKey], C)
    <2>1. \A t \in Sources : Known(t, WatchKey) = configs[t][WatchKey]
      BY <1>1 DEF Known, Firing, Quiet
    <2>2. Holders(WatchKey) = C
      BY <1>1, <2>1 DEF Holders, Waiting, Added
    <2> QED
      BY <2>2, WatchKeyFacts DEF OwnersInv, OwnedInv, WatchInv
  <1>3. watched' = IF keySourceMap[WatchKey] = NoSource THEN NoValue
                   ELSE configs[keySourceMap[WatchKey]][WatchKey]
    BY <1>1, WatchKeyFacts DEF GetConfig, WatchInv, Empty
  <1>4. ASSUME NEW x \in C, \A t \in C : GetPriority(x) <= GetPriority(t)
        PROVE  watched' = configs[x][WatchKey]
    <2>1. IsBest(x, C)
      BY <1>4 DEF IsBest
    <2>2. x = keySourceMap[WatchKey]
      BY <1>2, <2>1, BestFacts
    <2> QED
      BY <1>3, <1>4, <2>2, ConstantFacts
  <1>5. /\ \A t \in Sources : GetPriority(t) \in Nat
        /\ \A s \in Changing, t \in Sources \ Changing : GetPriority(t) < GetPriority(s)
        /\ Changing \subseteq Sources /\ \A s, t \in Changing : s = t
    BY PriorityNat, StaticFirst, SourcesAssumption DEF WatchHyp
  <1>6. Statics(WatchKey) = C \ Changing /\ Statics(WatchKey)' = C \ Changing
    BY <1>1 DEF Statics, Holds
  <1>7. ASSUME NEW t \in C \ Changing, \A u \in C \ Changing : GetPriority(t) <= GetPriority(u)
        PROVE  watched' = configs[t][WatchKey]
    <2>1. \A u \in C : GetPriority(t) <= GetPriority(u)
      BY <1>5, <1>7
    <2> QED
      BY <1>4, <2>1
  <1>8. ASSUME C \ Changing = {}, NEW s \in Changing, configs[s][WatchKey] # NoValue
        PROVE  watched' = configs[s][WatchKey]
    <2>1. s \in C /\ \A u \in C : GetPriority(s) <= GetPriority(u)
      <3>1. C = {s}
        BY <1>5, <1>8
      <3> QED
        BY <1>5, <3>1
    <2> QED
      BY <1>4, <2>1
  <1>9. \A s \in Sources : ~Firing(s)'
    BY <1>1 DEF Quiet, Firing
  <1>10. WatchedInv'
    BY <1>1, <1>5, <1>6, <1>7, <1>8, <1>9 DEF WatchedInv
  <1>11. Quiet' /\ Added'
    BY <1>1 DEF Quiet, Added
  <1>12. \A s \in Sources : rpc'[s] \notin {"find", "write", "dispatch"}
    BY <1>11 DEF Quiet
  <1> QED
    BY <1>1, <1>10, <1>11, <1>12 DEF WatchInv, Telling

\* Other calls leave the watcher alone.
LEMMA WatchCalls ==
    ASSUME TypeInv, WatchInv, WatchHyp,
           Get \/ Close \/ Runtime \/ Watch \/ (\E s \in Sources : Change(s)) \/ UNCHANGED vars
    PROVE  WatchInv'
  <1>1. UNCHANGED <<sources, configs, rpc, newConfig, events, ev, mpc>>
    BY CallsFrame DEF Change, managerVars, refreshVars, addVars
  <1>2. ~Runtime
    BY DEF WatchHyp, Runtime, SetConfig, SetMapConfig, DeleteConfig, ResetConfig, ForbidUpdate, Overlay
  <1>3. UNCHANGED <<overlays, forbiddenKeys, watched>> /\ (wpc' = wpc \/ (wpc = "read" /\ wpc' = "on"))
    <2>1. CASE Get
      BY <2>1 DEF Get, GetOverlay, GetOwner, GetConfigurationByKey, GetReturn, managerVars, watchVars
    <2>2. CASE Close
      BY <2>2 DEF Close, CloseCall, CloseSource, ClosedSource, managerVars, watchVars
    <2>3. CASE Watch \/ (\E s \in Sources : Change(s)) \/ UNCHANGED vars
      BY <2>3 DEF Watch, Change, vars, managerVars, watchVars
    <2> QED
      BY <1>2, <2>1, <2>2, <2>3
  <1>4. /\ Statics(WatchKey)' = Statics(WatchKey)
        /\ \A s \in Sources : /\ Telling(s)' <=> Telling(s)
                              /\ Coming(s)' <=> Coming(s)
                              /\ Firing(s)' <=> Firing(s)
    BY <1>1 DEF Statics, Holds, Telling, Coming, Firing
  <1>5. WatchedInv => WatchedInv'
    BY <1>1, <1>3, <1>4, SourcesAssumption DEF WatchedInv
  <1> QED
    BY <1>1, <1>3, <1>4, <1>5 DEF WatchInv, Added, Quiet

\* What a step of the refresher of s leaves alone, whatever it is.
LEMMA RefresherFrame ==
    ASSUME TypeInv, OwnersInv, NEW s \in Sources, Refresher(s)
    PROVE  /\ UNCHANGED <<store, sources, overlays, forbiddenKeys, mpc, wpc>>
           /\ \A t \in Sources \ {s} : /\ rpc'[t] = rpc[t] /\ newConfig'[t] = newConfig[t]
                                       /\ events'[t] = events[t] /\ ev'[t] = ev[t]
                                       /\ configs'[t] = configs[t]
           /\ s \notin Changing => configs'[s] = configs[s]
           /\ ~Commit(s) => configs' = configs
  <1>1. UNCHANGED <<store, sources, overlays, forbiddenKeys, mpc, wpc>>
    BY DEF Refresher, Fetch, FireEvents, OnEvent, FindNextBestSource, UpdateEvent, Dispatch, Commit,
           Stopped, managerVars, addVars, watchVars
  <1>2. \A t \in Sources \ {s} : /\ rpc'[t] = rpc[t] /\ newConfig'[t] = newConfig[t]
                                 /\ events'[t] = events[t] /\ ev'[t] = ev[t]
                                 /\ configs'[t] = configs[t]
    BY DEF Refresher, Fetch, FireEvents, OnEvent, FindNextBestSource, UpdateEvent, Dispatch, Commit,
           Stopped, TypeInv, TypeOK
  <1>3. ~Commit(s) => configs' = configs
    BY DEF Refresher, Fetch, FireEvents, OnEvent, FindNextBestSource, UpdateEvent, Dispatch, Stopped
  <1>4. ASSUME Commit(s), s \notin Changing PROVE configs'[s] = configs[s]
    BY <1>4 DEF Commit, OwnersInv, SourceInv, TypeInv, TypeOK
  <1> QED
    BY <1>1, <1>2, <1>3, <1>4

\* An event of either spelling passes the Manager exactly when no other source holds the key.
LEMMA WatchedEvent ==
    ASSUME TypeInv, OwnersInv, WatchInv, WatchHyp, NEW s \in Changing, NEW e \in events[s],
           formatKey[e.key] = WatchKey, rpc[s] = "fire"
    PROVE  /\ Statics(WatchKey) # {} => ignoreChange(s, e, keySourceMap[e.key])
           /\ Statics(WatchKey) = {} /\ e.type # "DELETE" => ~ignoreChange(s, e, keySourceMap[e.key])
  <1>1. s \in Sources /\ Added
    BY SourcesAssumption, WorkingAdded DEF Added
  <1>2. e \in PopulateEvents(configs[s], newConfig[s]) /\ e.key \in Keys
    <2>1. SourceInv(s) /\ Firing(s) /\ configs[s] \in Config /\ newConfig[s] \in Config
      BY <1>1 DEF OwnersInv, Firing, TypeInv, TypeOK
    <2>2. e \in PopulateEvents(configs[s], newConfig[s])
      BY <2>1 DEF SourceInv
    <2> QED
      BY <2>1, <2>2, EventFacts
  <1>3. IsBest(keySourceMap[e.key], Holders(e.key))
    BY <1>2 DEF OwnersInv, OwnedInv, WatchInv
  <1>4. Holders(e.key) \ {s} = Statics(e.key) /\ Holders(e.key) \subseteq Sources
    <2>1. \A t \in Sources \ {s} : t \in Sources \ Changing /\ Known(t, e.key) = configs[t][e.key]
      <3>1. \A t \in Sources \ {s} : t \in Sources \ Changing /\ SourceInv(t)
        BY DEF WatchHyp, OwnersInv
      <3> QED
        BY <3>1, StaticKnown
    <2>2. Holders(e.key) = {t \in Sources : Known(t, e.key) # NoValue}
      BY <1>1 DEF Holders, Waiting, Added
    <2> QED
      BY <2>1, <2>2 DEF Statics, Holds
  <1>5. Statics(e.key) = Statics(WatchKey)
    BY <1>2, StaticsAlike
  <1>6. /\ \A t \in Sources : GetPriority(t) \in Nat
        /\ \A t \in Sources \ Changing : GetPriority(t) < GetPriority(s)
    BY PriorityNat, StaticFirst DEF WatchHyp
  <1>7. CASE Statics(WatchKey) # {}
    <2>1. keySourceMap[e.key] \in Sources /\ GetPriority(keySourceMap[e.key]) < GetPriority(s)
      <3>1. PICK t \in Statics(WatchKey) : t \in Holders(e.key) /\ t \in Sources \ Changing
        BY <1>4, <1>5, <1>7 DEF Statics
      <3>2. /\ keySourceMap[e.key] \in Sources
            /\ GetPriority(keySourceMap[e.key]) <= GetPriority(t)
        BY <1>3, <1>4, <3>1 DEF IsBest
      <3> QED
        BY <1>1, <1>6, <3>1, <3>2
    <2> QED
      BY <1>1, <1>6, <1>7, <2>1, ConstantFacts DEF ignoreChange
  <1>8. CASE Statics(WatchKey) = {}
    <2>1. Holders(e.key) \subseteq {s}
      BY <1>4, <1>5, <1>8
    <2>2. keySourceMap[e.key] \in {s, NoSource}
      BY <1>3, <2>1 DEF IsBest
    <2> QED
      BY <1>8, <2>2 DEF ignoreChange
  <1> QED
    BY <1>7, <1>8

\* The steps of a refresher: events of an overruled source do not come through, those of the
\* source that owns the key bring the value of its new content.
LEMMA WatchRefresher ==
    ASSUME TypeInv, OwnersInv, ContentInv, WatchInv, WatchHyp, NEW s \in Sources, Refresher(s)
    PROVE  WatchInv'
  <1>1. /\ UNCHANGED <<store, sources, overlays, forbiddenKeys, mpc, wpc>>
        /\ \A t \in Sources \ {s} : /\ rpc'[t] = rpc[t] /\ newConfig'[t] = newConfig[t]
                                    /\ events'[t] = events[t] /\ ev'[t] = ev[t]
                                    /\ configs'[t] = configs[t]
        /\ s \notin Changing => configs'[s] = configs[s]
        /\ ~Commit(s) => configs' = configs
    BY RefresherFrame
  <1>2. Statics(WatchKey)' = Statics(WatchKey)
    BY <1>1 DEF Statics, Holds
  <1>3. configs[s] \in Config /\ newConfig[s] \in Config /\ SourceInv(s)
        /\ Changing \subseteq Sources /\ \A t, u \in Changing : t = u
    BY SourcesAssumption DEF TypeInv, TypeOK, OwnersInv, WatchHyp
  <1>4. Firing(s) => newConfig[s] \in Contents /\ newConfig[s] \in Config
                     /\ \A k \in Keys : newConfig[s][k] = newConfig[s][formatKey[k]]
    BY <1>3 DEF ContentInv, WatchHyp, BothSpellings
  <1>5. \A t \in Sources, k \in Keys : configs'[t][k] = configs'[t][formatKey[k]]
    <2>1. CASE ~Commit(s)
      BY <1>1, <2>1 DEF WatchInv
    <2>2. CASE Commit(s)
      <3>1. Firing(s) /\ configs'[s] = newConfig[s]
        BY <2>2 DEF Commit, Firing, TypeInv, TypeOK
      <3> QED
        BY <1>1, <1>4, <3>1 DEF WatchInv
    <2> QED
      BY <2>1, <2>2
  <1>6. ASSUME wpc = "read" PROVE Quiet'
    <2>1. rpc[s] \in {"off", "wait", "stopped"} /\ ~Fetch(s)
      BY <1>6 DEF WatchInv, Quiet, Fetch, WatchHyp
    <2>2. rpc'[s] = "stopped"
      BY <2>1 DEF Refresher, FireEvents, OnEvent, FindNextBestSource, UpdateEvent, Dispatch, Commit,
                  Stopped, TypeInv, TypeOK
    <2> QED
      BY <1>1, <1>6, <2>2 DEF WatchInv, Quiet
  \* It is enough to look at s and, if the watcher is there, at what it is told.
  <1>7. ASSUME rpc'[s] = "dispatch" => ev'[s] \in PopulateEvents(configs'[s], newConfig'[s]),
               Telling(s)' => Statics(WatchKey) = {},
               wpc # "none" /\ Statics(WatchKey) # {} => watched' = watched,
               wpc # "none" /\ s \notin Changing => watched' = watched,
               wpc # "none" /\ Statics(WatchKey) = {} /\ s \in Changing =>
                  /\ ~Firing(s)' /\ configs'[s][WatchKey] # NoValue => watched' = configs'[s][WatchKey]
                  /\ Firing(s)' /\ ~Coming(s)' /\ newConfig'[s][WatchKey] # NoValue
                        => watched' = newConfig'[s][WatchKey]
        PROVE  WatchInv'
    <2>1. \A t \in Sources : rpc'[t] = "dispatch" => ev'[t] \in PopulateEvents(configs'[t], newConfig'[t])
      BY <1>1, <1>7 DEF WatchInv
    <2>2. \A t \in Sources : Telling(t)' => Statics(WatchKey) = {}
      BY <1>1, <1>7 DEF WatchInv, Telling
    <2>3. ASSUME wpc # "none" PROVE WatchedInv'
      <3>1. WatchedInv
        BY <2>3 DEF WatchInv
      <3>2. CASE Statics(WatchKey) # {}
        <4>1. \A t \in Statics(WatchKey) : configs'[t] = configs[t]
          BY <1>1 DEF Statics
        <4> QED
          BY <1>2, <1>7, <2>3, <3>1, <3>2, <4>1 DEF WatchedInv
      <3>3. CASE Statics(WatchKey) = {} /\ s \in Changing
        BY <1>2, <1>3, <1>7, <2>3, <3>3 DEF WatchedInv
      <3>4. CASE Statics(WatchKey) = {} /\ s \notin Changing
        <4>1. \A t \in Changing : /\ t \in Sources \ {s}
                                  /\ Firing(t)' <=> Firing(t)
                                  /\ Coming(t)' <=> Coming(t)
          BY <1>1, <1>3, <3>4 DEF Firing, Coming, Telling
        <4> QED
          BY <1>1, <1>2, <1>7, <2>3, <3>1, <3>4, <4>1 DEF WatchedInv
      <3> QED
        BY <3>2, <3>3, <3>4
    <2> QED
      BY <1>1, <1>2, <1>5, <1>6, <2>1, <2>2, <2>3 DEF WatchInv, Added
  <1>8. ASSUME wpc # "none", Statics(WatchKey) = {}, s \in Changing
        PROVE  /\ ~Firing(s) /\ configs[s][WatchKey] # NoValue => watched = configs[s][WatchKey]
               /\ Firing(s) /\ ~Coming(s) /\ newConfig[s][WatchKey] # NoValue
                     => watched = newConfig[s][WatchKey]
    BY <1>8 DEF WatchInv, WatchedInv
  <1>9. CASE Fetch(s) \/ Stopped(s)
    <2>1. /\ rpc[s] = "wait" /\ rpc'[s] \in {"stuck", "fetched", "stopped"} /\ configs' = configs
          /\ watched' = watched
      BY <1>9 DEF Fetch, Stopped, TypeInv, TypeOK, watchVars
    <2> QED
      BY <1>7, <1>8, <2>1 DEF Firing, Telling
  <1>10. CASE FireEvents(s)
    <2>1. /\ rpc[s] = "fetched" /\ rpc'[s] = "fire" /\ watched' = watched
          /\ UNCHANGED <<configs, newConfig, ev>>
      BY <1>10 DEF FireEvents, TypeInv, TypeOK, watchVars
    <2>2. handler[s]
      BY <1>3, <2>1, WorkingAdded DEF SourceInv
    <2>3. events'[s] = PopulateEvents(configs[s], newConfig[s])
      BY <1>10, <2>2 DEF FireEvents, TypeInv, TypeOK
    <2>4. ~Coming(s)' => configs[s][WatchKey] = newConfig[s][WatchKey]
      <3>1. SUFFICES ASSUME ~Coming(s)' PROVE configs[s][WatchKey] = newConfig[s][WatchKey]
        OBVIOUS
      <3>2. \A e \in PopulateEvents(configs[s], newConfig[s]) : e.key # WatchKey
        BY <2>3, <3>1, WatchKeyFacts DEF Coming
      <3> QED
        BY <1>3, <3>2, NoEventSame, WatchKeyFacts
    <2>5. ~Firing(s) /\ ~Telling(s)'
      BY <2>1 DEF Firing, Telling
    <2> QED
      BY <1>7, <1>8, <2>1, <2>4, <2>5 DEF Firing
  <1>11. CASE FindNextBestSource(s) \/ UpdateEvent(s)
    <2>1. /\ rpc[s] \in {"find", "write"} /\ rpc'[s] \in {"write", "dispatch"} /\ watched' = watched
          /\ UNCHANGED <<configs, newConfig, ev, events>>
      BY <1>11 DEF FindNextBestSource, UpdateEvent, TypeInv, TypeOK, watchVars
    <2>2. Firing(s) /\ (Telling(s)' <=> Telling(s)) /\ (Coming(s)' <=> Coming(s))
      BY <2>1 DEF Firing, Telling, Coming
    <2>3. ev[s] \in PopulateEvents(configs[s], newConfig[s])
      BY <1>3, <2>1 DEF SourceInv
    <2>4. Firing(s)'
      BY <2>1 DEF Firing
    <2>5. Telling(s)' => Statics(WatchKey) = {}
      BY <2>2 DEF WatchInv
    <2> QED
      BY <1>7, <1>8, <2>1, <2>2, <2>3, <2>4, <2>5
  <1>12. CASE Dispatch(s)
    <2>1. /\ rpc[s] = "dispatch" /\ rpc'[s] = "fire"
          /\ watched' = IF wpc = "on" /\ formatKey[ev[s].key] = WatchKey THEN ev[s].value ELSE watched
          /\ UNCHANGED <<configs, newConfig, events>>
      BY <1>12 DEF Dispatch, TypeInv, TypeOK
    <2>2. s \in Changing /\ ev[s] \in PopulateEvents(configs[s], newConfig[s]) /\ Firing(s)
      BY <1>3, <2>1, FiresChanging DEF WatchInv, Firing
    <2>3. wpc # "read"
      BY <2>1 DEF WatchInv, Quiet
    <2>4. /\ ev[s].key \in Keys
          /\ newConfig[s][ev[s].key] # NoValue => ev[s].value = newConfig[s][ev[s].key]
      BY <1>3, <2>2, EventFacts
    <2>5. ~Telling(s)' /\ Firing(s)'
      BY <2>1 DEF Telling, Firing
    <2>6. CASE formatKey[ev[s].key] = WatchKey
      <3>1. Telling(s)
        BY <2>1, <2>6 DEF Telling
      <3>2. Statics(WatchKey) = {}
        BY <3>1 DEF WatchInv
      <3>3. newConfig[s][ev[s].key] = newConfig[s][WatchKey]
        BY <1>4, <2>2, <2>4, <2>6
      <3>4. wpc # "none" => wpc = "on"
        BY <2>3 DEF TypeInv, TypeOK
      <3>5. wpc # "none" /\ newConfig[s][WatchKey] # NoValue => watched' = newConfig[s][WatchKey]
        BY <2>1, <2>4, <2>6, <3>3, <3>4
      <3> QED
        BY <1>7, <2>1, <2>2, <2>5, <3>2, <3>5
    <2>7. CASE formatKey[ev[s].key] # WatchKey
      <3>1. watched' = watched /\ (Coming(s)' <=> Coming(s))
        BY <2>1, <2>7 DEF Coming, Telling
      <3> QED
        BY <1>7, <1>8, <2>1, <2>2, <2>5, <3>1
    <2> QED
      BY <2>6, <2>7
  <1>13. CASE Commit(s)
    <2>1. /\ rpc[s] = "fire" /\ events[s] = {} /\ rpc'[s] = "wait" /\ watched' = watched
          /\ configs'[s] = newConfig[s]
      BY <1>13 DEF Commit, TypeInv, TypeOK, watchVars
    <2>2. Firing(s) /\ ~Coming(s) /\ ~Firing(s)' /\ ~Telling(s)'
      BY <2>1 DEF Firing, Coming, Telling
    <2> QED
      BY <1>7, <1>8, <2>1, <2>2
  <1>14. CASE OnEvent(s)
    <2>1. /\ rpc[s] = "fire" /\ watched' = watched /\ UNCHANGED <<configs, newConfig>>
      BY <1>14 DEF OnEvent, watchVars
    <2>2. PICK e \in events[s] :
             LET owner == keySourceMap[e.key]
                 ignored == formatKey[e.key] \in forbiddenKeys \/ ignoreChange(s, e, owner)
             IN /\ events' = [events EXCEPT ![s] = @ \ {e}]
                /\ IF ignored THEN UNCHANGED <<ev, target>>
                   ELSE ev' = [ev EXCEPT ![s] = e] /\ target' = [target EXCEPT ![s] = s]
                /\ rpc' = [rpc EXCEPT ![s] = CASE ignored -> "fire"
                                               [] ~ignored /\ e.type = "DELETE" -> "find"
                                               [] ~ignored /\ e.type # "DELETE" /\ owner = s
                                                     -> "dispatch"
                                               [] OTHER -> "write"]
      BY <1>14 DEF OnEvent
    <2> DEFINE ignored == ignoreChange(s, e, keySourceMap[e.key])
    <2>3. /\ events'[s] = events[s] \ {e} /\ rpc'[s] \in {"fire", "find", "write", "dispatch"}
          /\ ignored => rpc'[s] = "fire"
          /\ ~ignored => ev'[s] = e /\ rpc'[s] \in {"find", "write", "dispatch"}
      BY <2>2 DEF WatchInv, TypeInv, TypeOK
    <2> HIDE DEF ignored
    <2>4. /\ s \in Changing /\ Firing(s) /\ Firing(s)'
          /\ e \in PopulateEvents(configs[s], newConfig[s])
      BY <1>3, <2>1, <2>3, FiresChanging DEF SourceInv, Firing
    <2>5. e.key \in Keys /\ (e.type = "DELETE" => newConfig[s][e.key] = NoValue)
      BY <1>3, <2>4, EventFacts
    <2>6. formatKey[e.key] = WatchKey =>
             /\ Statics(WatchKey) # {} => ignored
             /\ Statics(WatchKey) = {} /\ e.type # "DELETE" => ~ignored
      BY <2>1, <2>4, WatchedEvent DEF ignored
    <2>7. rpc'[s] = "dispatch" => ev'[s] \in PopulateEvents(configs'[s], newConfig'[s])
      BY <2>1, <2>3, <2>4
    <2>8. Telling(s)' => Statics(WatchKey) = {}
      BY <2>3, <2>6 DEF Telling
    <2>9. ASSUME Statics(WatchKey) = {}, ~Coming(s)', newConfig[s][WatchKey] # NoValue, Coming(s)
          PROVE  FALSE
      <3>1. formatKey[e.key] = WatchKey
        BY <2>1, <2>3, <2>9 DEF Coming, Telling
      <3>2. e.type # "DELETE"
        BY <1>4, <2>4, <2>5, <2>9, <3>1
      <3>3. ev'[s] = e /\ rpc'[s] \in {"find", "write", "dispatch"}
        BY <2>3, <2>6, <2>9, <3>1, <3>2
      <3> QED
        BY <2>9, <3>1, <3>3 DEF Coming, Telling
    <2> QED
      BY <1>7, <1>8, <2>1, <2>4, <2>7, <2>8, <2>9
  <1> QED
    BY <1>9, <1>10, <1>11, <1>12, <1>13, <1>14 DEF Refresher

\* Where only the files change, and no value is set at run time, a stream that watches a key
\* (enableProduce over TTMsgEnabled) has the value of the best source whenever no refresher is
\* at work: every change reaches it, in the order of the contents, under either spelling of
\* the key, and no event of a source that is overruled does.
THEOREM WatcherKept ==
    ASSUME WatchHyp
    PROVE  Spec => []WatcherCurrent
  <1>0. EarlyTick = FALSE /\ \A s, t \in Changing : s = t
    BY DEF WatchHyp
  <1>1. Init => WatchInv
    <2> SUFFICES ASSUME Init PROVE WatchInv
      OBVIOUS
    <2>1. \A s \in Sources, k \in Keys : configs[s][k] = NoValue
      BY DEF Init, Empty
    <2>2. \A s \in Sources, k \in Keys : configs[s][k] = configs[s][formatKey[k]]
      BY <2>1, ConstantFacts
    <2> QED
      BY <2>2 DEF Init, WatchInv, Telling
  <1>2. TypeInv /\ OwnersInv /\ ContentInv /\ WatchInv /\ [Next]_vars => WatchInv'
    <2> SUFFICES ASSUME TypeInv, OwnersInv, ContentInv, WatchInv, [Next]_vars PROVE WatchInv'
      OBVIOUS
    <2> QED
      BY WatchAdd, WatchReads, WatchCalls, WatchRefresher DEF Next
  <1>3. TypeInv /\ WatchInv => WatcherCurrent
    <2> SUFFICES ASSUME TypeInv, WatchInv, Quiet, wpc = "on", BestSource(WatchKey) # NoSource
                 PROVE  watched = configs[BestSource(WatchKey)][WatchKey]
      BY DEF WatcherCurrent
    <2> DEFINE C == {s \in sources : Holds(s, WatchKey)}
               b == BestSource(WatchKey)
    <2>1. sources = Sources /\ WatchedInv
      BY DEF WatchInv, Added
    <2>2. b \in C /\ \A t \in C : GetPriority(b) <= GetPriority(t)
      <3>1. b = Best(C)
        BY DEF BestSource, Best
      <3>2. C \subseteq Sources
        BY <2>1
      <3>3. IsBest(Best(C), C)
        BY <3>2, BestFacts
      <3> QED
        BY <3>1, <3>3 DEF IsBest
    <2> HIDE DEF b
    <2>3. Statics(WatchKey) = C \ Changing
      BY <2>1 DEF Statics
    <2>4. CASE b \notin Changing
      BY <2>1, <2>2, <2>3, <2>4 DEF WatchedInv, b
    <2>5. CASE b \in Changing
      <3>1. Statics(WatchKey) = {}
        <4>1. \A t \in Sources \ Changing : GetPriority(t) < GetPriority(b)
          BY <2>5, StaticFirst DEF WatchHyp
        <4>2. \A t \in Sources : GetPriority(t) \in Nat
          BY PriorityNat
        <4> QED
          BY <2>1, <2>2, <2>3, <4>1, <4>2
      <3>2. ~Firing(b) /\ configs[b][WatchKey] # NoValue
        BY <2>1, <2>2 DEF Quiet, Firing, Holds
      <3> QED
        BY <2>1, <2>5, <3>1, <3>2 DEF WatchedInv, b
    <2> QED
      BY <2>4, <2>5
  <1> QED
    BY <1>0, <1>1, <1>2, <1>3, TypeInvariance, OwnersInvariance, ContentInvariance, PTL DEF Spec
===============================================================================
