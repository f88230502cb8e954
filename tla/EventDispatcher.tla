--------------------------- MODULE EventDispatcher ---------------------------
(***************************************************************************)
(* config.EventDispatcher: the handlers registered for a key or for all     *)
(* keys with a prefix, and the ones an event is given to.  Keys are already *)
(* formatted; a key is a sequence of segments, of which a prefix is a       *)
(* shorter one.  Every operation runs under the dispatcher's lock; the order *)
(* within a group is left out, how often a handler is in it is not.          *)
(***************************************************************************)
EXTENDS Naturals, Sequences, SequencesExt, FiniteSets

CONSTANTS Keys, KeyPrefixes, Handlers, MaxRegistered

VARIABLES
    registry,     \* key or prefix |-> its group: how often each handler is in it
    keyPrefix,    \* the prefixes
    told,         \* the handlers the event just dispatched was given to
    eventKey,     \* its key, <<>> when there is none
    watching      \* history: the registrations in force, <<key or prefix, handler, kind>>
vars == <<registry, keyPrefix, told, eventKey, watching>>

Init == registry = <<>> /\ keyPrefix = {} /\ told = {} /\ eventKey = <<>> /\ watching = {}

noHandlers == [h \in Handlers |-> 0]
group(k) == IF k \in DOMAIN registry THEN registry[k] ELSE noHandlers
set(k, hs) == [x \in DOMAIN registry \cup {k} |-> IF x = k THEN hs ELSE registry[x]]
append(k, h) == [group(k) EXCEPT ![h] = @ + 1]

noEvent == told' = {} /\ eventKey' = <<>>

Register(key, h) ==
    /\ group(key)[h] < MaxRegistered
    /\ registry' = set(key, append(key, h))
    /\ watching' = watching \cup {<<key, h, "key">>}
    /\ noEvent /\ UNCHANGED keyPrefix

RegisterForKeyPrefix(prefix, h) ==
    /\ group(prefix)[h] < MaxRegistered
    /\ registry' = set(prefix, append(prefix, h))
    /\ keyPrefix' = keyPrefix \cup {prefix}
    /\ watching' = watching \cup {<<prefix, h, "prefix">>}
    /\ noEvent

\* All registrations of a handler with this identifier go; the group stays, if empty.
unregisterGroup(key, h) == set(key, noHandlers)                                 \* mutant
withoutFirst(key, h) == set(key, [group(key) EXCEPT ![h] = IF @ = 0 THEN 0 ELSE @ - 1])  \* mutant
without(key, h) == set(key, [group(key) EXCEPT ![h] = 0])

Unregister(key, h) ==
    /\ key \in DOMAIN registry
    /\ registry' = without(key, h)
    /\ watching' = {w \in watching : ~(w[1] = key /\ w[2] = h)}
    /\ noEvent /\ UNCHANGED keyPrefix

\* A group for the key itself, even an empty one, keeps the event from the prefixes.
members(k) == {h \in Handlers : group(k)[h] > 0}
ofPrefixes(key) == UNION {members(p) : p \in {q \in keyPrefix : IsPrefix(q, key)}}
handlersOf(key) == IF key \in DOMAIN registry THEN members(key) ELSE ofPrefixes(key)

Dispatch(key) ==
    /\ told' = handlersOf(key) /\ eventKey' = key
    /\ UNCHANGED <<registry, keyPrefix, watching>>

Next ==
    \/ \E h \in Handlers :
          \/ \E k \in Keys : Register(k, h)
          \/ \E p \in KeyPrefixes : RegisterForKeyPrefix(p, h)
          \/ \E k \in Keys \cup KeyPrefixes : Unregister(k, h)
    \/ \E k \in Keys : Dispatch(k)
-------------------------------------------------------------------------------
\* Only handlers that watch a key, or a prefix of it, are told of its events, whatever was
\* registered and unregistered before.  (Somebody who watches the key A alone is also told
\* of A.B once A has been registered as a prefix: they share the group.)
NoStranger ==
    \A h \in told : \E w \in watching :
        /\ w[2] = h
        /\ w[1] = eventKey \/ (w[1] \in keyPrefix /\ IsPrefix(w[1], eventKey))

\* Who watches a key is told of its events; who watches a prefix is told of them unless
\* somebody registered for the key itself before: the code prefers the key's own group,
\* also when the last handler of it has unregistered.
WatchersTold ==
    eventKey # <<>> =>
        \A w \in watching :
            (\/ w[1] = eventKey
             \/ /\ w[3] = "prefix" /\ IsPrefix(w[1], eventKey)
                /\ eventKey \notin DOMAIN registry)
            => w[2] \in told
===============================================================================
