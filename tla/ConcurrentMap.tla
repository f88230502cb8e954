----------------------------- MODULE ConcurrentMap -----------------------------
(***************************************************************************)
(* typeutil.ConcurrentMap: a sync.Map with a length of its own, which each  *)
(* operation changes after it has changed the map.                          *)
(***************************************************************************)
EXTENDS Integers, FiniteSets

CONSTANTS Keys, Procs, MaxOps

VARIABLES
    inner,      \* the keys of the sync.Map and who stored the value: functions
    len,        \* the counter
    step,       \* where each process is in its call: idle, inc, store, dec
    key,        \* the key of its call
    revived,    \* history: Stores that put back a key removed in between
    ops         \* calls so far

vars == <<inner, len, step, key, revived, ops>>

Init ==
    /\ inner = {} /\ len = 0
    /\ step = [p \in Procs |-> "idle"] /\ key = [p \in Procs |-> CHOOSE k \in Keys : TRUE]
    /\ revived = 0 /\ ops = 0

Begin(p, k) ==
    /\ step[p] = "idle" /\ ops < MaxOps
    /\ ops' = ops + 1
    /\ key' = [key EXCEPT ![p] = k]
    /\ UNCHANGED <<len, revived>>

\* LoadOrStore, the first step of Insert and the only one of GetOrInsert when loaded.
Insert(p, k) ==
    /\ Begin(p, k)
    /\ step' = [step EXCEPT ![p] = IF k \in inner THEN "store" ELSE "inc"]
    /\ inner' = inner \cup {k}

GetOrInsert(p, k) ==
    /\ Begin(p, k)
    /\ step' = [step EXCEPT ![p] = IF k \in inner THEN "idle" ELSE "inc"]
    /\ inner' = inner \cup {k}

\* LoadAndDelete, the first step of Remove and GetAndRemove.
Remove(p, k) ==
    /\ Begin(p, k)
    /\ step' = [step EXCEPT ![p] = IF k \in inner THEN "dec" ELSE "idle"]
    /\ inner' = inner \ {k}

\* m.inner.Store(key, value)
Store(p) ==
    /\ step[p] = "store"
    /\ revived' = revived + (IF key[p] \in inner THEN 0 ELSE 1)
    /\ inner' = inner \cup {key[p]}
    /\ step' = [step EXCEPT ![p] = "idle"]
    /\ UNCHANGED <<len, key, ops>>

CountAlways(p) ==                                                  \* mutant
    /\ step[p] \in {"inc", "dec", "store"}
    /\ len' = IF step[p] = "dec" THEN len - 1 ELSE len + 1
    /\ step' = [step EXCEPT ![p] = "idle"]
    /\ UNCHANGED <<inner, key, revived, ops>>
\* m.len.Inc() or m.len.Dec()
Count(p) ==
    /\ step[p] \in {"inc", "dec"}
    /\ len' = IF step[p] = "inc" THEN len + 1 ELSE len - 1
    /\ step' = [step EXCEPT ![p] = "idle"]
    /\ UNCHANGED <<inner, key, revived, ops>>

Next == \E p \in Procs :
           \/ \E k \in Keys : Insert(p, k) \/ GetOrInsert(p, k) \/ Remove(p, k)
           \/ Store(p) \/ Count(p)
-------------------------------------------------------------------------------
\* When no call is under way, Len is the number of keys, less one for every Insert that
\* found its key, lost it to a Remove, and stored it all the same; so a map that counts
\* right has never seen that race, and Len is never too large.
LenExact ==
    (\A p \in Procs : step[p] = "idle") => len = Cardinality(inner) - revived
===============================================================================
