------------------------------- MODULE SkipList -------------------------------
(***************************************************************************)
(* typeutil.SkipList.  A node is named by its key; next[k][i] is the node    *)
(* after k on level i (Nil: none) and Head the node before all keys.         *)
(***************************************************************************)
EXTENDS Integers, Sequences, SequencesExt, FiniteSetsExt

CONSTANTS Keys, Values, MaxLevel, MaxOps

Head_ == 0
Nil   == -1
Levels == 1..MaxLevel

VARIABLES
    next,       \* of Head_ and of the nodes that are linked
    value,      \* of the linked nodes
    height,     \* Len(element.next) of the linked nodes
    level, length,
    ref,        \* history: the map the calls have built
    ops

vars == <<next, value, height, level, length, ref, ops>>

\* NewSkipList
Init ==
    /\ next = [k \in {Head_} |-> [i \in Levels |-> Nil]]
    /\ value = <<>> /\ height = <<>> /\ level = 0 /\ length = 0
    /\ ref = <<>> /\ ops = 0

\* The walk of search on level i, from node k.
walk(k, i, key) ==
    LET w[n \in DOMAIN next] ==
            IF next[n][i] # Nil /\ next[n][i] < key THEN w[next[n][i]] ELSE n
    IN w[k]

\* search: path[i], from the highest used level down; Head_ on the levels not used.
path(key) ==
    LET p[i \in 1..(MaxLevel + 1)] ==
            IF i > level THEN Head_ ELSE walk(p[i + 1], i, key)
    IN [i \in Levels |-> p[i]]

found(key) == next[path(key)[1]][1] = key

Call == ops < MaxOps /\ ops' = ops + 1

\* A map with one key set, and one with a key removed.
put(f, k, v) == [x \in DOMAIN f \cup {k} |-> IF x = k THEN v ELSE f[x]]
without(f, S) == [x \in DOMAIN f \ S |-> f[x]]

refreshLevelKept(nx) == level                                      \* mutant
\* refreshLevel: the first empty level ends the used ones.
refreshLevel(nx) ==
    LET E == {i \in Levels : nx[Head_][i] = Nil}
    IN IF E = {} THEN MaxLevel ELSE Min(E) - 1

\* Upsert, with the level randomLevel draws.
Upsert(k, v, h) ==
    /\ Call
    /\ ref' = put(ref, k, v)
    /\ IF found(k)
       THEN value' = [value EXCEPT ![k] = v] /\ UNCHANGED <<next, height, level, length>>
       ELSE LET pa == path(k) IN
            /\ level' = Max({level, h})
            /\ next' = [n \in DOMAIN next \cup {k} |->
                          IF n = k THEN [i \in Levels |-> IF i <= h THEN next[pa[i]][i] ELSE Nil]
                          ELSE [i \in Levels |-> IF i <= h /\ pa[i] = n THEN k ELSE next[n][i]]]
            /\ value' = put(value, k, v)
            /\ height' = put(height, k, h)
            /\ length' = length + 1

\* Delete.  length is not counted down.
Delete(k) ==
    /\ Call
    /\ ref' = without(ref, {k})
    /\ IF ~found(k) THEN UNCHANGED <<next, value, height, level, length>>
       ELSE LET pa == path(k)
                nx == [n \in DOMAIN next \ {k} |->
                         [i \in Levels |-> IF i <= height[k] /\ pa[i] = n THEN next[k][i]
                                           ELSE next[n][i]]]
            IN /\ next' = nx
               /\ value' = without(value, {k}) /\ height' = without(height, {k})
               /\ level' = refreshLevel(nx)
               /\ UNCHANGED length

\* TruncateBefore: path becomes the head; what lies before the key is garbage.
TruncateBefore(k) ==
    /\ Call
    /\ ref' = without(ref, {x \in DOMAIN ref : x < k})
    /\ LET pa   == path(k)
           gone == {n \in DOMAIN value : n < k}
           nx   == without([next EXCEPT ![Head_] = [i \in Levels |-> next[pa[i]][i]]], gone)
       IN /\ next' = nx
          /\ value' = without(value, gone) /\ height' = without(height, gone)
          /\ level' = refreshLevel(nx)
          /\ UNCHANGED length

Next == \E k \in Keys :
           \/ \E v \in Values, h \in Levels : Upsert(k, v, h)
           \/ Delete(k) \/ TruncateBefore(k)

\* ListAfter: the values from the node after path[0] on, or after the key itself.
ListAfter(k, include) ==
    LET start == IF found(k) THEN k ELSE path(k)[1]
        succ[n \in DOMAIN next] ==
            IF next[n][1] = Nil THEN <<>>
            ELSE <<value[next[n][1]]>> \o succ[next[n][1]]
    IN (IF include /\ found(k) THEN <<value[k]>> ELSE <<>>) \o succ[start]
-------------------------------------------------------------------------------
\* The list behaves as a sorted map: whatever levels were drawn, Get finds what was put
\* last and not removed, ListAfter returns it in order, and every used level, down to the
\* lowest, is a sorted chain through just the nodes that reach it.
SortedMap ==
    /\ value = ref
    /\ \A k \in Keys : found(k) <=> k \in DOMAIN ref
    /\ \A k \in Keys, inc \in BOOLEAN :
          LET S == {x \in DOMAIN ref : x > k \/ (inc /\ x = k)}
          IN ListAfter(k, inc) = [j \in 1..Cardinality(S) |-> ref[SetToSortSeq(S, <)[j]]]
    /\ \A i \in Levels, n \in DOMAIN next :
          LET S == {x \in DOMAIN height : height[x] >= i /\ x > n}
          IN n = Head_ \/ height[n] >= i =>
                next[n][i] = IF S = {} THEN Nil ELSE Min(S)
    /\ level = Max({height[k] : k \in DOMAIN height} \cup {0})
===============================================================================
