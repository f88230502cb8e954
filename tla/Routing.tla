------------------------------- MODULE Routing -------------------------------
(***************************************************************************)
(* Where a row goes (pkg/util/typeutil/hash.go): the partitions of a        *)
(* collection with a partition key, put in order by the number at the end   *)
(* of their names, and the partition and the channel of a key by its hash.  *)
(* Several processes compute the order, each for itself, from the same map. *)
(* RearrangePartitionsForPartitionKey runs over a Go map, in any order.     *)
(* The id of a partition goes with its name.                                *)
(***************************************************************************)
EXTENDS Integers, FiniteSets, Functions

CONSTANTS
    Procs,      \* the processes
    Names,      \* names of partitions: [parts: how many split by "_", index: the number
                \* at the end, or -2 when it is none, copy: tells names apart]
    MaxPartitions,
    Keys,       \* values of the key: [long: BOOLEAN, head: what is hashed, tail: the rest]
    hash        \* murmur3 and crc32 of the head of a key: key's head |-> number

VARIABLES
    partitions,     \* the names of the collection's partitions, {} before it is created
    \* of each process:
    todo,           \* the names its loop has not seen
    partitionNames, \* its array: index |-> name or empty
    outcome         \* "call", "loop", "ok", "error"
vars == <<partitions, todo, partitionNames, outcome>>

Empty == [parts |-> 0, index |-> -1, copy |-> 0]
TwinNames == {[parts |-> 2, index |-> 1, copy |-> c] : c \in 0..1}    \* "a_1" and "b_1"
n == Cardinality(partitions)

Init ==
    /\ partitions = {}
    /\ todo = [p \in Procs |-> {}]
    /\ outcome = [p \in Procs |-> "call"]
    /\ partitionNames = [p \in Procs |-> <<>>]

Create(S) ==
    /\ partitions = {} /\ S # {} /\ Cardinality(S) <= MaxPartitions
    /\ partitions' = S
    /\ UNCHANGED <<todo, partitionNames, outcome>>

Call(p) ==
    /\ partitions # {} /\ outcome[p] = "call"
    /\ outcome' = [outcome EXCEPT ![p] = "loop"]
    /\ todo' = [todo EXCEPT ![p] = partitions]
    /\ partitionNames' = [partitionNames EXCEPT ![p] = [i \in 0..(n - 1) |-> Empty]]
    /\ UNCHANGED partitions

anyIndex(name) == name.parts >= 2 /\ name.index # -2                              \* mutant
accepts(name) == name.parts >= 2 /\ name.index # -2 /\ name.index < n /\ name.index >= 0

RearrangePartitionsForPartitionKey(p) ==
    /\ outcome[p] = "loop"
    /\ \/ /\ todo[p] = {} /\ outcome' = [outcome EXCEPT ![p] = "ok"]
          /\ UNCHANGED <<todo, partitionNames>>
       \/ \E name \in todo[p] :
             /\ todo' = [todo EXCEPT ![p] = @ \ {name}]
             /\ IF accepts(name)
                THEN /\ partitionNames' = [partitionNames EXCEPT ![p] =
                            [i \in DOMAIN @ \cup {name.index} |->
                                IF i = name.index THEN name ELSE @[i]]]
                     /\ UNCHANGED outcome
                ELSE /\ outcome' = [outcome EXCEPT ![p] = "error"]
                     /\ UNCHANGED partitionNames
    /\ UNCHANGED partitions

Next ==
    \/ \E S \in SUBSET Names : Create(S)
    \/ \E p \in Procs : Call(p) \/ RearrangePartitionsForPartitionKey(p)

Spec == Init /\ [][Next]_vars

\* Of a string only the first 100 bytes count; an int64 counts whole.
HashString2Uint32(key) == hash[key.head]
Hash32Int64(key) == hash[key.head]
HashKey2Partitions(key, names) ==
    (IF key.long THEN Hash32Int64(key) ELSE HashString2Uint32(key)) % Cardinality(DOMAIN names)
hashWhole(key, numShard) ==                                                       \* mutant
    ((hash[key.head] % numShard) + key.tail) % numShard
HashPK2Channels(key, numShard) ==
    (IF key.long THEN Hash32Int64(key) ELSE HashString2Uint32(key)) % numShard
-------------------------------------------------------------------------------
Done(p) == outcome[p] = "ok"
Shared(i) == Cardinality({name \in partitions : name.index = i}) > 1
NumbersDiffer == IsInjective([name \in partitions |-> name.index])

\* Two processes that put the same partitions in order agree wherever the numbers decide it:
\* none succeeds where another fails, and the arrays of those that succeed differ at most at
\* a number that several names share (there the name the map yields last stays, hash.go:150,
\* which OrderStatic is about); a place is empty only when no name has its number.
OrderFixed ==
    \A p, q \in Procs : Done(p) =>
        /\ outcome[q] # "error"
        /\ DOMAIN partitionNames[p] = 0..(n - 1)
        /\ \A name \in partitions : partitionNames[p][name.index].index = name.index
        /\ Done(q) =>
              \A i \in DOMAIN partitionNames[p] :
                  \/ partitionNames[p][i] = partitionNames[q][i]
                  \/ Shared(i)

\* With numbers all different two processes send the rows with a key to the same partition,
\* by name, and a partition key that is the primary key too has a channel of the same number
\* when there are as many channels as partitions.
KeysPlaced ==
    \A p, q \in Procs : Done(p) /\ Done(q) /\ NumbersDiffer =>
        \A key \in Keys :
            LET place == HashKey2Partitions(key, partitionNames[p])
            IN  /\ partitionNames[p][place] \in partitions
                /\ partitionNames[q][HashKey2Partitions(key, partitionNames[q])]
                       = partitionNames[p][place]
                /\ HashPK2Channels(key, n) = place

\* What hash.go:132 and 134 say: the order of the partitions is static, the same every time
\* it is computed.  Two names with one number refute it.
OrderStatic == \A p, q \in Procs : Done(p) /\ Done(q) => partitionNames[p] = partitionNames[q]
===============================================================================
