--------------------------------- MODULE Names ---------------------------------
(***************************************************************************)
(* Names that are put together and taken apart again (funcutil/func.go and  *)
(* policy.go): the role of a user in the privilege cache, an object of a    *)
(* database, a virtual channel on its physical channel; and attributes as   *)
(* lists of pairs.  A name is a sequence of words and separators.           *)
(***************************************************************************)
EXTENDS Integers, Sequences, SequencesExt, FiniteSets

CONSTANTS
    Slash, Dot, Underscore, Dash,   \* separators
    DefaultDBName,                  \* a name
    Texts,      \* what users, roles, databases, objects and channels are called
    ShardSuffixes,   \* the collection and shard part of a virtual channel
    Keys, Values, MaxPairs          \* of attribute lists

VARIABLES one, other,   \* two pairs of names, of the same kind
          kvs           \* a list of attributes: <<key, value>>
vars == <<one, other, kvs>>

Unnamed == <<<<>>, <<>>>>
Init == one = Unnamed /\ other = Unnamed /\ kvs = <<>>
-------------------------------------------------------------------------------
LastIndex(name, sep) ==
    LET at == {i \in DOMAIN name : name[i] = sep}
    IN IF at = {} THEN 0 ELSE CHOOSE i \in at : \A j \in at : j <= i
index(name, sep) ==
    LET at == {i \in DOMAIN name : name[i] = sep}
    IN IF at = {} THEN 0 ELSE CHOOSE i \in at : \A j \in at : i <= j

EncodeUserRoleCache(user, role) == user \o <<Slash>> \o role

decodeAtFirst(cache) ==                                               \* mutant
    LET i == index(cache, Slash)
    IN <<SubSeq(cache, 1, i - 1), SubSeq(cache, i + 1, Len(cache))>>
\* Unnamed for its error.
DecodeUserRoleCache(cache) ==
    LET i == LastIndex(cache, Slash)
    IN IF i = 0 THEN Unnamed
       ELSE <<SubSeq(cache, 1, i - 1), SubSeq(cache, i + 1, Len(cache))>>

CombineObjectName(dbName, objectName) ==
    (IF dbName = <<>> THEN DefaultDBName ELSE dbName) \o <<Dot>> \o objectName

\* strings.Split(objectName, "."), of which the first two parts count.
SplitObjectName(objectName) ==
    LET i == index(objectName, Dot)
        behind == SubSeq(objectName, i + 1, Len(objectName))
        j == index(behind, Dot)
    IN IF i = 0 THEN <<DefaultDBName, objectName>>
       ELSE <<SubSeq(objectName, 1, i - 1),
              IF j = 0 THEN behind ELSE SubSeq(behind, 1, j - 1)>>

\* The resource that a policy names: its type, which has no dash, and the object.
PolicyForResource(dbName, objectType, objectName) ==
    <<objectType, Dash>> \o CombineObjectName(dbName, objectName)

\* The physical channel; a virtual channel is called <physical>_<suffix>.
ToPhysicalChannel(vchannel) ==
    LET i == LastIndex(vchannel, Underscore)
    IN IF i = 0 THEN vchannel ELSE SubSeq(vchannel, 1, i - 1)
virtual(pchannel, suffix) == pchannel \o <<Underscore>> \o suffix

\* The first pair with the key; Missing for its error.
Missing == "missing"
GetAttrByKeyFromRepeatedKV(key, pairs) ==
    LET at == {i \in DOMAIN pairs : pairs[i][1] = key}
    IN IF at = {} THEN Missing ELSE pairs[CHOOSE i \in at : \A j \in at : i <= j][2]

\* Later pairs replace earlier ones.
KeyValuePair2Map(pairs) ==
    [key \in {pairs[i][1] : i \in DOMAIN pairs} |->
        pairs[CHOOSE i \in DOMAIN pairs :
                 /\ pairs[i][1] = key
                 /\ \A j \in DOMAIN pairs : pairs[j][1] = key => j <= i][2]]

\* A list for every order in which Go may go through the map.
onlyFirst(datas) == {<<<<k, datas[k]>>>> : k \in DOMAIN datas}              \* mutant
Map2KeyValuePair(datas) ==
    {[i \in DOMAIN order |-> <<order[i], datas[order[i]]>>] :
        order \in SetToSeqs(DOMAIN datas)}
-------------------------------------------------------------------------------
Name ==
    /\ one = Unnamed /\ kvs = <<>>
    /\ one' \in Texts \X Texts /\ other' \in Texts \X Texts
    /\ UNCHANGED kvs

AddPair ==
    /\ one = Unnamed /\ Len(kvs) < MaxPairs
    /\ \E key \in Keys, value \in Values : kvs' = Append(kvs, <<key, value>>)
    /\ UNCHANGED <<one, other>>

Next == Name \/ AddPair
-------------------------------------------------------------------------------
has(name, sep) == index(name, sep) # 0
stored(dbName) == IF dbName = <<>> THEN DefaultDBName ELSE dbName

\* What is put together comes apart again: a user and a role that has no slash, an object
\* and a database that have no dot, a physical channel that may itself have underscores.
\* Two resources have the same policy name only if one of the databases has a dot.
Recovered ==
    one # Unnamed =>
        /\ ~has(one[2], Slash) =>
               DecodeUserRoleCache(EncodeUserRoleCache(one[1], one[2])) = one
        /\ ~has(one[1], Dot) /\ ~has(one[2], Dot) =>
               SplitObjectName(CombineObjectName(one[1], one[2])) = <<stored(one[1]), one[2]>>
        /\ \A suffix \in ShardSuffixes : ToPhysicalChannel(virtual(one[1], suffix)) = one[1]
        /\ /\ PolicyForResource(one[1], "Collection", one[2])
                = PolicyForResource(other[1], "Collection", other[2])
           /\ ~has(one[1], Dot) /\ ~has(other[1], Dot)
           => stored(one[1]) = stored(other[1]) /\ one[2] = other[2]

\* Attributes survive the way through a map in whatever order Go walks it, and a search of
\* the list finds what the map holds, if no key is given twice.
PairsAgree ==
    LET datas == KeyValuePair2Map(kvs)
        unique == Cardinality(DOMAIN datas) = Len(kvs)
    IN /\ \A pairs \in Map2KeyValuePair(datas) :
              /\ KeyValuePair2Map(pairs) = datas
              /\ \A key \in DOMAIN datas :
                     GetAttrByKeyFromRepeatedKV(key, pairs) = datas[key]
       /\ \A key \in Keys : unique =>
              GetAttrByKeyFromRepeatedKV(key, kvs)
                = IF key \in DOMAIN datas THEN datas[key] ELSE Missing
===============================================================================
