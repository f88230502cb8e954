------------------------------ MODULE ConfigView ------------------------------
(***************************************************************************)
(* The keys of the configuration as a whole (pkg/config): every source      *)
(* holds a key in two spellings, as written (A.B.C) and formatted (abc);    *)
(* single values are looked up by the formatted one, groups (ParamGroup) by *)
(* the prefix "A.B." of the written one.  A key is a record of its segments *)
(* and whether the dots are still there.  Nothing runs concurrently here:   *)
(* ConfigManager has the interleavings.                                     *)
(***************************************************************************)
EXTENDS Sequences, SequencesExt

CONSTANTS
    Paths,      \* sequences of segments, the names of parameters
    Groups,     \* the prefixes of the groups read
    Values

VARIABLES
    sources,    \* source |-> what it loaded: key |-> value
    loaded, overlays,
    grouped,    \* history: path |-> the value SaveGroup gave it
    single      \* history: path |-> the value Save gave it, or deleted
vars == <<sources, loaded, overlays, grouped, single>>

TombValue == "TOMB_VAULE"
None == "none"
put(f, k, v) == [x \in DOMAIN f \cup {k} |-> IF x = k THEN v ELSE f[x]]
drop(f, k) == [x \in DOMAIN f \ {k} |-> f[x]]

written(p) == [segs |-> p, dotted |-> TRUE]
formatKey(key) == [key EXCEPT !.dotted = FALSE]

\* Both spellings of every parameter a file gives; of the environment only the formatted
\* one can match (MQ_PATH is no A.B.C).
loadFromFile(conf) ==
    [key \in {written(p) : p \in DOMAIN conf} \cup {formatKey(written(p)) : p \in DOMAIN conf}
        |-> conf[key.segs]]
NewEnvSource(conf) == [key \in {formatKey(written(p)) : p \in DOMAIN conf} |-> conf[key.segs]]

\* The environment comes before the files.
GetPriority == <<"EnvironmentSource", "FileSource">>
keySourceMap == [key \in UNION {DOMAIN sources[s] : s \in DOMAIN sources} |->
                    GetPriority[CHOOSE i \in 1..2 :
                        /\ key \in DOMAIN sources[GetPriority[i]]
                        /\ \A j \in 1..(i - 1) : key \notin DOMAIN sources[GetPriority[j]]]]

GetConfig(key) ==
    LET realKey == formatKey(key) IN
    CASE realKey \in DOMAIN overlays -> IF overlays[realKey] = TombValue THEN None ELSE overlays[realKey]
      [] realKey \in DOMAIN keySourceMap /\ realKey \notin DOMAIN overlays ->
            sources[keySourceMap[realKey]][realKey]
      [] OTHER -> None

\* A key deleted at run time comes with the mark of the deletion, under its formatted
\* spelling.
GetConfigsUnchecked ==                                                          \* mutant
    [key \in DOMAIN keySourceMap \cup DOMAIN overlays |->
        IF key \in DOMAIN overlays THEN overlays[key] ELSE sources[keySourceMap[key]][key]]
GetConfigs ==
    [key \in {k \in DOMAIN keySourceMap : GetConfig(k) # None} \cup DOMAIN overlays |->
        IF key \in DOMAIN overlays THEN overlays[key] ELSE GetConfig(key)]

\* A prefix "A.B." is a prefix of written keys only.
WithPrefix(group, key) == key.dotted /\ IsStrictPrefix(group, key.segs)
RemovePrefix(group, key) == [key EXCEPT !.segs = SubSeq(@, Len(group) + 1, Len(@))]
GetBy(group) ==
    LET all == GetConfigs
        matched == {key \in DOMAIN all : WithPrefix(group, key)}
    IN [key \in {RemovePrefix(group, k) : k \in matched} |-> all[written(group \o key.segs)]]
-------------------------------------------------------------------------------
Init ==
    /\ sources = [EnvironmentSource |-> <<>>, FileSource |-> <<>>] /\ loaded = FALSE
    /\ overlays = <<>> /\ grouped = <<>> /\ single = <<>>

\* BaseTable.init adds the environment, then the files.
AddSources(env, file, v, w) ==
    /\ ~loaded /\ loaded' = TRUE
    /\ sources' = [EnvironmentSource |-> NewEnvSource([p \in env |-> w]),
                   FileSource |-> loadFromFile([p \in file |-> v])]
    /\ UNCHANGED <<overlays, grouped, single>>

Save(p, v) ==      \* SetConfig
    /\ overlays' = put(overlays, formatKey(written(p)), v)
    /\ single' = put(single, p, v)
    /\ UNCHANGED <<sources, loaded, grouped>>

Delete(p) ==       \* BaseTable.Remove, DeleteConfig
    /\ overlays' = put(overlays, formatKey(written(p)), TombValue)
    /\ single' = put(single, p, TombValue)
    /\ UNCHANGED <<sources, loaded, grouped>>

Reset(p) ==        \* ResetConfig: what SaveGroup gave stays
    /\ overlays' = drop(overlays, formatKey(written(p)))
    /\ single' = drop(single, p)
    /\ UNCHANGED <<sources, loaded, grouped>>

setFormatted(p, v) == overlays' = put(overlays, formatKey(written(p)), v)     \* mutant
SetMapConfig(p, v) == overlays' = put(overlays, written(p), v)

SaveGroup(p, v) ==    \* with a group of one parameter
    /\ SetMapConfig(p, v)
    /\ grouped' = put(grouped, p, v)
    /\ UNCHANGED <<sources, loaded, single>>

Next ==
    \/ \E env \in SUBSET Paths : \E file \in SUBSET Paths : \E v \in Values : \E w \in Values :
          AddSources(env, file, v, w)
    \/ /\ loaded
       /\ \E p \in Paths : \/ \E v \in Values : Save(p, v) \/ SaveGroup(p, v)
                          \/ Delete(p) \/ Reset(p)
-------------------------------------------------------------------------------
inFile(p) == written(p) \in DOMAIN sources.FileSource

\* Reading a group gives exactly its parameters: the ones given as a group, and the ones
\* of the file that were not deleted, each with the value a single read gives, be it the
\* environment's or one set at run time; never the mark of a deletion.
GroupExact ==
    \A g \in Groups :
        LET values == GetBy(g)
            of(p) == [segs |-> SubSeq(p, Len(g) + 1, Len(p)), dotted |-> TRUE]
        IN /\ DOMAIN values = {of(p) : p \in {p \in Paths : /\ IsStrictPrefix(g, p)
                                      /\ (p \in DOMAIN grouped \/ (inFile(p) /\ GetConfig(written(p)) # None))}}
           /\ \A p \in Paths : of(p) \in DOMAIN values /\ IsStrictPrefix(g, p) =>
                 values[of(p)] = IF p \in DOMAIN grouped THEN grouped[p] ELSE GetConfig(written(p))

\* A single read gives the last value set at run time, nothing after a deletion, and the
\* source's value, the environment before the file, after a reset; what is set for the
\* group never shows there.
SingleExact ==
    \A p \in Paths :
        GetConfig(written(p)) =
            CASE p \in DOMAIN single /\ single[p] = TombValue -> None
              [] p \in DOMAIN single /\ single[p] # TombValue -> single[p]
              [] p \notin DOMAIN single /\ formatKey(written(p)) \in DOMAIN sources.EnvironmentSource ->
                    sources.EnvironmentSource[formatKey(written(p))]
              [] p \notin DOMAIN single /\ formatKey(written(p)) \notin DOMAIN sources.EnvironmentSource /\ inFile(p) ->
                    sources.FileSource[written(p)]
              [] OTHER -> None
===============================================================================
