----------------------------- MODULE ParamTable ------------------------------
(***************************************************************************)
(* ParamItem.get over the table of items (Items): the item's own key, its  *)
(* fallback keys, its default value, its formatter and PanicIfEmpty, while *)
(* somebody configures one item (BaseTable.Save, Remove, Reset, or         *)
(* SwapTempValue).  What the formatters compute from numbers is in         *)
(* ParamFormat; here they only tell empty from not empty.                  *)
(***************************************************************************)
EXTENDS Sequences, FiniteSets

CONSTANTS
    Table,
    Shipped,       \* what the configuration file holds: key |-> value
    Cluster,       \* the item ClusterPrefix of commonConfig
    PulsarAddress  \* the item Address of PulsarConfig

VARIABLES
    conf,   \* what the manager answers: key |-> value or TombValue
    focus,  \* the item being configured
    temp    \* tempValue of that item, "" when there is none
vars == <<conf, focus, temp>>

TombValue == "TOMB_VAULE"
NoItem == [owner |-> <<"", "">>, name |-> "", key |-> "", default |-> "", fallback |-> <<>>,
           format |-> "none", panicIfEmpty |-> FALSE]
Values == {"", "7"}
keys(item) == <<item.key>> \o item.fallback

Init == conf = Shipped /\ focus = NoItem /\ temp = ""
-------------------------------------------------------------------------------
\* GetConfig without an error: a key removed at run time counts as missing.
found(c, key) == key \in DOMAIN c /\ c[key] # TombValue

\* The value before the formatter: the first key that is found, or the default.
rawOwn(c, item) == IF found(c, item.key) THEN c[item.key] ELSE item.default   \* mutant
rawLost(c, item) == IF found(c, item.key) THEN c[item.key]                    \* mutant
                    ELSE IF item.fallback = <<>> THEN item.default ELSE ""
raw(c, item) ==
    LET hits == SelectSeq(keys(item), LAMBDA key : found(c, key))
    IN IF hits = <<>> THEN item.default ELSE c[Head(hits)]

\* The item a formatter reads instead of, or besides, the value it is given.
reads == [prefix |-> "ClusterPrefix", web |-> "Address"]

formatted(c, item) ==
    LET value == raw(c, item) IN
    CASE item.format = "prefix" -> raw(c, Cluster) \o "-" \o value
      [] item.format = "web"    -> IF raw(c, PulsarAddress) = "" THEN "" ELSE "http://"
      [] item.format = "parse"  -> IF value = "" THEN item.default ELSE value
      [] item.format = "number" -> IF value = "" THEN "0" ELSE value
      [] item.format = "disk"   -> IF value = "" THEN "total" ELSE value
      [] item.format = "json"   -> "{" \o value \o "}"
      [] OTHER -> value

get(c, item) == IF temp # "" /\ item = focus THEN temp ELSE formatted(c, item)
panics(c, item) == item.panicIfEmpty /\ get(c, item) = ""
-------------------------------------------------------------------------------
Focus(item) ==
    /\ focus = NoItem /\ focus' = item
    /\ UNCHANGED <<conf, temp>>

Save(key, value) ==
    /\ conf' = [k \in DOMAIN conf \cup {key} |-> IF k = key THEN value ELSE conf[k]]
    /\ UNCHANGED <<focus, temp>>

Remove(key) == Save(key, TombValue)

\* The sources answer again.
Reset(key) ==
    /\ conf' = [k \in (DOMAIN conf \ {key}) \cup (DOMAIN Shipped \cap {key}) |->
                    IF k = key THEN Shipped[k] ELSE conf[k]]
    /\ UNCHANGED <<focus, temp>>

SwapTempValue(value) ==
    /\ temp' = value
    /\ UNCHANGED <<conf, focus>>

FocusKeys == {keys(focus)[i] : i \in DOMAIN keys(focus)}

Next ==
    \/ \E item \in Table : Focus(item)
    \/ /\ focus # NoItem
       /\ \E key \in FocusKeys \ {""} :
             (\E value \in Values : Save(key, value)) \/ Remove(key) \/ Reset(key)
    \/ focus # NoItem /\ \E value \in {"", "temp"} : SwapTempValue(value)
-------------------------------------------------------------------------------
\* Two parameters with different names that share a key in this code: component_param.go
\* gives DataCoordTicklePath the key of DataCoordWatchSubPath.
KnownAlias == {"DataCoordWatchSubPath", "DataCoordTicklePath"}

\* Whatever is configured for one parameter changes no parameter of another name (other
\* than the items whose formatter reads it): no key of the table, as
\* formatKey leaves it, belongs to two parameters.
Isolated ==
    \A item \in Table :
        \/ item.name = focus.name \/ {item.name, focus.name} = KnownAlias
        \/ item.format \in DOMAIN reads /\ focus.name = reads[item.format]
        \/ get(conf, item) = formatted(Shipped, item)

\* An item that is not configured itself has the value of the item whose key it falls
\* back to, when that one is configured (queryNode.gracefulStopTimeout and
\* common.gracefulStopTimeout); without any configuration it has its own default.
FallbackAgrees ==
    focus # NoItem /\ temp = "" =>
        \A item, other \in {i \in Table : i.name = focus.name /\ i.format = "none"} :
            /\ item.fallback # <<>> /\ other.key = Head(item.fallback)
            /\ ~found(conf, item.key) /\ found(conf, other.key)
            => get(conf, item) = get(conf, other)

\* get panics only on an item one of whose keys somebody set to the empty string: the
\* defaults and the formatters keep every other PanicIfEmpty item readable, also after a
\* Remove.
Readable ==
    \A item \in Table :
        panics(conf, item) => \E i \in DOMAIN keys(item) :
                                  keys(item)[i] \in DOMAIN conf /\ conf[keys(item)[i]] = ""
===============================================================================
