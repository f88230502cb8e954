-------------------------------- MODULE Batches --------------------------------
(***************************************************************************)
(* SaveByBatchWithLimit and RemoveByBatchWithLimit of                       *)
(* pkg/util/etcd/etcd_util.go: the keys in batches of at most limit, one    *)
(* transaction for each, up to the first that fails.                        *)
(***************************************************************************)
EXTENDS Integers, Sequences, SequencesExt

CONSTANTS Keys, Limits

VARIABLES
    keys,       \* in the order of the loop; of a map, in any order
    limit, i,
    batch,      \* of the last transaction that succeeded
    committed,  \* the keys of all of them, in order
    outcome     \* "call", "loop", "nil", "error"
vars == <<keys, limit, i, batch, committed, outcome>>

min(a, b) == IF a < b THEN a ELSE b

Init ==
    /\ keys = <<>> /\ limit = 0 /\ i = 0 /\ batch = <<>> /\ committed = <<>>
    /\ outcome = "call"

Call(S, l) ==
    /\ outcome = "call" /\ outcome' = "loop"
    /\ keys' \in SetToSeqs(S) /\ limit' = l
    /\ UNCHANGED <<i, batch, committed>>

endOff(start) == min(start + limit, Len(keys) - 1)                                \* mutant
end(start) == min(start + limit, Len(keys))
buildKvGroup(start) == SubSeq(keys, start + 1, end(start))

Batch ==
    /\ outcome = "loop"
    /\ \/ i >= Len(keys) /\ outcome' = "nil" /\ UNCHANGED <<i, batch, committed>>
       \/ /\ i < Len(keys)
          /\ batch' = buildKvGroup(i) /\ committed' = committed \o batch' /\ i' = i + limit
          /\ UNCHANGED outcome
       \/ i < Len(keys) /\ outcome' = "error" /\ UNCHANGED <<i, batch, committed>>
    /\ UNCHANGED <<keys, limit>>

Next == Batch \/ \E S \in SUBSET Keys : \E l \in Limits : Call(S, l)
-------------------------------------------------------------------------------
\* The batches one after the other are the keys up to some point, each once; no batch is
\* above the limit or empty, nil means that every key was saved, and after an error the
\* batches before it stay: nothing is undone.
BatchesExact ==
    /\ IsPrefix(committed, keys)
    /\ i > 0 => Len(batch) \in 1..limit
    /\ outcome = "nil" => committed = keys
    /\ outcome = "error" => Len(committed) < Len(keys)
===============================================================================
