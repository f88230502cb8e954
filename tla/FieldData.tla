------------------------------ MODULE FieldData ------------------------------
(***************************************************************************)
(* Results of searches (pkg/util/typeutil/schema.go).                       *)
(*                                                                         *)
(* The columns of a result and the operations that fill them:              *)
(* PrepareResultFieldData, AppendFieldData, DeleteFieldData and             *)
(* MergeFieldData.  A column holds its values one after the other; a vector *)
(* takes several places.  A value is known by where it comes from: result,  *)
(* row and place.                                                          *)
(*                                                                         *)
(* SelectMinPK and SelectMinPKWithTimestamp as the reduce of several sorted *)
(* results uses them: select a result, take the entity under its cursor,    *)
(* advance it, until nothing is selected or a result that has more on its   *)
(* node is drained.  A behaviour does one or the other.                     *)
(***************************************************************************)
EXTENDS Integers, Sequences, SequencesExt

CONSTANTS
    Columns,     \* the columns of every result: <<[kind, dim], ...>>
    Sources,     \* the results the rows are taken from
    NumRows,     \* rows of a result
    MaxRows,     \* bound on the rows of dst
    MaxDeletes,
    Shards,      \* the results to be reduced, 1..n
    MaxPK,       \* math.MaxInt64
    PKs,         \* primary keys, MaxPK among them
    Timestamps,
    MaxLen       \* entities of a result

VARIABLES
    dst,      \* what each column of dst holds, Nil before anything was put in it
    rows,     \* the rows put in and not deleted: <<result, index>>
    deleted,  \* how often DeleteFieldData was called
    results,  \* shard |-> [ids: <<[pk, ts], ...>>, more]
    cursors,  \* shard |-> entities taken
    out,      \* the entities taken, in order
    state     \* "fill", "reduce", "done" or "drained"
vars == <<dst, rows, deleted, results, cursors, out, state>>
columnVars == <<dst, rows, deleted>>
reduceVars == <<results, cursors, out, state>>

Nil == <<<<>>>>      \* no data at all
Cols == DOMAIN Columns

Init ==
    /\ dst = [c \in Cols |-> Nil] /\ rows = <<>> /\ deleted = 0
    /\ results = [s \in Shards |-> [ids |-> <<>>, more |-> FALSE]]
    /\ cursors = [s \in Shards |-> 0]
    /\ out = <<>> /\ state = "fill"
-------------------------------------------------------------------------------
(* Columns *)

\* Places that a row takes in a column.
width(c) == CASE Columns[c].kind = "FloatVector" -> Columns[c].dim
              [] Columns[c].kind = "BinaryVector" -> Columns[c].dim \div 8
              [] OTHER -> 1

\* A column of a result, its rows one after the other; indices start at 0.
column(result, c) ==
    [p \in 1..(NumRows * width(c)) |-> <<result, (p - 1) \div width(c), (p - 1) % width(c)>>]

\* Row idx of a column.
sliceUnscaled(result, c, idx) ==                                              \* mutant
    SubSeq(column(result, c), idx + 1, idx + width(c))
slice(result, c, idx) ==
    SubSeq(column(result, c), idx * width(c) + 1, (idx + 1) * width(c))

held(c) == IF dst[c] = Nil THEN <<>> ELSE dst[c]

\* Empty columns of the kinds of the sample, with room for topK rows.
PrepareResultFieldData ==
    /\ dst = [c \in Cols |-> Nil]
    /\ dst' = [c \in Cols |-> <<>>]
    /\ UNCHANGED <<rows, deleted, reduceVars>>

AppendFieldData(result, idx) ==
    /\ Len(rows) < MaxRows
    /\ dst' = [c \in Cols |-> held(c) \o slice(result, c, idx)]
    /\ rows' = Append(rows, <<result, idx>>)
    /\ UNCHANGED <<deleted, reduceVars>>

\* The kinds DeleteFieldData has a case for; an array column keeps its last value.
deletesFrom(c) == Columns[c].kind # "Array"
DeleteFieldData ==
    /\ rows # <<>> /\ deleted < MaxDeletes
    /\ dst' = [c \in Cols |-> IF deletesFrom(c) THEN SubSeq(dst[c], 1, Len(dst[c]) - width(c))
                              ELSE dst[c]]
    /\ rows' = Front(rows) /\ deleted' = deleted + 1
    /\ UNCHANGED reduceVars

\* All rows of a result behind those of dst, column by column, the columns found by their
\* field id.
MergeFieldData(result) ==
    /\ Len(rows) + NumRows <= MaxRows /\ dst # [c \in Cols |-> Nil]
    /\ dst' = [c \in Cols |-> held(c) \o column(result, c)]
    /\ rows' = rows \o [i \in 1..NumRows |-> <<result, i - 1>>]
    /\ UNCHANGED <<deleted, reduceVars>>

\* GetNumRowOfFieldData of funcutil, from the length of a column alone; -1 for its errors.
numRowsByDim(c) == IF Columns[c].kind = "BinaryVector"                         \* mutant
                   THEN Len(dst[c]) \div Columns[c].dim ELSE Len(dst[c]) \div width(c)
GetNumRowOfFieldData(c) ==
    LET dim == Columns[c].dim
        n == Len(dst[c])
    IN CASE Columns[c].kind = "FloatVector" ->
                IF dim <= 0 \/ n % dim # 0 THEN -1 ELSE n \div dim
         [] Columns[c].kind = "BinaryVector" ->
                IF dim <= 0 \/ dim % 8 # 0 \/ (8 * n) % dim # 0 THEN -1 ELSE (8 * n) \div dim
         [] OTHER -> n

\* The slices of dimension places that a column is cut into; Nil when the last one runs
\* past the data.
flattenedVectors(data, dimension) ==
    LET n == (Len(data) + dimension - 1) \div dimension
    IN IF n * dimension > Len(data) THEN Nil
       ELSE [i \in 1..n |-> SubSeq(data, (i - 1) * dimension + 1, i * dimension)]

\* The values of the placeholder group of a vector column.  Binary vectors are cut by their
\* dimension too, although they take one byte for eight of it.
cutOneMore(c) == flattenedVectors(dst[c], width(c) + 1)                          \* mutant
FieldDataToPlaceholderGroupBytes(c) == flattenedVectors(dst[c], Columns[c].dim)
-------------------------------------------------------------------------------
(* The reduce *)

\* The ids of a result, of either type: their number, and one more at the end.
GetSizeOfIDs(ids) == Len(ids)
AppendIDs(ids, src, idx) == Append(ids, src[idx + 1])

drained(s) == cursors[s] >= GetSizeOfIDs(results[s].ids) /\ results[s].more

\* GetPK: the entity under the cursor, if there is one.
readable == {s \in Shards : ~drained(s) /\ cursors[s] < GetSizeOfIDs(results[s].ids)}
current(s) == results[s].ids[cursors[s] + 1]

firstReadable ==                                                                 \* mutant
    LET below == {s \in readable : current(s).pk < MaxPK}
    IN IF below = {} THEN 0 ELSE CHOOSE s \in below : \A t \in below : s <= t
\* The first result with the least primary key; the search starts from MaxInt64.
SelectMinPK ==
    LET below == {s \in readable : current(s).pk < MaxPK}
        least == {s \in below : \A t \in below : current(s).pk <= current(t).pk}
    IN IF below = {} THEN 0 ELSE CHOOSE s \in least : \A t \in least : s <= t

minPKAnyTs ==                                                                 \* mutant
    IF readable = {} THEN 0
    ELSE CHOOSE s \in readable : \A t \in readable : current(s).pk <= current(t).pk
\* ... and of those the latest timestamp; the search starts from MaxInt64 and timestamp 0.
SelectMinPKWithTimestamp ==
    LET able == {s \in readable : current(s).pk < MaxPK \/ current(s).ts > 0}
        least == {s \in able : \A t \in able : current(s).pk <= current(t).pk}
        latest == {s \in least : \A t \in least : current(s).ts >= current(t).ts}
    IN IF able = {} THEN 0 ELSE CHOOSE s \in latest : \A t \in latest : s <= t

\* A node answers with its entities sorted by primary key, one per key.
Fill(s, pk, ts) ==
    /\ state = "fill" /\ Len(results[s].ids) < MaxLen
    /\ \A e \in ToSet(results[s].ids) : e.pk < pk
    /\ results' = [results EXCEPT ![s].ids = Append(@, [pk |-> pk, ts |-> ts])]
    /\ UNCHANGED <<columnVars, cursors, out, state>>

\* GetHasMoreResult: the node has further entities behind these.
Start(more) ==
    /\ state = "fill" /\ state' = "reduce"
    /\ results' = [s \in Shards |-> [results[s] EXCEPT !.more = s \in more]]
    /\ UNCHANGED <<columnVars, cursors, out>>

\* The caller of SelectMinPKWithTimestamp: older versions of a key come later and are
\* dropped.
Reduce ==
    /\ state = "reduce"
    /\ LET sel == SelectMinPKWithTimestamp
       IN IF sel = 0 \/ \E s \in Shards : drained(s)
          THEN /\ state' = IF \E s \in Shards : drained(s) THEN "drained" ELSE "done"
               /\ UNCHANGED <<cursors, out>>
          ELSE /\ cursors' = [cursors EXCEPT ![sel] = @ + 1]
               /\ out' = IF out # <<>> /\ Last(out).pk = current(sel).pk THEN out
                         ELSE AppendIDs(out, results[sel].ids, cursors[sel])
               /\ UNCHANGED state
    /\ UNCHANGED <<columnVars, results>>
-------------------------------------------------------------------------------
Next ==
    \/ /\ results = [s \in Shards |-> [ids |-> <<>>, more |-> FALSE]] /\ state = "fill"
       /\ \/ PrepareResultFieldData
          \/ \E result \in Sources : \E idx \in 0..(NumRows - 1) : AppendFieldData(result, idx)
          \/ DeleteFieldData
          \/ \E result \in Sources : MergeFieldData(result)
    \/ /\ rows = <<>> /\ dst = [c \in Cols |-> Nil]
       /\ \/ \E s \in Shards : \E pk \in PKs : \E ts \in Timestamps : Fill(s, pk, ts)
          \/ \E more \in SUBSET Shards : Start(more)
          \/ Reduce
-------------------------------------------------------------------------------
\* Every column holds, place by place, the rows that were put in and not deleted, so that
\* index i is the same row in all of them; an array column no longer does once
\* DeleteFieldData was called.
Aligned ==
    \A c \in Cols : dst[c] # Nil /\ (deletesFrom(c) \/ deleted = 0) =>
        dst[c] = FlattenSeq([i \in DOMAIN rows |->
                     [p \in 1..width(c) |-> <<rows[i][1], rows[i][2], p - 1>>]])

\* The rows counted from the bytes of a column, as an insert is checked, are the rows put in.
RowsCounted ==
    \A c \in Cols : dst[c] # Nil /\ (deletesFrom(c) \/ deleted = 0) =>
        GetNumRowOfFieldData(c) = Len(rows)

\* A float column becomes one search vector for each of its rows, in their order.
PlaceholdersExact ==
    \A c \in Cols : Columns[c].kind = "FloatVector" /\ dst[c] # Nil =>
        FieldDataToPlaceholderGroupBytes(c) =
            [i \in DOMAIN rows |-> [p \in 1..width(c) |-> <<rows[i][1], rows[i][2], p - 1>>]]

entities(s) == {results[s].ids[i] : i \in DOMAIN results[s].ids}
All == UNION {entities(s) : s \in Shards}

\* The entities come out by rising primary key, each with the latest version any result
\* holds, and none that is left behind belongs before one that came out.  When the reduce
\* ends without a drained result every key came out.
LatestInOrder ==
    /\ \A i \in 1..(Len(out) - 1) : out[i].pk < out[i + 1].pk
    /\ \A i \in DOMAIN out : \A e \in All : e.pk = out[i].pk => e.ts <= out[i].ts
    /\ \A s \in readable : out # <<>> => Last(out).pk <= current(s).pk
    /\ state = "done" => \A e \in All : \E i \in DOMAIN out : out[i].pk = e.pk

\* Both selections take the same primary key, except that SelectMinPK never takes MaxInt64.
SelectionsAgree ==
    LET a == SelectMinPK
        b == SelectMinPKWithTimestamp
    IN /\ a # 0 => b # 0 /\ current(a).pk = current(b).pk
       /\ b # 0 /\ a = 0 => current(b).pk = MaxPK
===============================================================================
