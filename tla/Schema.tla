------------------------------- MODULE Schema --------------------------------
(***************************************************************************)
(* What pkg/util/typeutil reads off a collection schema: SchemaHelper and   *)
(* the linear lookups of schema.go, the size estimates of a row, and the   *)
(* empty columns of gen_empty_field_data.go.  A schema is built field by   *)
(* field; every question is asked of every schema.                         *)
(***************************************************************************)
EXTENDS Integers, Sequences, SequencesExt

CONSTANTS
    Fields,      \* the fields to build from: [name, id, type, pk, part, dyn, dim, maxLen];
                 \* dim and maxLen are 0 when the type parameter is missing
    MaxFields,
    RowLengths   \* lengths of a stored string, array or JSON value

VARIABLES
    fields,   \* CollectionSchema.Fields
    helper    \* SchemaHelper, or Err
vars == <<fields, helper>>

Err == [err |-> TRUE]
None == 0     \* "not found" in a lookup, -1 in the code

IsVectorType(t) == t \in {"FloatVector", "BinaryVector"}
IsIntegerType(t) == t \in {"Int8", "Int16", "Int32", "Int64"}
IsStringType(t) == t \in {"String", "VarChar"}
IsVariableDataType(t) == IsStringType(t) \/ t \in {"Array", "JSON"}
IsPrimaryFieldType(t) == t \in {"Int64", "VarChar"}
-------------------------------------------------------------------------------
NewHelper == [err |-> FALSE, nameOffset |-> <<>>, idOffset |-> <<>>,
              primaryKeyOffset |-> None, partitionKeyOffset |-> None]

put(map, key, offset) == [k \in DOMAIN map \cup {key} |-> IF k = key THEN offset ELSE map[k]]

\* One round of CreateSchemaHelper's loop.
enterNameOnly(h, field, offset) ==                                            \* mutant
    IF h.err \/ field.name \in DOMAIN h.nameOffset THEN Err
    ELSE [h EXCEPT !.nameOffset = put(@, field.name, offset),
                   !.idOffset = put(@, field.id, offset),
                   !.primaryKeyOffset = IF field.pk THEN offset ELSE @,
                   !.partitionKeyOffset = IF field.part THEN offset ELSE @]
enter(h, field, offset) ==
    IF \/ h.err
       \/ field.name \in DOMAIN h.nameOffset
       \/ field.id \in DOMAIN h.idOffset
       \/ field.pk /\ h.primaryKeyOffset # None
       \/ field.part /\ h.partitionKeyOffset # None
    THEN Err
    ELSE [h EXCEPT !.nameOffset = put(@, field.name, offset),
                   !.idOffset = put(@, field.id, offset),
                   !.primaryKeyOffset = IF field.pk THEN offset ELSE @,
                   !.partitionKeyOffset = IF field.part THEN offset ELSE @]

CreateSchemaHelper(fs) ==
    FoldLeft(LAMBDA h, offset : enter(h, fs[offset], offset), NewHelper, [o \in DOMAIN fs |-> o])

at(fs, offset) == IF offset = None THEN Err ELSE fs[offset]
GetPrimaryKeyField(h) == at(fields, h.primaryKeyOffset)
GetPartitionKeyField(h) == at(fields, h.partitionKeyOffset)
GetFieldFromName(h, name) ==
    IF name \in DOMAIN h.nameOffset THEN at(fields, h.nameOffset[name]) ELSE Err
GetFieldFromID(h, id) == IF id \in DOMAIN h.idOffset THEN at(fields, h.idOffset[id]) ELSE Err
\* An unknown name stands for a key of the dynamic JSON field.
GetFieldFromNameDefaultJSON(h, name) ==
    IF name \in DOMAIN h.nameOffset THEN at(fields, h.nameOffset[name])
    ELSE at(fields, SelectInSeq(fields, LAMBDA f : f.type = "JSON" /\ f.dyn))
GetVectorDimFromID(h, id) ==
    LET f == GetFieldFromID(h, id)
    IN IF f = Err \/ ~IsVectorType(f.type) \/ f.dim = 0 THEN None ELSE f.dim
GetDim(f) == IF IsVectorType(f.type) THEN f.dim ELSE None

\* The linear lookups.
GetVectorFieldSchema == at(fields, SelectInSeq(fields, LAMBDA f : IsVectorType(f.type)))
GetPrimaryFieldSchema == at(fields, SelectInSeq(fields, LAMBDA f : f.pk))
GetPartitionKeyFieldSchema == at(fields, SelectInSeq(fields, LAMBDA f : f.part))
GetField(id) == at(fields, SelectInSeq(fields, LAMBDA f : f.id = id))
\* By id or by name: the first column that matches either.
GetPrimaryFieldData(datas, primary) ==
    at(datas, SelectInSeq(datas, LAMBDA d : d.id = primary.id \/ d.name = primary.name))
-------------------------------------------------------------------------------
fixedSize(t) == CASE t \in {"Bool", "Int8"} -> 1
                  [] t = "Int16" -> 2
                  [] t \in {"Int32", "Float"} -> 4
                  [] t \in {"Int64", "Double"} -> 8
                  [] OTHER -> 0

\* -1 for an error: a VarChar without max_length.
GetAvgLengthOfVarLengthField(f) ==
    CASE f.type = "VarChar" -> IF f.maxLen = 0 THEN -1 ELSE IF f.maxLen > 256 THEN 256 ELSE f.maxLen
      [] f.type \in {"Array", "JSON"} -> 512

recordSizeBits(f) ==                                                          \* mutant
    CASE f.type = "FloatVector" -> f.dim * 4
      [] f.type = "BinaryVector" -> f.dim
      [] f.type \in {"VarChar", "Array", "JSON"} -> GetAvgLengthOfVarLengthField(f)
      [] OTHER -> fixedSize(f.type)
recordSize(f) ==
    CASE f.type = "FloatVector" -> f.dim * 4
      [] f.type = "BinaryVector" -> f.dim \div 8
      [] f.type \in {"VarChar", "Array", "JSON"} -> GetAvgLengthOfVarLengthField(f)
      [] OTHER -> fixedSize(f.type)
sum(xs) == FoldLeft(LAMBDA a, b : a + b, 0, xs)
EstimateSizePerRecord(fs) ==
    IF \E i \in DOMAIN fs : recordSize(fs[i]) = -1 THEN -1
    ELSE sum([i \in DOMAIN fs |-> recordSize(fs[i])])

\* The arm of a FieldData in which the values of a type lie.
genEmptyScalar(t) == CASE t = "Bool" -> "BoolData"
                       [] t \in {"Int8", "Int16", "Int32"} -> "IntData"
                       [] t = "Int64" -> "LongData"
                       [] t = "Float" -> "FloatData"
                       [] t = "Double" -> "DoubleData"
                       [] t = "VarChar" -> "StringData"
                       [] t = "Array" -> "ArrayData"
                       [] t = "JSON" -> "JsonData"
                       [] OTHER -> "none"
GenEmptyFieldData(f) ==
    CASE IsVectorType(f.type) -> IF GetDim(f) = None THEN Err
                                 ELSE [arm |-> f.type, type |-> f.type, id |-> f.id,
                                       name |-> f.name, dim |-> f.dim]
      [] genEmptyScalar(f.type) # "none" -> [arm |-> genEmptyScalar(f.type), type |-> f.type,
                                             id |-> f.id, name |-> f.name, dim |-> 0]
      [] OTHER -> Err

\* The arm CalcColumnSize reads, and the bytes of n stored values of length len.
calcArmLong(t) == IF t = "Int32" THEN "LongData" ELSE genEmptyScalar(t)       \* mutant
calcArm(t) == CASE t \in {"Bool"} -> "BoolData"
                [] t \in {"Int8", "Int16", "Int32"} -> "IntData"
                [] t \in {"Int64"} -> "LongData"
                [] t \in {"Float"} -> "FloatData"
                [] t \in {"Double"} -> "DoubleData"
                [] t \in {"VarChar"} -> "StringData"
                [] t \in {"Array"} -> "ArrayData"
                [] t \in {"JSON"} -> "JsonData"
                [] OTHER -> "none"
CalcColumnSize(data, n, len) ==
    CASE calcArm(data.type) # data.arm -> 0
      [] IsVariableDataType(data.type) -> n * len
      [] OTHER -> n * fixedSize(data.type)

\* A row of columns whose variable values have length len.
entitySize(data, len) == CASE data.type = "BinaryVector" -> data.dim
                           [] data.type = "FloatVector" -> data.dim * 4
                           [] IsVariableDataType(data.type) -> len
                           [] OTHER -> fixedSize(data.type)
EstimateEntitySize(datas, len) == sum([i \in DOMAIN datas |-> entitySize(datas[i], len)])
-------------------------------------------------------------------------------
Init == fields = <<>> /\ helper = CreateSchemaHelper(<<>>)

AddField(f) ==
    /\ Len(fields) < MaxFields
    /\ fields' = Append(fields, f)
    /\ helper' = CreateSchemaHelper(fields')

Next == \E f \in Fields : AddField(f)
-------------------------------------------------------------------------------
Datas == [i \in DOMAIN fields |-> GenEmptyFieldData(fields[i])]
Storable == \A i \in DOMAIN fields : Datas[i] # Err

once(P(_)) == \A i, j \in DOMAIN fields : P(fields[i]) /\ P(fields[j]) => i = j

\* SchemaHelper is refused exactly when a name or an id comes twice or there are two primary
\* or partition keys; otherwise its lookups find what the linear ones find, and the primary
\* column of a row is the same whether it is looked up by id or by name.
LookupsAgree ==
    /\ ~helper.err <=> /\ \A i, j \in DOMAIN fields : i # j =>
                            fields[i].name # fields[j].name /\ fields[i].id # fields[j].id
                       /\ once(LAMBDA f : f.pk) /\ once(LAMBDA f : f.part)
    /\ ~helper.err =>
        /\ GetPrimaryKeyField(helper) = GetPrimaryFieldSchema
        /\ GetPartitionKeyField(helper) = GetPartitionKeyFieldSchema
        /\ \A f \in Fields :
            /\ GetFieldFromID(helper, f.id) = GetField(f.id)
            /\ f \in ToSet(fields) =>
                /\ GetFieldFromName(helper, f.name) = f
                /\ GetFieldFromNameDefaultJSON(helper, f.name) = f
                /\ GetVectorDimFromID(helper, f.id) = GetDim(f)
        /\ Storable /\ GetPrimaryFieldSchema # Err =>
            GetPrimaryFieldData(Datas, GetPrimaryFieldSchema).id = GetPrimaryFieldSchema.id

\* The estimate from the schema and the one from a row agree when the variable values have
\* the length the schema lets expect, except that a row counts a binary vector with a byte
\* for each bit; and n rows of a column take n times the bytes of one (vectors are not counted).
SizesAgree ==
    Storable /\ EstimateSizePerRecord(fields) # -1 =>
        /\ \A len \in RowLengths :
            (\A i \in DOMAIN fields : IsVariableDataType(fields[i].type) =>
                                        GetAvgLengthOfVarLengthField(fields[i]) = len) =>
            EstimateEntitySize(Datas, len) - EstimateSizePerRecord(fields)
                = sum([i \in DOMAIN fields |-> IF fields[i].type = "BinaryVector"
                                              THEN fields[i].dim - fields[i].dim \div 8 ELSE 0])
        /\ \A i \in DOMAIN fields : \A len \in RowLengths :
            ~IsVectorType(fields[i].type) =>
                CalcColumnSize(Datas[i], 2, len) = 2 * entitySize(Datas[i], len)
===============================================================================
