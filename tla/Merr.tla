-------------------------------- MODULE Merr ---------------------------------
(***************************************************************************)
(* The errors of pkg/util/merr: leaves with a code, wrapping, Combine, and  *)
(* the way through a commonpb.Status to the other side of a call.  An error *)
(* is a tree of records; messages are left out.  One error is made, wrapped, *)
(* combined and sent on, to peers of this version and to older ones that   *)
(* only know ErrorCode.                                                    *)
(***************************************************************************)
EXTENDS Integers, Sequences, SequencesExt

CONSTANTS
    Others,   \* errors that are combined with the one at hand
    MaxOps    \* bound on what happens to an error

VARIABLES
    err,      \* the error
    last,     \* the leaf that was put in last
    alone,    \* some Combine was left with one error
    old,      \* the error has passed a peer that only knows ErrorCode
    ops
vars == <<err, last, alone, old, ops>>

Nil == [kind |-> "nil"]
MilvusError(code, retriable) == [kind |-> "milvus", code |-> code, retriable |-> retriable]
Context(name) == [kind |-> "context", name |-> name]
Other == [kind |-> "other"]
Wrap(e) == [kind |-> "wrap", err |-> e]
MultiErrors(es) == [kind |-> "multi", errs |-> es]

CanceledCode == 10000
TimeoutCode == 10001
ErrUnexpected == MilvusError(65535, FALSE)
-------------------------------------------------------------------------------
\* The declared codes by section, and those that are retriable.
ServiceCodes == 1..11
MetaCodes == (100..103) \cup (200..202) \cup {250, 300, 400, 401}
ChannelCodes == (500..503) \cup (600..603) \cup (700..702) \cup (800..802) \cup (901..906)
IoCodes == (1000..1002) \cup {1100, 1101, 1200} \cup (1300..1303)
NameCodes == {1400, 1401} \cup (1600..1603) \cup {1700, 1701}
RestCodes == (1800..1807) \cup (1900..1903) \cup {2000, 2100, 2200}
Retriable == {1, 2, 4, 8, 103, 202, 1002, 1807, 2200}

newMilvusError(code) == MilvusError(code, code \in Retriable)

ErrServiceNotReady == newMilvusError(1)
ErrServiceMemoryLimitExceeded == 3
ErrServiceDiskLimitExceeded == 7
ErrServiceRateLimit == 8
ErrServiceQuotaExceeded == 9
ErrServiceTimeTickLongDelay == 11
ErrCollectionNotFound == 100
ErrPartitionNotFound == 200
ErrReplicaNotFound == 400
ErrReplicaNotAvailable == 401
ErrChannelNotFound == 500
ErrChannelLack == 501
ErrChannelNotAvailable == 503
ErrSegmentNotFound == 600
ErrIndexNotFound == 700
ErrNodeNotMatch == 904
ErrNodeNotAvailable == 905
ErrParameterInvalid == 1100
-------------------------------------------------------------------------------
\* WrapErr...(..., msg...): the leaf with its fields, under a Wrap when there is a message.
\* The sets are the leaves that have such a constructor, section by section.
wrapService == ServiceCodes \ {10, 11}
wrapDatabase == 800..802
wrapCollection == (100..103) \cup (1600..1603)
wrapPartition == (200..202) \cup {250, 300, 400, 401}
wrapChannel == (500..503) \cup (600..603)
wrapIndexNode == (700..702) \cup (901..906)
wrapIo == {1000, 1001, 1100, 1101, 1200, 1300, 1301, 1302, 1700, 1701, 2000, 2100, 2200}
withMessage == wrapService \cup wrapDatabase \cup wrapCollection \cup wrapPartition
    \cup wrapChannel \cup wrapIndexNode \cup wrapIo
\* WrapErrParameterInvalidMsg and the privilege errors always have a message,
\* WrapErrServiceUnimplemented and WrapErrIoUnexpectEOF never.
alwaysMessage == {1100, 1400, 1401}

Declared == ServiceCodes \cup MetaCodes \cup ChannelCodes \cup IoCodes \cup NameCodes \cup RestCodes
WrapErr(code, msg) == IF msg THEN Wrap(newMilvusError(code)) ELSE newMilvusError(code)
Leaves == {newMilvusError(c) : c \in Declared} \cup
          {Context("Canceled"), Context("DeadlineExceeded"), Other}
-------------------------------------------------------------------------------
multiUnwrap(es) == CASE Len(es) <= 1 -> Nil
                     [] Len(es) = 2 -> es[2]
                     [] OTHER -> MultiErrors(Tail(es))
Unwrap(e) == CASE e.kind = "wrap" -> e.err
               [] e.kind = "multi" -> multiUnwrap(e.errs)
               [] OTHER -> Nil

RECURSIVE Cause(_)
Cause(e) == IF Unwrap(e) = Nil THEN e ELSE Cause(Unwrap(e))

CombineFirst(es) ==                                                           \* mutant
    LET left == SelectSeq(es, LAMBDA e : e # Nil)
    IN IF left = <<>> THEN Nil ELSE MultiErrors(Reverse(left))
Combine(es) ==
    LET left == SelectSeq(es, LAMBDA e : e # Nil)
    IN IF left = <<>> THEN Nil ELSE MultiErrors(left)

Code(e) ==
    LET cause == Cause(e)
    IN CASE e = Nil -> 0
         [] e # Nil /\ cause.kind = "milvus" -> cause.code
         [] e # Nil /\ cause = Context("Canceled") -> CanceledCode
         [] e # Nil /\ cause = Context("DeadlineExceeded") -> TimeoutCode
         [] OTHER -> ErrUnexpected.code

\* Only a bare leaf is retriable, a wrapped one is not.
IsRetryableErr(e) == e.kind = "milvus" /\ e.retriable

oldCode(code) ==
    CASE code = ErrServiceNotReady.code -> "NotReadyServe"
      [] code = ErrCollectionNotFound -> "CollectionNotExists"
      [] code = ErrParameterInvalid -> "IllegalArgument"
      [] code = ErrNodeNotMatch -> "NodeIDNotMatch"
      [] code \in {ErrPartitionNotFound, ErrReplicaNotFound, ErrChannelLack} -> "MetaFailed"
      [] code \in {ErrReplicaNotAvailable, ErrChannelNotAvailable, ErrNodeNotAvailable} ->
            "NoReplicaAvailable"
      [] code = ErrServiceMemoryLimitExceeded -> "InsufficientMemoryToLoad"
      [] code = ErrServiceDiskLimitExceeded -> "DiskQuotaExhausted"
      [] code = ErrServiceTimeTickLongDelay -> "TimeTickLongDelay"
      [] code = ErrServiceRateLimit -> "RateLimit"
      [] code = ErrServiceQuotaExceeded -> "ForceDeny"
      [] code = ErrIndexNotFound -> "IndexNotExist"
      [] code = ErrSegmentNotFound -> "SegmentNotFound"
      [] OTHER -> "UnexpectedError"

OldCodeToMerr(errorCode) ==
    LET known == [NotReadyServe |-> ErrServiceNotReady.code,
                  CollectionNotExists |-> ErrCollectionNotFound,
                  IllegalArgument |-> ErrParameterInvalid, NodeIDNotMatch |-> ErrNodeNotMatch,
                  InsufficientMemoryToLoad |-> ErrServiceMemoryLimitExceeded,
                  MemoryQuotaExhausted |-> ErrServiceMemoryLimitExceeded,
                  DiskQuotaExhausted |-> ErrServiceDiskLimitExceeded,
                  TimeTickLongDelay |-> ErrServiceTimeTickLongDelay,
                  RateLimit |-> ErrServiceRateLimit, ForceDeny |-> ErrServiceQuotaExceeded,
                  IndexNotExist |-> ErrIndexNotFound, SegmentNotFound |-> ErrSegmentNotFound,
                  MetaFailed |-> ErrChannelNotFound]
    IN IF errorCode \in DOMAIN known THEN newMilvusError(known[errorCode]) ELSE ErrUnexpected

Status(e) ==
    IF e = Nil THEN [code |-> 0, errorCode |-> "Success", retriable |-> FALSE]
    ELSE [code |-> Code(e), errorCode |-> oldCode(Code(e)), retriable |-> IsRetryableErr(e)]

OkByCode(status) == status.code = 0                                           \* mutant
Ok(status) == status.errorCode = "Success" /\ status.code = 0

ErrorRetried(status) == IF Ok(status) THEN Nil ELSE MilvusError(status.code, TRUE)  \* mutant
Error(status) ==
    CASE Ok(status) -> Nil
      [] ~Ok(status) /\ status.code = 0 ->
            MilvusError(Code(OldCodeToMerr(status.errorCode)), FALSE)
      [] OTHER -> MilvusError(status.code, status.retriable)

\* What a caller makes of an answer; a failed call and an empty answer are errors themselves.
CheckRPCCall(resp, callErr) ==
    CASE callErr # Nil -> callErr
      [] callErr = Nil /\ resp = Nil -> ErrUnexpected
      [] OTHER -> Error(resp)

\* CheckHealthy, IsHealthy: one state passes; the others let a second one pass.
CheckHealthy(state, alsoOk) ==
    IF state \in {"Healthy"} \cup alsoOk THEN Nil ELSE WrapErr(ErrServiceNotReady.code, FALSE)
\* AnalyzeState: the status of the answer first, then the state in it.
AnalyzeState(status, state) ==
    IF Error(status) # Nil THEN Wrap(Error(status)) ELSE CheckHealthy(state, {})
-------------------------------------------------------------------------------
Init == err = Nil /\ last = Nil /\ alone = FALSE /\ old = FALSE /\ ops = 0

Op == ops < MaxOps /\ ops' = ops + 1

\* A leaf, or what one of the constructors makes of it.
New(leaf) ==
    /\ err = Nil /\ Op
    /\ \E msg \in BOOLEAN :
        /\ msg => leaf.kind = "milvus" /\ leaf.code \in withMessage \cup alwaysMessage
        /\ err' = IF msg THEN WrapErr(leaf.code, TRUE) ELSE leaf
    /\ last' = leaf
    /\ UNCHANGED <<alone, old>>

Check(state, alsoOk) ==
    /\ err = Nil /\ Op /\ err' = CheckHealthy(state, alsoOk)
    /\ last' = IF err' = Nil THEN Nil ELSE ErrServiceNotReady
    /\ UNCHANGED <<alone, old>>

Annotate == err # Nil /\ Op /\ err' = Wrap(err) /\ UNCHANGED <<last, alone, old>>

Join(e) ==
    /\ err # Nil /\ Op /\ err' = Combine(<<err, e>>)
    /\ IF e = Nil THEN alone' = TRUE /\ UNCHANGED last
       ELSE last' = e /\ alone' = FALSE
    /\ old' = (old /\ e = Nil)

\* The error is the answer of a call, made by a peer of this version or by an old one.
Answer ==
    /\ err # Nil /\ Op /\ err' = CheckRPCCall(Status(err), Nil)
    /\ UNCHANGED <<last, alone, old>>
AnswerOld ==
    /\ err # Nil /\ Op /\ old' = TRUE
    /\ err' = CheckRPCCall([Status(err) EXCEPT !.code = 0, !.retriable = FALSE], Nil)
    /\ UNCHANGED <<last, alone>>
Analyze(state) ==
    /\ err # Nil /\ Op /\ err' = AnalyzeState(Status(err), state)
    /\ UNCHANGED <<last, alone, old>>

Next ==
    \/ \E leaf \in Leaves : New(leaf)
    \/ \E state \in {"Healthy", "StandBy", "Stopping", "Abnormal"} :
        \/ \E alsoOk \in {{}, {"StandBy"}, {"Stopping"}} : Check(state, alsoOk)
        \/ Analyze(state)
    \/ Annotate
    \/ \E e \in Others \cup {Nil} : Join(e)
    \/ Answer
    \/ AnswerOld
-------------------------------------------------------------------------------
\* The code of an error is that of the leaf put in last, through wrapping, Combine and any
\* number of calls ("cause of multi errors, which defined as the last error"), unless a
\* Combine was left with one error: multiErrors.Unwrap then ends there and the code is lost.
\* Old peers keep the code, its class (MetaFailed), or nothing.
CodeOfLast ==
    last # Nil /\ ~alone =>
        Code(err) \in {Code(last)} \cup (IF old THEN {ErrChannelNotFound, ErrUnexpected.code}
                                         ELSE {})

\* An error never arrives as success, from whatever peer.
NeverOk == last # Nil => err # Nil /\ ~Ok(Status(err))

\* Nobody is told to retry what its maker did not call retriable.
RetryNotInvented == err # Nil /\ IsRetryableErr(err) => last.kind = "milvus" /\ last.retriable
===============================================================================
