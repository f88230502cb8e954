# Verification of stream-read

stream-read replays the message log of a Milvus collection: it subscribes to a
physical channel of the message queue (Pulsar), seeks to a saved position, reads
the log in packs cut at *time ticks*, and repeats the inserts and deletes of one
collection on another instance (`cmd/main.go`). Most of the repository is the
library below that program: the message streams (`pkg/mq/msgstream`), the
configuration with its refreshing sources (`pkg/config`, `pkg/util/paramtable`)
and utilities (`pkg/util`).

This directory holds TLA+ models of its core, TLC runs on small instances, and
TLAPS proofs. `PROJECT.json` maps every definition to its source lines and lists
components, runs, mutants, findings, hazards and theorems.

## 1. The system

### Components, their state and how they interact

| Component | State | Operations | Hard because of |
|---|---|---|---|
| Tick stream `MqTtMsgStream` (`mq_msgstream.go`) | consumers, per consumer a buffer `chanMsgBuf`, a position `chanMsgPos` and the last tick `chanTtMsgTime`; `lastTimeStamp`; the channel `receiveBuf`; three locks, a cancelled context, `closed` | AsConsumer, Seek, Chan, Close; goroutines `bufMsgPackToChannel` and one `consumeToTtMsg` per channel and round | channels that run ahead of one another, cuts, resume positions, copies, shutdown |
| Base stream `mqMsgStream` (same file) | producers, consumers, `enableProduce`, `receiveBuf` | AsProducer, Produce, Broadcast, AsConsumer, Seek, `receiveMsg` per channel, Close | partial sends, concurrent callers, shutdown |
| Pulsar wrapper (`mqwrapper/pulsar`) | per consumer `hasSeek`, `skip`, `msgChannel`, `closeCh`; one shared client | Chan (starts a goroutine), Seek, Ack, Close with retries | unsynchronised flags, read-ahead, a once-only client, ids that are only partly ordered |
| Messages and repacking (`msg*.go`, `repack_func.go`, `unmarshal.go`) | none | encode, decode, split over channels | what a conversion leaves behind |
| Factories and disposers (`mq_factory.go`, `msgstream_util.go`) | subscriptions at the broker | make streams, remove subscriptions | partial failure |
| Configuration `Manager` (`pkg/config`) | `sources`, `keySourceMap` (owner of a key), `overlays`, `forbiddenKeys`; per source its content and a refresher goroutine | AddSource, GetConfig(s), SetConfig, SetMapConfig, DeleteConfig, ResetConfig, ForbidUpdate, OnEvent, Dispatch, Close | several refreshers, events before commits, readers in between, two spellings of a key |
| Parameter tables (`paramtable`) | about 500 items bound to a Manager | `ParamItem.get`, fallbacks, formatters | shared keys, defaults that hide missing keys, limits that look at each other |
| Recovery program (`cmd/main.go`) | none that survives | subscribe, seek, read packs, insert, delete, stop | errors that are only logged, stop conditions, its own writes in the topic |
| Utilities (`retry`, `typeutil`, `funcutil`, `conc`, `timerecord`, `tsoutil`, `merr`, `metricsinfo`, `indexparamcheck`, `etcd`, `commonpbutil`, `metrics`) | containers with their counters, goroutines, caches, collectors | | interleavings, attempts, boundaries |

Interactions. The program calls the stream; the stream owns a consumer per channel
and reads its Go channel; it hands packs to the program through `receiveBuf`. The
stream also reads parameters and watches one (`TTMsgEnabled`): a refresher of the
configuration calls the stream's handler through `Manager.OnEvent` and the
dispatcher. Close goes the other way: it cancels the context, waits for the readers
of `closeRWMutex`, closes consumers, client and `receiveBuf`.

### What makes the components correct

*Tick stream.* A pack holds exactly the messages of all channels between two
successive common ticks; the packs follow one another without gap; the end
positions of a pack are exact resume points; nothing is lost or delivered twice over
restarts; reading goes on to every common tick; Close returns and nobody uses
what it closed.

*Configuration.* A key is read from the source of highest priority that holds it; a
reader never misses a key that is there; a watcher has the current value; a change
gets through; Close returns.

*Consumer.* Whatever the library has read ahead, a reader sees one cursor: every
message from its position on, once, in order; Close lets it go.

*Base stream.* Rows of one key stay on one channel and in order; concurrent
broadcasts agree on their order; the program receives what is readable.

*Recovery.* It stops, has come to everything it owes, rebuilds the source's rows
when no call failed, and never repeats what it wrote itself.

*Utilities.* Counters match contents, calls return and leave no goroutine, retries
keep their bounds, conversions lose nothing, limits stay usable.

The list of hazards, each at its line, is in `PROJECT.json`.

## 2. Modules

| Module | What it is |
|---|---|
| `MsgLog` | Logs of the channels: messages with type, id, first and last timestamp, size; what the producers promise about ticks (external); "this set of messages stands for that one, up to copies" |
| `TtMsgStream` | The tick stream and the program that uses it, with the logs for TLC |
| `TickDelivery` | Abstract specification: data arrives window by window, each window complete over all channels, no message twice |
| `TtMsgStreamProofs` | Lemmas on the operators, type correctness, the quiet close, the invariant of the reader |
| `TtDeliveryProofs` | What packs hold and how they chain; resume positions, restarts, the refinement of `TickDelivery` |
| `ConfigManager` | Manager, sources, refreshers, run-time calls, a reader, a watcher, Close; one key in two spellings for TLC |
| `ConfigProofs` | Types, owners of keys, readers, the watcher |
| `ReadCursor` | Abstract specification of a consumer: a cursor that Seek positions |
| `PulsarConsumer` | The consumer wrapper over a library that reads ahead; implements `ReadCursor` |
| `PulsarProofs` | Its invariant and the refinement |
| `MsgStream` | The base stream with its callers, repacking and `receiveMsg`, with the instance for TLC |
| `MsgStreamProofs` | What is received, and the order of broadcasts |
| `Recovery` | `cmd/main.go` over a tick delivery, with the topics for TLC |
| `RecoveryProofs` | What main owes and replays, its own writes, the refinement of `TickDelivery` |
| `Helpers` | Those of the following modules that are proved about, side by side: a behaviour picks one and runs it |
| `HelperProofs` | Their invariants, one for each helper |
| `MCUtilities` | `Helpers` and the other following modules, side by side for TLC |
| `Retry` | `Do` and `Handle` with options, back-off, deadline and cancellation |
| `ConcurrentMap`, `Sets`, `SkipList` | Containers of `typeutil` |
| `Parallel`, `Futures`, `GroupChecker`, `InfoCache` | Goroutines and what they share |
| `StreamFactory`, `Subscriptions` | The shared pulsar client; subscriptions and who removes them |
| `EtcdSource` | Locks of the etcd source: refresh, UpdateOptions, Close |
| `ConfigView`, `EventDispatcher` | Keys in two spellings, groups, watchers of keys and prefixes |
| `Items`, `ParamTable`, `ParamFormat` | Every declared parameter; reading one while another is configured; the formatters that compute |
| `IndexChecks` | The checks of index parameters |
| `Messages`, `Stamps` | Messages as envelope and request, what Marshal leaves behind and Unmarshal rebuilds; headers, ids, hybrid timestamps |
| `Schema`, `FieldData`, `Routing` | Schemas, columns and their merge by primary key, partitions (ordered by several processes) and channels of keys |
| `Names`, `Batches` | Composed names and attributes; saving in batches |
| `Merr` | Error codes through wrapping, Combine and calls |
| `Items`, `Metrics` | Every declared collector; registration and clean-up |

### TtMsgStream and the code

A topic is a sequence of messages; the offset of a message stands for its MsgID. All
messages of a topic are there from the start: a message not yet published is one not
yet read, and the consumer hands out message `cursor + 1` at any later time. Buffers
are sets of offsets (they are filled and read in log order); the concatenation over
channels in a pack keeps its order as a sequence of chunks, because the removal of
copies depends on it.

* `AsConsumer`, `SeekChannel`, `SeekMsg`, `SeekReturn`, `Chan`: the program's calls,
  one channel or one message per step. `retry` appears as success or final error.
  A header without `Base`, on which Seek would panic, is treated as an unreadable
  message.
* `BufStart` ... `BufStamp`: `bufMsgPackToChannel`, cut where it may block, takes or
  releases a lock, or where another goroutine can see the difference. `BufMerge`
  visits the channels in any order, as Go's map does. `continueBuffering` leaves open
  whether the end lags behind the clock.
* `ConsumeMsg`, `ConsumeStop`: the goroutines of a round.
* `CloseSync`, `CloseCancel`, `CloseLocked`: the three phases of Close.
* `Receive` (external): a program that saves the EndPositions together with what it
  processed; `Crash` starts it anew from these. `cmd/main.go` itself takes its one
  position from the command line.

`base` is a history variable (where this incarnation was positioned).

### ConfigManager and the code

`store` is what the file or the server holds, `configs` what the source has
committed. The refresher of a source is a process: `Fetch` (the tick and the read),
`FireEvents` (`PopulateEvents`, compared with the committed content), for each event
`OnEvent`, if need be `FindNextBestSource`, `UpdateEvent`, `Dispatch`, and at the
end `Commit`. The etcd source does all this under its lock (`Locked`), the file
source does not. `AddSource` is the load and the start of the refresher, then the
pull key by key, then `SetEventHandler`. A reader makes the three steps of
`GetConfig`. Contents hold a key in both spellings, dotted and formatted, as
`loadFromFile` enters them. The etcd source is part of the package and of its tests;
`BaseTable` has its use commented out at present, so runs with it are about the
package.

Named assumptions on scheduling: `EarlyTick` (a first tick may come before AddSource
is done; with the default interval of 5 s it hardly does) and `WatchRaces` (a
refresh may fall between the two steps of `NewMqMsgStream`). The runs fix both to
FALSE; section 3 says what happens otherwise.

### PulsarConsumer and the code

The library (external) holds the acknowledged position of the subscription and reads
ahead into a queue; its Seek is assumed to discard what was read ahead. `Chan` starts
the goroutine (`Take`, `Skip`, `Send`, `Stop`), after a Seek to the earliest message
when none was made; `SeekQueue` and `SeekFlags` are the two halves of Seek, whose
flags no lock protects. `Close` retries Unsubscribe, whose answer may be lost.
`SeekAfterChan` is FALSE in the run: the streams seek before they call Chan.

### MsgStream and the code

Callers run `Produce` (repack, then channel by channel in any order of the Go map and
message by message) or `Broadcast` (all channels of a message under the write
lock). A send fails with or without effect (`sendErr`): that is the lost answer.
An InsertMsg is split into rows by `IndexMsg`, any other message goes whole by its
first hash. `receiveMsg` is one process for each consumer.

### Recovery and the code

The topic grows while main works, also by main's own calls. The pack main takes is
whatever `TickDelivery` allows (`TakesWindows` says that it is one), so the module
depends on what the tick stream promises and not on how it works. The messages of a
pack still to be looked at are a set; `nextMsg` is the one main comes to next, in the
order the stream puts them in (cut by cut, each in log order). Times are counted in
seconds where the code cuts to seconds.

### The utilities

They do not call one another in a way that matters to their properties, so one run
holds them all: `part` picks one, the others keep their initial state. Each module
has its own variables, `Init` and `Next`; the module `Items` holds the declarations of
the code, item by item, in the order of the files. Definitions keep the names of the functions they stand for.
`Helpers` takes its parameters as constants, which the proofs leave open and
`Utilities.cfg` sets; the modules that only TLC uses get theirs in `MCUtilities`.

Some are cut where it helps to reason about them: the options of a retry are applied
one per step (`Option`), as the loop does; a call of a ConcurrentSet holds its arguments
and the index it has come to, Collect the elements it has not visited; a save in batches
keeps the last batch and all committed keys. In EventDispatcher the order of handlers
within a group is left out, how often a handler is in it is not (that is what
Unregister could get wrong).

## 3. Runs

### Passing

| Run | Instance | Shows |
|---|---|---|
| `tt_resume` | 2 channels, logs of up to 6 messages, all producer-conform logs of up to 4 messages of a pool on one channel, pursuit mode on, `receiveBuf` of 1, 2 restarts | `TypeOK`, `ReaderInv`, `PackContents`, `PackChain`, `ResumeExact`, `AppliedExact`, `NoRedelivery`, `StreamInv` (the invariant of the proofs about restarts), and `Implements`: TtMsgStream implements TickDelivery with `upto` = the ticks of the saved positions |
| `tt_close` | 2 channels, Close at any point, Chan before subscribing, bad positions ignored | `NoSendOnClosed`, `PositionsSet`, `CloseReturns`; no deadlock |
| `tt_deliver` | 2 channels, fair goroutines and program, 1 restart | `TicksDelivered` |
| `cfg_runtime` | environment, file, etcd, added in any order, one value, etcd changes, all run-time calls, Close | `TypeOK`, `Resolved` |
| `cfg_refresh` | environment and file, two values, the file may become unreadable, fair refreshers, Close | `WatcherCurrent`, `NeverMissing`, `Refreshed`, `CloseReturns` |
| `pulsar_reader` | one consumer, 3 messages, read-ahead and `msgChannel` of one, Seek, Close, the library's own close, a restart | `ConsumerInv` (`TypeOK`, `InFlight`), `IsCursor` (refinement of `ReadCursor`), `Delivered`, `CloseReleases` |
| `stream_produce` | two callers, two channels, packs of inserts, deletes and others, failing sends, a small `receiveBuf`, Close | `KeyOrder`, `BroadcastInv` (with `BroadcastOrder`), `ReceiveInv` (`TypeOK`, `ReceivedExact`, `NoSendOnClosed`), `CloseReturns` |
| `recovery` | several topics with copies, other collections, a drop; all windows; failing calls; main's own writes | `RecoveryInv` (`TypeOK`, `Complete`), `Replayed`, `NoEcho`, `Terminates`, `TakesWindows` (refinement of `TickDelivery`) |
| `utilities` | 25 parts, see the instances in `MCUtilities` | seven conjunctions of the parts' invariants and `CallsReturn` |

The invariants of `utilities` are conjunctions, one conjunct for each property of a
module, where it is stated and explained:

* `GoroutinesSound`: `LenExact` (ConcurrentMap), `Explained` (Sets), `NoLostWorker`
  (GroupChecker), `NoneInvalidated` (InfoCache), `AllOrError` (Parallel),
  `FirstErrorOrNil` (Futures), `QuietAfterClose` (EtcdSource)
* `FailuresContained`: `Bounded`, `CancelStops` (Retry), `OneClient` (StreamFactory),
  `LeftExplained`, `NoLeftover` (Subscriptions), `BatchesExact` (Batches)
* `ParametersSound`: `Isolated`, `FallbackAgrees`, `Readable` (ParamTable),
  `RatesOrdered`, `LevelsSound`, `LimitsSound` (ParamFormat), `Buildable`,
  `ChecksAgree` (IndexChecks)
* `KeysConsistent`: `GroupExact`, `SingleExact` (ConfigView), `NoStranger`,
  `WatchersTold` (EventDispatcher)
* `RowsConsistent`: `Aligned`, `RowsCounted`, `PlaceholdersExact`,
  `LatestInOrder`, `SelectionsAgree` (FieldData), `LookupsAgree`, `SizesAgree`
  (Schema), `OrderFixed`, `KeysPlaced` (Routing), `SortedMap` (SkipList)
* `MessagesConsistent`: `IntervalSound`, `PathsAgree`, `RowsReachable`, `Rebuilt`
  (Messages), `Kept`, `OrderSound`, `IdsDistinct`, `TimesKept` (Stamps), `Recovered`, `PairsAgree` (Names)
* `ReportsSound`: `CodeOfLast`, `NeverOk`, `RetryNotInvented` (Merr),
  `RegistersOnce`, `CleanupExact`, `InfoComplete` (Metrics)
* `CallsReturn` (temporal): `Returns` (Parallel), `CallsReturn` (EtcdSource)

Each conjunct has a mutant of its own. Some conjuncts state an exception that the code
has and would be false without it; they show what holds beside the exception, and do not
catch the exception itself:

| Conjunct | Holds but for |
|---|---|
| `OrderFixed`, `KeysPlaced` | partitions whose names end in one number; `partition_order` refutes the order without this exception |
| `LevelsSound` | a low water level above the default of the high one: the high one is then that default |
| `LeftExplained` | channels behind one without the subscription, where `UnsubscribeChannels` ends |
| `OneClient` | a first `NewClient` that fails: everybody else gets a nil client |
| `GroupExact` | a parameter given by `SaveGroup`: the group shows its own value, a single read does not |
| `NoneInvalidated` | an update with information collected before the invalidation |
| `CodeOfLast` | `Combine` left with a single error |
| `CallsReturn` (EtcdSource) | a failed fetch, and a refresher that waits for the lock `UpdateOptions` holds |

### Violations (findings)

| Run | What happens |
|---|---|
| `tt_row_span` | A message with rows on both sides of a tick is held back (`EndTs > tick`), becomes the resume position, and is skipped by the Seek to it (`BeginTs <= tick`) |
| `cfg_race` | Two refreshers: a key deleted in one source is handed over by the other's old content; the key ends without its owner |
| `partition_order` | Two processes put the same partitions in order: of two names with one number each keeps the one its map yields last, and neither gets an error, although hash.go:132 promises a static sequence |

Further behaviour met in the models; the first ones show when the named constant is
changed in the cfg of a passing run:

* `EarlyTick = TRUE` in `cfg_runtime`: a tick between the start of the refresher and
  SetEventHandler commits a content without events and leaves keys without owner
  (`Resolved`).
* `WatchRaces = TRUE` in `cfg_refresh`: an update between the read of the flag and
  the registration of its watcher is lost (`WatcherCurrent`).
* With etcd changing, a watcher gets the deleted value of a key that a file still
  provides, and a reader that looked up the owner before the delete misses the key:
  `WatcherCurrent` and `NeverMissing` are therefore checked for environment and
  file, the sources the program uses.

* `SeekAfterChan = TRUE` in `pulsar_reader`: a Seek on a running consumer can lose or
  repeat a message (`ConsumerInv`, `IsCursor`).

Exceptions that the properties state because the code has them, and behaviour beside
them that the models have:

* Configuration: a forbidden key still changes with its source, whose new content is
  committed although the event is ignored (`ForbidUpdate`, manager.go:210). A refresher that fails to read stops itself and waits for itself; a
  later Close never returns (`Stuck` in `CloseReturns`). `Close` of the etcd source
  at the same time as `UpdateOptions` may leave the new refresher running. A value
  set by `SetMapConfig` is seen by groups only and cannot be reset. An event whose
  key has a group of its own, even an empty one, is not given to prefix watchers.
* Consumer: when the library closes its channel, `msgChannel` stays open and its
  reader waits for ever. After a lost answer to Unsubscribe, Close gives up without
  closing the library's consumer. The error of Chan's own Seek is ignored.
* Ids: `LessOrEqualThan` leaves ids of different ledgers incomparable. The rows that
  `IndexMsg` splits from one InsertMsg keep its MsgID, and the tick stream drops what
  has a MsgID it has seen in the same pack (`mq_msgstream.go:745`).
* Base stream: a consumer subscribed after Chan is never read; a delete goes whole to
  the channel of its first key. An empty delete would panic in `DeleteRepackFunc`
  (`repack_func.go:76`); the model counts it among the errors of a repack, and no run has
  one.
* Client: after a failed first `NewClient` everybody else gets a nil client and no
  error. The disposer stops at the first subscription that is already gone, which its
  comment calls ignored (`mq_factory.go:164`).
* Routing: a partition's number that several names share is given to one of them, and
  the place of the number nobody has stays empty.
* Group checkers: a Stop between a registration and its start (`group_checker.go:91` and
  106) closes a nil channel and ends the process.
* Recovery: a failed insert or delete is only logged; with the target's collection id
  equal to the source's, main repeats its own writes; an empty `auto_id_field_name`
  makes every insert fail, one that names the primary key makes deletes miss.
* Messages: Seek does not expect a header without `Base`; a decoded `DataNodeTtMsg`
  has no timestamps. Five classes read `Base.Timestamp` and nine
  `GetBase().GetTimestamp()` in Unmarshal; the nil test of the reader hides the
  difference.
* Errors: `Combine` of a single error loses its code; canceled and timed-out become
  plain errors behind a call. `retry` with zero attempts returns nil without a call.
* Containers: `ConcurrentMap.Insert` that loses its key to a Remove stores it
  uncounted; the length of a `SkipList` never goes down; `ConcurrentSet.Contain` of
  several elements is not one look.
* Parameters: a low water level above the default of the high one leaves high below
  low; a negative `maxReadResultRate` stays negative; several items share a key
  (`DataCoordTicklePath` and `DataCoordWatchSubPath`, the query coordinator's and
  the node's overload threshold); a `PanicIfEmpty` item can be made to panic by an
  empty value.
* Columns: `DeleteFieldData` has no case for arrays; columns that `MergeFieldData`
  would add are lost to the caller; a row's size counts a binary vector with a byte
  for each bit; `SelectMinPK` never selects the largest int64.
* Metrics: nine collectors are declared and never registered; another queue or store
  type leaves the series of the old one in `runtime_info`.
* Metrics cache: an update with information collected before an invalidation undoes
  the invalidation.

### Bounds

Two channels are the least that can disagree on a tick; three ticks give a window
before, at and after a cut; the logs contain data ahead of its tick by one and by
two windows, copies in one window, in two channels and across a restart, ticks of
one channel only, repeated ticks and unreadable messages. A `receiveBuf` of one
makes the full buffer frequent, `PursuitBufferSize = 1` makes both ends of pursuit
mode happen, two restarts put a restart after a resumed run. For the configuration,
one key in two spellings produces two events per change, which is what the
interleavings need; the keys do not interact otherwise.

The consumer's queues of one message make the full and the empty queue frequent. Two
callers and two channels are the least for a disagreement of broadcasts; packs of two
messages with two rows show reordering. The recovery's topics hold a message before,
in and after the second main was started in, on both sides of a drop. The utilities
have two or three processes, two to four keys, both sides of every numeric bound, and
words of 8 bits with 2 logical bits instead of 64 and 18.

`CHECK_DEADLOCK FALSE` is used where the logs are read to their end and the program
waits for more, or where all calls have been made.

### Fairness

`StreamFairSpec`: weak fairness of each goroutine and of a Close that was called; Go's
scheduler gives this, and each of their blocking points is re-evaluated when its
channel or lock changes. `FairSpec` adds that the program keeps calling and reading
(its `for`/`select`). In ConfigManager the calls that were begun (AddSource,
`NewMqMsgStream`, Close) and the refreshers are weakly fair, with strong fairness of `Stopped`: Go's select
chooses at random among ready cases, so a closed `intervalDone` is noticed although
the ticker fires again and again. PulsarConsumer and MsgStream are fair to their
goroutines, to the library that reads ahead, to a Close that was called and, for delivery, to a reader that reads on.
Recovery is fair to main and to the producers' ticks, which the program relies on to
see the end. In
MCUtilities the goroutines of ProcessFuncParallel, the etcd refreshers and the calls
of UpdateOptions and Close that have begun are weakly fair.

## 4. Proofs

Twenty-seven theorems in seven modules. TLAPS checks them for every value of the
constants that satisfies the modules' assumptions: arbitrary channels, logs, callers,
keys, values, capacities. Named assumptions of the modules: `TopicsAssumption` (the logs satisfy the producers'
promise about ticks), `StreamAssumption`, `ContentsAssumption` (contents are functions of
keys; formatting a key twice changes nothing more), and the `BoundsAssumption`s and
the like, which give the parameters their types. What a theorem assumes beyond these is
part of its statement and named below with the reason.

### Tick stream (`TtMsgStreamProofs`, `TtDeliveryProofs`)

Each layer is an inductive invariant that uses the ones before it:

1. `TypeCorrect` (`[]TypeOK`) and `ClosedQuiet` (`[]NoSendOnClosed`). TypeOK is not
   inductive alone: that every end position has a MsgID needs `ControlInv` (which
   program points go with which locks and sets), so the induction is on
   `TypeInv == TypeOK /\ ControlInv` with the membership of the log.
2. `ReaderCorrect` (`[]ReaderInv`) and `PositionsKept` (`[]PositionsSet`), for programs
   that subscribe and seek before they call Chan (`EarlyChan = FALSE`).
   `ReaderInv == StartInv /\ CutInv /\` ChannelInv of every channel. ChannelInv is the
   reason the stream works: the buffer without its ticks is exactly the wanted messages
   between position and cursor, and whatever is unread is younger than the position
   and the last tick. A cut preserves it only because the cut is at the last tick of
   *every* channel, which CutInv records while the channels are cut one by one; it
   holds at the start of a read only because of the order of the calls (StartInv).
3. `PacksComplete` (`[]PackContents`) and `PacksChained` (`[]PackChain`), from
   `DeliveryInv`: marks of the channels (`MarkInv`), the window gathered so far
   (`GatherInv`), what each phase of a round has done (`PhaseInv`), what is newly cut
   (`FreshInv`) and the packs in `receiveBuf` (`PacksInv`). The window of a pursuit
   pack is the union of the windows merged into it, and the copies removed are copies
   of a message that stays.
4. `PositionsResume` (`[]ResumeExact`), from `PointsInv`. It needs `RowsWithinTicks` (no
   message has rows on both sides of a tick of its channel): without it a held-back
   message becomes a position whose Seek skips it, which `tt_row_span` shows.
5. `StreamCorrect` (`[]StreamInv`), `NothingLost` (`[]AppliedExact`), `NothingTwice`
   (`[][...]` of `NoRedelivery`) and `ImplementsDelivery` (`Spec => TickDelivery!Spec`),
   from `SavedInv`, which ties what was processed to the saved positions across
   crashes. They also assume that a stream refuses a bad position
   (`IgnoreBadPosition = FALSE`): one that ignores it starts somewhere else.

### Consumer (`PulsarProofs`)

`ConsumerCorrect` (`[]ConsumerInv`) and `ReaderIsCursor` (`Spec => ReadCursor!Spec`), for
Seeks that precede Chan (`SeekAfterChan = FALSE`, which is what the streams do; the
other case is refuted by TLC, section 3). The inductive invariant `FlowInv` says that
what the reader has, `msgChannel`, the goroutine's hand and the library's queue are
one run without gap, and which of the flags `hasSeek` and `skip` may be set while
somebody still looks at them (`Settled`).

### Base stream (`MsgStreamProofs`)

`ReceiveCorrect` (`[]ReceiveInv`), `BroadcastsSound` (`[]BroadcastInv`) and
`BroadcastsAgree` (`[]BroadcastOrder`). Receiving rests on where each `receiveMsg` stands
(`Passing`); the order of broadcasts on the write lock (`Calling`) and on the fact that the
broadcast in progress is last on every channel that has it (`Broadcasted`), also when a
send fails with effect. The proof showed that the order needs no exception for attempts
that fail half-way, and the property has none.

### Configuration (`ConfigProofs`)

* `TypesKept` (`[]TypeOK`), without further assumption.
* `OwnersResolved` (`[]Resolved`) where one source changes and refreshers wait for the
  last AddSource (`EarlyTick = FALSE`). `cfg_race` refutes it with two changing sources,
  section 3 for an early tick. `Resolved` speaks of quiet moments only; the inductive
  `OwnersInv` says at every moment who should own a key, by what the Manager has been
  *told* (`Known`): of a source whose refresher is firing, the new content for the keys
  whose events are out and the committed one for the others. Every key is owned by
  the best of the sources known to hold it (`Holders`), and the owner about to be written is
  the best once the event is dealt with. Keys not yet pulled by AddSource are left out
  (`Waiting`).
* `ReadersFind` (`[]NeverMissing`) where only the files change, `DeleteConfig` is not
  called, and neither the mark of a deleted value nor the absence of one is a value.
  `ReadInv`: a key that is always held has a lasting owner once all sources are added,
  and no event takes it away: files have the lowest priority, so their events are
  ignored for it or leave the owner as it is.
* `WatcherKept` (`[]WatcherCurrent`) under `WatchHyp`: only the files change, no calls at
  run time, no refresh while the watcher is set up, contents with both spellings of
  a key (`loadFromFile`). `WatchInv`: the watcher has the value of the best unchanging
  source; where none holds the key, the value of the file's committed content, or of
  its new one as soon as no event for the key is still to come.

### Recovery (`RecoveryProofs`)

`RecoveryCorrect` (`[]RecoveryInv`), `ReplayCorrect` (`[]Replayed`), `EchoIgnored` (`[]NoEcho`)
and `WindowsTaken` (`Spec => TickDelivery!Spec`), from `RecoveryAssumption` alone, which types the
parameters. The inductive invariant has two halves.

`LogInv` is about the topic: whatever follows a tick is younger (`TickOrder`); the id of a
message is the offset of its first copy (`CopiesOf`); a message that is no copy is younger
than every earlier one of its primary key (`KeysInOrder`). From it: a pack is the first
copies of its window, two messages of one key are in a pack in the order of their age, and
windows follow one another by age.

`MainInv` is about main: it goes through the messages of a key by age (`WorkInv`); everything
wanted up to the last tick is done or in the current pack (`CoverInv`); the rows are what the
handled messages make of an empty collection (`RowsInv`); what the target wrote has the
target's collection id (`MineInv`). `Replayed` is then RowsInv where the pack is empty, because
CoverInv makes the handled messages all that the source logged, up to copies. `NoEcho` needs
the two ids to differ, which is its hypothesis. The topic only grows at its end, so every
step of a producer is dealt with by one lemma (`GrownFacts`).

### Helpers (`HelperProofs`)

`GoroutinesCorrect` (`[]GoroutinesSound`), `FailuresCorrect` (`[]FailuresContained`) and
`KeysCorrect` (`[]KeysConsistent`) of `HelpersSpec`. `HelpersAssumption`: goroutines, channels and keys of a
save are finite sets (cardinalities and permutations are taken of them), arguments are
sequences of elements, parameter names sequences of segments, counts and durations are
natural numbers, a batch takes at least one key, and the random subscription name of
`GetChannelLatestMsgID` is nobody else's. `StepOfOne`: a step is one of the helper that was
picked and leaves the others alone, so each keeps its own invariant:

* ConcurrentMap: length plus the calls about to count up minus those about to count
  down is the number of keys, less those a late Store has put back.
* ConcurrentSet: what a call under way has passed is in the map as far as the call was alone,
  and between `always` and `sometime` otherwise; for Collect by what it has not visited.
* GroupChecker: a checker that is not being stopped is the registered one, and one caller
  at most is about to start or to remove it.
* Metrics cache: an invalidated cache is marked so until an update.
* ProcessFuncParallel: the goroutines' batches cover every index below the next one to
  start, each has run all of its batch below its index, and the caller has counted those
  that ended. The proof covers any number of tasks and any parallelism, also zero and
  negative ones.
* AwaitAll: the futures it has passed are closed and ended well.
* Etcd source: a refresher whose stop is done has ended and is not started again.
* Retry: between calls of fn there are attempts left; a call that began late is the only one,
  because the sleep after it is interrupted, unless there is no sleep.
* Stream factory: until `once.Do` is over nobody has a stream and one caller is inside.
* Subscriptions: the loop leaves nothing behind it unexplained; the name of
  `GetChannelLatestMsgID` is held by its own consumer only.
* Batches: what is committed is the keys up to the loop's index.
* ConfigView: what was set is under the spelling it was set in; a file has both spellings,
  the environment one.
* EventDispatcher: a group holds the handlers with a registration in force, and no other.

### Only model-checked

* Liveness (`TicksDelivered`, `CloseReturns`, `Refreshed`, `Delivered`, `CloseReleases`,
  `Terminates`, `CallsReturn`): fairness and ENABLED are outside the prover's reach.
* `KeyOrder` of MsgStream: the rows of a key and those sent are `FlattenSeq` and `SelectSeq` over
  a pack and over a log, whose values only an induction over sequences would give.
* `ParametersSound`: a statement about the some 500 items the code declares; TLC goes through
  all of them, there is nothing to generalise over.
* `RowsConsistent`, `MessagesConsistent`, `ReportsSound`: most of their conjuncts compare
  recursive functions (merges, columns, name splitting, error trees) with references on
  bounded inputs, that is, induction over data; Merr needs RECURSIVE operators.
* What the assumptions above exclude: two changing sources, early ticks, `SeekAfterChan`,
  `EarlyChan`, ignored bad positions. For some of these TLC has a counterexample
  (section 3), `tt_close` covers `EarlyChan` and ignored positions for the close.

## 5. Not modelled, and the plan

Not modelled: generated protobuf code (half of the repository's lines), logging,
interfaces and mocks, constants, thin wrappers of maps and channels, conversions of
bytes, floats and strings, the structures of metrics info that are only marshalled,
the time recorder and the long term checker (they only log), the embedded etcd
server, tracing, lint rules. `PROJECT.json` lists each with its reason. Deliberate
abstractions: payloads, wall-clock time, texts.

Left for later:

1. A composition of two PulsarConsumers with TtMsgStream in one instance; so far the
   consumer is linked to the stream by the cursor both use.
2. FileConfigs, UpdateSourceOptions across sources, SetRepackFunc.
