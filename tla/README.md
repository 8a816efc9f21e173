# Edge multicast market data: a verification development

TLA+ models of the parts of this repository whose behaviour is hard to test: the
market-by-price (MBP) feed from the Rust publisher to the Go book-builder, the
publisher's intake, era store and instrument registry, and the recorder's inline
and archive pipelines. TLC checks the models on small instances, and TLAPS proves
all the safety invariants the passing runs check, and five refinements, for every value of
their constants.

Four questions are behind it:

- A subscriber's: **if the book-builder calls a book `ready`, is it the publisher's
  book?** Datagrams are lost, reordered and repeated; resets and snapshots travel on
  different ports; sockets break, and a bounded backlog is evicted.
- A venue's: **is every update applied once, and in order,** when several
  connections bring copies of it and the venue restarts its counters?
- An operator's, after a restart: **does the new process announce itself, and does
  every Instrument ID still mean what it meant?**
- An analyst's: **does every packet the recorder took end up stored, or is its loss
  on record?**

Paths below are relative to the repository root (`go/...`, `rust/...`).

## 1. Inventory

State and operations of each part, where it is hard, and what makes it correct.
The status of each part, and the sources it covers, are in `PROJECT.json`.

### 1.1 Publisher

| Part | State | Operations | Hard because | Correct when |
|---|---|---|---|---|
| Depth lowering (`dz-publisher-lowering/src/{depth,seq,snapshot}.rs`) | last Per-Instrument Seq stamped, next Snapshot ID | lower a level or a clear (spends a number), lower a reset (does not), frame a snapshot | a number spent on a message that never leaves is a hole | numbers name one delta each; a snapshot declares the last number it contains |
| Egress and sequencer (`dz-publisher-egress/src/{egress,sequencer}.rs`) | the datagram being packed, the channel's next Sequence Number | push (flushes a full datagram first), flush, heartbeat | a refused send has already spent the number and loses what was packed | a number names one datagram; both orders agree |
| Runtime (`dz-publisher-runtime/src/{publisher,pipeline,run}.rs`) | owed recovery snapshots, instrument registry, rotation position | event handler, desynchronised, tick (owed and periodic snapshots), flush on hold | the anchor is read around a flush; recoveries wait for the tick while events go on | an anchor separates what a snapshot holds from what it does not |
| Threaded intake (`dz-publisher-runtime/src/threaded.rs`, `dz-adapter-core/src/threaded.rs`) | claim table and counter generations, bounded queue, what each connection holds back, dedupe window | claim, adopt a generation, push or hold back, batch, tick, disconnect, wind down | two stages of dedupe judge on their own threads while a counter restarts; nothing may wait in a decode | a claim that wins is applied unless its own decode fails; order per connection; what is held is taken |
| Era store (`dz-publisher-egress/src/era.rs`) | one era file per channel instance | read, write temporary, rename, sync | death or power loss between any two steps | no era published twice in a row |
| Registry (`dz-publisher-refdata/src/{registry,state,file_store}.rs`) | IDs minted, their record on disk (a base and appended lines) | offer, persist, compact, withdraw, forget, open | an append, a rewrite or a sync that fails leaves either of two records | an ID never names two instruments, and none is forgotten early |
| Definition cycle, rotation (`dz-publisher-refdata`, `rotation.rs`) | cycle position, manifest sequence | next due, retransmit | population changes during a cycle | everything is served once a cycle |

### 1.2 Subscriber

| Part | State | Operations | Hard because | Correct when |
|---|---|---|---|---|
| Parser (`go/marketbyprice-parser/runner.go`, `go/internal/sink/socket.go`) | client queues | decode a datagram, write its records as one batch | a full client queue drops a whole batch with the socket still up | records of a datagram are never interleaved |
| Coordinator (`go/marketbyprice-bot/coordinator.go`) | Reset Count and open snapshot group per channel, manifest, previous definition | dispatch, reset barrier, fence, prune, disconnect | goroutines and bounded inboxes | no book mixes two eras; levels are filed with their own instrument; the read loop returns |
| Shard (`shard.go`, `dispatch.go`, `instrument.go`) | instruments with books, shadows and reorder windows; delta backlog under a budget; crossed set | one handler per record type, replay, eviction | long sequences of legal records meet in a handful of trackers | `ready` means complete, in order and true |
| Snapshot and event writers (`snapshot_writer.go`, `events_writer.go`) | dirty set, generation | mark dirty, flush | flush races a wipe | a row is of one state of the book |

### 1.3 Recorder

| Part | State | Operations | Hard because | Correct when |
|---|---|---|---|---|
| Inline capture (`dz-recorder-inline/src/{ring,window,pipeline}.rs`) | ring of slots, owed loss, open window, held trailer | offer, take, give back, close by size, age or end, panic, stop | two threads; a counter read ahead of the stream it describes | every gap is admitted by the datagram behind it |
| Inline spool (`spool.rs`, `checkpoint.rs`) | window directories, in flight, owed entries, the sink's batch | store, take, insert, enter, release, delete, evict | each step may fail, or be the last before a crash | nothing entered that is not stored, nothing given up silently |
| Load ledger (`dz-recorder-load/src/ledger.rs`) | appended lines, what the process remembers | open, look up, record | a torn line swallows the one behind it | an entry that was recorded is readable |
| Archive (`dz-recorder-archive/src/{rotate,compress,staging}.rs`, `dz-recorder/src/runner.rs`) | open segment, staging and completed directories, compressor's queue | rotate, publish, scan, evict, ship, shut down | the retention pass works on a scan while the compressor and a shipper move files | every segment is on disk, landed, or counted |
| Batch loader, packet sockets, replay, row derivation | | | large, mostly I/O | |

### 1.4 The rest

Ingress clients (`rust/ingress`: reconnect drivers, FIX session, WebSocket,
polling), codecs, metrics, configuration, the top-of-book and market-by-order
pipelines in Go (older siblings of the MBP one), packet receivers and demos. The
FIX session and the market-by-order shard have behaviour worth modelling; the
others are pure I/O, byte layouts with golden tests, or counters.

### 1.5 How the parts interact

    venue --> decode threads --queue--> Publisher --push/flush--> Egress --UDP mktdata--> parser
                  ^  claim table          |  tick: owed, rotation   |---UDP snapshot-->    |
                  +-- adapter <-----------+                                 |              | unix socket, one
    era store, registry: read and written before the first datagram         |              v batch per datagram
                                              shard goroutines <--inbox-- Coordinator (read loop)
                                                                            |
    recorder: capture --ring--> derivation --spool--> posting --> column store, ledger
              capture --> segment --> compressor --> completed/ --> shipper; retention pass over both

An adapter with polled input calls back synchronously, so a change of its book
and the lowering of that change are one step; threaded input is `ThreadedIntake`.
Coordinator and shards share nothing but the inboxes and the acknowledgement
channel of a barrier. A shard's handlers run under one mutex. The era store's
Reset Count is what the coordinator's barrier reacts to. The capture's derivation
hands its windows to the spool; the archive is the recorder's other mode.

## 2. Modules

| Module | Models | Composes |
|---|---|---|
| `MbpBook` | price levels: level updates, clears by side and scope, malformed clears, crossing (`instrument.go`, `shard.go:493`) | |
| `MbpShard` | one shard: its handlers and their loops | `MbpBook` |
| `MbpPublisher` | lowering, egress, resets, snapshots of one channel | `MbpBook` |
| `MbpFeed` | publisher, network, parser batch, open group, shard | `MbpShard`, `MbpPublisher` |
| `MbpCoordinator` | read loop, inboxes, barrier and fence goroutines, shard loops | |
| `MbpCoordinatorStream` | the reader of the parser's socket: one stream in order, its breaks | `MbpCoordinator` |
| `EraStore` | the era files through every start, death and power loss | implements `EraPromise` |
| `InstrumentRegistry` | IDs, their record, its appends and rewrites | implements `InstrumentIdentity` |
| `ThreadedIntake` | decode threads, claims, queue, dedupe, loop, shutdown | implements `ConnectionFifo` |
| `InlineCapture` | capture thread, ring, derivation's windows | |
| `InlineSpool` | spool, coalescing sink, posting stage, crashes | `LoadLedger`; implements `WindowFate` |
| `LoadLedger` | the ledger's file and memory, as operators | |
| `ArchiveRotation` | write path, compressor, retention pass, shipper | |
| `MbpShardProofs`, `MbpCoordinatorProofs`, `InlineCaptureProofs`, `ArchiveRotationProofs` | theorems about the invariants of the module of that name | that module |
| `InstrumentRegistryProofs`, `InlineSpoolProofs` | the same, and the refinement of its abstract specification | that module |
| `PublisherProofs` | the same of the era store and of the threaded intake | `EraStore`, `ThreadedIntake` |
| `MbpFeedProofs` | theorems about the publisher, then about the two ends and the wire together | `MbpFeed`, `MbpShardProofs` |
| `MC*` | instances for TLC | |

### 2.1 `MbpShard`

Each record handler of `Shard.apply` and each control message of `Shard.Run` is
one action. Three loops inside handlers are unrolled to one step per iteration:
the drain of the reorder window, the replay after a commit and the re-buffering
of a demoted window. An eviction can strike inside any of them and change the
instrument being processed, so they are where an invariant is easiest to break.
`busy` names the instrument whose handler holds the mutex. No other record is
accepted until `FinishHandler`, and the loops run in the order of the code
(`held`, then `drain`, then `replay`).

| Code | Model |
|---|---|
| `s.instruments` | `known` (keys) and `instruments` |
| `Instrument` fields | record fields of the same name; a nil requirement is 0, since the code only asks whether a value is below it; `OpenSnapshot` is `{}` for nil |
| `deltaBuf`, `bufferedN`, `sawBatchBoundary`, `touched`, `crossed` | variables of the same name |
| `Pending` map | a set of deltas with distinct numbers (`PendingInWindow`) |
| map iteration order | `\E` over the set |
| `sort.Search` | `SplitsAt`: any split with everything before it at or below, everything after it above |

`applyDeltaToReady` becomes five disjuncts with the code's conditions:
`DiscardStale`, `DemoteMalformed`, `HoldOutOfOrder`, `DeclareGap` and
`ApplyContiguous`. `ShardSpec` feeds the shard **any** record at any time, so what
is proved of it needs no assumption about the publisher, the network or the
coordinator. Left out: order counts, flags, exponents, field coercions, strikes
held on a definition, trades, database rows and metrics.

### 2.2 `MbpPublisher`

`mktSeq` is `Sequencer::current`, `open` the datagram being packed, `last` the
Per-Instrument Seq, `owed` the promised recoveries. `mktdata` and `snapshots` are
the sets of datagrams handed to a sink that took them. A refused send
(`SendOutcomes` contains `FALSE`) spends the number and loses the content, and one
inside `Push` also drops the message that did not fit. `Desynchronised` performs
the whole handler: flush, anchor, reset in its own datagram, promise. `truth[k][g][n]` is
a history variable: the book of generation `g` (the `g`-th time the adapter
replaced it) after delta `n`.

### 2.3 `MbpFeed`

The two ends composed through a network that delivers any sent datagram at any
time, any number of times (snapshot datagrams once unless `DuplicateSnapshots`),
or never. `inbox` is what is left of the datagram being dispatched, `group` the
coordinator's open snapshot group, and `OnDisconnect` may cut a batch anywhere. The
inboxes are FIFO, so routing a record and handling it are one step here;
`MbpCoordinator` is where their concurrency is examined.

### 2.4 `MbpCoordinator`

`pc` says where the read loop is: reading, blocked in a send, or waiting in a
barrier or a fence. Each barrier goroutine is one `BarrierSend(s)`, each shard a
`Run(s)`, and every channel operation blocks on `HasRoom`. What a shard does with a
record is reduced to what ordering decides: the eras of the records in its state,
the instruments whose levels a shadow received, the definitions a prune removes.
A `snapshot_begin` may be declined (which `MbpShard` decides). Left out: the
cancellation that ends the process, the rows written for the database, and
trades.

`MbpCoordinator` lets any record come next. `MbpCoordinatorStream` is the reader
(`bot.go`): it hands over the records of a `Stream` in order, and a broken socket loses
any number of them and calls `OnDisconnect`. A level names no instrument, so where
it goes is a question about a stream; `StreamAssumption` is the rule of
`coordinator.go:26`, that publishers do not interleave groups.

### 2.5 `EraStore`

`begin_era` is cut at every call that touches the disk: read, create and write the
temporary, sync it, rename, sync the directory. `file` is what the running system
reads back, `disk[c]` the *set* of contents a power loss may leave: a rename that
is not yet synced adds one, and a rename of a temporary that was not synced would
add `Torn`. `Exit` is any death of the process (an I/O error among them),
`PowerLoss` picks from `disk`. Several channel instances are composed before any of
them publishes, and which of them a life enables is free. A host that records eras
without publishing can go round the modulus: `MaxIdle` bounds such starts, and the
assumption `MaxIdle + 1 < Modulus` says how many the code survives (254 for its
u8). `EraPromise` is the abstract specification: a start is under an era other than
the last one published. Left out: a parent directory that is itself new and never
synced.

### 2.6 `InstrumentRegistry`

The record is abstracted to what loading it yields: `entry`, `next`, the sizes that
decide a compaction, and `torn` for a final line without its end. An append writes
nothing, a part or all (`PartlyAppended`). A rewrite lands, fails and is tried a
threshold of lines later, or fails at the sync and leaves either record, after which
`fault` refuses every later mint. One operation is one action: the registry runs on
one thread, and an operation that fails half way followed by `Exit` is the crash
between its steps. The clock ticks are finer than the seconds of the record, which
is where `StampS` (rounds up) and `NowS` (rounds down) differ. `InstrumentIdentity` is
the abstract specification: an ID never names two symbols, and a symbol comes back
under its ID unless it has been gone for the horizon. Left out: a clock that goes
back, derived and venue-keyed IDs, shards, re-offers, strikes, record versions.

### 2.7 `ThreadedIntake`

`claimed` is the claim table's slot, `saw`/`seen`/`fell`/`generation` a decoder's
`CounterGenerations`. A decode is three steps (claim, perhaps adopt the newer generation and claim
again, push), between which the other threads run. It may also end without an event:
`Fails` is a decoder's error, which ends the payload, and `Refused` an event that `carried`
refuses; either may come behind a claim, which stays won (`won` and `spoiled` are the
histories of it). `held[c]` is the overflow of
`Outbox`; while it is not empty the connection reads nothing between payloads. `LoopBatch` applies a
batch through the second stage of the dedupe, `Tick` and `TickDue` are the biased
select and its timer, and `Stop`, `FinishHeld`, `FinishQueue`, `Finished` the
wind-down. A message's position in the stream is its venue order, so
`QuotesInVenueOrder` compares what was applied with what was sent and not with the
counters. `ConnectionFifo` is the abstract specification. Left out: several instruments
and the tracking limit, keys too wide for the slot, IDs without order, the
saturating generation. Assumed: a decoder that has seen nothing of an instrument
does not miss a restart of its counter, by a disconnect or an error (the decoder's own
matter).

### 2.8 `InlineCapture`

Datagrams are numbered on the wire, so a gap in the numbers the derivation sees is
a loss, and the drop deltas can be checked against it. `Offer` takes a free slot or
drops; `GiveBack` and `Take` are the two halves of `RingReceiver::wait`; `Sample` reads the
live total and tests the byte bound before anything is taken; a window closes by
size, age or the end of the ring; `Panic` unwinds the open window; `Stop` is the drop
of the capture's end. `LossIsAdmitted` says of every gap that the datagram behind it
admits it, and of every window that its total covers all that is missing on the
wire before its last datagram. Left out: rows, the coverage tally, slot sizes, backoff.

### 2.9 `InlineSpool`, `LoadLedger`

The derivation stores windows (write under a temporary name, rename), the posting
stage takes, batches, inserts grain by grain, records, deletes, and each step can
fail, panic or be the last before `Crash`. `Start` is the entry of the posting stage,
also behind a panic: it releases what was in flight each time, and goes through the
ledger (`Forget`) once a process (`forgotten`). `lock` is the spool's mutex: held over a
store and over `record_landed`, not over an insert. `told` remembers what this
process knows to have landed, `interrupted` which of it a panic took out of the stage's
hands, `entered` and `lost` are histories too. A line the ledger
failed to finish is kept open, and the next append runs on from it (`LoadLedger`).
`WindowFate` is the abstract specification: open, spooled, then recorded (with its
rows whole in the store) or lost, and a crash is invisible. Windows have one size.

### 2.10 `ArchiveRotation`

Two threads and a shipper over two directories. `open`, `seq`, `working` are the write
path; `job`, `step`, `jobs` the compressor, whose steps (seal, manifest, object, source,
cleanup) each may fail; `custody` is the one thing both threads share under a lock. The retention pass is cut at
every look at the disk: list completed, list staging, classify a name, plan, evict
one by one, and it works on what it listed. `Start` adopts the dead run's segments,
`Crash` forgets all memory. Every file weighs one and a manifest nothing. Left out:
bytes, capture handles, the drain before a stop, interface drops, counters,
`retained_objects`; the shipper takes an object with its manifest.

## 3. Runs

Deadlock is checked in `shard` and `era`, whose systems can always move. In
the others the bounds (numbers, records read, clock ticks, windows, faults) end the
behaviour, or the program has exited. The waits that could block for ever in the code have
liveness properties of their own (3.4).

### 3.1 The feed

| Run | Shows | Bounds, and why they are enough |
|---|---|---|
| `shard` | `TypeOK`, `ReadyIsCaughtUp`, `DeltasWaitInOrder`, `BudgetExact`, `CrossedIsExact` | three families of input, chosen initially. `recovery`: one instrument, two datagram numbers, three delta numbers, window of 1, budget of 2, so a delta can be stale, next, in the window or past it, and the budget overflows during a replay and a re-buffering. `pair`: two instruments, since an eviction takes the *other* one's. `book`: two prices a side, so books cross and uncross |
| `publisher` | `ChannelOrder`, `AnchorSeparates`, `ResetBounds` | two deltas to a datagram, refused sends, heartbeats, two resets and two snapshots: a push into a full datagram, a refused flush and a doubly owed instrument all occur |
| `feed` | `ReadyBookIsTruth` end to end, `DiscardedOnlyAtAnchor`, and `ImplementsShard`: the shard in the feed takes only steps of `ShardSpec` | one delta to a mktdata datagram and one message to a snapshot datagram, so groups are spread over up to three and levels of one can arrive inside the other; two deltas and two snapshots, or a reset and two of them, in every order of sending and delivery (`Short`); each lost, late or early; disconnects anywhere |
| `coordinator` | `OneEraPerBook`, `BarrierDrains`, `RecordsGoHome`, `DispatchReturns` | two shards, two channels, inboxes of one message (so every send can block), five records, two barriers a channel |

`coordinator` is one run over three families of records: eras (both channels, Reset
Count changes, fences, boundaries), strikes and manifests (definitions, strikes
with right and wrong source, prunes, a Reset Count change), and snapshot groups of
two instruments at a shared Snapshot ID in publisher order, through the reader of
`MbpCoordinatorStream` with the socket breaking between any two records. Eras and strikes come in **any** order.

The feed's runs use `PublisherFirst`: nothing the subscriber does
changes the publisher, and a datagram once sent can be delivered at any later
time, so every subscriber state is reached by a behaviour in which the publisher
acted first. That removes interleavings and no states of the subscriber.

### 3.2 Stores, intake and recorder

| Run | Shows | Bounds, and why they are enough |
|---|---|---|
| `era` | `NeverTorn`, `PublishedIsDurable`, `PromiseKept` | two channel instances, three eras and one idle start: the wrap and a start that records one file and not the other occur |
| `registry` | `RecordServes`, `IdentityKept` | two symbols and five IDs, so a forgotten symbol is minted again; seconds of two ticks and a horizon of one second, so rounding the wrong way is visible; a floor of one line, so compactions occur from the start; caps of 1 and 2 |
| `capture` | `SlotsConserved`, `LossIsAdmitted`, `CertainIsAdjacent`, `StopDrains` | two slots, a debt that saturates at 2, windows of two datagrams, five datagrams on the wire, a kernel loss of three at once, two panics |
| `spool` | `NothingForgotten`, `NeverInsertedTwice`, `PromiseKept`, `EveryWindowSettles` | three windows under a budget of two (so eviction occurs), two grains (so an insert fails half way), three faults: an entry that fails, a panic, a crash or another failure fit together |
| `intake` | `QuotesInVenueOrder`, `TradeOnce`, `ClaimedIsCarried`, `HeldDrains`, `OrderKept` | two connections, five messages: trade, quote, quote (counter restarted), quote, trade, in three payloads, so that a connection may miss the restart; a queue of one, so holding back is common; an identity window of one, so it lets an identity go; one failed decode or refused event (`MaxFailures`), at any place of either connection |
| `archive` | `WindowsAccounted`, `InUseIsLeftAlone`, `ObjectHasManifest`, `BudgetIsMet`, `FloorIsOldest`, `SettleReturns` | three windows under a budget of one file, two faults, one restart; a behaviour with all three windows has fewer faults or no restart (`MCEvents`), which keeps the run short and leaves every pair of the three together |

### 3.3 Two violations

`capture_overflow` checks what the documents of `ring.rs` say of the loss total a
window closes with: a zero difference between two consecutive windows certifies the
second one free of ring overflow (`ring.rs:109` and `:115`). `WindowSource::next`
(`window.rs:173`) samples the *live* total, which the capture thread advances ahead
of the stream. In the run a datagram is dropped while window 0 is open; window 0
closes with that drop already counted; the datagram behind the drop, whose delta
admits it, opens window 1, whose total is the same. The gap in window 1 is then
charged to the publisher. `LossIsAdmitted` (run `capture`) shows the other direction
is safe: a total is never *behind* what is missing, and every gap is admitted by the
datagram behind it.

`feed_late_reset` checks what `dispatch.go:249` gives as the reason a reset is never
dropped: the pre-reset snapshot it exists to invalidate must not commit.
`Instrument.Reset` (`instrument.go:518`) overwrites `RequiredAnchorSeq` with the anchor
of the reset at hand. In the run two resets are sent, anchored at 0 and 1; the second
is delivered first, the first then *lowers* the requirement to 0, and a snapshot of
the book that both discarded, anchored at 0, commits. The run shows the property with
`toldGen`, the latest reset told; with `seenGen`, the reset handled last, it holds
(`feed`), so keeping the larger anchor of the two would be enough.

### 3.4 Fairness and liveness

- `MbpCoordinator`: weak fairness of the read loop's own steps and of each shard's
  `Run`. Goroutines that can run are scheduled; nothing obliges the socket to
  deliver a record. `DispatchReturns` needs no more, because at most one message a
  shard is outstanding for each dispatch and inboxes drain.
- `InlineCapture`: the derivation is a thread (`WF(Derive)`). Its age bound may close
  windows while datagrams wait, but a fresh window's deadline is a whole interval
  away, hence `SF(Wait)`.
- `InlineSpool`: both threads run, and a supervisor restarts a dead process
  (`WF(Open)`). The sink's age bound makes what it holds due in the end (`SF(Post)`).
- `ThreadedIntake`: the loop and the threads run (no fairness of the wind-down is needed:
  `HeldDrains` stops at an exit). Tokio's semaphore is fair, so a reserve that waits is
  served although the loop frees a slot only now and then (`SF(Flush)`). The timer has no
  fairness: `HeldDrains` must hold however often it fires.
- `ArchiveRotation`: the compressor, the pass and the collection of results run, and a
  process that is stopping rotates. Nothing makes `Stop` happen.

## 4. Properties

Each relates the state of two parts or of two times. The deepest:

- **ReadyBookIsTruth** (`MbpFeed`): a ready book equals the publisher's book, of the
  generation its snapshot was captured in, at the last applied number.
- **DiscardedOnlyAtAnchor** (`MbpFeed`): after a reset, a subscriber is ready on an
  earlier book only through a snapshot with the very anchor of the reset it handled
  last (which need not be the latest it was told of, 3.3).
- **AnchorSeparates**, **ResetBounds** (`MbpPublisher`): what a snapshot omits is in
  datagrams numbered at or past its anchor; resets separate the snapshots of the
  two books.
- **ReadyIsCaughtUp** (`MbpShard`): no order of malformed deltas, demotions, shadows and
  resets makes a book ready with a backlog or a known hole.
- **BudgetExact** (`MbpShard`): the counter stays the number of buffered deltas
  through evictions in the middle of a loop that is itself buffering.
- **OneEraPerBook**, **BarrierDrains** (`MbpCoordinator`): the wipe is ordered behind
  every old record and before every new one on every shard.
- **PromiseKept** (`EraStore`), **IdentityKept** (`InstrumentRegistry`), **OrderKept**
  (`ThreadedIntake`), **PromiseKept** (`InlineSpool`), **ImplementsShard** (`MbpFeed`): the
  refinements. The last is `FeedSpec => ShardSpec`, which carries the theorems about
  a shard to the feed.
- **ClaimedIsCarried** (`ThreadedIntake`): each key ever won, to which every other
  connection's copy loses, has been applied or superseded or is on its way, unless its
  own decode failed behind the claim. It is what would break if a shutdown could cut a
  decode, or if a wait that is abandoned could lose an event. The exception is a real loss, on every
  connection at once, and the trade the code makes (`dz-adapter-core/src/threaded.rs:432`: "a
  claim that wins and then fails to parse loses that update on every connection"); the
  property says that nothing else is lost with it.
- **CertainIsAdjacent** (`InlineCapture`): a window that says its predecessor is known
  really begins where that one ended, unless a panic unwound what was between.
- **NothingForgotten**, **EveryWindowSettles** (`InlineSpool`): through crashes, refusals and
  panics a closed window is on disk, whole in the store, or known to be given up, and
  it comes to one of these.
- **NeverInsertedTwice** (`InlineSpool`): nothing the sink reported landed to this process, its
  entry failed or not, and nothing the ledger has from a process before it, is held for
  an insert or inserted again. The exception is `interrupted`: a panic of the posting stage between
  the sink's report and the deletion. The restarted stage releases the window
  (`pipeline.rs:525`), does not go through the ledger again (`pipeline.rs:528`), and
  `take_oldest` offers it; the second insert replaces the rows of the first. Once such a
  window has landed again, the exception is over for it.
- **WindowsAccounted**, **BudgetIsMet** (`ArchiveRotation`): every window is on disk, landed,
  shipped or counted; and a pass under which nothing else moved leaves the budget
  and the three files it may not take.

Some join several named parts in one property (`ReadyIsCaughtUp`, `DeltasWaitInOrder`,
`RecordsGoHome`, `RecordServes`, `LossIsAdmitted`, `WindowsAccounted`); the parts are defined
just before. A module's type invariant is a conjunct of the property that needs it
most. Every property of a passing run has a mutant in the model (operators
marked `Mutant:`), a plausible bug in the code that the run finds.

### Disagreements between comments and code

Met while modelling and proving, besides 3.3. The models have the behaviour the code has.

- `replayBuffer` "drops buffered deltas covered by the snapshot anchor"
  (`shard.go:642`). The anchor is the *next* live number, so the datagram with that
  very number follows the snapshot; a delta buffered from it is dropped although
  the snapshot does not hold it (`shard.go:655`). The next delta declares a gap: a
  recovery is lost, never a wrong book (`ReadyBookIsTruth` holds).
- `stale_anchor` is "captured before an `InstrumentReset`" (`go/marketbyprice-bot/README.md:170`).
  A snapshot taken right before the reset with nothing sent in between has the
  *same* anchor, is accepted (`instrument.go:441`), and leaves the discarded book ready
  until the recovery snapshot. `DiscardedOnlyAtAnchor` shows equality is the only way.
- A shadow is discarded for "a level count that does not match `Total Levels`"
  (`go/marketbyprice-bot/README.md:76`). A repeated level datagram makes up for a lost
  one (`instrument.go:380`), and an incomplete book is committed. `DuplicateSnapshots`
  is `FALSE` in the feed's runs for that reason; with `TRUE`, `ReadyBookIsTruth` fails.
- "The runtime pauses the instrument" (`rust/adapter/dz-adapter-core/src/sink.rs:192`). Deltas
  are lowered and packed between the reset and the tick that serves the snapshot.
- The manifest sequence is held once for all channels (`coordinator.go:301`), so a
  manifest of one redundant channel prunes instruments current in the other's.
- `instrument.go:423` says that of the reorder window emptied by a commit "none
  … can ever match LastApplied+1 and drain"; when the instrument was behind the
  snapshot, the window can hold exactly that delta. It is recovered as a gap.
- `instrument.go:514` says "a reset starts a new Per-Instrument Seq series";
  the publisher's `lower_instrument_reset` (`depth.rs:267`) leaves the series alone.
- `coordinator.go:20` notes that "two instruments routinely sit at the same"
  Snapshot ID. With the end of one group and the begin of the next lost in the
  network, a level of the second is then filed with the first. This repository's
  publisher counts ids per lowering, so its own ids do not collide.
- `Ledger::open` drops the torn last line a crash leaves, but `record` appends behind it
  without a look at how the file ends, so the next entry runs on from the torn one
  and is dropped at the open after that (`LoadLedger`). The rows are in the store by
  then: at worst the spool inserts that window again, which is a replace.
- A panic inside `derive_window` loses the window without spending its number
  (`pipeline.rs:460`), so nothing in the sequence shows it; `CertainIsAdjacent` therefore
  excepts what a panic unwound.

## 5. Proofs

### 5.1 The shard

`MbpShardProofs` proves, for every finite set of instruments, any number of
channels, any domains of sequence numbers, any reorder window and any budget
(assumption `ShardAssumption` of `MbpShard`, which restricts the constants to
their types):

| Theorem | States |
|---|---|
| `ShardCorrect` | `ShardSpec => []ShardInv` |
| `ShardTypeCorrect`, `ShardBudgetExact`, `ShardReadyIsCaughtUp`, `ShardDeltasWaitInOrder`, `ShardCrossedIsExact` | the properties of run `shard` |
| `ShardBuffersSorted`, `ShardPendingInWindow`, `ShardReadyHasNoBacklog`, `ShardReadyHasNothingLost`, `ShardGapDemandsNewer` | the parts of `ReadyIsCaughtUp` and `DeltasWaitInOrder` |

The properties are not inductive one by one. `ReadyHasNothingLost` needs that a
lost number never exceeds what a recovery snapshot must reach (`LostCovered`), or
a commit could leave one behind. `ReadyHasNoBacklog` needs the shape of a
handler's loops (`LoopShape`): while an instrument's demoted window is being
re-buffered it is in gap, and while its reorder window drains it is ready.
`BudgetExact` needs that buffers and loops are keyed by their own instrument
(`BacklogKeyed`). The proofs group them into an inductive
invariant `IndInv`:

    OtherTypes      types of the variables that are not per instrument
    InstrumentsOK   per instrument: type, window, gap and loss conjuncts (InstOK),
                    and a ready one has no backlog
    BufferOK        buffers typed, keyed, sorted, counted and within budget
    SettledOK       off the drain loop, no window holds the next delta expected
    LoopShape       what busy, held, drain and replay may look like together
    UnknownIsFresh  a key without instrument has no book, shadow or window

Each action is shown to preserve these. The middle layer is a family of lemmas
about the operators (`RequireType`, `EvictedOK`, `DemotedOK`, `InsertAfterSorted`,
`SlotsSet`, `SlotsForget`, ...), so that an action's proof is about which part of the
state it touches. The counting lemmas rest on a representation of the backlog as a
finite set of slots `<<instrument, position>>`: then appending, evicting and
forgetting are facts about cardinalities of finite sets. `LeastNatural` and `FiniteMax`
prove that a non-empty set of naturals has a least element and a finite one a
greatest, from well-foundedness; they stand in for induction, which the available
provers cannot instantiate.

`CrossedIsExact` has an invariant of its own on top, `CrossInv`: for every ready book
that is neither touched nor changed by the running handler, membership in `crossed`
is exact (`applied` says whether the handler changed the book, and the drain loop only
runs in a handler that did). It does not mention `sawBatchBoundary`, so the set is also
exact on a batching channel for every book not touched since the last boundary.

### 5.2 The era store

The first part of `PublisherProofs` proves, for any set of channel instances and any modulus (`EraAssumption`):

| Theorem | States |
|---|---|
| `StoreTyped` | the type invariant |
| `StoreNeverTorn` | no death or power loss leaves a file that does not parse |
| `StoreDurable` | a running publisher's era is the only thing its disk can hold |
| `StoreKeepsPromise` | `EraSpec => Promise!Spec`: the store implements `EraPromise` |

The invariant `EraInv` relates three things per channel instance: what the disk may
hold (the file, and while a rename is not synced the contents before it), how far
along `begin_era` is, and the *distance* from the era last published. Every readable
content is at most `MaxIdle` successors past `told`; a successor more is still
fewer than the modulus, so it differs from `told`. Without the distance the wrap
would break the promise, and without the sets of contents a power loss between the
rename and its sync would.

### 5.3 The publisher

The first part of `MbpFeedProofs` proves the three properties of run `publisher` for any instruments
and books, any capacity of a datagram, any refused sends and any number of resets and
snapshots (`PublisherAssumption`; prices are finitely many, since one is an `i64`, so
that a snapshot's group is a finite sequence):

| Theorem | States |
|---|---|
| `PublisherChannelOrder` | a channel number names one datagram, a delta number one delta, and both orders agree |
| `PublisherAnchorSeparates` | what a snapshot lacks is numbered at or past its anchor |
| `PublisherResetBounds` | a reset's anchor bounds the snapshots of the two books |
| `PublisherStampIsDatagram` | a delta is stamped with the number of the datagram that carries it |
| `PublisherSnapshotIsOneMoment` | the datagrams of a snapshot carry one book, as of one delta, and the deltas past it lead on from there |

`PubInv` adds what they rest on: the packed datagram holds deltas stamped with the
next number (`DatagramsInv`), nothing sent or packed is past `last` (`DeltasInv`), what a
snapshot declares was true when it was captured (`SnapshotsInv`), and while a recovery is
owed, the *latest* anchor owed reaches every reset of that instrument (`OwedInv`).
Without the last, an instrument reset twice before the tick could be served a
snapshot of the new book that its own reset refuses.

`TruthInv` relates the wire to the history variable `truth`. `CapturedAs` states what a
subscriber may conclude from a snapshot: all its datagrams hold records of the group
of one instrument, anchor, delta number and generation (`GroupRecs`), however they were
packed, and every delta past that number leads from the book before it to the book
after it (`Follows`). `LevelOnce` says that a level is at one place of one datagram. The
last parts are about order: a snapshot some delta has overtaken is anchored before the
number a reset would take (`OvertakenEarlier`), and so before any reset that discarded
the book of both (`OvertakenBeforeReset`), which 5.7 needs.

### 5.4 The coordinator

`MbpCoordinatorProofs`, for any shards, channels and inbox capacity, and any records
that are scoped to a channel the way the parser scopes them (`RecordAssumption`):

| Theorem | States |
|---|---|
| `CoordinatorOneEraPerBook` | no book mixes two eras |
| `CoordinatorBarrierDrains` | when a barrier or fence returns, what was sent before it has been handled |
| `CoordinatorStrikeFindsDefinition` | a strike finds the definition it was sent behind (a part of `RecordsGoHome`) |
| `CoordinatorRecordsGoHome` | `StreamSpec => []RecordsGoHome`: so do levels their group, for any stream without interleaved groups |
| `CoordinatorTyped` | the type invariant |

The argument (`CoordInv`) is about queues: while the read loop waits, an inbox ends in
the mark of the barrier or has none, an acknowledged shard's inbox is empty
(`WaitInv`), and every other message queued or about to be sent is of the present era
(`QueueInv`), so what is applied is too (`EraInv`). `StrikeInv` follows a strike from the
read loop to the head of an inbox: directly behind its definition, or with that
definition applied.

`RecordsGoHome` holds of `StreamSpec` and not of `Spec`, under which a level may come
after any begin. `HomeInv` says that the open groups are groups the stream has open at
the record last dispatched (`GroupsBy`), which during a barrier is the one *before* the
record it holds; that every level on its way is filed with its own instrument; and
that shadows hold no other. After a break nothing is known of what was lost, and
nothing need be: `OnDisconnect` has closed every group.

### 5.5 The registry

`InstrumentRegistryProofs`, for any finite set of symbols, any horizon, clock, caps and
compaction floor; `SentinelAssumption` says that the model values for "no entry", "no
record" and "damaged" are not entries or records:

| Theorem | States |
|---|---|
| `RegistryRecordServes` | the record always loads, and holds what is published |
| `RegistryKeepsIdentity` | `Spec => Identity!Spec`: the registry implements `InstrumentIdentity` |

`RecordInv` has two parts. `Good` is what the file owes the *world*, in every phase and
after every fault: each symbol told of is in it under its ID, recently enough that it
is not forgotten before the horizon, and no ID is in it twice or at or past `next`.
`Synced` is what it shares with the *memory* while no fault is latched; after one, the
memory may have changed and `Good` must not depend on it. The rounding of `StampS` (up)
and `NowS` (down) is what carries `Good` across a restart.

### 5.6 The spool and the capture

`InlineSpoolProofs`, for any number of windows, grains and faults and any budget:

| Theorem | States |
|---|---|
| `SpoolNothingForgotten` | a closed window is on disk, stored or known to be given up |
| `SpoolNeverInsertsTwice` | a window the process was told had landed, or that the ledger has, is not inserted again, unless a panic interrupted its entry or deletion |
| `SpoolKeepsPromise` | `Spec => Fate!Spec`: the spool implements `WindowFate`, crashes included |

`SpoolInv` ties the stages of the posting thread (`StageInv`) and the ledger's lines, its
memory and its torn tail (`EntryInv`) to the directories (`DiskInv`). `DueInv` says which
windows may be offered: once the spool is reconciled with the ledger, a window in the
spool that landed or is in the ledger owes an entry, is about to be entered or
deleted, or was interrupted. The delicate case is the first pass of a process: a window whose line the ledger can
read but which is still on disk is owed a deletion and not an insert. A window whose line was
torn is not in the ledger, and is inserted again (section 4).

`InlineCaptureProofs`, for any ring, debt, window size and kernel losses:

| Theorem | States |
|---|---|
| `CaptureConservesSlots` | a slot is free, filled or in hand, and in one place |
| `CaptureAdmitsLosses` | gaps are admitted behind them, totals cover what is missing |
| `CaptureAnchorsAdjoin` | a certain anchor adjoins the window before |

`CaptureInv` reads the stream as one sequence, what was taken followed by what is in the
ring: accepted numbers ascend, the gap before each is its drop delta or saturates it,
and the live debt is what is owed behind the last. The loss a window states is then a
number sampled after its last datagram was taken, hence at least what is missing
before it. Stating it that way, instead of as a sum over the deltas, is stronger and
needs no induction over the stream.

### 5.7 The feed

`MbpFeedProofs` puts the two ends together, for any bounds of either, any datagram
capacities, any reorder window and backlog, and every loss, delay, reordering,
repetition and disconnect:

| Theorem | States |
|---|---|
| `FeedReadyBookIsTruth` | without repeated snapshot datagrams, a ready book is the publisher's |
| `FeedDiscardedOnlyAtAnchor` | a discarded book comes back only at the anchor of the reset handled last |
| `FeedImplementsShard` | without repeated snapshot datagrams, the shard in the feed takes steps of `ShardSpec` only |

`FeedAssumption` says that the shard's alphabet holds what the publisher can send. The
first and the third theorem assume `~DuplicateSnapshots`; section 4 says why the first is
false otherwise; the third is because a repeated level can be counted past the
`MaxLevels` at which `ShardSpec` bounds a shadow. The second needs no such assumption. None needs
`PublisherFirst` or `Short`: they are about `FeedSpec`.

`FeedInv` is `IndInv`, `PubInv` and `TruthInv` with what lies between the ends:

    NetInv      the inbox holds records that were sent, and no level twice; every delta
                in a buffer, a window or a loop was sent (CarriedIn)
    ShadowsOK   a shadow was opened by the begin of a snapshot that was captured
                (ShadowOf), of whatever generation
    DiscardOK   the reset handled last left a requirement: every shadow reaches its
                anchor, and so does the next snapshot accepted, or the book already
                started from one that does (Required)

`WholeInv` is what a repeated snapshot would break: the levels in a shadow are counted
exactly and will not be dispatched again (`ContentOK`), so a shadow that received as many
as were declared is the captured book (`WholeShadow`), and a ready book is the
publisher's (`BookOK`).

The shard's handlers enter only through `HandlerEffect` and `DeltaEffect`: whichever path
a handler takes, it leaves each instrument's book alone, demotes it, or advances it by
the next delta that was sent. `AcceptedReaches` is the step that is easy to get wrong. A
commit *clears* `RequiredAnchorSeq`, so nothing the subscriber remembers refuses an
old snapshot afterwards. One that is still accepted declares a higher number than the
snapshot the book started from. Were it a snapshot of the discarded book, the earlier
one would be anchored before the reset (`OvertakenBeforeReset`); but it reached the anchor.

### 5.8 The threaded intake

The second part of `PublisherProofs`, for any connections, any stream of quotes and trades
cut into any payloads, any capacity of the queue and bound of a batch, and every
loss, repetition, delay and disconnect (`IntakeAssumption`):

| Theorem | States |
|---|---|
| `ClaimsAreCarried` | each key won is applied, superseded or on its way to the loop, unless its decode failed behind the claim |
| `TradesAppliedOnce` | no trade is applied twice |
| `ConnectionsKeepOrder` | `Spec => Fifo!Spec`: the intake implements `ConnectionFifo` |
| `QuotesApplyInOrder` | `RestartsOnce` implies that quotes are applied in the venue's order |

`Core` follows a claim from the table to its decoder, from there to what the
connection holds back or to the queue, and to the loop's dedupe: what is in flight was
claimed (`EventsInv`), each key won is applied, superseded or in flight, or spoiled
(`CarriedInv`), and
what a connection holds is in the stream's order and of the payload at hand
(`HeldInv`), also when an error ends that payload early (`DroppedKeeps`). For the refinement an
event's place is a function of the state alone (`Waiting`): a flush changes where an
event waits and not when it is taken, and a batch takes the oldest first.

`QuotesInVenueOrder` is about the venue's order while keys order by counter and
generation. With the counter falling at most once (`RestartsOnce`; the run's stream is
one of those) the two agree: `OrderInv` says that a decoder still in generation 0
past the restart has seen more than any new number, and that the table holds at
least as much, so what it claims there loses. Every key carried is then the true one
(`TrueKey`), which grows along the stream, and the dedupe applies only larger
ones. The hypothesis is needed. On a stream numbered 7, 3, 0, 5, where the
counter falls twice, TLC finds the quotes applied in the order 1, 3, 2. The comment
on `CounterGenerations` (`dz-adapter-core/src/threaded.rs:523`) tells of connections that
count one generation fewer; the order of quotes across two restarts is the price.

### 5.9 The archive

`ArchiveRotationProofs`, for any number of windows, restarts and faults, any budget
(`ArchiveAssumption`):

| Theorem | States |
|---|---|
| `ArchiveWindowsAccounted` | every window is on disk, landed or counted, and numbers without a window leave a gap |
| `ArchiveInUseIsLeftAlone` | retention takes neither the open segment nor the one being read |
| `ArchiveObjectHasManifest` | no object stands in the completed directory without its manifest |
| `ArchiveBudgetIsMet` | an undisturbed pass meets the budget, but for what is in use |
| `ArchiveFloorIsOldest` | no object a pass saw and left is older than the floor it reports |

`ArchiveInv` is

    Core            the open segment, the queue in the order of its numbers, the
                    publication step by step, custody, working names, the scan
    PlaceInv        a window is in staging once, and one not yet closed never landed
    NumberInv       within a run a number is one window's
    NothingVanishes each window opened has a place or a record
    ReportInv       a run without a fault has each of its windows on its way or gone
    FloorInv        listed objects are distinct, land no more, and the plan's are
                    in order of age and kept below
    BudgetInv       as long as only the shipper moved files, what is still needed
                    and the budget make up the plan, and what is not planned is in use

The two halves of the pass meet in `BudgetInv`: the scan was taken at several
moments while the write path and the compressor went on, so it can be related to
the disk only while nothing but a shipper moved (`still`). The bound itself is a
count: the files left are the open segment, the one being published, the newest
of the queue and the rest of the plan, four disjoint sets. That a listing can be put in
order of age at all (`ByAge` is a `CHOOSE`) is proved from a least counterexample.

### 5.10 Only model-checked

- Liveness, which the provers do not cover: `DispatchReturns`, `StopDrains`,
  `EveryWindowSettles`, `HeldDrains`, `SettleReturns`.
- `QuotesInVenueOrder` of streams whose counter falls twice: it does not hold (5.8).
- `Ascending` of `InlineSpool` is a `CHOOSE` of an ascending sequence and not `SetToSortSeq`,
  which takes an operator that the provers cannot instantiate.

## 6. Not modelled

- Widths: sequence numbers are naturals, below any wrap. Where a width is what
  matters it is a constant: the era's modulus, the debt's saturation, the last
  Instrument ID, the claim key's counter. The saturating Per-Instrument Seq
  (`seq.rs:66`) and the u16 manifest comparison (`coordinator.go:301`) are not.
- Time: a hold, a tick or a rotation is an action that may happen at any time. The
  registry has a clock because its horizon is about one.
- A lowering refused for a value the wire cannot state. It spends no number, so
  subscribers cannot notice that the message is missing, and the code only counts
  it; `Emit` always lowers, and `ReadyBookIsTruth` is a statement about feeds
  whose values scale.
- A lost or refused `InstrumentReset`, which a subscriber cannot tell from none:
  `ReadyBookIsTruth` is stated of the generation the book started from. A late datagram of
  an old era, which flips the Reset Count and costs a second recovery, is in
  `coordinator`, and no property says it is free.
- More than one publisher or one shard in the feed. The shards share no state.
- Power loss, but for the era store: spool, registry and archive are modelled through
  the death of their process. (The registry's unsynced directory is the exception,
  as the code asks for it.)
- A decoder that fails and a connection that drops before an instrument's first quote
  was seen there: a restart of the counter missed that early is the decoder's own matter.
- The compressor's thread dying on its own, and a manifest left in the completed
  directory by a death between two moves, which no start cleans up.
- Components with status `not_modelled` in `PROJECT.json`, each with its reason.

## 7. Plan

1. The batch loader (`dz-recorder-load/src/loader.rs`): the pass over objects and manifests
   against the same `LoadLedger`, with its retries, quarantine and compaction; the spool's
   `WindowFate` is the specification it should share.
2. The definition cycle and the manifest sequence with its wrap
   (`dz-publisher-refdata`), composed with the coordinator's prune; the snapshot rotation
   (`rotation.rs`): every instrument served within a cycle.
3. The snapshot writer's dirty set and generation; a sibling of `MbpShard` for the
   market-by-order book-builder; the FIX session.
4. Theorems: that the loader's pass is a `WindowFate`; that a reader of the publisher's own
   snapshot port meets `StreamAssumption`, which would join `MbpFeed` and `MbpCoordinatorStream`.

## 8. Running

    tlc -workers 2 -config MCMbpShard.cfg MCMbpShard.tla
    tlapm MbpShardProofs.tla

and the same for the other `*Proofs` modules. Every run is named for its configuration
and takes from a few seconds to four minutes; the longest are `intake` (liveness over
390 000 states), `feed` (430 000 states, each step compared with `ShardNext`) and
`archive`. The proofs take from one to ten minutes each; `ArchiveRotationProofs` and
`MbpFeedProofs` are the longest.
