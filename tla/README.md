# A verification development of liquidity-engine

The program collects depth updates (price, quantity, location) from several
cryptocurrency exchanges, keeps an order book, and streams quotes to clients.
This directory holds TLA+ specifications of its parts, the TLC configurations
that check them on small instances, and TLAPS proofs.

Sources are named relative to `src/`; `stream.rs` is `exchange/src/stream.rs`,
`channel.rs` is `zc-async-channel/src/channel.rs`.

## 1. The system

| component | state it keeps | operations | status |
|---|---|---|---|
| `zc-async-channel` | ring, mask of sender ids, waker slots | split, try_clone, send, try_send, recv, try_recv, drops | modelled: `Channel`, `Mpsc` |
| exchange stream (`exchange/src/stream.rs`) | three depth buffers, the socket's reader, snapshot flag, message count | start, reconnect, run, run_snapshot, run_with_snapshot, push_buffered_ws_depths, poll_next | modelled: `ExchangeStream`, `DepthPath`; all but sequence_depths, which nothing calls |
| exchange (`exchange/src/exchange.rs`) | the stream, its depth pool, the websocket sink | forwards to the stream; subscribe, close | modelled: `ExchangeStream`, `DepthDriver`, `ServerBinary` |
| `depth-pool` | archived depths in slots | insert, release (used by stream.rs; the crate at this commit has only the archive format) | as used: `ExchangeStream` |
| `depth-driver` | the exchanges, the depth channel | connect, subscribe, sync, run the streams, close | modelled: `DepthDriver`, `ServerBinary` |
| `core` | runtime, order book, driver | new, run | run is that of `DepthDriver` |
| `orderbook` | levels per side, liquidity per exchange, best-price pointer | build, ask_update, bid_update, traverse | modelled: `OrderBook` |
| `quoter-grpc-server`, market maker | broadcast ring, one forwarder and queue per client | subscribe, forward, disconnect | modelled: `QuoterServer`, `QuoteStream` |
| server binary | four threads | the start-up of the exchanges; the grpc server; two threads of the order book | the first: `ServerBinary`; the second: `QuoterServer` |
| exchange stub, exchange-server | queue of depths, sink, shutdown channel, the lock its callers share | run_websocket, run_http_server, supply_depths, supply_depth_internal_ws, force_disconnect_ws | modelled: `ExchangeStub` |
| objs, generated protobuf code, depth generator | none that matters | conversions, configuration, test data | not modelled |

How they interact: websocket messages and HTTP snapshots arrive at an
`ExchangeStream`; `ingest_book` archives each depth in a slot of the exchange's
own pool and puts the slot in a buffer; `poll_next` sends at most one slot per
poll through a bounded channel to the reader of depths, which views the depth
and releases the slot. The driver starts all streams, pulls a snapshot of each
and then runs one task per exchange. Everything in the driver runs on one
compio thread, so a step is what a task does between two awaits that really
wait. The gRPC server runs on a thread of its own.

What is hard: wakers that can be lost between a cancellation and a drop; a full
or closed channel in the middle of a snapshot; buffers, pool and channel at
their limits; the order of snapshot and websocket depths; panics
(`ArrayVec::push`, `unwrap`) that end a task; connections lost and made again;
calls in an order the callee did not expect; a lock held while waiting for the
outside; slow gRPC clients. `PROJECT.json`
lists each of these at its line, under "hazards".

What makes each part correct: the channel loses, duplicates or reorders no
value and leaves no task asleep that could go on; the streams leak no pool slot
and lose no depth while there is a reader; a snapshot precedes the updates that
follow it; the driver ends for a reason and does not die of a panic; the order
book's levels agree with the updates applied; a client sees the quotes in order
until it falls behind.

## 2. Modules

### Channel (and the abstract Mpsc)

`Channel.tla` is `channel.rs`, all of it. The variables `slots head len rx_waker
tx_wakers tx_ids rx_alive` are the fields of `Channel`; `txId` is the `id` of
each live `Sender`. All fields are `Cell`s and the type is not `Sync`: tasks of
one thread share it, and a poll, a synchronous call or a drop runs to its end.
Those are the actions: `SendFirst`/`SendAgain` are the first and later polls of
the future `send` returns (its closure is `Attempt`), `RecvFirst`/`RecvAgain` those of `recv`
(`Receive`), `CancelSend`/`CancelRecv` drop such a future, and `SpuriousWake`
stands for a task that is polled for a reason of its own (a select, a timer).
A task is "parked" when its future answered Pending and nothing has woken it
since; that is what a lost wake-up would leave for ever. `Split` needs
`&mut Channel`, so it happens when no half is alive, and it can happen again: the code keeps what
is in the ring. `Push` and `Pop` include the wake-ups they end with.

`Mpsc.tla` is what the channel promises: a queue of at most N values, senders,
a receiver, and an end of stream that is answered only when nothing can follow.
`Channel!Refinement` maps `queue <- Buffered`, `senders <- LiveHandles`,
`receiver <- rx_alive`.

### ExchangeStream

`ExchangeStream.tla` is `stream.rs` with the pool of `exchange.rs`, for a set
of exchanges that share the depth channel. Variables carry the names of
the fields (`buffer`, `depth_update_buffer`, `buffer_websocket_depths`,
`stream_count`); `websocket_depth_buffer` is left out because nothing ever puts
a depth in it. A call (`run`, `run_snapshot`, `run_with_snapshot`) is a little
program with the places `pc`: "idle" (its caller sleeps), "pull" (an HTTP
request is awaited), "iter" (the loop over the pulled depths), "send" and
"read" (the two halves of `poll_next`). Only "idle" and "pull" wait: `poll_next`
always answers Ready, so other tasks step in only when every exchange is at
one of those (`Quiet`). A panic parks the exchange's task for good.

A depth is an entry of a payload, and a payload says whose it is, whether it came from
the socket during a normal poll ("ws"), during a snapshot loop ("held") or
from HTTP ("snap"). Prices, locations and
quantities play no role. A payload that fails changes nothing that lasts,
since every slot taken for it is released before the poll goes on.

The reader of the channel is outside the crate: `Take`, `Release` and `Close`
follow the contract in the comments of `depth-driver/src/lib.rs:29-30`. The
channel itself (kanal's bounded `AsyncSender`) is its bounded queue, as
`try_send` shows it.

`Connect` is `start` and `reconnect`: a new socket, and nothing else is reset.
The history `skipped` holds the texts that were thrown away unread because
`stream_count` was not yet 1 (`PollSkips`). `http_client` is chosen at the start
from `SnapshotEnabled` and never changes.

`DepthPath.tla` is what the exchanges promise of that path: depths never seen
before are taken in and wait, the reader views one at a time, a viewed depth
does not come back, and only a reader that has gone loses depths.
`ExchangeStream!Refinement` maps what waits to the depths in taken slots other
than the reader's, whichever of the buffers, the snapshot or the channel names
the slot. That a slot is reused while an old depth of it is still to be sent
would be a step the abstract path does not have.

### DepthDriver

`DepthDriver.tla` EXTENDS `ExchangeStream` and replaces its free caller by the
driver: `phase` and `at` say where `run` is in `websocket_connect`,
`subscribe_depths`, the two loops of `sync_orderbook` and `run_streams`; `sink`
is each exchange's `ws_sink`; `task` its stream task. A step is one of the
driver's own, one of a stream task (`StreamAgain`, `StreamEnds`), or a step
inside a call one of them has begun (`Inside`: `PullOk`, `PullErr`, `PullPanic`,
`Poll` of `ExchangeStream`). Each exchange is connected, subscribed, and so on
in `Order`, and the first error answers for the whole of `run`. `CancelRun`
drops the task that awaits `run`, which cancels every stream, as the comment on
`run_streams` says. The driver does not call `run_with_snapshot`. A driver
without exchanges, whose loops all end at once, is not modelled (`OrderAssumption`).

The reader may take a step between the end of a call and the driver's reaction
to it, which the single thread would not let it do when both are on it; the
reader only empties what the driver does not look at, so this adds no outcome.

### ServerBinary

`ServerBinary.tla` is thread `t4` of the server binary, which calls the
driver's methods itself. It EXTENDS `DepthDriver` and uses its steps, with
`close_exchanges` (`CloseOne`) where the binary calls it and without the error
handling the binary lacks: a snapshot that fails does not keep the streams
from starting (`SyncFails`). The binary was written against an earlier driver:
`build_orderbook` is taken for `sync_orderbook`, the method that now stands in
its place, and the argument of `run_streams` is ignored.

### ExchangeStub

`ExchangeStub.tla` is the stub exchange of `testing/exchange-stubs`. Its callers
are part of the model, since what is hard about it lies between them: the tests
in `stream.rs` share it through a tokio mutex, whose fair queue is `lock`, and
hold the lock for as long as a method waits. `script` is what each task still
has to call; the cases in `MCExchangeStub` are the three tests, the
exchange-server binary (whose tuple pattern drops the shutdown sender at once,
as `kept = FALSE`), and one with the methods those do not call. Nothing is
assumed of the order in which tasks first ask for the lock, which the tests
leave to timers. A supply waits with the depth in its `hand`; `Sent` ends the
wait, with an error when the connection is lost. A port that cannot be bound
makes `run_websocket` fail and is one of its outcomes; that warp panics on such
a port is left out (`new` kills whoever uses it).

### QuoterServer

`QuoterServer.tla` is `quoter-grpc-server/src/lib.rs` with its client, the
market maker. Quotes are numbers in the order of publication; the broadcast
ring is the window of the last `RING` of them, so it needs no variable beyond
`sent` and each forwarder's `next`. `Forward` is one turn of the forwarder's
`while let`: a quote, or the lag error, which ends it as any error does.
`Enqueue` is the `tx.send(..).await` that waits on a full queue and fails when
the client has dropped the stream. `StreamEnds` is the end of the response
stream, seen when the forwarder has dropped `tx` and the queue is empty.

`QuoteStream.tla` says what a client may rely on without rings and queues: the
quotes since its subscription one after the other, and no end before it is a
whole ring behind. `QuoterServer!Refinement` maps `first <- start` and a
client's state; ring, forwarder and queue disappear.

### OrderBook

`OrderBook.tla` is the `orderbook` crate: the ladder of `build_orderbook`, both
updates (`Update`: they are the same code), the level flags as the bytes they
are (`Set`, `Unset`), and `Pointer::traverse`. No other crate calls these yet,
so they are called in any order. The crate does not compile at this commit
(`zero_mid` is not defined; both arms it guards do the same, and the model has
the one). `answer` is what the last call returned. `Precision` and `MaxScale`
are the scale `level.rs` asks for and the largest that `Decimal::new` takes.

## 3. Runs

| run | instance | shows |
|---|---|---|
| `channel` | N = 2, S = 2, 3 handles, 2 producers of 3 values, 1 consumer, fair polls | type, ring, ids, wakers, order, conservation, end of stream, refinement of `Mpsc`; outstanding sends and receives that could finish do |
| `channel_shared` | N = 1, two tasks on one Sender | violated: one of them sleeps on a ring with room |
| `stream` | exchange 1 with or without client, BUF = 2, channel 1, 2 texts and 1 snapshot of 1 or 2 depths, 2 tries | slots conserved; the pool outlasts the buffers; order of snapshot and held depths; no text skipped after a reconnection; refinement of `DepthPath` |
| `stream_pool` | exchange 1, BUF = 1, channel 1, 2 texts and 2 snapshots, fair | websocket depths arrive |
| `stream_held`, `stream_usa` | one exchange each | violated: two places where the code does not do what its text says |
| `driver` | names 1 (with client) and 2 (with or without), BUF = 2, channel 1, payloads of 1, 2 or 3, fair | slots and depths conserved between two exchanges, the channel and the reader; streams start only on a synced driver; name 1 never panics, and its depths arrive though name 2 fails; start-up ends |
| `driver_full` | two exchanges of name 1, fair | violated: a depth kept because the channel is full is never sent |
| `quoter` | 2 clients, ring 2, queue 2, NUM = 4, 6 quotes, fair | refinement of `QuoteStream` (only a client a whole ring behind is cut off); no gap; quotes arrive; a forwarder ends with its client |
| `server` | one exchange | violated: the streams run on sinks closed before the subscription |
| `stub` | the three tests, the binary and one case more; a channel of 2, fair | failed supplies leave nothing behind; depths arrive in order; the shutdown passes the lock on |
| `book` | ladder -1..3, 2 nodes, accepted precision | nothing below zero, no spinning traverse |

**Bounds.** `MaxSends` is enough for the ring to wrap (three values per
producer through two slots), for both producers to park on it at once, and for a value to be
retried and cancelled; S = 2 with three handles makes clones fail for want of
an id and ids come back out of order. In the stream, BUF = 2 lets two depths
stack up, which is what order depends on, and a payload of 2 fits an empty
buffer only; a channel of 1 is full after one send. Six depths fill the
two buffers that are used, the channel and the reader's hand, and a pool smaller
by one buffer then fails `PoolOutlastsBuffers`. Two exchanges sharing the channel are `driver`'s.
BUF = 1 in `stream_pool` keeps its liveness small: every buffer is full with one
depth. `MaxTexts`, `MaxPulls` and `MaxSends` appear in guards
only, so the runs explore every behaviour with at most that many inputs.
The stream runs do not check deadlock: an exchange whose task panicked, with
the reader gone, rightly stops.

In `driver` a snapshot of 2 fits only an empty buffer and one
of 3 never does; the panic of name 2 (whose websocket depths fill
`depth_update_buffer` before or during its snapshot) is among its behaviours.
In `quoter`, 6 quotes let a client with a full queue and a quote in hand fall a
full ring behind (2 + 1 + 2, and one more), and NUM = 4 lets a client
leave before, at and after that. In `stub`, a channel of
2 instead of 10 is filled by two lone depths, and three supplies that fail
would fill it too if they left anything. In `book`, the ladder has a
level below zero, which a depth larger than the mid price over the tick gives,
and level zero, where the pointers start. With the configurations of the
repository the ladder lies far above zero: there the pointer's level is no
level of the book, and every traverse answers `TraverseFailedInvalidLevel`.

**Fairness.** `Channel!FairSpec` asks only that the executor polls tasks that
were woken (weak fairness of `SendAgain`, `RecvAgain`); nobody is obliged to
send or receive. A sender may lose the race for the free slot again and
again, so `SendIsAnswered` does not promise it the slot. `ExchangeStream!
FairSpec`: a poll that began goes on (weak); the caller runs the stream again
and again, an HTTP request ends, and the reader takes and releases (strong:
other tasks interrupt these between polls, and the single-threaded executor
gives each its turn). Nothing makes `Run` start when the task panicked.

`DepthDriver!DFairSpec` is the same, for the driver's own steps too, except
that nobody is obliged to cancel. `QuoterServer!FairSpec` is weak fairness of
each forwarder and of a client that reads; nobody has to publish, connect or
leave, and a client may still be cut off. `ExchangeStub!FairSpec` runs every task
and lets a connected client read; no client has to connect, so `RunWebsocket`
is not fair and `LockIsPassedOn` starts from a client that has.

## 4. Where the code and its text differ

`PROJECT.json` lists them under "findings" with the lines quoted. In short:
two tasks sharing a `Sender` share one waker slot (`channel_shared`); websocket
depths are not kept back during `run_snapshot` (`stream_held`); `depth_update_buffer` is filled and never
emptied, so websocket depths of exchange 2, and snapshot depths of
`run_snapshot`, never arrive (`stream_usa`); a full channel ends the stream
that meant to try again (`driver_full`); the server binary closes every sink
before it subscribes (`server`).

Met while modelling, and plain to see without a run:

- `stream.rs:491` stamps the websocket depths of exchange 2 with location 1
  (`market-objects/src/lib.rs:14`: "1 binance, 2 binance_usa");
- `level.rs:30` makes zeros of scale 100, which `Decimal::new` refuses with a
  panic, so `OrderBook::new` never returns. `OrderBook` has this (`Build`); run
  `book` takes a scale that is accepted, as what follows has no behaviour otherwise;
- `orderbook.rs:191` and `221` add an update's price, not its quantity, to the
  node's quantity, and the error of a negative sum is discarded by `map`;
- under `usa-configs.yaml` the exchange of name 2 can panic while the driver
  starts: its websocket depths and its snapshot share one buffer;
- `stream.rs:271` compares the retry count so that exhaustion is never noticed:
  when every pull failed, `run_with_snapshot` answers Ok, though line 272 means
  to log and return an error;
- `depth-driver/src/lib.rs:41` drops the sender of the snapshot trigger where it
  makes it, so `changed()` would answer at once and `run_with_snapshot`, were it
  called under the driver, would pull snapshots without a pause;
- `exchange-server`'s binary drops the sender of its own shutdown signal
  (`main.rs:10`), so its HTTP server ends as soon as it is polled;
- `stream.rs:704` makes the future of `http_shutdown.send(())` and drops it:
  nothing is sent in `test_trigger_snapshots`;
- `market-objects/src/lib.rs:11` says "k: 0 ask, 1 bid", and every `depths()` of
  that file gives bids 0 and asks 1;
- the stub's `convert_to_binance` puts every depth, whichever side it is of,
  among the bids.

Two slips of the order book cancel out: `UNLIQUID` does not clear the bit of
`LIQUID`, so a level is liquid for ever, and only therefore `traverse`, whose
loop throws away the level it computes, returns (`TraverseReturns`; its mutant
repairs the mask alone, and the run then finds the spinning loop). The pointer
stays at zero, and only therefore the updates' comparison with it is a check of
the sign (`LiquidityNonNegative`).

Also met, and not decided by a run: `depth-driver` calls
`Exchange::new(config, producer, pool, trigger)` and one shared pool, while
`exchange.rs` takes a `pool_id` and makes a pool per exchange (the model
follows `exchange.rs`); `depth_pool::DepthSlot`, `insert`, `release` and
`market_objects::book::parse_binance_book` are used but not in the repository.

## 5. Proofs

Each theorem below holds for every value of the constants that satisfies its
assumptions. They need only the constants' types and positive sizes:
`ChannelAssumption` (with `1 <= S <= 64`, the asserts of `Channel::new`),
`StreamAssumption` and `NoSlotAssumption`, `OrderAssumption`,
`QuoterAssumption`, `StubAssumption`, `BookAssumption`. The one assumption about
how the code is used is `OneTaskPerHalf`, and it is named where it is needed.
Every safety invariant and every refinement that a passing run checks is stated
by a theorem.

**ChannelProofs**

- `TypeCorrect`, `RingCorrect`, `IdsCorrect`: the type invariant, the window of
  the ring and the ownership of ids. The ring's proof needs a few lemmas on
  `(head + len) % N`; the ids' proof needs that a send borrows its Sender
  (`FuturesBorrow`).
- `NoLostWakeup`: `SendWaitsOnlyWhileFull`, `RecvWaitsOnlyWhileEmpty` and
  `WakersRegistered`, assuming `OneTaskPerHalf` (one task per Sender, one
  receiving task), which is how the repository's tests use the channel and
  which `channel_shared` shows to be necessary. None of the three is inductive
  alone: a parked send stays right when a value is popped only because its
  waker is in the slot its id names, and that only because no other live sender
  has that id. The inductive invariant is their conjunction with type, ids and borrows.
- `ChannelImplementsMpsc`: `Spec => Refinement`, from the ring's window: a push
  appends to `Buffered` and a pop takes its head.

**ChannelOrderProofs** follows the values. `OrderKept` (`PerSenderOrder`) and
`NoValueLost` (`ValuesConserved`) are not inductive: a value could have been
accepted, or handed back, before its producer ever tried it. `Attempts` says
there is none: what was accepted or handed back was tried, and its send is
over; so each step offers at most one value, a new one, larger than its
producer's earlier ones. `NoneMeansTheEnd` (`NoneIsFinal`) rests on `IdsAreOwned`
alone: without a live sender no step sets a bit of the mask, except a split.
`ReceiverWaitsRightly` and `WakersAreFound` restate two parts of `NoLostWakeup`, under `OneTaskPerHalf`.

**StreamProofs**. The inductive invariant is `Stocked`:

- `Control`: where in a call an exchange is, and that pulled depths wait in
  `snapshot` only inside a snapshot call;
- `Counts`: texts are skipped only before the first has been read;
- `Stock`: each slot that the pool says is taken is in exactly one of the
  exchange's buffers, its pulled depths, the channel and the reader's hand, in
  that place once, and the slots of an exchange stay with that exchange.

It gives `StreamTypeCorrect`, `NoSlotLeaks` (`SlotsConserved`),
`OnlyFirstTextSkipped` (`ReconnectSkipsNothing`), and, by counting the places a
slot may be in, `PoolIsLargeEnough` (`PoolOutlastsBuffers`), for which
`SlotsConserved` with the lengths of the arrays is the whole argument.

**PathProofs** is about depths instead of slots.

- `NoDepthLost` and `StreamImplementsPath`. A slot is used again and again, so
  that its depths do not come back needs the numbers of the payloads: `Traced`
  says that every accepted depth has been counted, that it waits in one slot,
  was viewed, or is lost, and that these exclude each other. Then each step of
  the streams is one of `DepthPath` or a stutter.
- `SnapshotPrecedesHeld` (`SnapshotBeforeHeld`) and `SnapshotSentInOrder`
  (`SnapshotInOrder`). The buffer is a stack, and `run_with_snapshot` pushes the
  depths of a snapshot onto it one by one, reading websocket texts in between.
  `Stamped` says whose depth a slot holds and that a held depth is marked with
  a snapshot pulled already. `Sequenced` says for each exchange how its stack,
  the depths still to push and what has been sent fit together (`Layered`):
  held depths lie below those of the snapshot; until the channel is found full,
  at most the top is of the snapshot, and it is sent before the next one is
  pushed; what is left of the snapshot follows what was sent of it. Writing it
  showed that `SnapshotBeforeHeld` compared snapshots of different exchanges,
  which have numbers of their own; it now speaks of one exchange. Under
  `run_snapshot` snapshot depths are put aside for ever (`stream_usa`), so both
  properties are about `run_with_snapshot`, which the driver does not call.

**DriverProofs**. `DriverIsACaller` proves `DSpec => Spec`: the driver calls the
exchanges only where `ExchangeStream`'s free caller may, so `DriverLeaksNoSlot`,
`DriverLosesNoDepth` and `DriverImplementsPath` follow. `StreamsAreSynced` and
`DriverNeverPanics` need the driver's own order of calls: `Course` says what
each phase of `run` has left behind, exchange by exchange in `Order`, and
`Sound` that `run_with_snapshot` is never under way and that the array of put-aside
depths of an exchange of name 1 has room for what is left of its one snapshot
(`Roomy`), which is why its `push` cannot panic.

**QuoterProofs**. `Served` is the type invariant, the place of each forwarder
between its client's first quote and the last one published (`Position`), and
the content of `got` and `queue`, entry by entry (`QuoteRun`). It gives
`QuoterTypeCorrect`, `NoGapInQuotes` and `QuoterImplementsQuoteStream`.

**StubProofs**. `Supplied` adds to the properties that only the holder of the
lock has a depth in its hand, and that the numbers increase from the wire over
the hand to the channel. It gives `StubTypeCorrect`, `SuppliesLeaveNothing` and
`DepthsArriveInOrder`.

**OrderBookProofs**. `BookInv` adds that pointers stay at level zero and all
levels liquid, the two slips of section 4 that keep the book sound. It gives
`BookTypeCorrect`, `NoNegativeLiquidity` and `TraverseAlwaysReturns`.

Only model-checked: the liveness properties (`SendIsAnswered`,
`DropReceiverReleasesSenders`, `RecvIsAnswered`, `WsDepthsReachReader`,
`StreamsAreIndependent`, `StartUpEnds`, `QuoteReachesClient`,
`ForwarderEndsWithClient`, `LockIsPassedOn`), since fairness rests on ENABLED,
which the prover does not handle; and the runs that end in a violation, which
are about single behaviours. `ServerBinary` has only such a run.

## 6. Plan

What is left to prove: order per exchange from the channel to the reader (the
channel is a queue, so `SnapshotBeforeHeld` could be stated for what the reader
views); that the invariants of `ExchangeStream` hold for `ServerBinary`, which
makes its calls in another order, as `DriverIsACaller` does for the driver; and
shorter proofs of `PathProofs`, whose case splits over the two buffers repeat.

## 7. Not modelled

- JSON and archive formats (`market-objects`, `depth-pool`): conversions without
  state. What they are used for, taking depths from a payload and keeping them
  in a slot, is `Ingest` of `ExchangeStream`.
- Configuration, error types, generated protobuf code and its build script:
  data.
- The random depth generator: no state that two actors share.
- The two order book threads of the server binary: `process_all_depths` and
  `package_deals` are not in the repository, and neither is what would pass
  depths from the channel to the book.
- `sequence_depths` and `Level::associative`: nothing calls them.
- A socket that yields pings or malformed texts without end keeps a poll, and
  with it the whole thread, from ending (`stream.rs:443`). Those messages change
  no state here, so the model has no such behaviour, and the fairness of `Poll`
  assumes the end.
