# A TLA+ model of Mantis

Mantis is a low-latency trading SDK in Rust. This directory holds TLA+ modules
for the crates that carry its logic, TLC configurations that check them on
small instances, and TLAPS proofs that hold for every instance. Paths below are
relative to the repository.

## The system

    venue -> feed thread -> [SPSC ring] -> market state engine -> strategy -> [SPSC ring] -> execution

Each arrow crosses a thread or a socket (`README.md`, data flow). The parts:

| part | state | operations | talks to |
|---|---|---|---|
| SPSC rings, `crates/queue` | head, tail, a cached copy of the other thread's index on each side, slots | try_push, push, try_pop, pop, push_batch, pop_batch, Drop | one producer and one consumer thread, through memory |
| Sequence lock, `crates/seqlock` | a counter and a value of several words | store, load, version | one writer, many readers, through memory |
| Instrument registry, `crates/registry` | records, indexes by key, symbol and token, next id | insert, insert_prediction_pair, bind_polymarket_current/next, promote, unbind, lookups | decoders resolve tokens with it |
| Polymarket decoder and callback, `crates/polymarket` | sequence number, output array, counters | decode, push of each event | feed thread calls it; it pushes into a ring |
| Binance decoder, `crates/binance` | symbol table, sequence number, drop count | new, decode, push | same |
| Feed threads, monitor, timer, `crates/transport` | link, attempt, shutdown flag, counters | connect, read, ping, back off, shut down; tick; check staleness | own the decoders; the timer pushes events into a ring, the engine runs the monitor for them |
| Market state engine, `crates/market-state` | per instrument a book with cached best indices, a snapshot state machine, the previous BBO; one slot for the last TopOfBook | process, take_tob, queries | pops events from the ring; the strategy reads it |
| Order tracker, position, exposure, `crates/strategy` | 64 order slots and a count; quantity, average entry, realized PnL | on_intent_sent, on_ack, on_reject, on_fill, on_cancel_ack, worst_case_qty | the strategy calls them for the venue's reports |
| Queue estimator, `crates/strategy/src/queue.rs` | per order an estimate of the queue ahead, per instrument and side a take rate | register_order, order_filled, remove_order, on_trade, on_level_change | strategy |
| Types, fixed point, events, platform | none | checked and saturating arithmetic, parsing, rescaling, constructors, limbs, copies | everything |

What is hard here, and what the properties aim at (`PROJECT.json`, hazards):

* two threads that decide from stale copies of each other's index, and a
  reader that copies a value while it is overwritten;
* visibility: which store another thread sees first;
* wrap-around of ring indices, counters and ids;
* snapshots that arrive as many events, any of which can be dropped, cut off or
  fail to parse, over a link that fails, and changes that are lost without a
  trace because they cannot be read;
* a cached best price that must never be stale, a change detector that must not
  swallow a change;
* a registry whose tokens rotate under running decoders;
* order reports that arrive late and interleaved while risk is computed from
  position and open orders;
* queue positions estimated from trades, level changes and fills that arrive at
  different times;
* time: a shutdown during a back-off or a read, a ping that falls due during a
  read, a message that arrives in parts and holds a read open, a staleness verdict from two polls of a counter;
* overflow in arithmetic whose intermediate results are twice as wide as its
  operands.

## Modules

| module | models | state and actions |
|---|---|---|
| `BoundedFifo` | what a ring promises | four counters; Push, PushFull, Pop, PopEmpty, Propagate |
| `SpscRing` | `queue/src/engine.rs`, `queue/src/copy_ring/engine.rs` | fields of ProducerLine and ConsumerLine; one action per memory access of an operation; PropagateHead/Tail for the delayed visibility of a Release store; Drop. BatchSizes = {} is RingEngine, otherwise CopyRingEngine |
| `Rings` | handles, raw rings, storage, presets of `crates/queue` | one SpscRing, chosen at the start to be either engine, used by two threads through split handles or by one thread that finishes each call before the next |
| `SeqLock` | `seqlock/src/raw/seqlock.rs` | the writer by the visibility of its stores, each reader by its point in load. `Ordered` is TRUE for x86-64, FALSE for ARM64 |
| `MCLockFree` | | Rings and SeqLock in one model |
| `Events` | `crates/events` | the records that travel through the rings, and their constructors |
| `ArrayBook` | `market-state/src/book/array_book.rs` | operators from books to books; depth queries |
| `MarketEngine` | `market-state/src/engine.rs`, process | operators from an instrument's state and an event to the new state and the TopOfBook emitted; the micro price in an i64 of `I64Max` that wraps |
| `MarketState`, `MCMarketState` | the engine and the client that drains take_tob | Process, TakeTob, Query, ClearBookSide (a client that borrows a book and clears a side; `Borrowed` is the set of such books) |
| `Pipeline` | `polymarket/src/market/decoder.rs`, `spawn.rs`, with BoundedFifo as the ring and MarketEngine as the engine | a message decoded, in part or not at all (`Readings`), an event pushed or dropped, link lost and restored, an event received |
| `Registry` | `registry/src/lib.rs` | one action per operation |
| `FeedThread` | `transport/src/feed.rs`, `ws.rs` | where the thread is (connecting, reading, asleep), attempt, chunks of sleep, of the recv under way and since the last ping, the shutdown flag; an action for each outcome of connect, read and ping, and one for bytes that do not complete a message; an external link that is up, broken or silent |
| `FeedMonitor` | `transport/src/timer.rs`, `monitor.rs` | the timer thread, the events it pushed, the monitor's last_seen and verdict; an engine that pops within MaxLag |
| `BinanceDecoder` | `binance/src/decoder.rs`, `spawn.rs`, `transport/src/binance` | symbol table with a tick and a lot size per instrument, sequence number, drop count, the queue; SpawnBinanceFeed, VenueSends, EnginePopsTob |
| `MCTransport` | | FeedThread, FeedMonitor and BinanceDecoder in one model |
| `MCIngestion` | | MCTransport and Registry in one model |
| `Position` | `strategy/src/position.rs` | OnFill, with the fallbacks of the checked arithmetic |
| `Orders` | `strategy/src/order_tracker.rs`, `exposure.rs`, with Position, against an external venue | Post; Deliver of a report; Accept, Reject, Execute, Cancel of the venue |
| `QueueEstimator` | `strategy/src/queue.rs`, against external price levels that fill first in, first out | queued orders, take rates; the levels grow, shrink and trade, fills and cancels are reported later |
| `FixedI64` | `crates/fixed` | operators: arithmetic, rescaling, parsing, display |
| `Numeric` | `crates/types` on FixedI64 | one state per call of a pure routine; the properties compare it with its definition |
| `Limbs` | `crates/platform`: carries, borrows, wide products, accumulators of three limbs | operators on words of W bits; one state per call |
| `Words` | `crates/platform`: constant time, bit tricks, copy table, on Limbs | operators on the bits of words; one state per call |
| `MCStrategy` | | Orders, QueueEstimator, Numeric and Words in one model |
| `LockFreeProofs` | | proofs about Rings (so SpscRing) and SeqLock |
| `RegistryProofs`, `MarketStateProofs`, `PipelineProofs`, `TransportProofs` | | proofs about the module they are named after and the ones it is made of |
| `StrategyProofs` | | proofs about Position, Orders and QueueEstimator |
| `NumericProofs` | | proofs about Numeric (so FixedI64) and Limbs |
| `NumberLemmas` | | what several proofs need: least elements, induction, division, powers, sums over finite sets |

`Pipeline` instantiates `BoundedFifo`, not `SpscRing`: the theorem
`RingImplementsFifo` is what allows it. `MCLockFree`, `MCTransport`,
`MCIngestion` and `MCStrategy` put parts that share no state into one model; a
variable chosen at the start says which of them a behaviour runs, so their
states add up and do not multiply.

Some definitions are preceded by a variant with one plausible mistake
(`PushReloadUnchecked`, `PromoteKeepsOld`, ...). These are used only to show
that a property notices that mistake.

## Runs

| run | instance | shows |
|---|---|---|
| `lock_free` | both engines, split and raw, 4 slots, batches of 2, 3 and 5, 7 values, Drop | TypeOK, NoDataRace, RingOrder, InOrder, DropReleasesAll, refinement of BoundedFifo (FifoSpec), AllDelivered under fairness |
| | a sequence lock on x86-64, a counter that wraps after two stores | NoTornRead, NotStale, LoadReturns |
| `seqlock_arm` | ARM64, violation | NoTornRead fails: the odd counter is a Release store, which does not order the data stores after it |
| `market_state` | two instruments, two levels, all flags and event kinds, prices outside the book, unknown instruments, quantities whose sum overflows | TypeOK, CacheCoherent, SeenCurrent, TobFaithful, SnapshotSilent |
| `pipeline` | a ring and an output array that overflow, changes, trades, levels and books that cannot be read, lost links | NothingLostSilently, SnapshotEnds, NoPhantomLevels |
| `snapshot` | everything fits and can be read, violation | SnapshotReplayed fails: every level of a book message carries IS_SNAPSHOT and each one clears the book |
| `registry_rebound` | tokens may be bound twice, violation | TokensExact fails; the error declared for it is never returned |
| `ingestion` | back-off of 1 to 8 chunks, read timeouts none and 3, ping intervals none, 2 and 5; a tick of 4 chunks and a lag of up to 3; two symbols, four frames, a queue of two | see below |
| | a registry with a pair, a reference, one symbol, three tokens, four ids | TypeOK, KeysExact, TokensExact, StableIdentity |
| `strategy` | two slots, three orders of up to two lots, two prices, an i64 of 7; three lots at two levels; an i64 of 8 bits with scales 1, 10 and 100, words of 4 bits, texts of up to 5 characters | see below |
| `orders_late` | reports of one order may overtake each other, violation | CountExact fails: a late ack revives an order that has ended |
| `ping_interval` | the transport part of `ingestion`, violation | PingEveryInterval fails: a PING that falls due during a read waits for its end |
| `shutdown_time` | the same, violation | ShutdownWithinChunk fails: a read under way is not interrupted |
| `copy_sizes` | values of up to 130 bytes, violation | CopyMovesTheValue fails for 9 to 15 bytes |

`ingestion` checks, for transport, that reconnects counts every connection but a first one that
succeeded at once (ReconnectsCounted); that two pings are less than
ping_interval + read_timeout apart, unless a message that arrives in parts holds
a read open (PingGap); that a thread asked to shut down takes no nap but the one
under way and blocks no longer than read_timeout in a read, with the same
exception, a connect not being counted (ShutdownPrompt); these two are the
bounds that the code keeps, where the documentation promises the ones of
`ping_interval` and `shutdown_time`; that every readable frame of a mapped symbol
becomes an event that says what the frame said, each side its own, in the ticks
and lots of its instrument, and is popped, queued or counted as dropped
(TobAccounted); that a feed that stops is declared
stale within the monitor's patience, and one that is declared stale really was
silent between two checks (StaleTimely); and that a link that breaks is
replaced and, with a read timeout, a shutdown ends the thread and a link that
goes silent while pings are sent is replaced too (FeedLives).

`pipeline` treats a change that cannot be read like one that happens while the
link is down: decode_price_change returns without an event, a number or a count,
so NothingLostSilently, which speaks of numbered events, does not see it, and
the level it was about stays wrong in the engine's book. `gap` remembers when that last
happened. NoPhantomLevels says that the next snapshot of which an event gets
through removes every such level, and it says nothing until then.

`strategy` checks, for orders, CountExact, ExposureSound, SlotsRecovered and
PnlConserved; for the queue, that the estimate is off by no more than
the lots cancelled at the level since the order was posted (DriftBounded), that
a slot is in use only for an order with lots or reports outstanding
(TrackedExact) and that a take rate averages trades of its own instrument and
side only (RatesIsolated); for the numbers, that
products and quotients are the exact result truncated or rounded or
else refused (MulDivExact), that a rescaling is that of the rational value
and prices and quantities come back from ticks and lots to within one of them
(ConversionsBounded), that a text parses to its value or is refused, and what
is displayed is read back (ParseFaithful), and that constant-time words, carries, wide
products, division and bit tricks compute what their plain counterparts do
(WordsExact).

Bounds. The ring is checked past a full turn of its indices, with every
batch size around the free space; since all its decisions depend on index
differences, larger rings add no new case (the proofs cover them). The
seqlock's counter is cut down so that it wraps in the run. The pipeline's books have up to
four levels, of which two fit into the output array, and four events are
decoded: enough for two cut-off snapshots with a drop, a lost link or an
unreadable change between them. Two price levels and
two instruments suffice for the best price to move, vanish and be shadowed by
another instrument's TopOfBook. Four ids let the registry run out of ids with
both parts of a pair registered and with one. Three orders over two slots reuse
slots; the tiny i64 makes the position overflow, and that of the market
state the micro price. Four chunks per tick are longer
than the lag, so that checks come early and late but in order; the ping
intervals lie on both sides of the read timeout. Two instruments, on the bid
side, compete for one take-rate slot; that sides do not mix is left to the proof. The estimator has as many slots as orders in the run; that an
order it refuses because the table is full spoils nothing is covered by the
proofs. With 8 bits every pair of operands from `Magnitudes`, zero, one,
a scale and both ends of the range among them, overflows, rounds and refuses
where 64 bits would; the code treats all widths alike. `MaxPlaces` is 18 in the
code, the largest power of ten in an i64; with 8 bits it is 2.

Fairness. AllDelivered assumes that a store becomes visible in finite time, that
the consumer polls and that the producer retries, which is how the handles are
used. LoadReturns assumes that the writer's stores become visible, that a reader
that runs takes steps, and a finite number of stores: a reader can spin for as
long as the writer stores without pause, as the code allows. FeedLives assumes
that the feed thread is scheduled, that time passes, that the venue does not
refuse connections for ever (each connect returns, though none has a timeout),
that a message of which a part has arrived is completed or its link fails (the
WebSocket library bounds the size of a message, so that it cannot trickle in for
ever), and that the kernel gives up on a silent link to which the thread keeps
sending pings; it says nothing of a silent link without pings or of a socket
without a read timeout, on which the code waits for ever. No other property needs fairness.

Deadlock checking is off for the runs whose behaviours end: when all bounded
work is done, after Drop or a shutdown, when ids or orders are used up, or when
a pure routine has been called.

## Proofs

All theorems hold for every value of the constants that satisfies the named
assumptions.

* **Ring** (`LockFreeProofs`). The six copies of the two positions come in one
  circular order (RingOrder). This is inductive only together with: the counts
  of values sent and received match the indices (Counts); a thread between its
  test and its index store owns the slots it claimed, as seen through its own
  cached index (ProducerClaim, ConsumerClaim); each slot's content follows from
  its distance from tail (Contents); a dropped ring is empty (Dropped). From
  this invariant follow race freedom, in-order delivery, exact Drop and, step
  by step, the refinement of BoundedFifo (`RingImplementsFifo`). The theorems are
  about RingsSpec, that is either engine behind split or raw handles: a step of
  a RingEngine is a step of the CopyRingEngine or its Drop (RingsStep), so one
  invariant serves both. Assumptions: at least one slot, positive batch sizes.
  Wrap is `% Cap`, which the mask computes for the powers of two that the
  storage requires; that the branch of SpscRingFast computes it too, for every
  index the RingEngine wraps, is `BranchWrapIsWrap`.
* **Sequence lock** (`LockFreeProofs`). NeverStale holds on both memory models: a
  visible counter implies visible data (SeqFollowsData), and a copy is at least
  as new as the first counter read. NeverTorn assumes Ordered and adds the
  converse: visible data implies a visible odd counter (DataFollowsSeq), so that
  two equal even reads bracket a whole copy. Both assume that no reader is
  overtaken by 2^63 stores within one load (NotLapped) and a single writer,
  which `&mut self` gives.
* **Registry** (`RegistryProofs`). Key and symbol indexes are exact because ids
  from next_id on are unused (Unused). The token index needs two more facts:
  callers bind tokens that no other window holds (FreshTokens) and the two
  windows of an instrument differ (Windows); without them `registry_rebound`
  is the counterexample.
* **Market state engine** (`MarketStateProofs`). The inductive invariant (Engine)
  says of each book that a clean cache names the best level and that every
  level beyond it is empty; of each instrument, that the previous BBO is what
  the client was last told, or will be told by the pending TopOfBook. From it
  follow CacheCoherent, SeenCurrent and TobFaithful, for every number of levels
  and instruments and every set of events. The micro price lies between the best
  prices if the total quantity and the weighted sum fit an i64 (QuotientFacts,
  AsI64Facts); the code does not check that they do. SnapshotSilent is an action property
  and needs one hypothesis, OneFeedEach: no instrument is fed by deltas and by
  TopOfBook events at once. Without it, it is false (a TopOfBook that arrives
  inside a snapshot is emitted).
* **Pipeline** (`PipelineProofs`). The invariant (Link) follows an event from
  the decoder to the book: the counters add up (Counts), the numbers on the
  way rise (Order), and, unless an event after it was dropped, every snapshot
  event on the way is followed by the end of a batch (BatchesEnd), a snapshot in
  progress is closed by something still to come (SnapshotClosing), and a level
  on the way or in the book that the venue no longer has is overwritten by
  something still to come (ComingCurrent, BookCurrent). The last two speak of
  what was decoded after the last change that was missed; a change that cannot
  be read and a lost link are one case there (MissedStep). decode_book is a loop over
  the levels of a message; what it emits is established by induction on the
  number of levels (EmittedLevels).
* **Transport** (`TransportProofs`). For the feed thread, attempt is zero on the
  way to a connection only before the first try, and the time since the last
  ping and since the shutdown request are bounded by what is left of the nap or
  recv under way (Tries, Pings, Prompt), with the clock of a recv running
  from read_timeout down (Timed) and no bound once a message came in parts. For the monitor, one timer event at
  most is on its way (OneTick) and the last check saw every message that was old
  enough (QuietSinceCheck, SeenSoon); this assumes PromptEngine, a lag shorter
  than a tick, without which StaleTimely is false. For Binance, the decoder
  expects the kind of frame the venue sends (ModeAgreed), the counts of frames
  and events add up (Accounted), and the events in the queue carry rising
  sequence numbers and the content of the frame they come from (Queued).
* **Position and orders** (`StrategyProofs`). PnlConserved is inductive with the
  types of the position and of the reports under way; the argument is
  arithmetic, one lemma for increases (a division loses less than the divisor),
  one for reductions, one for closings and flips. It holds in whatever order
  reports arrive. CountExact, SlotsRecovered and ExposureSound assume InOrder,
  that the reports of one order do not overtake each other (`orders_late` is
  the counterexample without it). The invariant (Books) says which reports of an
  order can be under way (Trail), that its slot is behind the venue by just
  these (Tracked), and that open quantities at the venue and in the slots differ
  by the slack of each order (Balance), which is never negative.
* **Queue estimator** (`StrategyProofs`). Our orders are disjoint stretches of
  the queue of their level (Lines), and each slot follows its order (Follows):
  same lots, and an estimate off by no more than what was cancelled. The step
  for on_level_change is arithmetic about powers (CancelLotsBounds): the lots
  attributed to the front are between none and all of the decrease, or, when
  the estimate exceeds the level and the power is odd, so that `back` to the
  power n is negative, between the decrease and the decrease plus the excess.
  In both cases the error grows by the decrease at most.
* **Fixed point** (`NumericProofs`). The properties are about one call, so the
  work is in the routines, for every even width of the word, every scale and
  every set of operands. MulDivIsExact: the two-step long division of
  div_u128_by_u64 yields the quotient although its middle term is cut to a word,
  because a remainder is less than the divisor (LongDivision, HalvesExact); the
  absolute value taken on two words with a carry is that of the product
  (WideTruncates); adding half the divisor before truncating rounds to nearest,
  away from zero (BiasRounds). ConversionsAreBounded adds that scales divide each
  other (ScaleCancels) and that a price comes back from ticks to within one
  (TickAndBack). Assumptions (NumericAssumption): the width is even, and
  MaxPlaces is the exponent of the largest power of ten that fits.
* **Parser** (`NumericProofs`). ParserIsFaithful is an induction over the prefixes
  of a text. The invariant of the scan (Scanned) says that an accumulator
  without error holds the value of the digits read, negated, how many of them
  count, how many follow the dot, and that the prefix is a decimal so far; one
  that reports Overflow has read a number beyond the word; one that reports
  InvalidFormat has read a prefix of no decimal. The step needs that a number of
  MaxPlaces digits always fits and one of MaxPlaces + 2 never does (DigitFits):
  that is why the code checks the 19th digit only and refuses the 20th. Display
  is inverted by writing the value of its digits as a sum of powers of ten
  (WrittenValue) and comparing it with what the scan accumulates (ValueStep).
* **Limbs** (`NumericProofs`). LimbsAreExact: the low and high words of sums,
  differences and products are those of the exact result, products of two words
  plus two words fit in two words (ProductFits), and the accumulators of three
  limbs add modulo three words, whatever carries (ThreeLimbs).

Induction over data. The library's induction theorems cannot be instantiated
with the provers at hand. Facts about sums, powers, loops and texts are proved
instead with induction over a set of numbers, or by refuting a least
counterexample (`NumberLemmas`); the operators concerned are recursive functions
or folds.

Each inductive invariant was checked by TLC on the instance of its run before it
was proved.

Only model-checked: liveness (AllDelivered, LoadReturns, FeedLives), which is out
of the prover's reach; and, of WordsExact, the constant-time words with their
division, and the bit tricks (ConstantTime, BitHacks), compared with their
definitions for all words of 4 bits: `Words` computes with bitwise operators,
for which the prover has no theory. LimbsExact, the rest of WordsExact, is
proved.

## Findings

1. A Polymarket snapshot of several levels leaves only its last level in the
   book (`snapshot`). Clearing only on the first event of a batch is not enough
   either: if the event that ends a batch is dropped by a full ring, the next
   snapshot would not clear, and NoPhantomLevels fails.
2. On ARM64 a seqlock load can return a torn value (`seqlock_arm`); the comment
   at the odd store claims an order that Release does not give.
3. A token bound twice corrupts the token index silently (`registry_rebound`).
4. A late ack revives an ended order (`orders_late`). The comment in
   on_intent_sent, "Try None slots first, then terminal-state slots", also
   differs from the code, which takes the first slot of either kind; no
   property depends on it.
5. The SIMD copy of a value of 9 to 15 bytes uses a kernel that writes 16 bytes,
   and the length of its tail underflows (`copy_sizes`).
6. The README of the transport crate says that a PING is sent every 10 s; a
   quiet link gets one after almost 25 s, ping interval and read timeout added
   up (`ping_interval`).
7. The same README says that shutdown responds within 100 ms. That is so for a
   thread in a back-off; one that reads goes on for up to the read timeout, 15 or
   35 s, and one that connects until that returns (`shutdown_time`).

Seen while modelling, and part of the model as the code has it:

* An insert whose PolymarketBinding already carries windows does not index their
  tokens; callers in the repository pass an empty binding, and so does the
  model.
* reconnects includes the first connection when that took more than one
  attempt. A connection that closes at once resets attempt, so the back-off
  does not grow against a venue that accepts and drops. With jitter a delay can
  exceed `max`.
* The read timeout is that of one recv, while a read goes on until a message is
  complete: bytes that trickle in hold it open, and pings and shutdown with it.
  WsConfig allows no timeout at all; neither of the repository's feeds uses that.
* A price change that cannot be read leaves its level as it was, without a trace:
  no event, no number, no count. A level that the venue removed then stays up to
  the next snapshot.
* The sums of the micro price are unchecked: they wrap in a release build (as in
  the model) and panic in a debug build.
* connect has no timeout, and a shutdown that comes during one waits for it. A
  silent link without pings is never left; only the monitor sees it.
* An engine that lags by a tick runs two checks back to back, and a live feed
  then looks stale. FeedHandle's drop counter is never incremented.
* checked_div_int panics for the least value divided by -1, where the other
  checked operations return None. (A divisor of zero is refused like theirs.)
* The estimated queue ahead can exceed the level's size. Batches do not call the
  ring's instrumentation, so its push_count misses them.

## Assumptions on the environment

Compilers keep the program order that the atomics and fences ask for. The venue
sends messages in order over one connection and answers a subscription with its
current book. A TopOfBook event and book deltas never concern the same
instrument: Binance instruments get only the former, Polymarket instruments only
the latter (an engine fed both can emit in the middle of a snapshot). The
client calls take_tob after every process. The venue reports each event of an
order once. The engine pops a timer event before the next one is due. Trades
and level changes reach the queue estimator in the order in which they happen; a change of
size that a trade causes is reported as the trade.

## Not modelled

* Timestamps of instruments and is_stale; last_trade; book_imbalance and
  fill_probability, which compute in f64 and only read.
* unrealized_pnl, notional and total_notional_at_risk, which sum what is
  modelled and fall back to zero on overflow.
* The rings' instrumentation counters and prefetching.
* The TopOfBook slot of the engine in the pipeline (it is in MarketState).
* Sockets, TLS, WebSocket frames, thread affinity, socket tuning; JSON beyond the
  fields that decoders read.
* Inline assembly, CPU detection, cycle counters, padding and layout.
* The strategy trait, its intents and limits: types without behaviour; the risk
  gate they describe is not in the repository.
* Benches, layout reports, verification harnesses, the Nim prototype.

`PROJECT.json` gives the reason for each part.

## What is left

Every safety property of the runs is proved but the bitwise half of WordsExact.
For that half a theory of bits as sums of powers of two would be needed before
the prover could follow the constant-time formulas. Liveness stays with TLC.
