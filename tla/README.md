# A TLA+ model of asterion

asterion is a C++ library for simulated trading: it replays recorded market
data into order books, matches orders in price-time priority, checks orders
against risk limits before they reach the engine, keeps the life cycle of a
simulated broker session, and gates the signals of a model.  This directory
holds TLA+ specifications of it, the TLC configurations that check them on
small instances, and proofs for TLAPS.  `src/` below is the root of the
repository.

## The system

| Component | State | Operations | Talks to |
|---|---|---|---|
| `SpscRingBuffer` (`concurrency/spsc_ring_buffer.hpp`) | slots, atomic `head_` and `tail_` | `try_push` (producer), `try_pop` (consumer), `size_approx` | two threads, through the two atomics only |
| SPSC replay (`market_data/spsc_replay.cpp`) | ring, `consumer_active`, start gate, statistics | `run_spsc_replay`, `run_spsc_replay_steady_state` | producer thread → ring → consumer → `ReplayEngine`; the caller joins |
| `ReplayEngine` (`market_data/replay.cpp`) | book, expected sequence number, last time, snapshot frame, diagnostics, checksums | `replay_events`, `replay_step`, `finalize` | drives an `OrderBook` |
| Multi-symbol and aggregate replay (`market_data/replay_aggregate.cpp`) | a `MultiSymbolBookSet`; a replay state or an engine per symbol | `replay_by_symbol` (grouped), `replay_shared_by_symbol` (shared), `compare_replay_parity` | grouped drives one `ReplayEngine` per symbol, shared repeats its checks over the set |
| Generator (`market_data/synthetic_generator.cpp`) | the orders alive while it runs | `generate_synthetic_events` in its flows | feeds the replay |
| Event log (`market_data/event_log.cpp`, `event.cpp`) | files in text or binary | write, read, `event_log_checksum` | between generator, replay and tools |
| `OrderBook` (`book/order_book.cpp`) | price levels per side with a list of orders and a total, lookup index | add, cancel, reduce, replace, clear, views, `check_invariants` | owned by the engine and by the replay |
| `PooledOrderBook` (`book/pooled_order_book.cpp`) | sorted level vectors, node pool with a free list, `FlatOrderIndex` | the same as `OrderBook` | allocation-free alternative |
| `MatchingEngine` (`matching/`) | book, order states, used client order ids, next exchange order id | `submit_order`, `cancel_order`, `replace_order` | owns a book, returns execution reports |
| `RiskGateway` (`risk/risk_gateway.cpp`) | limits, kill switch, connection, market state, positions, working orders and three maps derived from them, message rates | two order checks, reports, release, kill switch, disconnect, setters | stands before the engine, reads its reports |
| Audit trail, log, manifest (`risk/risk_audit.cpp`, `audit_manifest.cpp`) | records, running checksum, rotated files, a manifest file | record, open, write, rotate, verify; generate, sign, write, parse and verify a manifest | written by gateway and portfolio monitor |
| `PortfolioRiskMonitor` (`risk/portfolio_risk.cpp`) | limits, positions, average costs, marks, realised profit | fills, marks, seeded positions, limits, evaluation of state and order | independent of the gateway, writes to an audit trail |
| `SimulatedBrokerSession` (`session/broker_session.cpp`) | connection, order states, counters, event log | connect, disconnect, reconnect, order transitions | tells the gateway of disconnect and reconnect |
| Inference (`inference/`) | gate: consecutive lates, disabled latch; a backend chosen from a file and its metadata | policy decision, observe, reset; make a backend, score | signals for strategies |
| Telemetry, strategies, core utilities | counters and durations; none; global allocation counters | measure; evaluate; hash, time, track | leaves of the library |
| Tools, fuzzers, benchmarks, Python | none of their own | drive the library | everything above |

What is hard here, and what makes each part correct:

* **Ring and pipeline** are the only concurrent code.  Threads read each
  other's index late; the slots are plain memory.  Correct means: no data race,
  a lossless FIFO, a depth reading that is off only by the pops not seen yet; a pipeline that applies what the single-thread replay applies, whose numbers add up whenever
  the consumer stops, and that always returns.
* **Replay** exists twice, per symbol with an engine and in one pass over all
  symbols, and in two validation modes.  Events get lost, repeated, reordered
  and damaged; a snapshot rebuilds a book over several events.  Correct means:
  both paths and both modes give the same result whatever arrives, and a stream
  reported valid has the book the venue meant.
* **Event logs and audit logs** outlive the process and are found cut short,
  damaged or changed.  Correct means: an event log that was cut short or made
  unreadable somewhere is read as a beginning of what was written or refused, and
  one whose records were overwritten or removed, which its formats cannot notice,
  never under the checksum that its write told; a whole audit log verifies across
  its rotations; a manifest tells any later change of its files.
* **Books** hold one order in three places (and, pooled, in six links and a
  free list).  Correct means: all of them agree after any sequence of calls,
  time priority is that of arrival, both books give the same answers.
* **Matching** checks the book first and walks it afterwards, changes states
  before the book, and takes a replaced order out before it puts it back.
  Correct means: price-time priority, states, reports and book that agree,
  nobody trades with himself, what is over stays over.
* **The gateway** infers the venue's book from its own decisions and from
  reports, keeps it in four maps, and drops it all on a kill or a disconnect.
  Correct means: the four maps agree, what it counts is what rests, a stop
  leaves nothing working.  The rate limit has boundaries in time.
* **The portfolio monitor** truncates average costs and flips positions through
  zero.  Correct means: its profit is the cash a close-out would leave, within
  what truncation explains, and an order it accepts fits in every part of it.
* **The session** takes fills, acknowledgements, disconnects and cancels in any
  order.  Correct means: final states are final, the log tells everything, and
  session and gateway agree on what is live.
* **The inference gate** counts and latches; the backend trusts a shape that
  comes from a file or from metadata.  Correct means: disabled exactly after
  enough lates in a row since the last reset; a model that was stated truly
  scores what is extracted.

`PROJECT.json` lists every component with its status, and every hazard at its
line with the properties that would notice it.

## The modules

| Module | What it is | Code |
|---|---|---|
| `BoundedFifo` | abstract: a bounded lossless FIFO channel | promise of the ring |
| `SpscRing` | the ring, one action per atomic or plain access | `spsc_ring_buffer.hpp` |
| `SpscRing_proofs` | remainders; theorems about the ring | |
| `SequentialReplay` | abstract: the single-thread replay | `ReplayEngine::replay_events` |
| `SpscReplay` | producer, consumer and caller over `SpscRing` | `spsc_replay.cpp` |
| `SpscReplay_proofs` | theorems about the pipeline | |
| `PriceTimeBook` | abstract: queues per side and price | promise of both books |
| `BookLevels` | the data structure of `OrderBook` as operators | `order_book.cpp` |
| `OrderBook` | one action per public call | `order_book.cpp` |
| `BookLevels_proofs`, `OrderBook_proofs` | lemmas about each operation on a book; theorems about the book and about the pooled book | |
| `PooledOrderBook` | level vectors, linked nodes, free list | `pooled_order_book.cpp` |
| `TwoBooks` | both books given the same calls | the equivalence the unit tests sample |
| `FlatOrderIndex` | the hash table of the pooled book | `pooled_order_book.cpp` |
| `PriceTimeMatching` | abstract: price-time matching | promise of the engine |
| `MatchingEngine` | the three calls, one step per loop iteration | `matching_engine.cpp` |
| `MatchingEngine_proofs` | theorems about the engine | |
| `ReplayEngine` | one symbol's replay, as operators on a stream | `replay.cpp` |
| `SharedReplay` | all symbols in one pass, as operators on the set | `replay_aggregate.cpp` |
| `SyntheticFlow` | what the generator may emit next, per flow | `synthetic_generator.cpp` |
| `AggregateReplay` | one stream with faults through both paths and both modes | the parity tests |
| `AggregateReplay_proofs` | theorems about both paths and both modes | |
| `EventLog` | logs in both formats under cuts, damage and changes that still read | `event_log.cpp` |
| `GatewayState` | the gateway's order maps and rate state, as operators | `risk_gateway.cpp` |
| `RateLimiter` | one client's messages over time | `rate_limit_allows` |
| `RiskGateway` | every operation of the gateway | `risk_gateway.cpp` |
| `GatedMatching` | gateway in front of the engine | the composition of the tests |
| `AuditTrail` | trail, lines, chain and manifest, as operators | `risk_audit.cpp`, `audit_manifest.cpp` |
| `AuditLog` | the gateway's rotating log over processes and files | `risk_gateway.cpp` with both |
| `PortfolioRisk` | the monitor over sequences of fills and marks | `portfolio_risk.cpp` |
| `BrokerSession` | connection and order life cycle | `broker_session.cpp` |
| `SessionGateway` | a session with a gateway attached | `broker_session.cpp` with `risk_gateway.cpp` |
| `RiskGateway_proofs` | theorems about the gateway: alone, with a session attached, and in front of the engine | |
| `InferencePolicy` | the policy's verdict on one score | `inference.cpp` |
| `InferenceGate` | the counter and the latch | `inference.cpp` |
| `ModelBackend` | choice of a backend and when a score throws | `inference/` |
| `Components` | `FlatOrderIndex`, `RateLimiter`, `PortfolioRisk`, `AuditLog`, `EventLog`, `InferenceGate`, `ModelBackend` side by side: they share no state, and each step is one of a single component | |
| `Components_proofs` | theorems about the index, the message rate, the portfolio, event logs, the gate and the choice of a model | |

The `MC...` modules give constants their values for TLC, and the calls it
considers of the pipeline are `CheckedCalls` of `SpscReplay`; in `MCComponents` one
component moves in each behaviour.  An operator whose comment says "mutation" is not part of a
specification: it is a plausible mistake in the definition that follows it,
with which the property named in `PROJECT.json` no longer holds.

**How state and actions correspond to the code.**  A class is a group of
variables named after its members, without the underscore where TLA+ wants it.
A public member function is an action, with an early return as a disjunct that
leaves the state alone.  Sequential components run one call per step, except
that a matching call takes one step per iteration of its loop, so that the
state between two trades is visible to the invariants.  A function that only
computes, or that two modules share, is an operator on a value that holds the
members it reads and writes: `BookLevels` on a book, `ReplayEngine` on a
stream, `AuditTrail` on a trail.  `SpscRing` splits `try_push` and `try_pop` at
each access to shared memory: load of the other's index with its test, access
to the slot, store of the own index.  Client and exchange order ids are numbers
or model values; prices, quantities and times are small numbers.  A checksum is
the sequence of what was appended to it, so two that differ never collide; a
keyed signature is the pair of key and payload.

**Memory model.**  `head_` and `tail_` are release/acquire atomics.  Each is
its modification order, a sequence; `headSeen` and `tailSeen` say how much of
it has reached the other thread and grow by their own actions, so that a thread
may read any value between the last it saw and the newest.  `headAcq` and
`tailAcq` are the positions an acquire load has synchronised with, and
`NoDataRace` asks that each plain access to a slot come after the other
thread's last access in that order.  `consumer_active` is a single flag that
falls once, kept with the value the producer sees.  The start gate and the
joins are modelled as synchronising.

**Faults.**  `AggregateReplay` passes each event on, loses it, repeats it, holds
it back past later ones, or makes one of its fields invalid.  `EventLog` leaves
a file short at any record, in the middle of one, or with one damaged, writes
over what is there, puts another event in the place of a line or a record, and
takes lines and records out (`Tamper`).  `AuditLog` ends the process between any
two lines, its last line torn or not, starts another over the files that are
there, lets a log and each file it rotates to fail to open, and removes, swaps,
edits or cuts files and manifest while no process writes.
`RiskGateway` gets reports out of order, repeated, late and under other ids.
`SessionGateway` gets disconnects and reconnects between any two order events.

## Runs

The bounds are chosen so that each case the code distinguishes occurs; where a
value is only compared, the fresh values are used in order (`FreshInOrder`) or
are symmetric.

| Run | Properties | Bounds, and why they are enough |
|---|---|---|
| `ring` | `RingInv`, `NoDataRace`, `PendingIntact`, `DepthReadingSound`; refines `BoundedFifo` | capacity 2, so three slots; 5 items, so both indexes wrap and a slot is reused; the proofs cover every capacity |
| `spsc_replay` | `StatsAddUp`, `FollowsRing`, `SameAsSingleThread`, `Terminates` | capacity 2, 5 events, all calls of both entry points under both policies, clean or with event 2 refused: the producer fills the ring and blocks before and after the refusal |
| `spsc_produced_consumed` | finding: `ProducedEqualsConsumed` is violated | the same |
| `books` | `BookSound`, `PooledBookSound`, `BooksAgree`; refines `PriceTimeBook` | 3 interchangeable orders, 2 prices, 2 quantities and an order bad in each way: queues with a head, a middle and a tail, levels that come and go, reductions below, at and above the quantity |
| `matching` | `BookMatchesStates`, `ReportsDescribeBook`, `NoSelfTrade`, `TerminalIsFinal`; refines `PriceTimeMatching` | 3 orders, 4 calls that use up an id, 2 clients: two makers for one taker, partial fills on either side, a replacement after a fill |
| `risk_gateway` | `ExposureMatchesOrders`, `StoppedMeansNothingWorks` | 3 client order ids, 2 clients, times 0 and 1, limits that alternate between open quantity and message rate; reports in any order, by either id, under a foreign id, late or repeated |
| `gated_matching` | `WorkingOrdersRest`, `RestingWithinMaximum`, `GatewayPreventsSelfTrade` | 4 requests of which 3 may become orders, cancels that bypass the gateway, kill switch and disconnect between calls |
| `gated_refused_replace` | finding: `RestingWithinMaximum` is violated | as above, prevention off at the gateway, 5 requests |
| `session_gateway` | `LogTellsAll`, `FinalIsFinal`, `TrackedIsLive`, `DisconnectReleases` | 2 orders, 8 events: an order's whole life with a disconnect and a reconnect in it; 0 among the ids tried |
| `session_gateway_allow` | finding: `DisconnectReleases` is violated | as above, with `AllowNewOrders` |
| `replay_parity` | `Parity`, `ModesAgree`, `FaithfulOrFlagged` | 2 symbols, one price a side, one fault; 3 events of the generator's mixed and bursty flows or 16 of its life cycle, which is what two orders take; 3 or 4 events of a venue that may frame a snapshot, which takes 3. Everything checked, or nothing but the events. The stream ends, so this run does not check for deadlock |
| `components` | for the pooled book's index `FindsWhatWasStored`; for the message rate `AtMostMaximum`, `RefusedOnlyWhenFull`; for the portfolio `PnlIsCash`, `PartialFillsFit`; for the audit log `CompleteLogVerifies`, `ManifestTellsDamage`; for event logs `ReadsBeginningOrNothing`; for the gate `DisabledByRunOfLates`; for the model `StatedModelsScore` | the instances are listed at the head of `MCComponents`; each lets its component reach every case once and the interesting ones twice: a table that grows under colliding hashes, several rate windows and both edges of each, a position that opens, joins, shrinks, closes and flips beside another one at a single price (`SymbolBound`), three audit lines of one byte, or of four, two and two (`LineSizes`), one too long for any file, so that either limit alone makes the log rotate, two rotations and a restart between lines, each kind of change to an event log twice or with another. The clock, the lines and the signals are bounded and run out, so this run does not check for deadlock |

What some of the properties say, and on what condition:

* `SameAsSingleThread` maps the pipeline to `SequentialReplay`.  Without
  shedding it must apply the same events and stop at the same one.  When it
  sheds, the abstract replay may halt or end early, but still applies events in
  order without a gap: a shed event is met by the sequence check.  A shedding
  call without sequence validation promises nothing and is left out.
* `FaithfulOrFlagged` is for a symbol that numbers its events by itself, seen
  from its beginning or from a snapshot, up to the last event sent and not
  inside a snapshot, and with sequence numbers checked; an event whose fields
  were changed to other valid ones cannot be told by anybody and is excluded
  (`tampered`).  `Parity` and `ModesAgree` have no condition.
* `WorkingOrdersRest`, `RestingWithinMaximum` and `GatewayPreventsSelfTrade`
  speak of the time before a kill switch or a disconnect made the gateway
  forget orders that still rest (`forgotten`); afterwards they cannot hold, as
  the gateway says it only tracks simulated exposure.  Their client uses each
  client order id in one request, as the callers in the repository do.
* `ExposureMatchesOrders` relates the quantity per symbol, the quantity
  per client, side and price, and the id bindings to the working orders; the prices are kept while self-trade
  prevention is on, and the limits of the run have it on throughout.
* `AtMostMaximum` states what the two modes really give: a sliding window at
  most the maximum in any interval, fixed windows at most twice that.
* `PnlIsCash` allows one tick for each unit held at a fill that extended a
  position, the most that truncating its average can have cost.
* `PartialFillsFit` is for an order on a symbol with a mark, over a portfolio
  within its limits.
* `CompleteLogVerifies` is for a log opened with an empty trail over files that
  were not there, whose rotations all opened: `rotate_audit_log` does not look
  (`risk_gateway.cpp:395`), and after a file that does not open every line is
  lost, which makes the log incomplete.  The limit on bytes holds for every file
  but one whose only line is longer than the limit: such a line is let into an
  empty file (`risk_gateway.cpp:368`), as in the test of the byte threshold
  (`test_risk_controls.cpp:446`), whose two files exceed their 64 bytes.  Reopening over old files appends lines whose checksums
  restart, which verification then refuses; the model has those behaviours and
  the property leaves them out.
* `ReadsBeginningOrNothing` promises a beginning of what was written, or an error,
  of logs that were cut short or made unreadable in places.  It does not when a
  line or a record was overwritten by one that reads, or taken out (`tampered`):
  `decode_record` checks two of a record's 58 bytes (`event_log.cpp:173`), a text
  line parses with other digits, and no format has a count or a checksum of its
  own, so most of such logs read without an error.  What is promised of them is
  less, and holds of every log: the events are, in their order and none twice, events
  that were written or what was put in (`ComesFrom`, which looks at all fields but
  the flags); and the checksum of the reading is the one the write told exactly
  when they are all the events that were written.  A caller who wants to know has
  to keep that checksum and compare.
* `ManifestTellsDamage` is an equivalence: a manifest verifies exactly when the
  files are what they were.  A manifest made without a key can be made again by
  anybody, and promises nothing then.

**Fairness.**  Only `SpscReplay` has a liveness property.  Each thread is
weakly fair: the loops that wait do so by yielding, and the operating system
runs every runnable thread again.  Each store becomes visible in finite time,
which is what the C++ standard asks of implementations and what a loop over an
atomic relies on.  The calling thread is fair for the same reason; `join` waits
for a thread that has left its loop.  No action is strongly fair.  The other
components do nothing unless called, and the code promises no call.

## Findings

* **The depth read after a push is not exact** (`ring`, `RingDepthReading`).
  `spsc_ring_buffer.hpp:72` says that `size_approx` "is exact when read from the
  producer thread immediately after a push", and `spsc_replay.cpp:88` takes the
  highest depth from there.  But `head_` may be stale in that thread
  (`spsc_ring_buffer.hpp:78`), right after a push as at any other time.
  `DepthReadingSound` states, and the theorem proves, by how much the reading is
  off: by exactly the pops whose store the producer has not seen (a push,
  a pop whose store is still on its way, another push: the depth is one and
  reads as two).  The
  highest depth that is reported may so be more than the queue ever held, never
  more than its capacity.  It has no run of its own: what the comment says is
  the property with `UnseenPops` left out, and the invariant holds in states
  after a push where that number is not zero.
* **Produced and consumed differ after a fatal event**
  (`spsc_produced_consumed`).  `spsc_replay.hpp:30` promises
  "produced == consumed" under the default policy.  After `replay_step` refuses
  an event (`spsc_replay.cpp:120`) the producer goes on publishing until it sees
  the flag; up to a ringful stays unconsumed.  `StatsAddUp` states the bound
  that does hold.
* **A replacement the engine refuses lowers the counted exposure for good**
  (`gated_refused_replace`).  `check_replace_order` resizes the working order
  before the engine has decided (`risk_gateway.cpp:695`); the engine's rejection
  names no order the gateway knows, and the orders at rest can then exceed the
  maximum of `limits.hpp:42`.  With prevention on at the gateway the engine
  refuses none (`GatewayPreventsSelfTrade`).
* **`connect` after `disconnect` does not tell the gateway**
  (`session_gateway_allow`).  With `AllowNewOrders` the gateway, which still
  takes itself for disconnected, lets orders through and ignores the next
  disconnect, against `broker_session.hpp:21`.

Met while modelling and not made into runs, because the repository states
nothing a run could contradict, or only a figure of speech: a fixed window lets
twice `limits.hpp:44`'s maximum through around a boundary; orders taken before
`set_limits` switches self-trade prevention on are not found by it
(`risk_gateway.cpp:191`); a final report found by exchange order id under a
foreign client order id releases nothing (`risk_gateway.cpp:299`); a rejection
under a resting order's own client order id ends its tracking
(`risk_gateway.cpp:296`); a report that gives an order the exchange order id of
another takes the binding from that one (`risk_gateway.cpp:354`); replacing a
post-only order lets it take liquidity
(`matching_engine.cpp:187`); sums and products of quantities and prices are not
checked for overflow (`order_book.cpp:61`).

## Proofs

For every capacity, every stream, every set of calls, every policy: the
constants are constrained only by the named assumptions of each module.

| Module | Theorem | States |
|---|---|---|
| `SpscRing_proofs` | `RingInvariant` | `Spec => []RingInv`, type correctness included |
| | `RingNoDataRace` | `Spec => []NoDataRace` |
| | `RingPendingIntact` | `Spec => []PendingIntact` |
| | `RingDepthReading` | `Spec => []DepthReadingSound` |
| | `RingIsFifo` | `Spec => FifoSpec`: the ring implements `BoundedFifo` |
| `SpscReplay_proofs` | `ReplayFollowsRing` | `Spec => FollowsRing`: every behaviour of the pipeline is one of the ring |
| | `ReplayStatsAddUp` | `Spec => []StatsAddUp` |
| | `ReplayAppliesSequentially` | the pipeline implements `SequentialReplay`'s safety part, if lossy calls validate sequence numbers |
| `OrderBook_proofs` | `BookStaysSound` | `Spec => []BookSound` |
| | `BookIsPriceTime` | `Spec => PriceTimeSpec`: the book implements `PriceTimeBook` |
| | `PooledBookStaysSound` | `BothSpec => []PooledBookSound`: levels, links, index and free list of the pooled book |
| | `BooksAlwaysAgree` | `BothSpec => []BooksAgree` |
| `MatchingEngine_proofs` | `BookAlwaysMatchesStates` | `Spec => []BookMatchesStates`, `NoInternalError` included |
| | `NoSelfTradeEver` | `Spec => []NoSelfTrade` |
| | `ReportsAlwaysDescribeBook` | `Spec => []ReportsDescribeBook` |
| | `WhatIsOverStaysOver` | `Spec => TerminalIsFinal` |
| | `EngineIsPriceTime` | `Spec => PriceTimeSpec`: the engine implements `PriceTimeMatching` |
| `RiskGateway_proofs` | `StoppedGatewayTracksNothing` | `GatewaySpec => []StoppedMeansNothingWorks`, if the limits agree on what a disconnect does |
| | `TotalsAlwaysMatch` | `GatewaySpec => []TotalsMatch(working)`: the quantity per symbol is the sum over the working orders |
| | `ExposureAlwaysMatches` | `GatewaySpec => []ExposureMatchesOrders`, if self-trade prevention stays on and the venue keeps to its ids |
| | `TrackedStaysLive` | `Spec => []TrackedIsLive` |
| | `SessionExposureMatches` | `Spec => []ExposureMatchesOrders` behind a session, if self-trade prevention stays on |
| | `FinalStaysFinal` | `Spec => FinalIsFinal` |
| | `LogAlwaysTells` | `Spec => []LogTellsAll` |
| | `RefusingDisconnectReleases` | `Spec => DisconnectReleases`, if the gateway refuses orders while disconnected |
| | `GatewayFollowsEngine` | `GatedSpec => []GatedInv`, here and below if self-trade prevention stays on |
| | `WorkingOrdersAlwaysRest` | `GatedSpec => []WorkingOrdersRest` |
| | `RestingStaysWithin` | `GatedSpec => []RestingWithinMaximum` |
| | `GatewayAlwaysPrevents` | `GatedSpec => GatewayPreventsSelfTrade` |
| `AggregateReplay_proofs` | `PathsAgree` | `Spec => []Parity`: grouped and shared replay end alike |
| | `ModesAlwaysAgree` | `Spec => []ModesAgree`: so do light and full validation |
| `Components_proofs` | `IndexFindsWhatWasStored` | `ComponentsSpec => []FindsWhatWasStored`: the hash index of the pooled book |
| | `RateKeepsMaximum` | `ComponentsSpec => []AtMostMaximum`, in both modes |
| | `RateRefusesOnlyWhenFull` | `ComponentsSpec => []RefusedOnlyWhenFull` |
| | `PnlIsAlwaysCash` | `ComponentsSpec => []PnlIsCash` |
| | `PartialFillsAlwaysFit` | `ComponentsSpec => []PartialFillsFit` |
| | `LogsReadTruly` | `ComponentsSpec => []ReadsBeginningOrNothing`, for logs that were tampered with as for others |
| | `GateDisablesExactly` | `ComponentsSpec => []DisabledByRunOfLates` |
| | `StatedModelsAlwaysScore` | `ComponentsSpec => []StatedModelsScore` |

**The ring.**  Neither property is inductive: that a slot is free when the
producer writes it follows from what it has *acquired* of `head_`, not from
what `head_` is.  `RingInv` therefore adds to `TypeOK`: `IndexOrder`, the k-th
value stored to an index is k − 1 modulo the number of slots and there are as
many stores as items; `Room`, the producer's acquired `head_` leaves room for
what it has pushed, strictly while it pushes; `Supply`, the consumer stays
within the `tail_` it has acquired; `Contents`, each pending item is in its slot
and was written there by its own push; `Reads`, a slot was last read by a pop
that addresses it.  There is one lemma per action.  The step that needs an idea
is that the full test, made on indexes modulo the number of slots, decides on
counts: two counts at most `Capacity` apart are equal modulo `Capacity + 1`
only if they are equal (`ModApart`).  `NoDataRace` then follows because a slot
the producer is about to write was last touched by a pop it has acquired, and
`RingIsFifo` because a publication extends `sent` and a completed pop returns
`sent[Len(received) + 1]`.  The assumptions are `CapacityAssumption` and
`BlankAssumption`; the memory model is part of the specification, not proved.

**The pipeline.**  It instantiates the ring, and every step of it is one of
the ring or leaves it alone, as long as what is pushed is an item; that needs
only that the producer stays in the stream (`InStream`).  `RingInv` and
`DepthReadingSound` then hold in the pipeline by the ring's theorems
(`RingHolds`), and are never proved again.  The statistics need `PipeInv`:
`Published`, the items published are those counted plus the one about to be,
and the marker is the last of them; `Drained`, what was received is a beginning
of what was sent, the consumer has counted all of it but what it holds, and it
stopped on the marker or on a refusal and not on both; `Joined`, the caller is
past the threads it joined.  For the refinement three facts more: `InOrder`, the
events published are those of the stream, the k-th being event k if nothing is
shed, and the first one is never shed, because a ring that nothing was put into
is not full (`FullMeansSent`, from the ring's arithmetic); `Expecting`, the
engine expects the event after those it consumed; `Called`, the result is final
when the call returns.  A step that handles an event is then `Apply` or `Halt`,
one that handles the marker is `End`, the last join is `Finalize`, and any other
stutters.

**The book.**  `Sound` says of a book value that its levels are nonempty queues
without repetition, that each order of the index is queued once and at its own
side and price, and that each level's total is what its orders offer.  For each
operation a lemma says which level and which node it changes (`AddOrderAdds`,
`CancelOrderCancels`, `ReduceOrderReduces`), a second that a sound book stays
sound, and a third what becomes of the queues of ids and quantities
(`AddOrderQueues` and its like), which is what `PriceTimeBook` sees.  Two
definitions are written so that this needs no induction.  A quantity is the
number of its units: an order offers one pair for each unit, and the sum over
a set of orders is the cardinality of a disjoint union, so adding or removing an
order changes it by the cardinality of one piece (`QuantityAdds`).  And the
prices of a view are the sequence that sorts them, which exists because a price's
rank, the number of prices that are at least as good, is a bijection
(`PricesAreRanked`, `BestFirstSorts`).  The same lemmas serve the engine.

**The pooled book.**  Its soundness and its agreement with the other book hold by
one invariant, `Paired`: the other book is `Sound`, the pooled one `Mirrors` it,
and both returned the same.  Alone, `check_invariants()` is not inductive in any
useful form, because what a chain of links holds can only be said by following
it.  `Mirrors` says it of the other book's queues, which are sequences: the node
of the k-th order of a queue carries that order and is linked to the nodes of
the orders before and behind it (`Chained`), each order has a node of its own
(`Indexed`), the vector of levels lists, best first, the levels that belong to
the queues (`Lists`), and the nodes that no order uses are a list without
repetition (`Frees`).  No chain is followed in it, and a call changes a few nodes:
`LinkLastIs` and `LinkAroundIs` say which, `AddOrderGrows` and
`CancelOrderShrinks` what it leaves of the pool, and `AddMirrors`, `CancelMirrors`,
`ReduceMirrors` and `ReplaceMirrors` that it leaves both books alike; the head, the
tail, the middle and the only order of a level are the cases of one formula, the
neighbour's position in the queue.  The pool is no longer than the largest number
of orders, since a node is only made when every other one is used by an order of
its own (`UsedCount`); this needs that there are finitely many ids (`IdsFinite`;
they are 64-bit numbers).  At the end the chains are followed after all, once:
`ChainIs` shows by a least counterexample that a list linked by `next` is what
`Chain` reads, hence `QueueRead` and `FreeRead`, and from these the two theorems.

**The engine.**  The four properties hold by one invariant, `Agreed`, which adds
what a call in the middle of its loop knows: `StatesSound`, no order is
overfilled, and a live one is not full; `CallSound`, the call's order is live
exactly while something remains, and what remains is original minus filled, also
after a replacement; `BookAgrees`, the orders in the book are the live ones that
no call is matching, each at its limit and for what it has left; `ToldAgrees`,
the last report about each order says the same of its state; `SelfSafe`, no
order within the incoming one's limit is of its client, and none at all is within
that of a post-only order: what the check before the loop found, which stays so
because the loop only takes orders away; `ReportsSound`, the reports are those of
an accepted order followed by two for each trade; `Fillable`, a fill-or-kill
order finds within its limit at least what remains of it, because a trade takes
the same quantity from both.  Its base is `FullyFilled`: what `can_fully_fill`
adds up over a view of all levels is what the orders within the limit offer, one
unit of the view for each unit of an order (`ViewAddsUp`).  `NextQueues` then
maps each step: a refused call is `Refuse`, an iteration is `Trade` with the
oldest order at the best price, the three ways out of the loop are `Finish`.
That a `Finish` leaves nothing of a fill-or-kill order is where `Fillable` is
needed; that a post-only order never meets `Trade` is where `SelfSafe` is.

Besides the assumptions on constants that are positive or not 0, the proofs use
`NewRequestsAssumption` and `OrdersAssumption`: the arguments a caller passes are
integers, and the prices among them that are positive belong to `Prices`, the
set the queues of the abstract specification are indexed by.

**The session and the gateway.**  `StopInv`, that the gateway's limits are
among those given and that what is stopped tracks nothing, is inductive because
a stopped gateway lets no order through, and where nothing works no report finds
an order and no replacement a target (`NothingToFind`).  A `set_limits` could
make a gateway stopped that has orders, which is why the limits must agree on
`cancel_on_disconnect` and on the policy while disconnected (`LimitsAgree`).
The lemma speaks of every call with any arguments (`AnyCall`), so it serves the
gateway alone and attached.  `RefusingDisconnectReleases` is the other side of
the third finding: after a `connect` the gateway was not told of, a disconnect
releases nothing because, refusing orders all the while, it has nothing to
release.

The maps of the gateway are sums over its working orders, and sums are written
as for the book: an order has one unit for each of its quantity, and the value a
map holds under a key is the number of units of the orders with that key
(`AddsUp`).  One lemma says what an order more does to such a map
(`RaisedAddsUp`), one what an order less does (`LoweredAddsUp`: the entry is
erased exactly when no other order is under its key, because each has something
left); both serve the quantity per symbol and the quantity per client, side and
price.  `SumsInv` is inductive: these sums are right and what is tracked was
accepted, which is why a new order's id is not among them.  Registering,
releasing, resizing and reporting each keep it (`RegisterKeeps` and its like).
It needs `WholeQuantities`, that quantities are integers, and for the prices
`Preventing`, that every set of limits has self-trade prevention on: an order
taken while it is off is in no client book (`risk_gateway.cpp:191`, among the
findings not made into runs).  The exchange order ids need the venue's
cooperation: `VenueKeepsIds` says that an id bound to an order before and after
a call is bound to the same one.  `bind_exchange_order_id` overwrites the entry
of another order without looking, so without it the map would lose that order.
Behind a session the assumption is not needed, and not made: `on_order_accepted`
takes each id once, and `LiveInv`, that a tracked order with an id is a live one
of the session, makes that id new to the gateway too.  `LiveInv` is inductive
together with `SumsInv`; the end of an order is told to both, and `ToldReleases`
shows that the gateway then tracks none with its id.

`LogTellsAll` reads the log from its end: what it says of an order, or of the
connection, is what the last event about it says (`SaidOf`).  It is inductive
with the shape of the log alone (`SoundLog`), because a call logs events that
fit: each has a subject of its own, and is of a type that presupposes what was
said of that subject last (`Fitting`).  Then the appended log says the new of
these subjects and the old of all others (`LogGrows`), which is what the call
did to the session (`Does`).  One call logs more than one event: a disconnect,
which asks to cancel every accepted order, each once and in ascending order of
ids; such a listing exists because a set with its least number in front of a list
of the others has one (`FiniteSetAscends`).  The exchange order ids are numbers
(`ExchangeIdsAssumption`), 0 among the ids a venue may try: the session refuses
it, which is why it can stand for the connection in the log.

**The gateway in front of the engine.**  The two learn of an order at different
times: the gateway tracks it before the engine has seen it, the engine changes it
in every iteration of its loop, and the gateway hears of all that when the call
returns.  So none of the three properties is inductive, nor is any relation
between the two states alone.  `GatedInv` relates them through the reports that are still to be
read.  It is the engine's `Agreed`, for what the engine knows; `CallerInv`, that
client order ids are used once and each order of the engine has one (`owner`);
and `FollowsEngine`: as long as the gateway has forgotten nothing, it `Sees` the
`View`, and keeps `Within` the maximum.  The view is that of the engine's live orders that
rest or may come to rest, each with client, side, limit, what it has left and its
exchange order id.  Between calls it is `working` that sees it; during one it is
what `working` will be when the reports so far are folded into it, one after the
other as `on_execution_reports` does (`FoldsUp`), so the delivery at the end of a
call has nothing left to show.

Each step of the engine adds reports, and for each kind there is a lemma
on what the gateway makes of it: what saw the view before sees the view after
(`HearsNew`, `HearsChange`, `HearsEnd`, `HearsReject`, and `HearsOther` for an
order that never was to rest, whose reports find nothing; `Hears` has them
together).  A list with one
report more takes one call more (`FoldOne`), there is one way to fold a list up
(`FoldOnce`, by induction over a set of numbers), and it is what `OnReports` does
(`FoldIs`).  A trade is two of these in a row, first the resting order
and then the incoming one.  What the engine's steps do to the view is read off the
lemmas of `MatchingEngine_proofs`, which holds for the engine in this place by
instantiation: the `Same...` lemmas say that its definitions are those of the
instance in `GatedMatching`, and `EngineParameters` that its assumptions follow
from `GatedAssumption`.

`WorkingOrdersRest` is `FollowsEngine` between calls, where every live order rests
(`QuietSees`).  `RestingWithinMaximum` is its `Within`: the check is made on
the sum with the new quantity, a partial fill only lowers it, and the gateway's sum
and the engine's count the same units (`RestsAsCounted`).  A replacement
the engine refused after the gateway had resized the order would break it, which is the second
finding; so the proof must show that the engine refuses none, and this is also
`GatewayPreventsSelfTrade`: an order of the same client that the incoming one
would meet is in the gateway's client book at that price (`WouldCross`), because that book's
sums have an entry exactly where an order is.  For this prevention must be on in
every set of limits (`Preventing`): with it off the property is false, as the run
`gated_refused_replace` shows.  `GatedAssumption` asks of the constants what the types
of the code give: integers, sides and order types; positive prices of requests are among
those of the engine; and 0 is no client order id.

**The replays.**  `ReplayInv` has three parts.  `FlowInv`: what the generator or
the venue sends is formed like an event, with whole numbers where the code has
integers; a fault may make it invalid, and it is still formed.  `PathsAlike`:
every symbol that one path has seen the other has too, and the engine of the
symbol and its entry in the shared loop are `Alike`: the same count, the same
book, and that book sound; and either both still go and have noted the same
(`Open`), or both have failed at the same event for the same reason (`Shut`).
`ModesAlike`: the states kept in light validation are those kept in full.  The
loop repeats the engine's checks in another order and with some left out, and
where a list of checks is concerned the first that holds is what counts:
`SameObjection` compares the lists, which differ by checks that can never hold
(`LeftOut`).  What an event does to a book is the same because both paths call
the same book (`SameBook`), and a sound book stays sound (`EventKeepsSound`, from the
lemmas about `BookLevels`).  So the full check of the book, that levels, index
and totals agree, never finds anything, and what is left of it is what light validation
looks at as well, whether the best prices cross.  The engine asks that of the
best prices and the loop of the views; they are crossed exactly if some bid is
at or above some ask (`SameCrossing`).  One difference in order would show:
the engine notes what an event traded before it looks at the book, the loop
afterwards.  `TradeNeverCrosses` is why it does not: an event that trades puts
nothing new into the book, so after it nothing crosses that did not before.
What is put off to the end, `Finalized` and `Settled`, then changes nothing.
`FlowAssumption` says that the generator's parameters are integers.

**The components that keep to themselves.**  Each of their invariants is
inductive for its component alone (`IndexInv`, `RateInv`, `PortfolioInv`, `LogInv`, `GateInv`,
`ModelInv`); that the others leave its variables alone carries it over
(`IndexAlone` and its like).

*The hash index.*  A lookup stops at the first slot that was never used, so what
is stored is found only if no such slot comes before it in its probe sequence:
`Placed` says that, and that each id is in one slot.  An erased slot is kept
apart from an empty one for just this reason (`EraseTakesOut`).  `IndexInv` adds
that the table holds the pairs of `stored` and no others, and that at most half
of its slots are in use, which an insertion restores by rehashing first
(`RoomyHolds`); so there is always a slot for an insertion to take, and the
`rehash(entries_.size() * 2)` at the end of `insert` (`pooled_order_book.cpp:529`)
is never reached.  Three steps need an idea.  A
probe sequence modulo the length comes to every slot once (`TurnsAround`, from
the uniqueness of quotient and rest).  The capacity that doubling ends with is
large enough (`CapacityIsEnough`).  And rehashing, a loop over the old slots,
moves every entry once (`MovesOne`, `RehashKeeps`).  The last two speak of
recursive functions.  Their values for every argument are reached by induction
over a *set* of numbers (`Induct`, which needs no operator as a parameter): the
set of those up to which the function exists and does what it should.

*The message rate.*  For the sliding window `KeepsTheLast` says that the
timestamps are the times of the last messages and that those let go are a window
old; so the messages of any interval as long as a window that ends now are among
the timestamps, and if one more is let through there are at most the maximum of
them (`SlidingAllows`).  For fixed windows `CountsWindow` says that the counter is the
number of messages since the start, all within the window, and that among them,
and among those of one window's length before, no more than the maximum were
allowed: an interval of that length meets no third window (`FixedAllows`), which is where
the factor two comes from.  The assumption is that the window is positive:
otherwise the code limits nothing.

*The portfolio.*  `PortfolioInv` says the same as `PnlIsCash` without the marks:
what was realised, less what the positions held have cost, differs from the cash
by no more than `rounding` (`Accounted`).  A mark changes no cost
(`MarkCostsNothing`), and what is unrealised is worth less cost, symbol by
symbol (`UnrealisedIsWorthLessCost`).  `ApplyFill` changes one term of the sum
(`TotalChanges`).  Sums in the model are a recursion on sets; that they do not
depend on the order of addition (`TakeOut`) is reached by induction over sizes of
sets, as for rehashing.  A fill that joins a position loses what truncating the new average
loses, less than the quantity then held (`JoiningBalances`, from `QuotientLoses`); one that reduces
or flips it balances exactly (`ReducingBalances`).  For `PartialFillsFit`: in gross and net
exposure the part of a fill lies between none of it and the whole (`Between3`),
and both ends are within the limits.  Where the average cost stands in for a mark
this fails, which is why the property asks for a mark.  `PortfolioAssumption`:
quantities and prices are not negative, limits are integers; a fill without a
positive quantity returns at once.

*Event logs.*  `LogInv` says of each file what it is worth against the last write
to its path, in two ways.  One holds as long as nothing that reads was put in and
nothing was taken out.  A binary is then sound if each of its records is the event
that was written there or one that makes reading fail.  Of a text the same cannot
be said line by line, because comments are skipped and lines may be put in; so
`TextSound` speaks of what has been *parsed* up to a line, if no line before has
made reading fail: it is a beginning of what was written, and only its last event
may differ, in its flags (`Begins`).  That it is only the last one holds because a torn
line ends the file when it is torn, and what a later edit puts after it is no
event (`CommentReadsAlike`, `TextGoesOn`).  The other holds always, whatever was
overwritten or removed: the lines or records come from what was written, what was
put in and what is no event (`FileComes`).  Each way to change a file moves rows at
one place by at most one (`Patched`, `RowsChanged`), so that what comes from the rows
after it comes from those before (`ComesFromThere`), and so does what is parsed of
them (`ParsedComes`).  A file that was left whole is as
`write_event_log` wrote it, so it is read whole (`WholeReads`), because no event
reads as a header or a comment (`LogAssumption`: the data of an event, written or
put in, is not one of the model's marks for other lines).  Parsing is a recursion over
the lines, met by induction over a set of numbers (`ParsingGoesUp`).

*The gate.*  `DisabledByRunOfLates` speaks of the signals since the last
reset.  `GateInv` says that the counter is the length of the run of late signals
that history ends in, up to the largest value it can hold, and that the latch
was set when the run reached the threshold.

*The choice of a model.*  `ModelInv`: one that was chosen by its metadata passed
both checks.  If the metadata is true of the file, the product of the shape is
then the number of features that are extracted.

Only model-checked:

* `Terminates`: liveness under fairness is out of TLAPS's reach.
* `FaithfulOrFlagged`, which relates a book to the venue's orders through
  losses, repetitions and snapshots; the proofs compare the two paths with each
  other, not with the venue.
* `CompleteLogVerifies` and `ManifestTellsDamage`, which fold over the lines of
  several files.  The induction over sets of numbers that serves event logs would
  serve here too; it has not been done.

## Not modelled

* Features and scores: floating point, an external library, no state.  The
  reading of a model's metadata from its text, of which `ModelBackend` keeps what
  decides the number of inputs.
* Strategies: functions of a view of the book without a state.
* Telemetry and the latency budget: accounting of measured durations that
  nothing else reads.
* Checksums, keyed hashes and clocks: conversions of data with golden files; the
  allocation tracker, relaxed global counters read by tests between phases.
* Command-line tools, fuzzers, benchmarks and scripts: drivers.  The Python
  bindings, which convert and forward, and the Python reference matcher, which is
  to tests what `PriceTimeMatching` is here.
* Within modelled components: timestamps except where they are checked, notional
  and average prices of the engine, reject reasons and the wording of reports,
  diagnostics and comparisons; checksums of books and reports (a replay's
  activity is kept in place of its checksum); the hash set behind the gateway's
  accepted client order ids (a set here); 64-bit overflow, for which the code
  states no bound a property could be held against.

## Plan

Modelled as planned: ring and pipeline, both books, matching, the gateway alone
and composed, the session, the replays over a book, the audit log with its
restart, the portfolio monitor, the inference gate, event logs and generator.
Left:

1. `FlatOrderIndex` inside `PooledOrderBook` in the place of the plain map, so
   that one run covers both.
2. To prove: for the audit log what `LogsReadTruly` says of event logs, file by
   file along the manifest.
