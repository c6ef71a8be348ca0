# A TLA+ model of HFT-sdk

HFT-sdk is a C++ library for a simulated exchange: lock-free building blocks
(a ring buffer, an object pool), a multi-symbol matching engine over
order-level books, pre-trade risk checks, and market data. This directory
models its components in TLA+, model-checks small instances with TLC and proves
with TLAPS, for every value of the constants, every safety property that a run
finds to hold. Paths below are relative to the repository root.

## 1. Inventory

| Component | State | Operations | Interacts with | What is hard, what makes it correct |
|---|---|---|---|---|
| `src/HPRingBuffer.hpp` | two atomic sequences, an array of slots | `try_push`, `push`, `try_pop`, `pop`, `empty`, `full`, `size` | one producer and one consumer thread; used by `MarketDataEngine` | stale loads, plain slots, size_t overflow, two loads in `size()`; it must be a race-free FIFO that loses nothing |
| `src/wait_strategies.hpp` | none, or a mutex and a condition variable | `wait`, `notify` | the blocking calls of the ring | nobody ever calls `notify`: waits must end by themselves |
| `src/common/memory_pool.hpp` | stack of free slots linked by index, `in_use` flags, a counter | `allocate`, `deallocate`, `allocated`, `available` | any threads | compare-and-swap on an index (ABA), plain links, counter updated after the list |
| `src/orderbook/l3_order_book` | two price maps of order queues, index of iterators, counts, statistics | `add_order`, `cancel_order`, `replace_order`, queries | callbacks to `MatchingEngine`; read by the L1 and L2 feeds | four pieces of state that must describe the same orders after any sequence of calls; price-time priority; FOK, IOC |
| `src/orderbook/l1_feed` | last top of book, last 1000 trades, last 500 spreads | `update`, `record_trade`, `vwap`, `rolling_spread` | reads its book | uninitialised first value, staleness, windows at their limit |
| `src/orderbook/l2_aggregator` | its depth | `snapshot`, `bid_depth`, `ask_depth` | reads its book | levels best first, as many as the depth allows |
| `src/risk/risk_engine` | limits, positions, sliding windows of timestamps, kill switches | `check_order`, `on_fill`, limits and kills | called by `MatchingEngine`; `kill_all` by any thread | unsigned time differences, window boundary, limits changed under open positions |
| `src/market/matching_engine` | books and feeds per symbol, order-to-symbol index, counters | `add_symbol`, `process_new_order`, `process_cancel`, `process_replace` | all of the above | check, match, index and fill are separate calls; index entries outlive orders |
| `src/market/market_data_engine` | throttle stamps, a ring to the publisher thread, counters | `on_tob_update`, `on_depth_update`, `on_trade`, `process_pending` | ring buffer, subscribers | two threads share the ring; TOB and depth share a throttle, the last update may be the one discarded, a full queue drops trades; what is queued must arrive once and in order |
| `src/market/market_data_publisher` | three callbacks | forwarders | - | nothing |
| `src/market/trade_engine` | positions per trader and symbol, averages, realised and unrealised profit | `process_trade`, `mark_to_market` | fed with trades | running averages, fills that flip a position |
| `src/market/order_book` | an older, simpler book | `addOrder`, `cancelOrder`, `matchIncoming`, depth | - | no duplicate check, so the index can lose an order; must agree with the L3 book |
| `src/metrics` | histograms, named timers under a mutex, averages as pairs of atomics, counters | record, `start_timer`, `end_timer`, percentiles, `reset` | any threads | clock read before the lock, two additions of a record against the two stores of a reset, bucket and rank boundaries |
| `src/ScopeTimer.hpp` | 32 labelled slots per thread | `start`, `end`, `endAndLog` | - | `endAndLog` never frees its slot |
| `src/latency/latency_model` | a seeded generator, a normal distribution, profiles | `sample_...`, `add_jitter`, setters, `set_seed` | - | the distribution has state of its own; a replay must repeat the samples |
| `src/common/clock` | simulated time, or the wall clock | `now`, `advance`, `set_time`, `reset` | read by the matching and market data engines | time may be set back |
| `src/benchmark_p99.hpp`, `library_anchor.cpp`, `examples/` | | | | not core logic |

`PROJECT.json` lists every hazard at its line with the properties that cover it.

## 2. Modules

| Module | Models |
|---|---|
| `BoundedQueue` | the promise of the ring: a FIFO that refuses when full |
| `HPRingBuffer` | the ring, one atomic or slot access per step; refines `BoundedQueue` |
| `MemoryPool` | the pool, one shared access per step |
| `L3Book` | the book as a value: operators for matching, resting, removing, reports, and the three calls |
| `L3OrderBook` | one book driven by arbitrary calls, one step per trade |
| `L1Feed`, `L2Aggregator` | the feeds as values and reads of a book |
| `RiskEngine` | the checks as operators and actions, and a driver that reports fills as the engine does |
| `MatchingEngine` | composes `L3Book`, `L1Feed`, `L2Aggregator` and `RiskEngine` |
| `MarketDataEngine` | throttling, the ring as an abstract queue, the publisher thread; on `Clock` |
| `TradeEngine` | positions and profit in exact numbers |
| `OrderBook` | the simple book beside a twin `L3Book` |
| `LatencyHistogram`, `Telemetry` | histograms as values; timers, averages and reset used by several threads |
| `ScopeTimers` | the slots of one thread |
| `LatencyModel` | the samples, by the draws they are made from |
| `Clock`, `Timestamps`, `Types` | time, unsigned ages, sides and signed quantities, shared by the above |
| `Services` | composes the six components that are independent of each other: risk engine, trade engine, simple book, timers, telemetry, latency model |
| `CommonLemmas` | facts about `%`, induction over finite sets, sums |
| `L3BookLemmas` | what the operators of `L3Book` do to a sound book |
| `HPRingBufferProofs`, `MemoryPoolProofs`, `L3OrderBookProofs`, `MarketDataEngineProofs` | theorems about the modules they are named for |
| `MatchingEngineProofs` | theorems about `RiskEngine` and `MatchingEngine` |
| `ServicesProofs` | theorems about the other components of `Services` |
| `MC...` | the small sets, limits and symmetries of the runs |

An operator whose comment begins with "Fault" is a plausible bug in the
definition that follows it. It is not part of any specification; substituting
it shows that a property notices.

### HPRingBuffer

`write_sequence`, `read_sequence` and `buffer` are the members of the same
names. The sequences count modulo `Wrap = Size * Laps`, which stands for 2^64.
A thread reads its own sequence exactly and the other's through a view
(`read_view`, `write_view`) that catches up at arbitrary times
(`PropagateRead`, `PropagateWrite`): an acquire load may return any value since
the last one seen. Slots have no views because release and acquire order the slot
accesses with the sequence. `try_push` and `push` are `PushBegin`, then
`PushFull` (return or wait) or `PushRoom`, `PushWrite`, `PushPublish`; the
consumer is symmetric. A moved-out slot may or may not keep its value.
`p_size` and `c_size` remember what `size()` (hence `full()` and `empty()`) said
since the thread's last operation. A third thread calling `size()` is outside
the single-producer single-consumer contract and not modelled.

### MemoryPool

Each thread has the locals of `allocate` (`head`, `next`) and `deallocate`
(`head`, `idx`). `Allocators` is the set of threads that allocate; all threads
may return any pointer the clients hold. `compare_exchange_weak` may fail for no
reason if `Spurious`. `free_list` is a history variable: the stack as the
successful exchanges built it. The links must spell it.

### L3Book and L3OrderBook

A side is a function from prices with a level to queues; the index maps an id to
side and price, and the iterator is the place of the id in that queue. Quantities
are what `add_order` is given, zero included. The
iceberg branches are left out: nothing sets `is_iceberg` or a hidden quantity.
In `L3OrderBook` an add is `AddBegin` (or `AddDuplicate`), `Match` once per
trade, `AddFinish`; cancel is one step; replace is the cancel and the entry into
an add. `AddIsAtomic` ties the small steps to the whole-call operator
`add_order` that `MatchingEngine` uses.

### RiskEngine and MatchingEngine

Maps with default values in the code are total functions. Timestamps count
modulo `TimeWrap`; the age of a stamp is an unsigned difference.
`process_new_order` is two steps, `NewCheck` and `NewExecute`, because `kill_all`
may be called by another thread in between (`global_kill` is the value the
engine's relaxed load returns, so `KillAll` is the moment the store becomes
visible). Everything else belongs to the engine's thread.

Each book checks only its own ids, so an id may be sent while an order of it rests in
another symbol's book. If the new order is not filled or refused at once it takes over
the entry of the index, even when it does not rest (an IOC). A cancel by id then
misses the older order, and a cancel of either order that names the symbol erases the
entry of both. `reused` holds such ids until they rest nowhere; `Routable` speaks of
the other orders. Without that exception TLC finds `Routable` violated by the second
of two such orders.

`process_replace` goes to the book without risk check or index update, as in the code.
`kill_all` therefore does not stop it: the replacement of a resting order is executed,
trades or rests. `late` records what happens while the switch is on: the new orders
executed, the orders replaced, and what was open when it was set.
`KillAllAdmitsNoneNew` says that at most one order, checked before, is still executed
as a new one and that whatever is replaced or rests was open before. That a replace
is executed at all contradicts `risk_engine.hpp`, line 59, "(rejects all orders)": the
run `engine_kill`. `tape` is a history of all trades. Each change of a book that the code publishes updates the L1 feed and the
depth (`depths`), with `L2Depth` levels a side.

### MarketDataEngine

The matching thread takes one step per call, the publisher one per iteration of
the loop in `process_pending`. The ring is the abstract queue that
`HPRingBuffer` implements, except that each side may see the other late:
`released` pops still take room for the producer, and only `visible` messages can
be popped. `on_tob_update` and `on_depth_update` are `Throttled` or `Passed`; they
differ in the kind of the message. A message is its kind, symbol and number; `log`
is a history of what was fed, when, under which interval, and what became of it.
Time does not go back; it is the wall clock, or the simulated clock moved by
`advance` or set back by `set_time` and `reset`. Subscribers are fixed before the
feed starts.

### TradeEngine

`process_trade` books both parties; `update_position` keeps the code's
assignments in their order, so a fill that flips a position is valued as there.
Averages and profits are doubles in the code and multiples of 1/`Scale` here, exact
as long as `Scale` is divisible by every total an average is divided by; rounding
of doubles is not modelled. `fills` is a history of what each account bought and
sold.

### OrderBook (simple)

A list node has a uid, which stands for its address; an index entry holds the uid
of the node its iterator points to. The driver `Enter` matches an order and adds
what is left of a limit order, as the callers do (`addOrder` does not match). The
twin is an `L3Book` that gets the same calls. `reused` is the set of ids sent again
while an order of that id rested, which the L3 book would refuse.

### Telemetry, ScopeTimers, LatencyModel

`end_timer` is `EndRead` (the clock is read) and `EndLocked` (the map is searched,
the sample recorded); a ratio is `AddSum` and `AddCount`; `reset` clears the average by
two stores, `ResetSum` (with all that comes before it) and `ResetCount`. Any record may
come between the two stores, and either store between the two additions of a record.
The histories tell when the two halves of an average belong together: a record is
`stale` when the sum was cleared after it added to it, and `torn` is set when a record
counts on another side of the reset than it added its ratio on (stale while no reset
is in progress, or not stale between the two stores). The atomics are used with relaxed order; the model
lets each thread's accesses take effect in program order, and one thread at a time
calls `reset`. Histograms are plain members, so the model uses them as they can
be used without a data race: the ones timers record to under the mutex only, the
others by one thread, and `reset` excluding both. Counters that one `fetch_add`
updates, `record_fill` and printing are left out.

`ScopeTimers` is one thread with `MaxSlots` slots. A label is `untidy` once its
starts and ends did not alternate or it was ended with `endAndLog`; ending a label
without a slot returns an unspecified time, as the code's uninitialised `begin` may.

`LatencyModel` names a draw by its seed and position and a sample by its profile
and draw. `NormalDraw` is the pairwise algorithm of the standard library in use
(external): it keeps the second value for the next call, across `set_seed`. `kept`
remembers what it kept at the last seeding.

## 3. Runs

| Run | Bounds | Shows |
|---|---|---|
| `ring` | 2 slots, `Wrap` 4, 7 pushes, 2 values | `TypeOK`, `NoDataRace`, `FIFO`, `QueriesSound`, `Refinement`, `PushReturns`, `EveryItemDelivered` |
| `pool_single` | 3 slots, 3 threads, 1 allocator, spurious failures | `TypeOK`, `NoDoubleAllocation`, `LinksSpellFreeList`, `NoLinkRace`, `InUseExact`, `CallsReturn` |
| `pool_aba` | 2 slots, 2 threads, both allocate | violated: `NoDoubleAllocation` |
| `book_safety` | 3 ids, 2 prices, quantities 0 to 2, Day, IOC, FOK, no add after 2 units traded | `TypeOK`, `TopOfBookSound`, `BookConsistent`, `QuantityConserved`, `ReportHonest`, `PositionNotAhead`, `PriceTimePriority`, `AddIsAtomic` |
| `book_fok` | the same | violated: `FokFilledOrRejected` |
| `engine_safety` | 2 symbols, 2 ids, 1 trader, prices 0 and 1, depth 1, 3 new orders, spread and trade windows of 1, any number of cancels and replaces, no start after 2 trades | `EngineTypeOK`, `Routable`, `FeedsCurrent`, `TrackedWithinLimits`, `KillAllAdmitsNoneNew` |
| `engine_positions`, `engine_kill` | 1 symbol, 2 traders | violated: `PositionsTrue`, `KillAllRejectsOrders` |
| `md_feed` | 2 symbols, queue of 2, throttling off at first and at any time set to 1, 2 instants in any order, 3 updates | `MdTypeOK`, `InFeedOrder`, `ThrottleExact`, `QueuedIsDelivered` |
| `services` | see below | `ServicesTypeOK`; risk: `FillsRespectLimits`, `RateRespected`; trades: `PositionsAndProfit`; simple book: `IndexSound`, `AgreesWithL3`; timers: `TimersIndependent`; telemetry: `StatsRight`, `CountedOnce`; latency: `ReplayFromRest` |
| `trade_profit` | 1 symbol, 4 trades | violated: `RealizedWhenFlat` |
| `latency_replay` | 2 seeds, 2 samples between seedings | violated: `ReplayExact` |

`services` checks six components that neither call each other nor share state
(module `Services`). Its initial state chooses one of them (`component`), which then runs while the others
stay as constructed. Every state a component can reach is reached this way, and a
property of one component does not depend on the rest, so this says what six runs
would. Bounds: risk with 2 traders, 2 symbols, quantities 0 and 2 at one price (a
fill may be any part of an order), limits that may be tightened, 3 checked orders, 2 instants and
a window of 1; 3 trades between two traders, one of them also with
itself; 3 nodes, 2 ids and 2 prices in the simple book; 2 labels and 2 slots; 3
buckets of width 2, 2 threads, 2 timer names and 3 calls since a reset; 2 seeds and
2 samples between seedings.

Why the bounds are enough for the cases they are for: seven pushes into a ring of
two slots use every slot three times, overflow both sequences, and leave
differences (0 to 3) that `size()` must never return. Such a ring holds one item, so
the order among several queued items, like larger rings, is left to the proofs. Three slots and three threads
allow a slot to travel through another thread and back while a third is between
its load and its exchange. Three ids are two orders at a level and an incoming
order that sweeps, or two levels; quantities 1 and 2 give exact, partial and
multiple fills; 0 is an order the book does not refuse. With two symbols an id
can be filled or rest in one and be reused in the other; with two ids no single call
trades more than once, so several trades in one call are left to `FeedsFollow`, and
to `book_safety` as far as the book goes. Two prices and a depth of one make a
level that is in the book and not in the snapshot. Feeds keep one trade and one spread, so that the
windows are at their limits. An uninitialised price is one arbitrary value.
The risk engine's 2 instants and window of 1 hold a stamp exactly at the
boundary and none that is past it, which `RateLimited` covers. In `md_feed` the third update finds the queue full
unless the publisher's releases are visible, and two instants hold updates that
come too early and exactly on time, on either side of a change of the interval, and
a clock that goes back. Switching throttling off again is left to
`ThrottlingExact`, which holds for any intervals. Three trades build a position up at
two prices and close
it. Two slots are one for a label that `endAndLog` has used up and one for a label
that is used properly. Samples of -1 and 9 are below and above the buckets; two
threads can end one timer at the same time.

Runs that end in a violation show that a sentence of the documentation or of a
comment does not hold of the code; `findings` in `PROJECT.json` quotes it. In
short: the pool is safe with one allocating thread and not with two; a market FOK
that cannot be filled is reported New; the risk engine sees only
aggressor fills; `kill_all` does not reject replaces; a fill that flips a position leaves
the realised profit wrong; reseeding the latency model does not drop the normal
value it kept.

More behaviours are modelled as the code has them, without a run that
states the opposite:

- `available()` can wrap for a moment because `deallocate` returns the slot before
  it decrements the counter (`InUseExact` bounds the excess);
- stored queue positions are exact after cancels and too high after fills (never
  too low: `PositionNotAhead`), although line 386 of `src/market/README.md` promises
  exact positions;
- orders of one trader trade with each other: `match_against` compares no traders and
  nothing calls `check_self_trade`, while a comment in `risk_engine.cpp` (line 190)
  leaves the matter to the matching engine;
- an id sent again while it rests in another symbol misroutes a cancel by id;
- what is left of a market order is reported in `leaves_qty` though it never rests;
- an order with an earlier submit time makes every stored stamp look old and empties
  the rate window: with `InOrder = FALSE`, `RateRespected` fails;
- `unkill_all` also revives traders killed individually, and a killed trader can
  still replace its resting orders;
- in the simple book, an id sent again while its order rests takes over the index
  entry, and the older order can no longer be cancelled;
- a record whose two additions fall on two sides of a reset, or of its two stores,
  leaves sum and count apart until the next reset.

### Fairness

`ring`: both threads are scheduled (weak fairness on the steps inside a
call), a store becomes visible in finite time (the guarantee C++ gives for
atomics), and the consumer keeps calling pop or try_pop. The producer is not
obliged to push. Waits end because all three strategies return: a pause, a
yield, or a wait with a one-microsecond timeout.
`md_feed`: the publisher thread keeps calling `process_pending` and a push becomes
visible in finite time.
`pool_single`: a thread inside a call keeps running. `CallsReturn` assumes that
from some point on no new call starts and `compare_exchange_weak` does not fail
without a reason; a lock-free loop promises no more. No run needs
deadlock checking switched off.

## 4. Proofs

Each theorem holds for every value of the constants that meets the assumptions
named in the modules. The bounds that keep TLC's runs finite (`MaxPush`,
`MaxVolume`, `MaxFed` and the like) are among them, and arbitrary.

### Ring: `HPRingBufferProofs`

For every `Size > 1`, every `Laps > 0`, every set of values:
`TypeCorrect`, `DataRaceFreedom`, `FirstInFirstOut`,
`SizeInRange` and `CheckThenAct` (together `SoundQueries`) and
`ImplementsBoundedQueue`.

None of these is inductive alone. The real sequences are remainders, so the
invariant `IInv` speaks of `Len(sent)` and `Len(received)`, the sequences the
code would have with unbounded integers:

- `Counters`: the members are those lengths modulo `Wrap`;
- `ProducerSees(p)` for some `p <= Len(received)`: the producer's view is
  `p % Wrap` and everything sent since fits the ring; after the check one more fits;
- `ConsumerSees(c)` for some `c` between the lengths: the consumer's view is
  `c % Wrap`; after the check the next item is below it;
- `InSlots`: items sent and not moved out are in their slots;
- `Locals`, `InOrder`, `QueriesBounded`.

The occupancy a thread computes is then exact for its view
(`ProducerSizeExact`, `ConsumerSizeExact`), because a true distance is at most
`Capacity < Wrap`. Two sequence numbers less than `Size` apart occupy different
slots (`ModNeq`), which is why a write does not disturb what is unread.
The refinement maps the queue to the part of `sent` after `received`: publish is
the abstract push, release the abstract pop, every other step stutters.

### Pool: `MemoryPoolProofs`

For every capacity and every finite set of threads of which at most one allocates
(`SingleAllocator`; `pool_aba` shows that two are too many): `PoolTyped`,
`ListIntact`, `OneHolder`, `LinksReadUnraced`, `InUseMatchesClients`. The
invariant adds to the properties what the allocating thread may rely on between
its load and its exchange (`Allocating`): the head it loaded is still on the list,
and if it is still the first, the link it read is still the second, because only
the allocator takes slots off. `Freeing` says what a returning thread still owns,
`Exclusive` that every slot is in one place, `Marked` and `Counted` what `in_use` and
`allocated_` are in the middle of each call. The number of threads is finite
because the counter is compared with a cardinality.

### Order book: `L3BookLemmas` and `L3OrderBookProofs`

For every set of ids and traders, positive prices, integer quantities and the
times in force of the code: all the properties `book_safety` checks, that is
`BookTypes`, `PartsAgree`, `NothingLost`, `ReportsHonest`, `TopCurrent`,
`PositionsHonest`, `PriorityKept` and `AddAtomic`.

`L3BookLemmas` is about the book as a value. `BookSound` is the agreement of its
parts. Whatever the code does to a book is one of three edits: an order leaves
(`Removes`), the first of a level shrinks (`Reduces`), an order joins a level at the
end (`Adds`). Each preserves `BookSound` (`OrderRemoved`,
`OrderReduced`, `OrderAdded`), keeps those who rest in their order
(`...KeepsOrder`) and conserves quantities (`...Conserves`); `MatchOneTrades`,
`RestingAdds` and `RemoveOrderRemoves` say that the operators make these edits and
no other.

The invariant `IInv` of `L3OrderBookProofs` adds what holds between two trades of one
call: the incoming order does not rest (`InCall`), its trades sum to what it
executed, the published top is stale only while trades are made (`Published`). That
a fill-or-kill order never leaves a partial fill rests on one more conjunct of
`InCall`: what is available at prices it crosses is at least what it still wants.
The check makes it true, and each trade takes as much from both sides
(`TradeTakesAvailable`). What `ReportsHonest` says of `leaves_qty` follows from
conservation: the entry that rests is open for what was submitted less what was
executed. `TopCurrent` needs the book to be uncrossed between calls:
the loop only ends when the incoming order is filled or nothing crosses, and only
then does the rest of it enter the book.

`AddAtomic` says that the trades made one at a time are those of `match_incoming`,
which the model of the matching engine uses as one step. `InStep` carries
that the loop continued from the present book gives the result of the whole loop;
`MatchIncomingRuns` and `RunEnds` relate the fold that computes it to its iterations.

### Risk: `MatchingEngineProofs`, first part

`FillsWithinLimits`: `RiskSpec` implies
`FillsRespectLimits`, for any traders, symbols, integer quantities and limits. A
fill is at most the quantity of an order that has just passed
`check_position_limit`, of the symbol and the net position, with the limits in force
(`FillOfCheckedOrder`: what a part of an allowed order leaves is allowed, or nearer
to zero than before); every other step leaves positions alone. The invariant
`ExposureInv` is only the types of limits and positions that the arithmetic needs.

`RateLimited`: `RateRespected` for any rate, window and width of the
clock, if submit times do not decrease (`InOrder`) and every choice of limits has
the same rate and window (`RateFixed`). Without the first it is false (section 3),
without the second there is no one rate to respect. `RateInv` ties the
stamps the engine keeps to the history of accepted orders (`WindowOf`): they are
its last entries, every entry before them is out of the window of the latest, and no
span holds more than the rate. An order refused for its rate still drops expired
stamps, but adds none.

### Matching engine: `MatchingEngineProofs`, second part

For any symbols (finitely many, because their trades are summed), traders, orders with
integer prices and quantities, limits and depth: all the properties `engine_safety`
checks, that is `EngineTypes`, `CancelsReach`, `FillsWithin`, `FeedsFollow` and
`KillAllAdmits`. What a call makes of a book is not looked into again:
`AddOrderSound`, `CancelOrderSound` and `ReplaceOrderSound` of `L3BookLemmas` say
that it leaves a sound book, brings no order but its own to rest, reports an order
that rests as new or partially filled, fills no more than was asked for and
counts its trades (`CallSound`).

- `CancelsReach`: `Routable` alone is not inductive, since an entry of the index could
  name the right book by accident. `Routed` says it with the membership in the index, of
  every resting order whose id is not `reused`; hence such an id rests in one book. An
  execution that takes over an entry makes the id of the order that had it `reused`, which it
  stays until it rests nowhere (`StaysReused`). An execution indexes an order that comes to rest, a cancel
  erases an entry only after the order was found where the entry points, and a replace
  brings back only an id that rested before.
- `FillsWithin`: an order between its check and its execution is still `Checked`, because
  only `kill_all` may happen in between; callbacks that call the engine again are not
  modelled. The limits are the default ones, which the
  engine never changes; `FillsWithinLimits` is about limits that change.
- `FeedsFollow`: `FeedsInv` says that a feed that was published is of the present book,
  that one that was not belongs to a book still empty, and that `recent_trades` are
  the last entries of the symbol's tape (`Latest`). A call records its
  trades one by one (`FeedRecords`) and each pushes the window on (`LatestPushed`). That a
  snapshot lists the best levels first and leaves out none better is a property of
  `Depth`: the numbers of better levels are all different and hence exactly 0, 1, 2
  and so on (`Ranks`).
- `KillAllAdmits`: `KillInv` adds to the property that when an order is between its
  check and its execution while the kill switch is on, none has executed since it was
  set. That what is open only shrinks (`OpenShrinks`) needs of the books that a call
  brings no order but its own to rest, and a replace none that did not rest before.

### Market data: `MarketDataEngineProofs`

For any symbols, queue size and sequence of updates: `FeedTyped`, `FeedInOrder` and
`ThrottlingExact`. The invariant relates the stamps to the history of the feed
(`StampsRemembered`: the stamp of a symbol is the time of the last update that
passed, and that update is in the log), and times to the order of the log unless the
clock was set back in between (`TimeOrder`). `ThrottlingExact` assumes
`ShortIntervals`: an interval plus the latest time fits the clock. Without it the age
of a stamp in the future, which wraps around, could fall below the interval; the
clock counts 2^64 nanoseconds, 584 years.

### Services: `ServicesProofs`

`ServicesTyped` and one theorem or two for each component but the risk engine. Each
invariant says how the state follows from the history of the calls.

- Telemetry, for any buckets, samples, number of threads and timers.
  `HistogramsTellSamples`: `HistogramFits` relates a histogram to the sorted list of
  its samples. Count, sum, minimum and maximum are theirs, and the number of samples in
  the first `i` buckets is the number of list entries up to that boundary. An
  insertion into the list shifts exactly the entries above it, hence the rank
  of a percentile lies in the bucket at which the code's loop stops. `ConcurrentCallsCounted`:
  of timers it is inductive once the types of the threads' locals and of the map
  of running timers are known. For averages `AverageInv` adds what holds between the two
  stores of a reset: unless a record was torn, the records that are still to count and are
  not stale are as many as the ratios added since the sum was cleared. The work is in the
  sets of threads between the two steps of a call.
- Trade engine, for any trades. `PositionsTellFills`: `TradeInv` gives every
  position the fills it follows from. Through its first round (`BuiltUp`) the average
  of a side times its open quantity is `Scale` times what the open units cost; the
  division of the running average is exact by `ScaleAssumption`, and profit is
  then the cash plus the value held. Later rounds are left out of the property
  because the code is wrong there (`trade_profit`).
- Timers, for any labels and slots. `TimersDoNotInterfere`: `SlotsStarted` says that
  a slot holds a start of its own label, and `TidySlots` that a label used in pairs
  holds one slot while it runs and none otherwise. That slot comes before all
  others that carry the label from earlier use (`OneSlot`), since `start` takes the first
  free one; so a search by label alone finds it too.
- Simple book, for any orders, reused ids included. `SimpleIndexSound`: uids number
  the nodes in the order of arrival and are never reused, so a node is in one place
  (`Numbered`); entries name nodes of their id, and every node whose id was not sent
  again has its entry. The matching loop is taken apart into its passes
  (`SimpleRuns`) and `LoopSound` holds after each.
- Agreement, for orders whose id was not sent again while it rested.
  `SimpleBookAgrees`: `TwinInv` says that the L3 twin is sound and that the queues of
  both books are alike. The loops stay in step (`InStep`): in each pass
  both trade the same quantity at the same level or both stop. What `L3Book` does in a
  pass is cited from `L3BookLemmas`.
- Latency, for any profiles, draws and seeds. `SeededAtRestReplays`: `ReplaysSoFar` says
  that a fresh generator with the last seed, given the calls made since, returns the
  same values and reaches the same state. One more sample keeps this because the
  outcome of a call depends on generator and arguments only (`SampledTogether`).
  A reseeding that finds a kept value is outside the property, and false
  (`latency_replay`).

### What the proofs rest on

`CommonLemmas` derives the facts about `%` from division with remainder, and those
about sums over finite sets (`TotalQty`, `Available`) from their recursion: that the
recursion has a solution, that the order of summation does not matter, and what adding,
removing or changing a summand does. The provers cannot
instantiate an induction theorem whose parameter is an operator, so induction is
`SetInduction`, over a set of numbers given as a constant, or the choice of a
smallest counterexample (`LeastElement`, `SmallestSubset`). Nothing is assumed but
the named assumptions on constants.

Only model-checked: the four liveness properties `PushReturns`,
`EveryItemDelivered`, `CallsReturn` and `QueuedIsDelivered`, because the proof system
does not reason about fairness and `ENABLED`. That the bounds on
histories and the choice `component` of `Services` hide nothing is an argument of
this text for the runs; the theorems about a component are about its own
specification and need neither.

## 5. Not modelled

- `MarketDataPublisher`: three stored callbacks and calls that forward to them.
- `benchmark_p99.hpp`, `library_anchor.cpp`, `examples/`: harness, an empty unit,
  usage.
- `vwap`, `rolling_spread`, the arithmetic of latency profiles, rounding of
  doubles: floating point.
- Listing queries (`orders_at_price` and the like), hashing and formatting of
  symbols, printing, simple counters.
- The RAII `ScopeTimer`, which is one start and one end.
- Callbacks that call back into the book or the engine: the code runs the trade
  callback while it holds iterators into the level, and does not support it.
- Data races on the risk engine's plain members when it is configured from another
  thread, and on a histogram that is recorded directly by one thread and by timers
  of another.

## 6. Plan

Done: all components of section 1 that keep state, the runs of section 3, and the
proofs of every safety property of the passing runs.

Left: compose `MatchingEngine` and `MarketDataEngine` through the L1 callback, to say
how far subscribers can fall behind the book; feed the `TradeEngine` from the
engine's trades, where `PositionsTrue` holds because both sides are booked.
