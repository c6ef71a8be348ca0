---------------------------- MODULE MatchingEngine ----------------------------
(***************************************************************************)
(* src/market/matching_engine: one L3 book, one L1 feed and one L2         *)
(* aggregator per symbol, the order-to-symbol index that routes cancels,   *)
(* and the risk engine every new order passes.                             *)
(*                                                                         *)
(* One thread calls the engine.  global_kill_ is the only state made to be *)
(* written by another thread, so process_new_order is two steps, before    *)
(* and after the load of it, and kill_all may happen in between.           *)
(***************************************************************************)
EXTENDS L1Feed, L2Aggregator, RiskEngine

CONSTANTS
  OrderIds,     \* order ids; a book refuses an id that rests in it, and an id
                \* may rest in the books of several symbols
  Tifs,         \* times in force
  NoSymbol,     \* the empty Symbol(), which asks process_cancel to route
  Junk,         \* what an uninitialised price or quantity may hold
  MaxTrades     \* bound: no order or replace starts after this many trades

ASSUME SymbolsAssumption == IsFiniteSet(Symbols)
ASSUME NoSymbolAssumption == NoSymbol \notin Symbols
ASSUME MaxTradesAssumption == MaxTrades \in Nat

VARIABLES
  books,                \* symbols_[s].book, for the symbols added so far
  feeds,                \* symbols_[s].l1
  depths,               \* the latest snapshot of each symbol given to l2_cb_
  order_symbol_index,   \* order_symbol_index_
  orders_processed, trades_generated, cancels_processed, rejects,
  pc,                   \* "idle", or "checked": the risk engine has passed
  pending,              \* the order of the call in progress
  tape,                 \* history: every trade of each symbol
  reused,               \* history: ids indexed again while they rested in the book
                        \* of another symbol, until they rest in none
  late                  \* history: what is executed while kill_all is in force

stats == <<orders_processed, trades_generated, cancels_processed, rejects>>
market == <<books, feeds, depths, order_symbol_index, tape, reused>>
call == <<pc, pending>>
engineVars == <<market, stats, call, late, riskVars>>

NewOrders ==
  {o \in [id : OrderIds, trader : Traders, symbol : Symbols, side : Sides,
          type : {"Limit", "Market"}, tif : Tifs, price : LimitPrices,
          qty : OrderQuantities, submit_time : Times] :
     o.type = "Market" => o.price = 0 /\ o.tif = "Day"}

NoPending == [id |-> NoSymbol]

TapeEntry == [price : Int, qty : Nat, buyer : Traders, seller : Traders]

(* "executed" counts new orders, "replaced" holds the orders that          *)
(* process_replace put in, "open" those there were when the switch was set.*)
NoneLate == [executed |-> 0, replaced |-> {}, open |-> {}]

EngineTypeOK ==
  /\ RiskTypeOK
  /\ DOMAIN books \subseteq Symbols /\ DOMAIN feeds = DOMAIN books
  /\ DOMAIN depths \subseteq DOMAIN books
  /\ DOMAIN order_symbol_index \subseteq OrderIds
  /\ \A id \in DOMAIN order_symbol_index : order_symbol_index[id] \in DOMAIN books
  /\ {orders_processed, trades_generated, cancels_processed, rejects} \subseteq Nat
  /\ \/ pc = "idle" /\ pending = NoPending
     \/ pc = "checked" /\ pending \in NewOrders
  /\ tape \in [Symbols -> Seq(TapeEntry)]
  /\ reused \subseteq OrderIds
  /\ late \in [executed : Nat, replaced : SUBSET (OrderIds \X Symbols),
               open : SUBSET (OrderIds \X Symbols)]

EngineInit ==
  /\ RiskInit
  /\ books = EmptyMap /\ feeds = EmptyMap /\ depths = EmptyMap
  /\ order_symbol_index = EmptyMap
  /\ orders_processed = 0 /\ trades_generated = 0 /\ cancels_processed = 0 /\ rejects = 0
  /\ pc = "idle" /\ pending = NoPending
  /\ tape = [s \in Symbols |-> <<>>]
  /\ reused = {}
  /\ late = NoneLate

RestsIn(id, s) == s \in DOMAIN books /\ id \in DOMAIN books[s].index

TradesSoFar == SumFunctionOnSet([s \in Symbols |-> Len(tape[s])], Symbols)

-------------------------------------------------------------------------------
(* add_symbol; a symbol that exists is left alone.                         *)

(* Fault: the feed of a new symbol is not created.                         *)
add_symbol_without_feed(s, junk) ==
  /\ pc = "idle"
  /\ s \notin DOMAIN books
  /\ books' = Put(books, s, EmptyBook)
  /\ UNCHANGED <<feeds, depths, order_symbol_index, tape, reused, stats, call, late, riskVars>>

add_symbol(s, junk) ==
  /\ pc = "idle"
  /\ s \notin DOMAIN books
  /\ books' = Put(books, s, EmptyBook)
  /\ feeds' = Put(feeds, s, NewFeed(junk))
  /\ UNCHANGED <<depths, order_symbol_index, tape, reused, stats, call, late, riskVars>>

(* What the trade callback and publish_market_data make of the trades ts   *)
(* that an order of trader t on side produced in the book of s, now b.     *)
FeedAfter(s, b, ts) ==
  update(FoldLeft(LAMBDA f, t : record_trade(f, t.price, t.qty), feeds[s], ts), b)

TapeAfter(s, trader, side, ts) ==
  tape[s] \o [k \in DOMAIN ts |->
                [price |-> ts[k].price, qty |-> ts[k].qty,
                 buyer |-> IF side = Buy THEN trader ELSE ts[k].trader,
                 seller |-> IF side = Buy THEN ts[k].trader ELSE trader]]

StillResting(ids) == {id \in ids : \E s \in Symbols : RestsIn(id, s)'}

Publish(s, trader, side, r) ==
  /\ books' = Put(books, s, r.book)
  /\ feeds' = Put(feeds, s, FeedAfter(s, r.book, r.trades))
  /\ depths' = Put(depths, s, snapshot(r.book))
  /\ tape' = [tape EXCEPT ![s] = TapeAfter(s, trader, side, r.trades)]
  /\ trades_generated' = trades_generated + Len(r.trades)

-------------------------------------------------------------------------------
(* process_new_order.                                                      *)

MayStart(o) ==
  /\ pc = "idle"
  /\ orders_processed < MaxChecks
  /\ TradesSoFar < MaxTrades

NewUnknownSymbol(o) ==
  /\ MayStart(o)
  /\ o.symbol \notin DOMAIN books
  /\ orders_processed' = orders_processed + 1
  /\ rejects' = rejects + 1
  /\ UNCHANGED <<market, trades_generated, cancels_processed, call, late, riskVars>>

NewCheck(o) ==
  /\ MayStart(o)
  /\ o.symbol \in DOMAIN books
  /\ orders_processed' = orders_processed + 1
  /\ check_order(o)
  /\ IF Refusal(o) = "None"
     THEN pc' = "checked" /\ pending' = o /\ UNCHANGED rejects
     ELSE rejects' = rejects + 1 /\ UNCHANGED call
  /\ UNCHANGED <<market, trades_generated, cancels_processed, late, limits, exposure, switches>>

(* Fault: an order that rests after a partial fill is not indexed.         *)
IndexedNewOnly(status) == status = "New"

Indexed(status) == status \notin {"Rejected", "Filled"}

NewExecute ==
  /\ pc = "checked"
  /\ LET o == pending
         r == add_order(books[o.symbol], o)
     IN  /\ Publish(o.symbol, o.trader, o.side, r)
         /\ order_symbol_index' = IF Indexed(r.report.status)
                                  THEN Put(order_symbol_index, o.id, o.symbol)
                                  ELSE order_symbol_index
         /\ IF r.report.filled_qty > 0
            THEN on_fill(o.trader, o.symbol, o.side, r.report.filled_qty)
            ELSE UNCHANGED exposure
         /\ reused' = StillResting(
              IF Indexed(r.report.status) /\ \E s \in Symbols \ {o.symbol} : RestsIn(o.id, s)
              THEN reused \cup {o.id} ELSE reused)
  /\ pc' = "idle" /\ pending' = NoPending
  /\ late' = IF global_kill THEN [late EXCEPT !.executed = @ + 1] ELSE late
  /\ UNCHANGED <<orders_processed, cancels_processed, rejects, limits, switches, gate>>

-------------------------------------------------------------------------------
(* process_cancel and the early returns of it and of process_replace.      *)

(* The symbol a cancel of order id goes to, NoSymbol if it goes nowhere.   *)
Route(id, s) ==
  IF s = NoSymbol /\ id \in DOMAIN order_symbol_index THEN order_symbol_index[id] ELSE s

(* Both return at once for a symbol that was not added, and a cancel for   *)
(* an id that is in no index.                                              *)
Unrouted(id, s) ==
  /\ pc = "idle"
  /\ Route(id, s) \notin DOMAIN books
  /\ UNCHANGED engineVars

process_cancel(id, s) ==
  /\ pc = "idle"
  /\ Route(id, s) \in DOMAIN books
  /\ LET to == Route(id, s)
         r == cancel_order(books[to], id)
     IN  /\ books' = Put(books, to, r.book)
         /\ feeds' = Put(feeds, to, update(feeds[to], r.book))
         /\ depths' = Put(depths, to, snapshot(r.book))
         /\ IF r.report.status = "Canceled"
            THEN /\ cancels_processed' = cancels_processed + 1
                 /\ order_symbol_index' = Erase(order_symbol_index, id)
            ELSE UNCHANGED <<cancels_processed, order_symbol_index>>
  /\ reused' = StillResting(reused)
  /\ UNCHANGED <<tape, orders_processed, trades_generated, rejects, call, late, riskVars>>

-------------------------------------------------------------------------------
(* process_replace: neither the risk engine nor the index is consulted.    *)

process_replace(id, trader, s, price, qty) ==
  /\ pc = "idle"
  /\ TradesSoFar < MaxTrades
  /\ s \in DOMAIN books
  /\ LET b == books[s]
         r == replace_order(b, id, trader, price, qty)
     IN  Publish(s, trader, IF id \in DOMAIN b.index THEN b.index[id].side ELSE Buy, r)
  /\ reused' = StillResting(reused)
  /\ late' = IF global_kill /\ RestsIn(id, s)
             THEN [late EXCEPT !.replaced = @ \cup {<<id, s>>}] ELSE late
  /\ UNCHANGED <<order_symbol_index, orders_processed, cancels_processed, rejects,
                 call, riskVars>>

-------------------------------------------------------------------------------
(* The kill switches.  kill_all is a store to an atomic that any thread    *)
(* may do; the per-trader flags are plain and belong to the engine thread. *)

Open ==
  {e \in OrderIds \X Symbols : RestsIn(e[1], e[2])}
    \cup (IF pc = "checked" THEN {<<pending.id, pending.symbol>>} ELSE {})

KillAll ==
  /\ kill_all
  /\ late' = IF global_kill THEN late ELSE [NoneLate EXCEPT !.open = Open]
  /\ UNCHANGED <<market, stats, call>>

OtherSwitches ==
  /\ pc = "idle"
  /\ \/ unkill_all
     \/ \E t \in Traders : kill_trader(t) \/ unkill_trader(t)
  /\ late' = IF global_kill' THEN late ELSE NoneLate
  /\ UNCHANGED <<market, stats, call>>

EngineNext ==
  \/ \E s \in Symbols, junk \in Junk : add_symbol(s, junk)
  \/ \E o \in NewOrders : NewUnknownSymbol(o) \/ NewCheck(o)
  \/ NewExecute
  \/ \E id \in OrderIds, s \in Symbols \cup {NoSymbol} :
       Unrouted(id, s) \/ process_cancel(id, s)
  \/ \E id \in OrderIds, t \in Traders, s \in Symbols, p \in LimitPrices,
        q \in OrderQuantities : process_replace(id, t, s, p, q)
  \/ KillAll \/ OtherSwitches

EngineSpec == EngineInit /\ [][EngineNext]_engineVars

-------------------------------------------------------------------------------
(* Properties.                                                             *)

(* A cancel that names only the order id reaches every resting order,      *)
(* whatever was filled, replaced, cancelled or reused before, unless a new *)
(* order of the id for another symbol took its entry while it rested.      *)
Routable ==
  \A s \in DOMAIN books : \A id \in DOMAIN books[s].index \ reused :
    Route(id, NoSymbol) = s

get_top_of_book(s) == feeds[s].last_tob

(* get_top_of_book agrees with the book of its symbol between calls: a     *)
(* reader that looks at valid never sees the uninitialised first value,    *)
(* and a book that has orders is never hidden by it.                       *)
L1Current ==
  \A s \in DOMAIN books :
    LET last == get_top_of_book(s)
        now == TopOfBook(books[s])
    IN  last.valid \/ now.valid => last = now

(* The snapshot last published for a symbol, if there is one, shows the    *)
(* best levels of its book between calls, best first, and none that are    *)
(* worse than one it leaves out.                                           *)
Shows(levels, b, side) ==
  /\ Len(levels) = Min({L2Depth, Cardinality(Prices(b, side))})
  /\ \A i \in DOMAIN levels :
       /\ levels[i].price \in Prices(b, side)
       /\ levels[i] = LevelInfo(b, side, levels[i].price)
       /\ \A p \in Prices(b, side) \ {levels[j].price : j \in 1 .. i} :
            Signed(side, p) < Signed(side, levels[i].price)
L2Current ==
  \A s \in DOMAIN books :
    IF s \in DOMAIN depths
    THEN Shows(depths[s].bids, books[s], Buy) /\ Shows(depths[s].asks, books[s], Sell)
    ELSE \A side \in Sides : Prices(books[s], side) = {}

(* The trades a feed averages over are the latest ones of its own symbol,  *)
(* oldest first, and the engine's, the books' and the feeds' counts of     *)
(* trades agree.                                                           *)
L1Window ==
  /\ trades_generated = TradesSoFar
  /\ \A s \in DOMAIN books :
       LET n == Len(tape[s])
           k == Len(feeds[s].recent_trades)
       IN  /\ books[s].trades = n
           /\ k = IF n < MaxTradeHistory THEN n ELSE MaxTradeHistory
           /\ \A i \in 1 .. k :
                LET e == tape[s][n - k + i]
                IN  feeds[s].recent_trades[i] = [price |-> e.price, qty |-> e.qty]

(* What the feeds of a symbol show is its book.                            *)
FeedsCurrent == L1Current /\ L2Current /\ L1Window

(* No fill the engine reports takes a tracked position over its limit,     *)
(* though orders are checked one by one and filled in parts.               *)
TrackedWithinLimits ==
  \A t \in Traders :
    /\ Abs(net_position[t]) <= get_limits(t).max_net
    /\ \A s \in Symbols : Abs(positions[t][s]) <= get_limits(t).max_position

(* Once kill_all is visible nothing new is admitted: at most the one order *)
(* that had already passed the check is still executed, whatever else is   *)
(* executed replaces an order that was open when the switch was set, and   *)
(* no other order comes to rest, until unkill_all.                         *)
KillAllAdmitsNoneNew ==
  global_kill =>
    /\ late.executed <= 1
    /\ late.replaced \cup Open \subseteq late.open

-------------------------------------------------------------------------------
(* Claims of the code's comments that the code does not keep.               *)

Bought(t, s) ==
  FoldSeq(LAMBDA e, sum : sum + (IF e.buyer = t THEN e.qty ELSE 0), 0, tape[s])
Sold(t, s) ==
  FoldSeq(LAMBDA e, sum : sum + (IF e.seller = t THEN e.qty ELSE 0), 0, tape[s])

(* "net position per symbol": a trader's tracked position is what it has   *)
(* bought minus what it has sold.                                          *)
PositionsTrue ==
  \A t \in Traders, s \in Symbols : positions[t][s] = Bought(t, s) - Sold(t, s)

(* "Activate global kill switch (rejects all orders)": no order is put in  *)
(* by process_replace while it is active.                                  *)
KillAllRejectsOrders == global_kill => late.replaced = {}
===============================================================================
