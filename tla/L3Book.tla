-------------------------------- MODULE L3Book --------------------------------
(***************************************************************************)
(* The data structure of src/orderbook/l3_order_book: price levels holding *)
(* queues of orders, the index that locates an order by id, the per-side   *)
(* counts and the statistics.  Operators on a book value, shared by every  *)
(* module that has a book.                                                 *)
(*                                                                         *)
(* A side is a function whose domain is the set of prices that have a      *)
(* level (a std::map), a level is the queue of its orders (a std::list).   *)
(* add_resting_order sets hidden_qty to 0 and is_iceberg to false and      *)
(* nothing else sets them, so an order has only a visible quantity here.   *)
(***************************************************************************)
EXTENDS Types, Sequences, SequencesExt, FiniteSetsExt, Functions

(* Insertion into and removal from a std::map or std::unordered_map.       *)
Put(f, k, v) == [x \in DOMAIN f \cup {k} |-> IF x = k THEN v ELSE f[x]]
Erase(f, k) == Restrict(f, DOMAIN f \ {k})

(* Level p of a side holds queue; a level left empty is erased.            *)
SetLevel(side, p, queue) ==
  IF queue = <<>> THEN Erase(side, p) ELSE Put(side, p, queue)

EmptyMap == [x \in {} |-> x]

EmptyBook ==
  [levels |-> [s \in Sides |-> EmptyMap],    \* bids_, asks_
   index |-> EmptyMap,                       \* order_index_
   count |-> [s \in Sides |-> 0],            \* bid_order_count_, ask_order_count_
   trades |-> 0,                             \* trade_count_
   volume |-> 0,                             \* total_volume_
   last_price |-> 0]                         \* last_trade_price_

(* levels.begin(): bids_ is ordered by std::greater, asks_ by std::less.   *)
Prices(b, side) == DOMAIN b.levels[side]
(* Fault: both maps in ascending order.                                    *)
BestPriceAscending(b, side) == Min(Prices(b, side))

BestPrice(b, side) == IF side = Buy THEN Max(Prices(b, side)) ELSE Min(Prices(b, side))

TotalQty(queue) == SumFunction([k \in DOMAIN queue |-> queue[k].qty])

-------------------------------------------------------------------------------
(* Queries.                                                                *)

NoLevel == [price |-> 0, qty |-> 0, order_count |-> 0]

LevelInfo(b, side, p) ==
  [price |-> p, qty |-> TotalQty(b.levels[side][p]),
   order_count |-> Len(b.levels[side][p])]

(* best_bid and best_ask; nullopt is NoLevel.                              *)
BestLevel(b, side) ==
  IF Prices(b, side) = {} THEN NoLevel ELSE LevelInfo(b, side, BestPrice(b, side))

(* top_of_book.  The mid, spread and micro prices are functions of the two *)
(* levels; division truncates.                                             *)
TopOfBook(b) ==
  LET bid == BestLevel(b, Buy)
      ask == BestLevel(b, Sell)
      both == Prices(b, Buy) # {} /\ Prices(b, Sell) # {}
  IN  [best_bid |-> bid, best_ask |-> ask,
       valid |-> Prices(b, Buy) # {} \/ Prices(b, Sell) # {},
       mid_price |-> IF both THEN (bid.price + ask.price) \div 2
                             ELSE bid.price + ask.price,
       spread |-> IF both THEN ask.price - bid.price ELSE 0,
       micro_price |-> IF both
                       THEN (bid.price * ask.qty + ask.price * bid.qty)
                              \div (bid.qty + ask.qty)
                       ELSE 0]

(* The order an iterator of the index denotes, by its place in the queue.  *)
QueueOf(b, id) == b.levels[b.index[id].side][b.index[id].price]
PlaceOf(b, id) == CHOOSE k \in DOMAIN QueueOf(b, id) : QueueOf(b, id)[k].id = id

queue_position(b, id) == QueueOf(b, id)[PlaceOf(b, id)].queue_pos
quantity_ahead(b, id) == TotalQty(SubSeq(QueueOf(b, id), 1, PlaceOf(b, id) - 1))

-------------------------------------------------------------------------------
(* Matching.                                                               *)

(* Fault: equal prices do not trade.                                       *)
CrossesStrictly(o, p) ==
  \/ o.type = "Market"
  \/ o.side = Buy /\ p < o.price
  \/ o.side = Sell /\ p > o.price

(* Whether order o may trade at a level's price: the test that ends the    *)
(* walk over the levels.                                                   *)
Crosses(o, p) ==
  \/ o.type = "Market"
  \/ o.side = Buy /\ p <= o.price
  \/ o.side = Sell /\ p >= o.price

(* The quantity o could trade now: what the fill-or-kill check sums up.    *)
Available(b, o) ==
  LET opp == Opposite(o.side)
  IN  SumFunctionOnSet([p \in Prices(b, opp) |-> TotalQty(b.levels[opp][p])],
                       {p \in Prices(b, opp) : Crosses(o, p)})

(* Fault: no fill-or-kill check before matching.                           *)
CanFillUnchecked(b, o) == TRUE

CanFill(b, o) == o.tif = "FOK" => Available(b, o) >= o.qty

(* The loop conditions of match_against.  A trade either exhausts the      *)
(* incoming order or removes the resting one, so the next resting order is *)
(* always the front of the best level.                                     *)
CanMatch(b, o, remaining) ==
  LET opp == Opposite(o.side)
  IN  /\ remaining > 0
      /\ Prices(b, opp) # {}
      /\ Crosses(o, BestPrice(b, opp))

NextResting(b, o) ==
  LET opp == Opposite(o.side) IN Head(b.levels[opp][BestPrice(b, opp)])

MatchQty(b, o, remaining) ==
  LET q == NextResting(b, o).qty IN IF remaining < q THEN remaining ELSE q

(* Fault: filled_qty of the resting order is not advanced.                 *)
ReduceOpenOnly(o, q) == [o EXCEPT !.qty = @ - q]

(* The resting order after q of it has traded.                             *)
Reduce(o, q) == [o EXCEPT !.qty = @ - q, !.filled = @ + q]

(* One iteration of match_against: the trade, the resting order reduced or *)
(* removed from queue, index and count, and a level left empty erased.     *)
MatchOne(b, o, remaining) ==
  LET opp == Opposite(o.side)
      p == BestPrice(b, opp)
      queue == b.levels[opp][p]
      resting == Head(queue)
      q == MatchQty(b, o, remaining)
      filled == q = resting.qty
      rest == IF filled THEN Tail(queue) ELSE [queue EXCEPT ![1] = Reduce(@, q)]
  IN  [levels |-> [b.levels EXCEPT ![opp] = SetLevel(@, p, rest)],
       index |-> IF filled THEN Erase(b.index, resting.id) ELSE b.index,
       count |-> [b.count EXCEPT ![opp] = IF filled THEN @ - 1 ELSE @],
       trades |-> b.trades + 1,
       volume |-> b.volume + q,
       last_price |-> p]

-------------------------------------------------------------------------------
(* Resting and removing orders.                                            *)

LevelOrNew(b, side, p) ==
  IF p \in Prices(b, side) THEN b.levels[side][p] ELSE <<>>

(* Fault: the order is put at the front of its level.                      *)
add_resting_order_front(b, o, remaining) ==
  LET queue == LevelOrNew(b, o.side, o.price)
      l3 == [id |-> o.id, trader |-> o.trader, qty |-> remaining,
             filled |-> o.qty - remaining, queue_pos |-> Len(queue)]
  IN  [b EXCEPT !.levels[o.side] = Put(@, o.price, <<l3>> \o queue),
                !.index = Put(@, o.id, [side |-> o.side, price |-> o.price]),
                !.count[o.side] = @ + 1]

add_resting_order(b, o, remaining) ==
  LET queue == LevelOrNew(b, o.side, o.price)
      l3 == [id |-> o.id, trader |-> o.trader, qty |-> remaining,
             filled |-> o.qty - remaining, queue_pos |-> Len(queue)]
  IN  [b EXCEPT !.levels[o.side] = Put(@, o.price, Append(queue, l3)),
                !.index = Put(@, o.id, [side |-> o.side, price |-> o.price]),
                !.count[o.side] = @ + 1]

(* Fault: the position counter of the loop is not advanced.                *)
update_queue_positions_zero(queue) ==
  [k \in DOMAIN queue |-> [queue[k] EXCEPT !.queue_pos = 0]]

update_queue_positions(queue) ==
  [k \in DOMAIN queue |-> [queue[k] EXCEPT !.queue_pos = k - 1]]

(* Fault: the index entry is left behind.                                  *)
RemoveOrderKeepIndex(b, id) ==
  LET loc == b.index[id]
      queue == RemoveAt(QueueOf(b, id), PlaceOf(b, id))
  IN  [b EXCEPT !.levels[loc.side] = SetLevel(@, loc.price, update_queue_positions(queue)),
                !.count[loc.side] = @ - 1]

(* Fault: a level left empty is not erased.                                *)
RemoveOrderKeepLevel(b, id) ==
  LET loc == b.index[id]
      queue == RemoveAt(QueueOf(b, id), PlaceOf(b, id))
  IN  [b EXCEPT !.levels[loc.side] = Put(@, loc.price, update_queue_positions(queue)),
                !.index = Erase(@, id),
                !.count[loc.side] = @ - 1]

(* Fault: the other side's count is decremented.                           *)
RemoveOrderOtherCount(b, id) ==
  LET loc == b.index[id]
      queue == RemoveAt(QueueOf(b, id), PlaceOf(b, id))
  IN  [b EXCEPT !.levels[loc.side] = SetLevel(@, loc.price, update_queue_positions(queue)),
                !.index = Erase(@, id),
                !.count[Opposite(loc.side)] = @ - 1]

(* What cancel_order does to the book once the index has the order.        *)
RemoveOrder(b, id) ==
  LET loc == b.index[id]
      queue == RemoveAt(QueueOf(b, id), PlaceOf(b, id))
  IN  [b EXCEPT !.levels[loc.side] = SetLevel(@, loc.price, update_queue_positions(queue)),
                !.index = Erase(@, id),
                !.count[loc.side] = @ - 1]

NoReport ==
  [status |-> "None", reject_reason |-> "None", order_qty |-> 0, filled_qty |-> 0,
   leaves_qty |-> 0, last_qty |-> 0, last_price |-> 0]

Rejection(qty, reason) ==
  [NoReport EXCEPT !.status = "Rejected", !.order_qty = qty, !.reject_reason = reason]

CancelReport(b, id) ==
  LET o == QueueOf(b, id)[PlaceOf(b, id)]
  IN  [NoReport EXCEPT !.status = "Canceled", !.order_qty = o.qty + o.filled,
                       !.filled_qty = o.filled]

-------------------------------------------------------------------------------
(* The end of add_order, after the trades ts of order o: what becomes of   *)
(* the remainder, the report, and whether the top of book is published.    *)

Remaining(o, ts) == o.qty - TotalQty(ts)

Rests(o, ts) ==
  Remaining(o, ts) > 0 /\ o.type = "Limit" /\ o.tif \in {"Day", "GTC"}
Expires(o, ts) == Remaining(o, ts) > 0 /\ o.type = "Limit" /\ o.tif = "IOC"
Kills(o, ts) == Remaining(o, ts) > 0 /\ o.type = "Limit" /\ o.tif = "FOK"

AddStatus(o, ts) ==
  IF Kills(o, ts) THEN "Rejected"
  ELSE IF Remaining(o, ts) = 0 THEN "Filled"
  ELSE IF TotalQty(ts) > 0 THEN "PartiallyFilled"
  ELSE IF Expires(o, ts) THEN "Canceled"
  ELSE "New"

AddReport(o, ts) ==
  LET partly == Remaining(o, ts) # 0 /\ ts # <<>>
  IN  [status |-> AddStatus(o, ts),
       reject_reason |-> IF Kills(o, ts) THEN "InsufficientLiquidity" ELSE "None",
       order_qty |-> o.qty,
       filled_qty |-> IF Kills(o, ts) THEN 0 ELSE TotalQty(ts),
       leaves_qty |-> IF Kills(o, ts) \/ Expires(o, ts) THEN 0 ELSE Remaining(o, ts),
       last_qty |-> IF partly THEN Last(ts).qty ELSE 0,
       last_price |-> IF partly THEN Last(ts).price ELSE 0]

(* Fault: only orders that rest are announced.                             *)
PublishesTobNewOnly(o, ts) == AddStatus(o, ts) = "New"

PublishesTob(o, ts) == ts # <<>> \/ AddStatus(o, ts) = "New"

RestRemainder(b, o, ts) ==
  IF Rests(o, ts) THEN add_resting_order(b, o, Remaining(o, ts)) ELSE b

-------------------------------------------------------------------------------
(* Whole calls, for the modules in which a call is one step.               *)

TradeOf(b, o, remaining) ==
  LET resting == NextResting(b, o)
  IN  [resting |-> resting.id, trader |-> resting.trader,
       price |-> BestPrice(b, Opposite(o.side)), qty |-> MatchQty(b, o, remaining)]

(* Fault: the fill-or-kill check is left out of the call.                  *)
match_incoming_unchecked(b, o) ==
  LET Step(st, i) ==
        IF CanMatch(st.book, o, Remaining(o, st.trades))
        THEN [book |-> MatchOne(st.book, o, Remaining(o, st.trades)),
              trades |-> Append(st.trades,
                                TradeOf(st.book, o, Remaining(o, st.trades)))]
        ELSE st
  IN  FoldLeft(Step, [book |-> b, trades |-> <<>>], [i \in 1 .. o.qty |-> i])

(* match_incoming: a trade takes at least one unit, so o.qty iterations    *)
(* are enough for the loop to end.                                         *)
match_incoming(b, o) ==
  LET Step(st, i) ==
        IF CanMatch(st.book, o, Remaining(o, st.trades))
        THEN [book |-> MatchOne(st.book, o, Remaining(o, st.trades)),
              trades |-> Append(st.trades,
                                TradeOf(st.book, o, Remaining(o, st.trades)))]
        ELSE st
      start == [book |-> b, trades |-> <<>>]
  IN  IF CanFill(b, o) THEN FoldLeft(Step, start, [i \in 1 .. o.qty |-> i]) ELSE start

add_order(b, o) ==
  IF o.id \in DOMAIN b.index
  THEN [book |-> b, trades |-> <<>>, report |-> Rejection(o.qty, "DuplicateOrderId")]
  ELSE LET m == match_incoming(b, o)
       IN  [book |-> RestRemainder(m.book, o, m.trades), trades |-> m.trades,
            report |-> AddReport(o, m.trades)]

cancel_order(b, id) ==
  IF id \in DOMAIN b.index
  THEN [book |-> RemoveOrder(b, id), report |-> CancelReport(b, id)]
  ELSE [book |-> b, report |-> Rejection(0, "None")]

(* The Day limit order that replaces order id on its side.                 *)
Replacement(b, id, trader, price, qty) ==
  [id |-> id, trader |-> trader, side |-> b.index[id].side, type |-> "Limit",
   tif |-> "Day", price |-> price, qty |-> qty]

replace_order(b, id, trader, price, qty) ==
  IF id \in DOMAIN b.index
  THEN add_order(RemoveOrder(b, id), Replacement(b, id, trader, price, qty))
  ELSE [book |-> b, trades |-> <<>>, report |-> Rejection(0, "None")]
-------------------------------------------------------------------------------
(* When the parts of a book agree.                                         *)

(* Index and queues describe the same orders, each once: no iterator in    *)
(* the index dangles and no resting order is out of reach of a cancel.     *)
IndexExact(b) ==
  /\ \A s \in Sides : \A p \in Prices(b, s) : \A k \in DOMAIN b.levels[s][p] :
       LET id == b.levels[s][p][k].id
       IN  /\ id \in DOMAIN b.index
           /\ b.index[id] = [side |-> s, price |-> p]
           /\ \A j \in DOMAIN b.levels[s][p] : b.levels[s][p][j].id = id => j = k
  /\ \A id \in DOMAIN b.index :
       /\ b.index[id].price \in Prices(b, b.index[id].side)
       /\ \E k \in DOMAIN QueueOf(b, id) : QueueOf(b, id)[k].id = id

(* total_bid_orders and total_ask_orders count what rests, and no level    *)
(* stays behind empty (best_bid would report a level without orders).      *)
CountsExact(b) ==
  \A s \in Sides :
    /\ \A p \in Prices(b, s) : b.levels[s][p] # <<>>
    /\ b.count[s] = Cardinality({id \in DOMAIN b.index : b.index[id].side = s})
===============================================================================
