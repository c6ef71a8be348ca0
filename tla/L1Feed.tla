-------------------------------- MODULE L1Feed --------------------------------
(***************************************************************************)
(* The top-of-book feed of src/orderbook/l1_feed: operators on the state   *)
(* of one feed, which is bound to one L3 book.                             *)
(***************************************************************************)
EXTENDS L3Book

CONSTANTS
  MaxTradeHistory,    \* MAX_TRADE_HISTORY
  MaxSpreadHistory    \* MAX_SPREAD_HISTORY

ASSUME HistoryAssumption ==
  MaxTradeHistory \in Nat \ {0} /\ MaxSpreadHistory \in Nat \ {0}

(* Fault: the size is compared before the push, not after it.              *)
PushBoundedLate(deque, x, max) ==
  IF Len(deque) > max THEN Append(Tail(deque), x) ELSE Append(deque, x)

(* push_back on a std::deque, then pop_front if it has grown past max.     *)
PushBounded(deque, x, max) ==
  IF Len(deque) >= max THEN Append(Tail(deque), x) ELSE Append(deque, x)

(* The constructor leaves the prices and quantities of last_tob_           *)
(* uninitialised (BookLevel has no initialisers for them): junk.           *)
NewFeed(junk) ==
  LET level == [price |-> junk, qty |-> junk, order_count |-> 0]
  IN  [last_tob |-> [best_bid |-> level, best_ask |-> level, valid |-> FALSE,
                     mid_price |-> 0, spread |-> 0, micro_price |-> 0],
       recent_trades |-> <<>>,
       spread_history |-> <<>>]

(* Fault: a book that became empty is not recorded.                        *)
update_valid_only(feed, b) ==
  LET tob == TopOfBook(b)
  IN  IF tob.valid THEN [feed EXCEPT !.last_tob = tob] ELSE feed

update(feed, b) ==
  LET tob == TopOfBook(b)
  IN  [feed EXCEPT !.last_tob = tob,
                   !.spread_history =
                      IF tob.valid /\ tob.spread > 0
                      THEN PushBounded(@, tob.spread, MaxSpreadHistory) ELSE @]

record_trade(feed, price, qty) ==
  [feed EXCEPT !.recent_trades =
     PushBounded(@, [price |-> price, qty |-> qty], MaxTradeHistory)]
===============================================================================
