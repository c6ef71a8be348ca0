------------------------------ MODULE TradeEngine -----------------------------
(***************************************************************************)
(* src/market/trade_engine: positions and profit per trader and symbol.    *)
(*                                                                         *)
(* The averages and profits are doubles; here they are exact numbers,      *)
(* counted in units of 1/Scale, with a Scale that every quantity an        *)
(* average is divided by divides.                                          *)
(***************************************************************************)
EXTENDS Types, Sequences, SequencesExt, FiniteSetsExt

CONSTANTS
  TradeReports,   \* trades the engine may be given
  Marks,          \* prices mark_to_market may be called with
  Scale,
  MaxBooked       \* bound on the number of trades

ASSUME TradeReportsAssumption ==
  \A t \in TradeReports : t.qty \in Nat \ {0} /\ t.price \in Int /\ t.aggressor_side \in Sides
ASSUME MarksAssumption == Marks \subseteq Int
ASSUME MaxBookedAssumption == MaxBooked \in Nat
ASSUME ScaleAssumption ==
  /\ Scale \in Nat \ {0}
  /\ \A t \in TradeReports : \A n \in 1 .. (MaxBooked * t.qty) : Scale % n = 0

VARIABLES
  book_positions,   \* positions_
  total_trades, total_volume, total_notional,
  fills,            \* history: what each account has bought and sold, in order
  marked            \* history: the price of a symbol's latest mark, if no
                    \* trade of the symbol came after it

totals == <<total_trades, total_volume, total_notional>>
tradeVars == <<book_positions, totals, fills, marked>>

Accounts ==
  UNION {{<<t.incoming_trader, t.symbol>>, <<t.resting_trader, t.symbol>>} : t \in TradeReports}
Instruments == {t.symbol : t \in TradeReports}

Position ==
  [net_qty : Int, total_qty : [Sides -> Nat], avg_price : [Sides -> Int],
   realized_pnl : Int, unrealized_pnl : Int]

(* The zeros of a new entry; buy_qty and sell_qty are total_qty, and so    *)
(* for the average prices.                                                 *)
NewPosition ==
  [net_qty |-> 0, total_qty |-> [s \in Sides |-> 0], avg_price |-> [s \in Sides |-> 0],
   realized_pnl |-> 0, unrealized_pnl |-> 0]

Fill == [side : Sides, qty : Nat \ {0}, price : Int]

TradeTypeOK ==
  /\ DOMAIN book_positions \subseteq Accounts
  /\ \A k \in DOMAIN book_positions : book_positions[k] \in Position
  /\ total_trades \in Nat /\ total_volume \in Nat /\ total_notional \in Int
  /\ fills \in [Accounts -> Seq(Fill)]
  /\ DOMAIN marked \subseteq Instruments

TradeInit ==
  /\ book_positions = [k \in {} |-> NewPosition]
  /\ total_trades = 0 /\ total_volume = 0 /\ total_notional = 0
  /\ fills = [k \in Accounts |-> <<>>]
  /\ marked = [s \in {} |-> 0]

-------------------------------------------------------------------------------
(* process_trade.                                                          *)

(* A buy meets a short position, or a sell a long one.                     *)
Opposed(pos, side) == Signed(side, pos.net_qty) < 0

(* Fault: the reduction is valued at the average of the order's own side.  *)
RealizedOwnSide(pos, side, qty, price) ==
  IF Opposed(pos, side)
  THEN Min({qty, Abs(pos.net_qty)})
         * Signed(side, pos.avg_price[side] - Scale * price)
  ELSE 0

(* Closing a short earns what it was sold for above the price of the buy;  *)
(* closing a long, what the sell brings above what it was bought for.      *)
Realized(pos, side, qty, price) ==
  IF Opposed(pos, side)
  THEN Min({qty, Abs(pos.net_qty)})
         * Signed(side, pos.avg_price[Opposite(side)] - Scale * price)
  ELSE 0

(* Quantity and average of a side grow with a fill that does not reduce.   *)
NewTotal(pos, side, qty) == pos.total_qty[side] + (IF Opposed(pos, side) THEN 0 ELSE qty)

NewAverage(pos, side, qty, price) ==
  IF Opposed(pos, side) THEN pos.avg_price[side]
  ELSE (pos.avg_price[side] * pos.total_qty[side] + Scale * price * qty)
         \div (pos.total_qty[side] + qty)

update_position(pos, side, qty, price) ==
  [pos EXCEPT !.realized_pnl = @ + Realized(pos, side, qty, price),
              !.avg_price[side] = NewAverage(pos, side, qty, price),
              !.total_qty[side] = NewTotal(pos, side, qty),
              !.net_qty = @ + Signed(side, qty)]

PositionOrNew(ps, k) == IF k \in DOMAIN ps THEN ps[k] ELSE NewPosition

Updated(ps, trader, symbol, side, qty, price) ==
  LET k == <<trader, symbol>>
  IN  [x \in DOMAIN ps \cup {k} |->
         IF x = k THEN update_position(PositionOrNew(ps, k), side, qty, price) ELSE ps[x]]

(* History: one more fill of an account.                                   *)
Filled(fs, trader, symbol, side, qty, price) ==
  [fs EXCEPT ![<<trader, symbol>>] = Append(@, [side |-> side, qty |-> qty, price |-> price])]

(* The aggressor is booked first, then the resting trader, who may be the  *)
(* same one.                                                               *)
process_trade(t) ==
  /\ total_trades < MaxBooked
  /\ total_trades' = total_trades + 1
  /\ total_volume' = total_volume + t.qty
  /\ total_notional' = total_notional + t.qty * t.price
  /\ book_positions' =
       Updated(Updated(book_positions, t.incoming_trader, t.symbol, t.aggressor_side,
                       t.qty, t.price),
               t.resting_trader, t.symbol, Opposite(t.aggressor_side), t.qty, t.price)
  /\ fills' =
       Filled(Filled(fills, t.incoming_trader, t.symbol, t.aggressor_side, t.qty, t.price),
              t.resting_trader, t.symbol, Opposite(t.aggressor_side), t.qty, t.price)
  /\ marked' = [s \in DOMAIN marked \ {t.symbol} |-> marked[s]]

-------------------------------------------------------------------------------
(* mark_to_market.                                                         *)

Unrealized(pos, price) ==
  CASE pos.net_qty > 0 -> pos.net_qty * (Scale * price - pos.avg_price[Buy])
    [] pos.net_qty < 0 -> -pos.net_qty * (pos.avg_price[Sell] - Scale * price)
    [] OTHER -> 0

mark_to_market(s, price) ==
  /\ book_positions' =
       [k \in DOMAIN book_positions |->
          IF k[2] = s
          THEN [book_positions[k] EXCEPT !.unrealized_pnl =
                                          Unrealized(book_positions[k], price)]
          ELSE book_positions[k]]
  /\ marked' = [x \in DOMAIN marked \cup {s} |-> IF x = s THEN price ELSE marked[x]]
  /\ UNCHANGED <<totals, fills>>

TradeNext ==
  \/ \E t \in TradeReports : process_trade(t)
  \/ \E s \in Instruments, price \in Marks : mark_to_market(s, price)

TradeSpec == TradeInit /\ [][TradeNext]_tradeVars

-------------------------------------------------------------------------------
(* Properties.                                                             *)

(* What an account holds by its fills, and the cash they brought.          *)
Net(fs) == SumFunction([i \in DOMAIN fs |-> Signed(fs[i].side, fs[i].qty)])
Cash(fs) == SumFunction([i \in DOMAIN fs |-> -Signed(fs[i].side, fs[i].qty) * fs[i].price])

(* A position that was built up on one side and then only reduced, never   *)
(* past zero.                                                              *)
OneRound(fs) ==
  \E n \in DOMAIN fs :
    /\ \A i \in DOMAIN fs : (i <= n) <=> (fs[i].side = fs[1].side)
    /\ Signed(fs[1].side, Net(fs)) >= 0

(* Both parties of every trade are booked: a position is what its trader   *)
(* has bought minus what it has sold.                                      *)
NetExact ==
  \A k \in DOMAIN book_positions : book_positions[k].net_qty = Net(fills[k])

(* Through one round, realised profit is the cash earned once the position *)
(* is closed, and right after a mark realised and unrealised profit add up *)
(* to the cash plus the value of what is held.                             *)
ProfitOfOneRound ==
  \A k \in DOMAIN book_positions :
    LET pos == book_positions[k]
        fs == fills[k]
    IN  OneRound(fs) =>
          /\ pos.net_qty = 0 => pos.realized_pnl = Scale * Cash(fs)
          /\ k[2] \in DOMAIN marked =>
               pos.realized_pnl + pos.unrealized_pnl =
                 Scale * (Cash(fs) + Net(fs) * marked[k[2]])

(* The books of the trade engine: positions always, profit through the     *)
(* first round of a position.                                              *)
PositionsAndProfit == NetExact /\ ProfitOfOneRound

-------------------------------------------------------------------------------
(* A claim of the documentation that the code does not keep.               *)

(* "Realized PnL computation on position reduction": once a position is    *)
(* closed, all of its profit is realised.                                  *)
RealizedWhenFlat ==
  \A k \in DOMAIN book_positions :
    book_positions[k].net_qty = 0 =>
      book_positions[k].realized_pnl = Scale * Cash(fills[k])
===============================================================================
