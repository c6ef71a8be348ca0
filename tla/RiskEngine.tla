------------------------------ MODULE RiskEngine ------------------------------
(***************************************************************************)
(* The pre-trade checks of src/risk/risk_engine.  check_order and on_fill  *)
(* are operators that other modules call; this module's own specification  *)
(* drives them as MatchingEngine does: a fill of an order is reported in   *)
(* the same call that checked it, for at most the quantity checked.        *)
(*                                                                         *)
(* A trader or symbol without an entry in the maps has the values the code *)
(* assumes for it (position 0, not killed, default limits), so the maps    *)
(* are total here.                                                         *)
(***************************************************************************)
EXTENDS Types, Timestamps, Sequences, FiniteSets, SequencesExt, Functions

CONSTANTS
  Traders, Symbols,
  OrderQuantities,   \* quantities of the orders checked
  LimitPrices,       \* prices of limit orders, invalid ones included
  Times,             \* submit times clients may put on an order
  InOrder,           \* whether each trader's orders arrive in submit-time order
  LimitChoices,      \* TraderRiskLimits an operator may set
  DefaultLimits,     \* the limits in force at construction
  MaxChecks          \* bound on the number of orders checked

ASSUME QuantitiesAssumption == OrderQuantities \subseteq Int
ASSUME PricesAssumption == LimitPrices \subseteq Int
ASSUME TimesAssumption == Times \subseteq 0 .. (TimeWrap - 1)
ASSUME InOrderAssumption == InOrder \in BOOLEAN

TraderRiskLimits == [max_position : Nat, max_net : Nat, max_rate : Nat, window : Nat]
ASSUME LimitsAssumption == LimitChoices \cup {DefaultLimits} \subseteq TraderRiskLimits
ASSUME MaxChecksAssumption == MaxChecks \in Nat

VARIABLES
  trader_limits,      \* trader_limits_: the traders with limits of their own
  default_limits,     \* default_limits_
  positions,          \* trader_states_[t].positions
  net_position,       \* trader_states_[t].net_position
  order_timestamps,   \* trader_states_[t].order_timestamps
  killed,             \* trader_states_[t].killed
  global_kill,        \* global_kill_
  orders_checked, orders_rejected,
  accepted            \* history: submit times of the orders that passed

limits == <<trader_limits, default_limits>>
exposure == <<positions, net_position>>
switches == <<killed, global_kill>>
gate == <<order_timestamps, orders_checked, orders_rejected, accepted>>
riskVars == <<limits, exposure, switches, gate>>

RiskTypeOK ==
  /\ \A t \in DOMAIN trader_limits : t \in Traders /\ trader_limits[t] \in LimitChoices
  /\ default_limits \in LimitChoices \cup {DefaultLimits}
  /\ positions \in [Traders -> [Symbols -> Int]]
  /\ net_position \in [Traders -> Int]
  /\ order_timestamps \in [Traders -> Seq(Times)]
  /\ killed \in [Traders -> BOOLEAN]
  /\ global_kill \in BOOLEAN
  /\ orders_checked \in Nat /\ orders_rejected \in 0 .. orders_checked
  /\ accepted \in [Traders -> Seq(Times)]

RiskInit ==
  /\ trader_limits = [t \in {} |-> DefaultLimits]
  /\ default_limits = DefaultLimits
  /\ positions = [t \in Traders |-> [s \in Symbols |-> 0]]
  /\ net_position = [t \in Traders |-> 0]
  /\ order_timestamps = [t \in Traders |-> <<>>]
  /\ killed = [t \in Traders |-> FALSE]
  /\ global_kill = FALSE
  /\ orders_checked = 0 /\ orders_rejected = 0
  /\ accepted = [t \in Traders |-> <<>>]

-------------------------------------------------------------------------------
(* check_order.                                                            *)

get_limits(t) == IF t \in DOMAIN trader_limits THEN trader_limits[t] ELSE default_limits

(* The checks hold of the orders they let pass.                            *)

is_killed(t) == global_kill \/ killed[t]

(* Fault: only the trader's own switch is consulted.                       *)
check_kill_switch_trader_only(t) == ~killed[t]

check_kill_switch(t) == ~global_kill /\ ~is_killed(t)

check_price_validity(o) == o.type = "Limit" => o.price > 0

check_quantity_validity(o) == o.qty > 0

(* Fault: the limits bound the order, not the position it leads to.        *)
check_position_limit_order_only(o) ==
  /\ o.qty <= get_limits(o.trader).max_position
  /\ o.qty <= get_limits(o.trader).max_net

check_position_limit(o) ==
  LET delta == Signed(o.side, o.qty)
  IN  /\ Abs(positions[o.trader][o.symbol] + delta) <= get_limits(o.trader).max_position
      /\ Abs(net_position[o.trader] + delta) <= get_limits(o.trader).max_net

(* Fault: a timestamp exactly one window old is dropped.                   *)
ExpiredEarly(t, now, ts) == Age(now, ts) >= get_limits(t).window

(* The timestamps left after the front ones older than the window are      *)
(* popped.                                                                 *)
Expired(t, now, ts) == Age(now, ts) > get_limits(t).window
Unexpired(t, now) ==
  LET stamps == order_timestamps[t]
      first == SelectInSeq(stamps, LAMBDA ts : ~Expired(t, now, ts))
  IN  IF first = 0 THEN <<>> ELSE SubSeq(stamps, first, Len(stamps))

check_rate_limit(t, now) == Len(Unexpired(t, now)) < get_limits(t).max_rate

(* What check_rate_limit leaves in the window: the order's own timestamp   *)
(* is added only if it passes.                                             *)
Window(t, now) ==
  IF check_rate_limit(t, now) THEN Append(Unexpired(t, now), now) ELSE Unexpired(t, now)

(* The reason for which the order is refused, in the order of the checks.  *)
Refusal(o) ==
  IF ~check_kill_switch(o.trader) THEN "KillSwitchActive"
  ELSE IF ~check_price_validity(o) THEN "InvalidPrice"
  ELSE IF ~check_quantity_validity(o) THEN "InvalidQuantity"
  ELSE IF ~check_position_limit(o) THEN "PositionLimit"
  ELSE IF ~check_rate_limit(o.trader, o.submit_time) THEN "RateLimit"
  ELSE "None"

(* The state change of check_order: the counters, and the trader's window  *)
(* if the check got as far as the rate limit.                              *)
check_order(o) ==
  LET r == Refusal(o)
  IN  /\ orders_checked' = orders_checked + 1
      /\ orders_rejected' = IF r = "None" THEN orders_rejected ELSE orders_rejected + 1
      /\ order_timestamps' =
           [order_timestamps EXCEPT ![o.trader] =
              IF r \in {"None", "RateLimit"} THEN Window(o.trader, o.submit_time) ELSE @]
      /\ accepted' = [accepted EXCEPT ![o.trader] =
                        IF r = "None" THEN Append(@, o.submit_time) ELSE @]

on_fill(t, s, side, qty) ==
  /\ positions' = [positions EXCEPT ![t][s] = @ + Signed(side, qty)]
  /\ net_position' = [net_position EXCEPT ![t] = @ + Signed(side, qty)]

-------------------------------------------------------------------------------
(* Configuration and kill switches.                                        *)

setTraderLimits(t, l) ==
  /\ trader_limits' = [x \in DOMAIN trader_limits \cup {t} |->
                         IF x = t THEN l ELSE trader_limits[x]]
  /\ UNCHANGED <<default_limits, exposure, switches, gate>>

setDefaultLimits(l) ==
  /\ default_limits' = l
  /\ UNCHANGED <<trader_limits, exposure, switches, gate>>

kill_trader(t) ==
  /\ killed' = [killed EXCEPT ![t] = TRUE]
  /\ UNCHANGED <<global_kill, limits, exposure, gate>>

unkill_trader(t) ==
  /\ killed' = [killed EXCEPT ![t] = FALSE]
  /\ UNCHANGED <<global_kill, limits, exposure, gate>>

kill_all ==
  /\ global_kill' = TRUE
  /\ UNCHANGED <<killed, limits, exposure, gate>>

(* Fault: the flags of the traders with limits are reset and no others.    *)
unkill_all_limited ==
  /\ global_kill' = FALSE
  /\ killed' = [t \in DOMAIN trader_limits |-> FALSE]
  /\ UNCHANGED <<limits, exposure, gate>>

unkill_all ==
  /\ global_kill' = FALSE
  /\ killed' = [t \in Traders |-> FALSE]
  /\ UNCHANGED <<limits, exposure, gate>>

-------------------------------------------------------------------------------
(* An engine that checks an order and reports a fill of it, or none.       *)

CheckedOrders ==
  [trader : Traders, symbol : Symbols, side : Sides,
   type : {"Limit", "Market"}, price : LimitPrices, qty : OrderQuantities,
   submit_time : Times]

InSubmitOrder(o) ==
  InOrder => \A k \in DOMAIN accepted[o.trader] : accepted[o.trader][k] <= o.submit_time

Submit(o, filled) ==
  /\ orders_checked < MaxChecks
  /\ InSubmitOrder(o)
  /\ check_order(o)
  /\ IF Refusal(o) = "None" /\ filled > 0
     THEN on_fill(o.trader, o.symbol, o.side, filled)
     ELSE UNCHANGED exposure
  /\ UNCHANGED <<limits, switches>>

Operate ==
  \/ \E t \in Traders : kill_trader(t) \/ unkill_trader(t)
  \/ kill_all \/ unkill_all
  \/ \E l \in LimitChoices : setDefaultLimits(l) \/ \E t \in Traders : setTraderLimits(t, l)

RiskNext ==
  \/ \E o \in CheckedOrders : \E f \in 0 .. Abs(o.qty) : Submit(o, f)
  \/ Operate

RiskSpec == RiskInit /\ [][RiskNext]_riskVars

-------------------------------------------------------------------------------
(* Properties.                                                             *)

(* A fill takes a position beyond the limit in force only if it reduces a  *)
(* position that an earlier limit allowed; so does the net position.       *)
FillsRespectLimits ==
  [][\A t \in Traders :
       /\ \A s \in Symbols :
            positions'[t][s] # positions[t][s] =>
              \/ Abs(positions'[t][s]) <= get_limits(t).max_position
              \/ Abs(positions'[t][s]) < Abs(positions[t][s])
       /\ net_position'[t] # net_position[t] =>
            \/ Abs(net_position'[t]) <= get_limits(t).max_net
            \/ Abs(net_position'[t]) < Abs(net_position[t])]_riskVars

(* The sliding window: no span of the window's length contains more        *)
(* accepted orders of a trader than the rate limit.                        *)
RateRespected ==
  \A t \in Traders : \A from \in Times :
    Cardinality({k \in DOMAIN accepted[t] :
                   accepted[t][k] \in from .. (from + get_limits(t).window)})
      <= get_limits(t).max_rate
===============================================================================
