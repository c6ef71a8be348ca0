------------------------------ MODULE MCServices ------------------------------
(* The six components of Services on small instances.                      *)
EXTENDS Services, TLC

CONSTANTS t1, t2, X, Y, u1, u2, P, Q, id1, id2, label1, label2, thread1, thread2,
          c1, p1, p2

TwoTraders == {t1, t2}
TwoSymbols == {X, Y}
TwoLabels == {label1, label2}
TwoThreads == {thread1, thread2}
Interchangeable == Permutations(TwoTraders) \cup Permutations(TwoSymbols)

(* Risk engine: small limits, two orders in any two consecutive instants.  *)
Tight == [max_position |-> 1, max_net |-> 2, max_rate |-> 2, window |-> 1]
Loose == [max_position |-> 3, max_net |-> 3, max_rate |-> 2, window |-> 1]
OnlyTight == {Tight}

(* Trade engine: two traders trade one symbol either way, one of them with *)
(* itself, and another symbol.                                             *)
FewTrades ==
  [incoming_trader : {u1}, resting_trader : {u2}, symbol : {P}, aggressor_side : Sides,
   qty : {1, 2}, price : {1, 2}]
  \cup [incoming_trader : {u2}, resting_trader : {u1, u2}, symbol : {P},
        aggressor_side : {Buy}, qty : {2}, price : {1, 2}]
  \cup [incoming_trader : {u1}, resting_trader : {u2}, symbol : {Q},
        aggressor_side : Sides, qty : {1}, price : {2}]

(* Simple book: limit orders at two prices and market orders.              *)
SmallOrders ==
  {o \in [id : {id1, id2}, side : Sides, type : {"Limit", "Market"}, price : {0, 1, 2},
          qty : {1, 2}] :
     o.type = "Market" <=> o.price = 0}

(* Telemetry: a timer of a histogram and one of none; samples below,       *)
(* within and above the range of the buckets.                              *)
TwoNames == {{"e2e", "match"}, {"x"}}
BelowAndAbove == {-1, 9}
Lowest == -1000

(* Latency model: two seeds, whose draws fall in different regimes.        *)
TwoProfiles == {p1, p2}
Constructed == [network |-> p1, matching |-> p2, md |-> p1]
SomeTailDraws == {<<2, 0>>, <<1, 3>>}
===============================================================================
