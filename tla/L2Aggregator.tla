----------------------------- MODULE L2Aggregator -----------------------------
(***************************************************************************)
(* src/orderbook/l2_aggregator: the best levels of a book.                 *)
(***************************************************************************)
EXTENDS L3Book

CONSTANT L2Depth   \* depth_; the engine leaves it at DEFAULT_L2_DEPTH, 10,
                   \* which fits the array of a snapshot

ASSUME L2DepthAssumption == L2Depth \in 1 .. 20

(* The levels of a side that are better than level p, and its i-th best.   *)
Better(b, side, p) == {q \in Prices(b, side) : Signed(side, q) > Signed(side, p)}
NthBest(b, side, i) == CHOOSE p \in Prices(b, side) : Cardinality(Better(b, side, p)) = i - 1

(* Fault: the levels are taken from the far end.                           *)
DepthWorstFirst(b, side, levels) ==
  LET n == Cardinality(Prices(b, side))
  IN  [i \in 1 .. Min({levels, n}) |-> LevelInfo(b, side, NthBest(b, side, n + 1 - i))]

(* bid_depth and ask_depth.                                                *)
Depth(b, side, levels) ==
  [i \in 1 .. Min({levels, Cardinality(Prices(b, side))}) |->
     LevelInfo(b, side, NthBest(b, side, i))]

snapshot(b) == [bids |-> Depth(b, Buy, L2Depth), asks |-> Depth(b, Sell, L2Depth)]
===============================================================================
