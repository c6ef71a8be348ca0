--------------------------- MODULE MCMatchingEngine ---------------------------
(* Two symbols, two order ids, two traders.                                *)
EXTENDS MatchingEngine, TLC

CONSTANTS X, Y, id1, id2, t1, t2

TwoSymbols == {X, Y}
TwoIds == {id1, id2}
TwoTraders == {t1, t2}
OneTrader == {t1}
OneSymbol == {X}
EngineSymmetry ==
  Permutations(Symbols) \cup Permutations(OrderIds) \cup Permutations(Traders)

TwoUnits == [max_position |-> 2, max_net |-> 2, max_rate |-> 9, window |-> 9]
OnlyTwoUnits == {TwoUnits}
===============================================================================
