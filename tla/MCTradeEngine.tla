---------------------------- MODULE MCTradeEngine -----------------------------
(* Two traders, the second of them always resting, one symbol.             *)
EXTENDS TradeEngine

CONSTANTS t1, t2, X

OneSymbolTrades ==
  [incoming_trader : {t1}, resting_trader : {t2}, symbol : {X}, aggressor_side : Sides,
   qty : {1, 2}, price : {1, 2}]
===============================================================================
