-------------------------- MODULE MCMarketDataEngine --------------------------
(* MarketDataEngine with a queue of two messages, two instants and a       *)
(* throttle of one tick.                                                   *)
EXTENDS MarketDataEngine
===============================================================================
