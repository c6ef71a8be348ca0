---------------------------- MODULE MCL3OrderBook -----------------------------
(* A book with few orders, prices and quantities.                          *)
EXTENDS L3OrderBook, TLC

CONSTANTS a, b, c

ThreeIds == {a, b, c}
IdSymmetry == Permutations(ThreeIds)
===============================================================================
