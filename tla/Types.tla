-------------------------------- MODULE Types ---------------------------------
(* The parts of src/common/types.hpp that several engines share.           *)
EXTENDS Integers

Buy == "Buy"
Sell == "Sell"
Sides == {Buy, Sell}
Opposite(side) == IF side = Buy THEN Sell ELSE Buy

Abs(x) == IF x < 0 THEN -x ELSE x

(* A quantity as a change of a position: longs are positive.               *)
Signed(side, qty) == IF side = Buy THEN qty ELSE -qty
===============================================================================
