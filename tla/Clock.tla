-------------------------------- MODULE Clock ---------------------------------
(***************************************************************************)
(* src/common/clock: the time that the engines read.  A simulated clock is *)
(* moved by advance, set_time and reset; a wall clock ignores the three    *)
(* calls and moves as if something kept calling advance.                   *)
(***************************************************************************)
EXTENDS Timestamps

CONSTANT MaxTime   \* bound on the times the clock shows

ASSUME MaxTimeAssumption == MaxTime \in 0 .. (TimeWrap - 1)

VARIABLE now       \* simulated_time_, or the steady clock

ClockTypeOK == now \in 0 .. MaxTime

ClockInit == now = 0

advance(delta) == now' = (now + delta) % TimeWrap /\ now' <= MaxTime

set_time(ts) == now' = ts

reset == now' = 0
===============================================================================
