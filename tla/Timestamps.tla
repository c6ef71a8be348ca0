------------------------------ MODULE Timestamps ------------------------------
(* Timestamps are uint64 nanoseconds (src/common/types.hpp).               *)
EXTENDS Integers

CONSTANT TimeWrap   \* stands for 2^64

ASSUME TimeWrapAssumption == TimeWrap \in Nat \ {0}

(* The difference of two timestamps, as unsigned integers have it: huge if *)
(* the later one is the smaller.                                           *)
Age(later, earlier) == (later - earlier) % TimeWrap
===============================================================================
