--------------------------- MODULE LatencyHistogram ---------------------------
(***************************************************************************)
(* src/metrics/latency_histogram: operators on a histogram value.  The sum *)
(* is a double in the code; it is exact below 2^53.                        *)
(***************************************************************************)
EXTENDS Integers, Sequences, SequencesExt, FiniteSetsExt, Functions

CONSTANTS
  NumBuckets, BucketWidth,
  Int64Max, Int64Min    \* ends of the range of a sample

ASSUME BucketsAssumption == NumBuckets \in Nat \ {0} /\ BucketWidth \in Nat \ {0}
ASSUME Int64Assumption == Int64Max \in Nat /\ Int64Min = -Int64Max - 1

MaxLatency == NumBuckets * BucketWidth
Buckets == 0 .. (NumBuckets - 1)

(* reset: the extremes of an empty histogram are the ends of int64.        *)
EmptyHistogram ==
  [buckets |-> [i \in Buckets |-> 0], total |-> 0, sum |-> 0,
   min |-> Int64Max, max |-> Int64Min]

(* Fault: the largest bucket is not the overflow bucket.                   *)
BucketOfUnclamped(ns) == IF ns < 0 THEN 0 ELSE (ns \div BucketWidth) % NumBuckets

BucketOf(ns) ==
  IF ns < 0 THEN 0 ELSE Min({ns \div BucketWidth, NumBuckets - 1})

record(h, ns) ==
  [buckets |-> [h.buckets EXCEPT ![BucketOf(ns)] = @ + 1],
   total |-> h.total + 1,
   sum |-> h.sum + ns,
   min |-> Min({h.min, ns}),
   max |-> Max({h.max, ns})]

(* The rank of the sample at fraction num / den: rounded up, at least 1.   *)
Rank(h, num, den) == Max({1, (h.total * num + den - 1) \div den})

Cumulative(h, i) == SumFunctionOnSet(h.buckets, 0 .. i)

(* The middle of the first bucket at which the cumulative count reaches    *)
(* the rank.                                                               *)
percentile(h, num, den) ==
  IF h.total = 0 THEN 0
  ELSE LET reached == {i \in Buckets : Cumulative(h, i) >= Rank(h, num, den)}
       IN  IF reached = {} THEN MaxLatency
           ELSE Min(reached) * BucketWidth + BucketWidth \div 2

(* Division of a double, then truncation towards zero.                     *)
mean(h) ==
  IF h.total = 0 THEN 0
  ELSE IF h.sum >= 0 THEN h.sum \div h.total
  ELSE -((-h.sum) \div h.total)
===============================================================================
