------------------------------- MODULE Telemetry ------------------------------
(***************************************************************************)
(* src/metrics/telemetry: latency histograms, named timers and averages.   *)
(*                                                                         *)
(* Several threads use the timers, which a mutex protects, and the         *)
(* averages, which are pairs of atomics.  The histograms are plain: the    *)
(* ones that timers record to are written under the mutex only, the others *)
(* by one thread, and one thread at a time calls reset, which excludes     *)
(* both.  Any other use of a histogram is a data race.  Records of ratios  *)
(* need no such care and may come at any time, between the stores of reset *)
(* too; a thread's additions and stores are taken in the order of its      *)
(* program.  The counters that one fetch_add updates and nothing reads     *)
(* together are left out.                                                  *)
(***************************************************************************)
EXTENDS LatencyHistogram, Clock

CONSTANTS
  Threads,
  TimerNames,      \* names of timers, each the set of the words it contains
  DirectSamples,   \* latencies recorded directly
  Ratios,          \* fill probabilities or slippages recorded, scaled
  MaxCalls         \* bound on the calls recorded since the last reset

ASSUME NamesAssumption == \A n \in TimerNames : n \subseteq {"e2e", "match", "md", "x"}
ASSUME SamplesAssumption == DirectSamples \subseteq Int64Min .. Int64Max /\ Ratios \subseteq Int
ASSUME SpanAssumption == MaxTime <= Int64Max   \* a difference of times is a sample
ASSUME MaxCallsAssumption == MaxCalls \in Nat

VARIABLES
  histograms,      \* e2e_latency_, matching_latency_, md_latency_, fix_in_latency_
  active_timers,   \* active_timers_
  pair,            \* fill_prob_sum_, fill_prob_count_ (slippage alike)
  calls,           \* what each thread has done of a call in progress
  samples,         \* history: the samples of each histogram since reset, sorted
  begun,           \* history: starts of timers of each histogram since reset, of
                   \* those that were not replaced by another start
  resetting,       \* reset has cleared the sum, and not yet the count
  added,           \* history: the ratios added since the sum was cleared
  torn             \* history: a reset since then was torn apart by a record

resetState == <<resetting, torn>>
telemetryState == <<histograms, active_timers, pair, calls, samples, begun, added, resetState>>
telemetryVars == <<now, telemetryState>>

TimedHistograms == {"e2e", "match", "md"}
DirectHistogram == "fix_in"
HistogramNames == TimedHistograms \cup {DirectHistogram}

Idle == [kind |-> "idle"]
Calls == {Idle} \cup [kind : {"ratio"}, stale : BOOLEAN]
                \cup [kind : {"end"}, name : TimerNames, at : 0 .. MaxTime]

TelemetryTypeOK ==
  /\ ClockTypeOK
  /\ \A x \in HistogramNames : histograms[x].total = Len(samples[x])
  /\ DOMAIN active_timers \subseteq TimerNames
  /\ \A n \in DOMAIN active_timers : active_timers[n] \in 0 .. MaxTime
  /\ pair \in [sum : Int, count : Nat]
  /\ calls \in [Threads -> Calls]
  /\ resetting \in BOOLEAN

TelemetryInit ==
  /\ ClockInit
  /\ histograms = [x \in HistogramNames |-> EmptyHistogram]
  /\ active_timers = [n \in {} |-> 0]
  /\ pair = [sum |-> 0, count |-> 0]
  /\ calls = [t \in Threads |-> Idle]
  /\ samples = [x \in HistogramNames |-> <<>>]
  /\ begun = [x \in TimedHistograms |-> 0]
  /\ added = <<>>
  /\ resetting = FALSE /\ torn = FALSE

-------------------------------------------------------------------------------
(* Histograms.                                                             *)

Sorted(s, x) == InsertAt(s, Quantify(DOMAIN s, LAMBDA k : s[k] <= x) + 1, x)

Recorded(x, ns) ==
  /\ histograms' = [histograms EXCEPT ![x] = record(@, ns)]
  /\ samples' = [samples EXCEPT ![x] = Sorted(@, ns)]

MayRecord ==
  Len(samples[DirectHistogram]) + SumFunction(begun) + Len(added) < MaxCalls

(* record_fix_inbound_latency and the other direct calls.                  *)
record_latency(ns) ==
  /\ MayRecord
  /\ Recorded(DirectHistogram, ns)
  /\ UNCHANGED <<now, active_timers, pair, calls, begun, added, resetState>>

-------------------------------------------------------------------------------
(* Timers.                                                                 *)

(* The first of the words that the name contains; NoRoute if none.         *)
NoRoute == "none"
Route(name) ==
  IF "e2e" \in name THEN "e2e"
  ELSE IF "match" \in name THEN "match"
  ELSE IF "md" \in name THEN "md"
  ELSE NoRoute

(* The clock is read under the lock; a running timer of the name is        *)
(* replaced.                                                               *)
start_timer(n) ==
  /\ MayRecord
  /\ active_timers' = [m \in DOMAIN active_timers \cup {n} |->
                         IF m = n THEN now ELSE active_timers[m]]
  /\ begun' = IF n \in DOMAIN active_timers \/ Route(n) = NoRoute THEN begun
              ELSE [begun EXCEPT ![Route(n)] = @ + 1]
  /\ UNCHANGED <<now, histograms, pair, calls, samples, added, resetState>>

(* end_timer reads the clock before it takes the lock: another thread may  *)
(* end the timer, or start it again, in between.                           *)
EndRead(t, n) ==
  /\ calls[t] = Idle
  /\ calls' = [calls EXCEPT ![t] = [kind |-> "end", name |-> n, at |-> now]]
  /\ UNCHANGED <<now, histograms, active_timers, pair, samples, begun, added, resetState>>

(* Fault: the timer stays active.                                          *)
StoppedKept(n) == active_timers

Stopped(n) == [m \in DOMAIN active_timers \ {n} |-> active_timers[m]]

EndLocked(t) ==
  /\ calls[t].kind = "end"
  /\ LET n == calls[t].name
     IN  /\ active_timers' = Stopped(n)
         /\ IF n \in DOMAIN active_timers /\ Route(n) # NoRoute
            THEN Recorded(Route(n), calls[t].at - active_timers[n])
            ELSE UNCHANGED <<histograms, samples>>
  /\ calls' = [calls EXCEPT ![t] = Idle]
  /\ UNCHANGED <<now, pair, begun, added, resetState>>

-------------------------------------------------------------------------------
(* record_fill_probability and record_slippage: two atomic additions.      *)
(* "stale": the sum was cleared since this call added to it.               *)

AddSum(t, v) ==
  /\ calls[t] = Idle /\ MayRecord
  /\ pair' = [pair EXCEPT !.sum = @ + v]
  /\ added' = Append(added, v)
  /\ calls' = [calls EXCEPT ![t] = [kind |-> "ratio", stale |-> FALSE]]
  /\ UNCHANGED <<now, histograms, active_timers, samples, begun, resetState>>

(* A call is counted on the same side of a reset as its ratio is added if  *)
(* it is stale while the count is still to be cleared, or neither.         *)
AddCount(t) ==
  /\ calls[t].kind = "ratio"
  /\ pair' = [pair EXCEPT !.count = @ + 1]
  /\ calls' = [calls EXCEPT ![t] = Idle]
  /\ torn' = (torn \/ calls[t].stale # resetting)
  /\ UNCHANGED <<now, histograms, active_timers, samples, begun, added, resetting>>

-------------------------------------------------------------------------------
(* reset leaves the timers running.  It clears the sum and the count of an *)
(* average by two stores, with the records of other threads in between.    *)

RecordsInProgress == {t \in Threads : calls[t].kind = "ratio"}
FreshRecords == {t \in RecordsInProgress : ~calls[t].stale}

ResetSum ==
  /\ ~resetting /\ resetting' = TRUE
  /\ histograms' = [x \in HistogramNames |-> EmptyHistogram]
  /\ pair' = [pair EXCEPT !.sum = 0]
  /\ samples' = [x \in HistogramNames |-> <<>>]
  /\ begun' = [x \in TimedHistograms |->
                 Quantify(DOMAIN active_timers, LAMBDA n : Route(n) = x)]
  /\ added' = <<>> /\ torn' = FALSE
  /\ calls' = [t \in Threads |-> IF t \in RecordsInProgress
                                 THEN [kind |-> "ratio", stale |-> TRUE] ELSE calls[t]]
  /\ UNCHANGED <<now, active_timers>>

(* Fault: the number of ratios is not reset.                               *)
CountKept == pair

CountCleared == [pair EXCEPT !.count = 0]

ResetCount ==
  /\ resetting /\ resetting' = FALSE
  /\ pair' = CountCleared
  /\ UNCHANGED <<now, histograms, active_timers, calls, samples, begun, added, torn>>

TelemetryTimePasses == advance(1) /\ UNCHANGED telemetryState

TelemetryNext ==
  \/ \E ns \in DirectSamples : record_latency(ns)
  \/ \E n \in TimerNames : start_timer(n) \/ \E t \in Threads : EndRead(t, n)
  \/ \E t \in Threads : EndLocked(t) \/ AddCount(t) \/ \E v \in Ratios : AddSum(t, v)
  \/ ResetSum \/ ResetCount
  \/ TelemetryTimePasses

TelemetrySpec == TelemetryInit /\ [][TelemetryNext]_telemetryVars

-------------------------------------------------------------------------------
(* Properties.                                                             *)

(* The nearest-rank sample at fraction num / den, as far as the histogram  *)
(* can tell it: the middle of its bucket, the first one for negative       *)
(* samples and the last one for samples out of range.                      *)
NearestRank(s, num, den) ==
  LET r == Min({k \in 1 .. Len(s) : k * den >= num * Len(s)})
      inRange == Max({0, Min({s[r], MaxLatency - 1})})
  IN  inRange - (inRange % BucketWidth) + BucketWidth \div 2

(* stats of a histogram is what its samples say, late, negative and        *)
(* out-of-range ones included.                                             *)
StatsRight ==
  \A x \in HistogramNames :
    LET s == samples[x]
        h == histograms[x]
        total == SumFunction(s)
    IN  s # <<>> =>
          /\ h.min = s[1] /\ h.max = Last(s)
          /\ \A p \in {<<1, 2>>, <<9, 10>>, <<999, 1000>>} :
               percentile(h, p[1], p[2]) = NearestRank(s, p[1], p[2])
          /\ mean(h) * Len(s) - total \in (1 - Len(s)) .. (Len(s) - 1)

(* Every start of a timer that is not replaced is still running or was     *)
(* measured once: two threads that end one timer do not measure it twice,  *)
(* and none is lost.                                                       *)
EachStartMeasuredOnce ==
  \A x \in TimedHistograms :
    begun[x] = histograms[x].total + Quantify(DOMAIN active_timers, LAMBDA n : Route(n) = x)

(* Behind an average are the ratios of the calls since reset: all of them  *)
(* in the sum, and in the number, once reset is over, all but those still  *)
(* in progress.  Only a call whose two additions came on two sides of the  *)
(* stores of a reset puts the number off, and the next reset mends that.   *)
AverageInStep ==
  /\ pair.sum = SumFunction(added)
  /\ ~torn /\ ~resetting => pair.count = Len(added) - Cardinality(FreshRecords)

(* What threads hand to telemetry at the same time is counted once.        *)
CountedOnce == EachStartMeasuredOnce /\ AverageInStep
===============================================================================
