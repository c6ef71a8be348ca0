----------------------------- MODULE ServicesProofs ----------------------------
(***************************************************************************)
(* The six components of Services, for all values of their constants:      *)
(*   - telemetry: the statistics of a histogram are those of its samples,  *)
(*     and calls of several threads are counted once;                      *)
(*   - the trade engine: positions and profit follow from the fills;       *)
(*   - the scope timers: timers of different labels are independent;       *)
(*   - the simple order book: its index is sound and it trades as the L3   *)
(*     book does;                                                          *)
(*   - the latency model: a model seeded at rest replays;                  *)
(*   - all six: their types.                                               *)
(* Each has an inductive invariant that says how the state follows from    *)
(* the history: HistogramFits, PosFits, TimerInv, SimpleSound and TwinInv, *)
(* ReplaysSoFar.  A loop or a fold of the model is taken apart into its    *)
(* steps first, since its definition chooses a function over subsets.      *)
(***************************************************************************)
EXTENDS Services, L3BookLemmas, TLAPS

-------------------------------------------------------------------------------
(* Telemetry: types.                                                       *)

(* A set of functions' arguments that one more, or one less, belongs to.   *)
LEMMA OneMore ==
  ASSUME NEW S, IsFiniteSet(S), NEW x, NEW T, T = S \cup {x}
  PROVE  /\ IsFiniteSet(T) /\ Cardinality(S) \in Nat
         /\ Cardinality(T) = Cardinality(S) + (IF x \in S THEN 0 ELSE 1)
BY FS_AddElement, FS_CardinalityType

(* A set that loses one element, or an element it does not have.           *)
LEMMA OneLess ==
  ASSUME NEW S, IsFiniteSet(S), NEW x, NEW T, T = S \ {x}
  PROVE  /\ IsFiniteSet(T) /\ Cardinality(S) \in Nat /\ Cardinality(T) \in Nat
         /\ Cardinality(T) = Cardinality(S) - (IF x \in S THEN 1 ELSE 0)
BY FS_RemoveElement, FS_CardinalityType

TelemetryTyped ==
  /\ now \in 0 .. MaxTime
  /\ DOMAIN active_timers \subseteq TimerNames /\ IsFiniteSet(DOMAIN active_timers)
  /\ active_timers \in [DOMAIN active_timers -> 0 .. MaxTime]
  /\ pair \in [sum : Int, count : Nat]
  /\ calls \in [Threads -> Calls] /\ IsFiniteSet(FreshRecords)
  /\ begun \in [TimedHistograms -> Nat]
  /\ added \in Seq(Ratios)
  /\ torn \in BOOLEAN /\ resetting \in BOOLEAN

TimersOf(x) == {n \in DOMAIN active_timers : Route(n) = x}

(* The two properties in terms of cardinalities.                           *)
LEMMA CountedOnceIs ==
  /\ EachStartMeasuredOnce <=>
       \A x \in TimedHistograms : begun[x] = histograms[x].total + Cardinality(TimersOf(x))
BY DEF EachStartMeasuredOnce, Quantify, TimersOf

(* A name leads to one of the timed histograms or to none.                 *)
LEMMA Routes == \A n : Route(n) \in TimedHistograms \cup {NoRoute} /\ NoRoute \notin HistogramNames
BY DEF Route, NoRoute, TimedHistograms, HistogramNames, DirectHistogram

(* The active timers of a histogram can be counted.                        *)
LEMMA TimersFinite ==
  ASSUME TelemetryTyped, NEW x
  PROVE  IsFiniteSet(TimersOf(x)) /\ Cardinality(TimersOf(x)) \in Nat
BY FS_Subset, FS_CardinalityType DEF TelemetryTyped, TimersOf

(* The invariant of the types holds of a new telemetry.                    *)
LEMMA TelemetryTypedInit == TelemetryInit => TelemetryTyped
<1> SUFFICES ASSUME TelemetryInit PROVE TelemetryTyped
  OBVIOUS
<1> USE DEF TelemetryInit
<1>1. now \in 0 .. MaxTime
  BY MaxTimeAssumption, TimeWrapAssumption DEF ClockInit
<1>2. DOMAIN active_timers = {}
  OBVIOUS
<1>3. IsFiniteSet(DOMAIN active_timers)
  BY <1>2, FS_EmptySet
<1>4. active_timers \in [DOMAIN active_timers -> 0 .. MaxTime]
  BY <1>2
<1>5. calls \in [Threads -> Calls] /\ FreshRecords = {}
  BY DEF Calls, Idle, RecordsInProgress, FreshRecords
<1>6. IsFiniteSet(FreshRecords)
  BY <1>5, FS_EmptySet
<1>7. begun \in [TimedHistograms -> Nat] /\ torn \in BOOLEAN /\ resetting \in BOOLEAN
  OBVIOUS
<1>8. added \in Seq(Ratios)
  OBVIOUS
<1>9. pair \in [sum : Int, count : Nat]
  OBVIOUS
<1> QED BY <1>1, <1>2, <1>3, <1>4, <1>5, <1>6, <1>7, <1>9, <1>8 DEF TelemetryTyped

(* A record call that is half done, its ratio still in the sum.            *)
FreshRatio(c) == c.kind = "ratio" /\ ~c.stale

(* A call of a thread begins or ends.                                      *)
LEMMA CallChanges ==
  ASSUME TelemetryTyped, NEW t \in Threads, NEW c \in Calls, calls' = [calls EXCEPT ![t] = c]
  PROVE  /\ calls' \in [Threads -> Calls]
         /\ FreshRecords' = IF FreshRatio(c) THEN FreshRecords \cup {t} ELSE FreshRecords \ {t}
<1>1. calls \in [Threads -> Calls]
  BY DEF TelemetryTyped
<1>2. calls' \in [Threads -> Calls]
  BY <1>1
<1>3. \A u \in Threads : calls'[u] = IF u = t THEN c ELSE calls[u]
  BY <1>1
<1>4. /\ FreshRecords = {u \in Threads : FreshRatio(calls[u])}
      /\ FreshRecords' = {u \in Threads : FreshRatio(calls'[u])}
  BY DEF RecordsInProgress, FreshRecords, FreshRatio
<1> QED BY <1>2, <1>3, <1>4

(* How many record calls are half done, and not stale, after a call        *)
(* begins, goes on or ends.                                                *)
LEMMA CallChangesFinite ==
  ASSUME TelemetryTyped, NEW t \in Threads, NEW c \in Calls, calls' = [calls EXCEPT ![t] = c]
  PROVE  /\ calls' \in [Threads -> Calls] /\ IsFiniteSet(FreshRecords')
         /\ Cardinality(FreshRecords) \in Nat
         /\ Cardinality(FreshRecords') =
              Cardinality(FreshRecords)
                + (IF FreshRatio(c) THEN IF t \in FreshRecords THEN 0 ELSE 1
                   ELSE IF t \in FreshRecords THEN -1 ELSE 0)
<1> DEFINE S == FreshRecords
           T == FreshRecords'
<1>1. IsFiniteSet(S)
  BY DEF TelemetryTyped
<1>2. T = IF FreshRatio(c) THEN S \cup {t} ELSE S \ {t}
  BY CallChanges
<1>3. calls' \in [Threads -> Calls]
  BY CallChanges
<1> HIDE DEF S, T
<1>4. CASE FreshRatio(c)
  <2>1. T = S \cup {t}
    BY <1>2, <1>4
  <2>2. IsFiniteSet(T) /\ Cardinality(S) \in Nat
        /\ Cardinality(T) = Cardinality(S) + (IF t \in S THEN 0 ELSE 1)
    BY <1>1, <2>1, OneMore
  <2> QED BY <1>3, <1>4, <2>2 DEF S, T
<1>5. CASE ~FreshRatio(c)
  <2>1. T = S \ {t}
    BY <1>2, <1>5
  <2>2. IsFiniteSet(T) /\ Cardinality(S) \in Nat
        /\ Cardinality(T) = Cardinality(S) - (IF t \in S THEN 1 ELSE 0)
    BY <1>1, <2>1, OneLess
  <2> QED BY <1>3, <1>5, <2>2 DEF S, T
<1> QED BY <1>4, <1>5

(* The three states of a call.                                             *)
FreshCall == [kind |-> "ratio", stale |-> FALSE]
LEMMA CallKinds ==
  /\ Idle \in Calls /\ ~FreshRatio(Idle)
  /\ FreshCall \in Calls /\ FreshRatio(FreshCall)
  /\ \A n \in TimerNames, at \in 0 .. MaxTime :
       /\ [kind |-> "end", name |-> n, at |-> at] \in Calls
       /\ ~FreshRatio([kind |-> "end", name |-> n, at |-> at])
BY DEF Calls, Idle, FreshCall, FreshRatio

(* A timer is started, or stopped.                                         *)
LEMMA TimerStarted ==
  ASSUME TelemetryTyped, NEW n \in TimerNames, start_timer(n)
  PROVE  /\ DOMAIN active_timers' = DOMAIN active_timers \cup {n}
         /\ active_timers' \in [DOMAIN active_timers' -> 0 .. MaxTime]
         /\ IsFiniteSet(DOMAIN active_timers')
         /\ begun' \in [TimedHistograms -> Nat]
<1>1. active_timers' = [m \in DOMAIN active_timers \cup {n} |->
                          IF m = n THEN now ELSE active_timers[m]]
  BY DEF start_timer
<1>2. DOMAIN active_timers' = DOMAIN active_timers \cup {n}
  BY <1>1
<1>3. \A m \in DOMAIN active_timers : active_timers[m] \in 0 .. MaxTime
  BY DEF TelemetryTyped
<1>4. now \in 0 .. MaxTime
  BY DEF TelemetryTyped
<1>5. active_timers' \in [DOMAIN active_timers' -> 0 .. MaxTime]
  BY <1>1, <1>2, <1>3, <1>4
<1>6. IsFiniteSet(DOMAIN active_timers')
  BY <1>2, OneMore DEF TelemetryTyped
<1>7. begun' \in [TimedHistograms -> Nat]
  <2>1. begun \in [TimedHistograms -> Nat]
    BY DEF TelemetryTyped
  <2>2. begun' = begun \/ begun' = [begun EXCEPT ![Route(n)] = @ + 1]
    BY DEF start_timer
  <2> QED BY <2>1, <2>2
<1> QED BY <1>2, <1>5, <1>6, <1>7

(* A timer is removed from the map of active timers.                       *)
LEMMA TimerStopped ==
  ASSUME TelemetryTyped, NEW n, active_timers' = Stopped(n)
  PROVE  /\ DOMAIN active_timers' = DOMAIN active_timers \ {n}
         /\ active_timers' \in [DOMAIN active_timers' -> 0 .. MaxTime]
         /\ IsFiniteSet(DOMAIN active_timers')
<1>1. active_timers' = [m \in DOMAIN active_timers \ {n} |-> active_timers[m]]
  BY DEF Stopped
<1>2. DOMAIN active_timers' = DOMAIN active_timers \ {n}
  BY <1>1
<1>3. \A m \in DOMAIN active_timers : active_timers[m] \in 0 .. MaxTime
  BY DEF TelemetryTyped
<1>4. IsFiniteSet(DOMAIN active_timers')
  BY <1>2, OneLess DEF TelemetryTyped
<1> QED BY <1>1, <1>2, <1>3, <1>4

(* The first store of reset leaves every record call that is half done     *)
(* stale.                                                                  *)
LEMMA ResetMakesStale ==
  ASSUME TelemetryTyped, ResetSum
  PROVE  calls' \in [Threads -> Calls] /\ FreshRecords' = {}
<1> DEFINE c == [kind |-> "ratio", stale |-> TRUE]
<1>1. calls \in [Threads -> Calls]
  BY DEF TelemetryTyped
<1>2. calls' = [t \in Threads |-> IF t \in RecordsInProgress THEN c ELSE calls[t]]
  BY DEF ResetSum
<1>3. c \in Calls /\ c.stale
  BY DEF Calls
<1> HIDE DEF c
<1>4. calls' \in [Threads -> Calls]
  BY <1>1, <1>2, <1>3
<1>5. \A t \in Threads : ~(calls'[t].kind = "ratio" /\ ~calls'[t].stale)
  BY <1>2, <1>3 DEF RecordsInProgress
<1>6. FreshRecords' = {}
  BY <1>5 DEF FreshRecords, RecordsInProgress
<1> QED BY <1>4, <1>6

(* Every step keeps the types.                                             *)
LEMMA TelemetryTypedStep == TelemetryTyped /\ [TelemetryNext]_telemetryVars => TelemetryTyped'
<1> SUFFICES ASSUME TelemetryTyped, [TelemetryNext]_telemetryVars
             PROVE  TelemetryTyped'
  OBVIOUS
<1> DEFINE TimersTyped ==
             /\ DOMAIN active_timers \subseteq TimerNames /\ IsFiniteSet(DOMAIN active_timers)
             /\ active_timers \in [DOMAIN active_timers -> 0 .. MaxTime]
           CallsTyped == calls \in [Threads -> Calls] /\ IsFiniteSet(FreshRecords)
           RatiosTyped == /\ pair \in [sum : Int, count : Nat]
                          /\ added \in Seq(Ratios)
                          /\ torn \in BOOLEAN /\ resetting \in BOOLEAN
           BegunTyped == begun \in [TimedHistograms -> Nat]
           TimeTyped == now \in 0 .. MaxTime
<1>1. /\ TimersTyped /\ CallsTyped /\ RatiosTyped /\ BegunTyped /\ TimeTyped
      /\ (TimersTyped /\ CallsTyped /\ RatiosTyped /\ BegunTyped /\ TimeTyped)'
           => TelemetryTyped'
  BY DEF TelemetryTyped
<1>2. /\ UNCHANGED now => TimeTyped'
      /\ UNCHANGED active_timers => TimersTyped'
      /\ UNCHANGED calls => CallsTyped'
      /\ UNCHANGED <<pair, added, resetState>> => RatiosTyped'
      /\ UNCHANGED begun => BegunTyped'
  BY <1>1 DEF RecordsInProgress, FreshRecords, resetState
<1>3. ASSUME NEW t \in Threads, NEW c \in Calls, calls' = [calls EXCEPT ![t] = c]
      PROVE  CallsTyped'
  BY <1>3, CallChangesFinite
<1>4. /\ Idle \in Calls /\ FreshCall \in Calls
      /\ \A n \in TimerNames, at \in 0 .. MaxTime : [kind |-> "end", name |-> n, at |-> at] \in Calls
  BY CallKinds
<1>5. /\ pair \in [sum : Int, count : Nat] /\ added \in Seq(Ratios)
      /\ torn \in BOOLEAN /\ resetting \in BOOLEAN /\ now \in 0 .. MaxTime
  BY DEF TelemetryTyped
<1>6. Ratios \subseteq Int
  BY SamplesAssumption
<1>7. ASSUME NEW ns \in DirectSamples, record_latency(ns) PROVE TelemetryTyped'
  <2>1. UNCHANGED <<now, active_timers, pair, calls, begun, added, resetState>>
    BY <1>7 DEF record_latency
  <2> HIDE DEF TimersTyped, CallsTyped, RatiosTyped, BegunTyped, TimeTyped
  <2> QED BY <1>1, <1>2, <2>1
<1>8. ASSUME NEW n \in TimerNames, start_timer(n) PROVE TelemetryTyped'
  <2>1. UNCHANGED <<now, pair, calls, added, resetState>>
    BY <1>8 DEF start_timer
  <2>2. /\ DOMAIN active_timers' = DOMAIN active_timers \cup {n}
        /\ active_timers' \in [DOMAIN active_timers' -> 0 .. MaxTime]
        /\ IsFiniteSet(DOMAIN active_timers')
        /\ begun' \in [TimedHistograms -> Nat]
    BY <1>8, TimerStarted
  <2>3. TimersTyped' /\ BegunTyped'
    BY <1>1, <2>2
  <2> HIDE DEF TimersTyped, CallsTyped, RatiosTyped, BegunTyped, TimeTyped
  <2> QED BY <1>1, <1>2, <2>1, <2>3
<1>9. ASSUME NEW n \in TimerNames, NEW t \in Threads, EndRead(t, n) PROVE TelemetryTyped'
  <2>1. UNCHANGED <<now, active_timers, pair, begun, added, resetState>>
    BY <1>9 DEF EndRead
  <2>2. calls' = [calls EXCEPT ![t] = [kind |-> "end", name |-> n, at |-> now]]
    BY <1>9 DEF EndRead
  <2>3. CallsTyped'
    BY <1>3, <1>4, <1>5, <2>2
  <2> HIDE DEF TimersTyped, CallsTyped, RatiosTyped, BegunTyped, TimeTyped
  <2> QED BY <1>1, <1>2, <2>1, <2>3
<1>10. ASSUME NEW t \in Threads, EndLocked(t) PROVE TelemetryTyped'
  <2>1. UNCHANGED <<now, pair, begun, added, resetState>> /\ active_timers' = Stopped(calls[t].name)
    BY <1>10 DEF EndLocked
  <2>2. calls' = [calls EXCEPT ![t] = Idle]
    BY <1>10 DEF EndLocked
  <2>3. CallsTyped'
    BY <1>3, <1>4, <2>2
  <2>4. TimersTyped'
    BY <1>1, <2>1, TimerStopped
  <2> HIDE DEF TimersTyped, CallsTyped, RatiosTyped, BegunTyped, TimeTyped
  <2> QED BY <1>1, <1>2, <2>1, <2>3, <2>4
<1>11. ASSUME NEW t \in Threads, AddCount(t) PROVE TelemetryTyped'
  <2>1. /\ UNCHANGED <<now, active_timers, begun, added, resetting>> /\ torn' \in BOOLEAN
        /\ pair' = [pair EXCEPT !.count = @ + 1]
    BY <1>5, <1>11 DEF AddCount
  <2>2. calls' = [calls EXCEPT ![t] = Idle]
    BY <1>11 DEF AddCount
  <2>3. CallsTyped'
    BY <1>3, <1>4, <2>2
  <2>4. RatiosTyped'
    BY <1>5, <2>1
  <2> HIDE DEF TimersTyped, CallsTyped, RatiosTyped, BegunTyped, TimeTyped
  <2> QED BY <1>1, <1>2, <2>1, <2>3, <2>4
<1>12. ASSUME NEW t \in Threads, NEW v \in Ratios, AddSum(t, v) PROVE TelemetryTyped'
  <2>1. /\ UNCHANGED <<now, active_timers, begun, torn, resetting>>
        /\ pair' = [pair EXCEPT !.sum = @ + v] /\ added' = Append(added, v)
    BY <1>12 DEF AddSum, resetState
  <2>2. calls' = [calls EXCEPT ![t] = FreshCall]
    BY <1>12 DEF AddSum, FreshCall
  <2>3. CallsTyped'
    BY <1>3, <1>4, <2>2
  <2>4. v \in Int /\ added' \in Seq(Ratios)
    BY <1>5, <1>6, <2>1
  <2>5. pair' \in [sum : Int, count : Nat]
    BY <1>5, <2>1, <2>4
  <2>6. RatiosTyped'
    BY <1>5, <2>1, <2>4, <2>5
  <2> HIDE DEF TimersTyped, CallsTyped, RatiosTyped, BegunTyped, TimeTyped
  <2> QED BY <1>1, <1>2, <2>1, <2>3, <2>6
<1>13. ASSUME ResetSum PROVE TelemetryTyped'
  <2>1. /\ UNCHANGED <<now, active_timers>> /\ pair' = [pair EXCEPT !.sum = 0] /\ added' = <<>>
        /\ torn' = FALSE /\ resetting' = TRUE
        /\ begun' = [x \in TimedHistograms |-> Cardinality(TimersOf(x))]
    BY <1>13 DEF ResetSum, Quantify, TimersOf
  <2>2. pair' \in [sum : Int, count : Nat]
    BY <1>5, <2>1
  <2>3. added' \in Seq(Ratios)
    BY <2>1
  <2>4. CallsTyped'
    <3>1. calls' \in [Threads -> Calls] /\ FreshRecords' = {}
      BY <1>13, ResetMakesStale
    <3> QED BY <3>1, FS_EmptySet
  <2>5. BegunTyped'
    BY <2>1, TimersFinite
  <2>6. RatiosTyped'
    BY <2>1, <2>2, <2>3
  <2> HIDE DEF TimersTyped, CallsTyped, RatiosTyped, BegunTyped, TimeTyped
  <2> QED BY <1>1, <1>2, <2>1, <2>4, <2>5, <2>6
<1>14. ASSUME ResetCount PROVE TelemetryTyped'
  <2>1. /\ UNCHANGED <<now, active_timers, calls, begun, added, torn>>
        /\ pair' = [pair EXCEPT !.count = 0] /\ resetting' = FALSE
    BY <1>14 DEF ResetCount, CountCleared
  <2>2. pair' \in [sum : Int, count : Nat]
    BY <1>5, <2>1
  <2>3. RatiosTyped'
    BY <1>5, <2>1, <2>2
  <2> HIDE DEF TimersTyped, CallsTyped, RatiosTyped, BegunTyped, TimeTyped
  <2> QED BY <1>1, <1>2, <2>1, <2>3
<1>15. ASSUME TelemetryTimePasses PROVE TelemetryTyped'
  <2>1. UNCHANGED <<active_timers, pair, calls, begun, added, resetState>> /\ advance(1)
    BY <1>15 DEF TelemetryTimePasses, telemetryState
  <2>2. (now + 1) % TimeWrap \in 0 .. (TimeWrap - 1)
    BY <1>5, TimeWrapAssumption, DivMod
  <2>3. TimeTyped'
    BY <2>1, <2>2, MaxTimeAssumption, TimeWrapAssumption DEF advance
  <2> HIDE DEF TimersTyped, CallsTyped, RatiosTyped, BegunTyped, TimeTyped
  <2> QED BY <1>1, <1>2, <2>1, <2>3
<1>16. CASE UNCHANGED telemetryVars
  <2>1. UNCHANGED <<now, active_timers, pair, calls, begun, added, resetState>>
    BY <1>16 DEF telemetryVars, telemetryState
  <2> HIDE DEF TimersTyped, CallsTyped, RatiosTyped, BegunTyped, TimeTyped
  <2> QED BY <1>1, <1>2, <2>1
<1> HIDE DEF TimersTyped, CallsTyped, RatiosTyped, BegunTyped, TimeTyped
<1> QED
  BY <1>7, <1>8, <1>9, <1>10, <1>11, <1>12, <1>13, <1>14, <1>15, <1>16 DEF TelemetryNext

-------------------------------------------------------------------------------
(* Sums and sorted lists.                                                  *)

(* e is f with y put in after place p.                                     *)
Grown(e, f, n, p, y) ==
  \A k \in 1 .. n + 1 : e[k] = IF k <= p THEN f[k] ELSE IF k = p + 1 THEN y ELSE f[k - 1]

(* A term put in anywhere adds itself to a sum.                            *)
LEMMA SumInserted ==
  ASSUME NEW n \in Nat, NEW p \in 0 .. n, NEW y \in Int, NEW f, NEW e,
         \A k \in 1 .. n : f[k] \in Int, Grown(e, f, n, p, y)
  PROVE  SumFunctionOnSet(e, 1 .. (n + 1)) = SumFunctionOnSet(f, 1 .. n) + y
<1> DEFINE P == {m \in Nat : p + m <= n =>
                   SumFunctionOnSet(e, 1 .. ((p + m) + 1)) = SumFunctionOnSet(f, 1 .. (p + m)) + y}
<1> USE DEF Grown
<1>1. \A k \in 1 .. n + 1 : e[k] \in Int
  <2> TAKE k \in 1 .. n + 1
  <2>1. k <= p => f[k] \in Int
    OBVIOUS
  <2>2. ~(k <= p) /\ k # p + 1 => k - 1 \in 1 .. n
    OBVIOUS
  <2> QED BY <2>1, <2>2
<1>2. \A m \in 0 .. n : SumFunctionOnSet(f, 1 .. m) \in Int
  <2> TAKE m \in 0 .. n
  <2>1. IsFiniteSet(1 .. m)
    BY FS_Interval
  <2>2. \A k \in 1 .. m : f[k] \in Int
    OBVIOUS
  <2> QED BY <2>1, <2>2, SumRecursion
<1>3. \A m \in 0 .. n : SumFunctionOnSet(e, 1 .. (m + 1)) = e[m + 1] + SumFunctionOnSet(e, 1 .. m)
  <2> TAKE m \in 0 .. n
  <2>1. \A k \in 1 .. (m + 1) : e[k] \in Int
    BY <1>1
  <2> QED BY <2>1, SumEnds
<1>4. SumFunctionOnSet(e, 1 .. p) = SumFunctionOnSet(f, 1 .. p)
  <2>1. IsFiniteSet(1 .. p)
    BY FS_Interval
  <2>2. \A k \in 1 .. p : e[k] = f[k] /\ e[k] \in Int
    OBVIOUS
  <2> QED BY <2>1, <2>2, SumSame
<1>5. 0 \in P
  <2>1. e[p + 1] = y
    OBVIOUS
  <2>2. SumFunctionOnSet(e, 1 .. (p + 1)) = y + SumFunctionOnSet(f, 1 .. p)
    BY <1>3, <1>4, <2>1
  <2> QED BY <1>2, <2>2
<1>6. ASSUME NEW m \in P PROVE m + 1 \in P
  <2> SUFFICES ASSUME p + (m + 1) <= n
               PROVE  SumFunctionOnSet(e, 1 .. ((p + (m + 1)) + 1))
                        = SumFunctionOnSet(f, 1 .. (p + (m + 1))) + y
    OBVIOUS
  <2>1. PICK k \in 0 .. n : k = p + m /\ k + 1 <= n /\ p + (m + 1) = k + 1
    OBVIOUS
  <2>2. SumFunctionOnSet(e, 1 .. (k + 1)) = SumFunctionOnSet(f, 1 .. k) + y
    BY <2>1
  <2>3. e[(k + 1) + 1] = f[k + 1] /\ f[k + 1] \in Int
    BY <2>1
  <2>4. SumFunctionOnSet(e, 1 .. ((k + 1) + 1)) = e[(k + 1) + 1] + SumFunctionOnSet(e, 1 .. (k + 1))
    BY <1>3, <2>1
  <2>5. SumFunctionOnSet(f, 1 .. (k + 1)) = f[k + 1] + SumFunctionOnSet(f, 1 .. k)
    <3>1. \A j \in 1 .. (k + 1) : f[j] \in Int
      BY <2>1
    <3> QED BY <3>1, SumEnds
  <2>6. SumFunctionOnSet(f, 1 .. k) \in Int
    BY <1>2
  <2> HIDE DEF P
  <2> QED BY <2>1, <2>2, <2>3, <2>4, <2>5, <2>6
<1>7. P \in SUBSET Nat
  OBVIOUS
<1> HIDE DEF P
<1>8. P = Nat
  BY <1>5, <1>6, <1>7, SetInduction
<1>9. n - p \in P /\ p + (n - p) = n
  BY <1>8
<1> QED BY <1>9 DEF P

SortedSeq(s) == \A i, j \in 1 .. Len(s) : i <= j => s[i] <= s[j]

(* In a sorted list the elements up to x come first.                       *)
LEMMA PlaceInSorted ==
  ASSUME NEW s \in Seq(Int), SortedSeq(s), NEW x \in Int
  PROVE  \E p \in 0 .. Len(s) : /\ \A k \in 1 .. Len(s) : s[k] <= x <=> k <= p
                                /\ Quantify(DOMAIN s, LAMBDA k : s[k] <= x) = p
<1>1. PICK n \in Nat : n = Len(s) /\ DOMAIN s = 1 .. n /\ \A k \in 1 .. n : s[k] \in Int
  BY LenProperties, ElementOfSeq
<1> DEFINE S == {k \in DOMAIN s : s[k] <= x}
<1>2. S \in SUBSET Int /\ S \subseteq 1 .. n /\ IsFiniteSet(S)
  <2>1. IsFiniteSet(1 .. n)
    BY FS_Interval
  <2> QED BY <1>1, <2>1, FS_Subset
<1>3. PICK p \in 0 .. n : S = 1 .. p
  <2>1. CASE S = {}
    <3>1. S = 1 .. 0 /\ 0 \in 0 .. n
      BY <2>1
    <3> HIDE DEF S
    <3> QED BY <3>1
  <2>2. CASE S # {}
    <3>1. Max(S) \in S /\ \A y \in S : y <= Max(S)
      BY <1>2, <2>2, Extremes
    <3>2. PICK p \in 1 .. n : p \in S /\ \A y \in S : y <= p
      BY <1>2, <3>1
    <3>3. ASSUME NEW k \in 1 .. p PROVE k \in S
      <4>1. s[k] <= s[p] /\ s[p] <= x /\ s[k] \in Int /\ s[p] \in Int
        BY <1>1, <3>2 DEF SortedSeq
      <4> QED BY <1>1, <4>1
    <3>4. S = 1 .. p
      <4> HIDE DEF S
      <4>1. ASSUME NEW y \in S PROVE y \in 1 .. p
        BY <1>2, <3>2
      <4> QED BY <3>3, <4>1
    <3> QED BY <3>4
  <2> QED BY <2>1, <2>2
<1>4. Cardinality(S) = p
  <2>1. Cardinality(1 .. p) = IF 1 > p THEN 0 ELSE (p - 1) + 1
    BY FS_Interval
  <2>2. (IF 1 > p THEN 0 ELSE (p - 1) + 1) = p
    BY <1>3
  <2> QED BY <1>3, <2>1, <2>2
<1>5. Quantify(DOMAIN s, LAMBDA k : s[k] <= x) = p
  BY <1>4 DEF Quantify
<1>6. \A k \in 1 .. n : s[k] <= x <=> k <= p
  BY <1>1, <1>3
<1> QED BY <1>1, <1>5, <1>6

(* What Sorted makes of a sorted list.                                     *)
Inserts(t, s, p, x) == Len(t) = Len(s) + 1 /\ Grown(t, s, Len(s), p, x)

(* InsertAt of the library puts one element in.                            *)
LEMMA InsertAtInserts ==
  ASSUME NEW R, NEW s \in Seq(R), NEW p \in 0 .. Len(s), NEW x \in R
  PROVE  InsertAt(s, p + 1, x) \in Seq(R) /\ Inserts(InsertAt(s, p + 1, x), s, p, x)
<1> DEFINE n == Len(s)
           u == SubSeq(s, 1, p)
           v == SubSeq(s, p + 1, n)
           w == u \o <<x>>
<1>1. n \in Nat /\ p \in Int /\ 0 <= p /\ p <= n /\ \A k \in 1 .. n : s[k] \in R
  BY LenProperties, ElementOfSeq
<1>2. u \in Seq(R) /\ Len(u) = p /\ \A i \in 1 .. p : u[i] = s[i]
  <2>1. \A i \in 1 .. p : s[i] \in R
    BY <1>1
  <2>2. 1 <= p \/ p = 0
    BY <1>1
  <2> QED BY <1>1, <2>1, <2>2, SubSeqProperties
<1>3. v \in Seq(R) /\ Len(v) = n - p /\ \A i \in 1 .. n - p : v[i] = s[i + p]
  <2>1. \A i \in p + 1 .. n : s[i] \in R
    BY <1>1
  <2>2. p + 1 <= n \/ p = n
    BY <1>1
  <2> QED BY <1>1, <2>1, <2>2, SubSeqProperties
<1>4. w \in Seq(R) /\ Len(w) = p + 1 /\ \A i \in 1 .. p + 1 : w[i] = IF i <= p THEN u[i] ELSE x
  <2> DEFINE e == <<x>>
  <2>1. e \in Seq(R) /\ Len(e) = 1 /\ e[1] = x
    OBVIOUS
  <2> HIDE DEF u, e
  <2>2. u \o e \in Seq(R) /\ Len(u \o e) = Len(u) + Len(e)
        /\ \A i \in 1 .. Len(u) + Len(e) : (u \o e)[i] = IF i <= Len(u) THEN u[i] ELSE e[i - Len(u)]
    BY <1>2, <2>1, ConcatProperties
  <2>3. Len(u) = p /\ Len(e) = 1
    BY <1>2, <2>1
  <2>4. \A i \in 1 .. p + 1 : ~(i <= p) => i - p = 1
    BY <1>1
  <2>5. u \o e \in Seq(R) /\ Len(u \o e) = p + 1
        /\ \A i \in 1 .. p + 1 : (u \o e)[i] = IF i <= p THEN u[i] ELSE e[i - p]
    BY <2>2, <2>3
  <2>6. \A i \in 1 .. p + 1 : (u \o e)[i] = IF i <= p THEN u[i] ELSE x
    BY <2>1, <2>4, <2>5
  <2> QED BY <2>5, <2>6 DEF e
<1>5. InsertAt(s, p + 1, x) = w \o v
  <2>1. (p + 1) - 1 = p
    BY <1>1
  <2> QED BY <2>1 DEF InsertAt
<1> HIDE DEF n, u, v, w
<1>6. /\ w \o v \in Seq(R) /\ Len(w \o v) = n + 1
      /\ \A k \in 1 .. n + 1 : (w \o v)[k] = IF k <= p + 1 THEN w[k] ELSE v[k - (p + 1)]
  <2>1. (p + 1) + (n - p) = n + 1
    BY <1>1
  <2>2. /\ w \o v \in Seq(R) /\ Len(w \o v) = Len(w) + Len(v)
        /\ \A k \in 1 .. Len(w) + Len(v) :
             (w \o v)[k] = IF k <= Len(w) THEN w[k] ELSE v[k - Len(w)]
    BY <1>3, <1>4, ConcatProperties
  <2>3. Len(w) = p + 1 /\ Len(v) = n - p
    BY <1>3, <1>4
  <2> QED BY <2>1, <2>2, <2>3
<1>7. ASSUME NEW k \in 1 .. n + 1
      PROVE  (w \o v)[k] = IF k <= p THEN s[k] ELSE IF k = p + 1 THEN x ELSE s[k - 1]
  <2>1. CASE k <= p
    <3>1. k \in 1 .. p /\ k \in 1 .. p + 1 /\ k <= p + 1
      BY <1>1, <2>1
    <3> QED BY <1>2, <1>4, <1>6, <2>1, <3>1
  <2>2. CASE k = p + 1
    <3>1. ~(k <= p) /\ k \in 1 .. p + 1 /\ k <= p + 1
      BY <1>1, <2>2
    <3> QED BY <1>4, <1>6, <2>2, <3>1
  <2>3. CASE ~(k <= p) /\ k # p + 1
    <3>1. ~(k <= p + 1) /\ k - (p + 1) \in 1 .. n - p /\ (k - (p + 1)) + p = k - 1
      BY <1>1, <2>3
    <3> QED BY <1>3, <1>6, <2>3, <3>1
  <2> QED BY <2>1, <2>2, <2>3
<1>8. Len(s) = n
  BY DEF n
<1>9. Inserts(w \o v, s, p, x)
  BY <1>6, <1>7, <1>8 DEF Inserts, Grown
<1> QED BY <1>5, <1>6, <1>9

-------------------------------------------------------------------------------
(* Histograms and their samples.                                           *)

(* get_bucket_index stays within the buckets: what is below is in the      *)
(* first, what is above in the last.                                       *)
LEMMA BucketInRange ==
  ASSUME NEW x \in Int
  PROVE  /\ BucketOf(x) \in Buckets
         /\ x \div BucketWidth \in Int
         /\ BucketOf(x) = IF x < 0 THEN 0
                          ELSE IF x \div BucketWidth <= NumBuckets - 1 THEN x \div BucketWidth
                               ELSE NumBuckets - 1
<1>1. x \div BucketWidth \in Int
  BY BucketsAssumption, DivMod
<1>2. PICK d \in Int : d = x \div BucketWidth /\ (x >= 0 => d >= 0)
  <2>1. x % BucketWidth \in 0 .. (BucketWidth - 1)
        /\ x = (BucketWidth * (x \div BucketWidth)) + (x % BucketWidth)
    BY BucketsAssumption, DivMod
  <2>2. PICK q \in Int : q = x \div BucketWidth
    BY <1>1
  <2>3. PICK w \in Nat \ {0} : w = BucketWidth
    BY BucketsAssumption
  <2>4. PICK r \in 0 .. (w - 1) : x = (w * q) + r
    BY <2>1, <2>2, <2>3
  <2>5. PICK m \in Int : m = w * q
    OBVIOUS
  <2>6. q < 0 => m <= -w
    BY <2>5
  <2>7. x >= 0 => q >= 0
    BY <2>4, <2>5, <2>6
  <2> QED BY <2>2, <2>7
<1>3. NumBuckets \in Nat \ {0}
  BY BucketsAssumption
<1>4. Min({x \div BucketWidth, NumBuckets - 1})
        = IF d <= NumBuckets - 1 THEN d ELSE NumBuckets - 1
  BY <1>2, <1>3, MinMaxOfTwo
<1>5. BucketOf(x) = IF x < 0 THEN 0 ELSE IF d <= NumBuckets - 1 THEN d ELSE NumBuckets - 1
  BY <1>4 DEF BucketOf
<1> QED BY <1>1, <1>2, <1>3, <1>5 DEF Buckets

Samples == Int64Min .. Int64Max

UpTo(s, i) == [k \in 1 .. Len(s) |-> IF BucketOf(s[k]) <= i THEN 1 ELSE 0]

HistogramFits(h, s) ==
  /\ h.total = Len(s)
  /\ h.sum = SumFunctionOnSet(s, 1 .. Len(s))
  /\ SortedSeq(s)
  /\ h.min = IF Len(s) = 0 THEN Int64Max ELSE s[1]
  /\ h.max = IF Len(s) = 0 THEN Int64Min ELSE s[Len(s)]
  /\ h.buckets \in [Buckets -> Int]
  /\ \A i \in Buckets : Cumulative(h, i) = SumFunctionOnSet(UpTo(s, i), 1 .. Len(s))

(* A histogram without samples.                                            *)
LEMMA EmptyFits == HistogramFits(EmptyHistogram, <<>>)
<1> DEFINE h == EmptyHistogram
           s == <<>>
<1>1. Len(s) = 0 /\ 1 .. Len(s) = {}
  OBVIOUS
<1>2. SortedSeq(s)
  BY <1>1 DEF SortedSeq
<1>3. h.total = 0 /\ h.sum = 0 /\ h.min = Int64Max /\ h.max = Int64Min
      /\ h.buckets = [i \in Buckets |-> 0]
  BY DEF EmptyHistogram
<1>4. \A f : SumFunctionOnSet(f, {}) = 0
  BY SumRecursion, FS_EmptySet
<1>5. ASSUME NEW i \in Buckets PROVE Cumulative(h, i) = 0
  <2> DEFINE P == {j \in Nat : j <= NumBuckets => SumFunctionOnSet(h.buckets, 0 .. (j - 1)) = 0}
  <2>1. 0 \in P
    <3>1. 0 .. (0 - 1) = {}
      OBVIOUS
    <3> QED BY <1>4, <3>1
  <2>2. ASSUME NEW j \in P PROVE j + 1 \in P
    <3> SUFFICES ASSUME j + 1 <= NumBuckets PROVE SumFunctionOnSet(h.buckets, 0 .. ((j + 1) - 1)) = 0
      OBVIOUS
    <3>1. \A k \in 0 .. ((j - 1) + 1) : h.buckets[k] = 0
      BY <1>3, BucketsAssumption DEF Buckets
    <3>2. SumFunctionOnSet(h.buckets, 0 .. (j - 1)) = 0
      BY BucketsAssumption
    <3>3. j \in Nat
      OBVIOUS
    <3> HIDE DEF h, P
    <3>4. PICK m \in Int : m = j - 1 /\ 0 <= m + 1 /\ (j + 1) - 1 = m + 1
      BY <3>3
    <3>5. SumFunctionOnSet(h.buckets, 0 .. (m + 1)) = h.buckets[m + 1] + SumFunctionOnSet(h.buckets, 0 .. m)
      <4>1. \A k \in 0 .. (m + 1) : h.buckets[k] \in Int
        BY <3>1, <3>4
      <4> QED BY <3>4, <4>1, SumEnds
    <3> QED BY <3>1, <3>2, <3>4, <3>5
  <2>3. P \in SUBSET Nat
    OBVIOUS
  <2> HIDE DEF P
  <2>4. P = Nat
    BY <2>1, <2>2, <2>3, SetInduction
  <2>5. i \in Nat /\ i + 1 \in P /\ i + 1 <= NumBuckets /\ (i + 1) - 1 = i
    BY <2>4, BucketsAssumption DEF Buckets
  <2> QED BY <2>5 DEF P, Cumulative
<1>6. h.buckets \in [Buckets -> Int]
  BY <1>3
<1> HIDE DEF h, s
<1>7. \A i \in Buckets : Cumulative(h, i) = SumFunctionOnSet(UpTo(s, i), 1 .. Len(s))
  BY <1>1, <1>4, <1>5
<1>8. HistogramFits(h, s)
  BY <1>1, <1>2, <1>3, <1>4, <1>6, <1>7 DEF HistogramFits
<1> QED BY <1>8 DEF h, s

(* One more in a bucket counts in all buckets from there.                  *)
LEMMA CumulativeRecords ==
  ASSUME NEW h, h.buckets \in [Buckets -> Int], NEW x \in Int, NEW i \in Buckets
  PROVE  Cumulative(record(h, x), i) = Cumulative(h, i) + (IF BucketOf(x) <= i THEN 1 ELSE 0)
<1> DEFINE f == h.buckets
           e == [h.buckets EXCEPT ![BucketOf(x)] = @ + 1]
           S == 0 .. i
           j == BucketOf(x)
<1>1. i \in Nat /\ j \in Nat /\ S \subseteq Buckets /\ j \in Buckets /\ IsFiniteSet(S) /\ (j \in S <=> j <= i)
  <2>1. i \in Int /\ 0 \in Int
    BY BucketsAssumption DEF Buckets
  <2>2. IsFiniteSet(S)
    BY <2>1, FS_Interval
  <2>3. j \in Buckets
    BY BucketInRange
  <2> HIDE DEF j
  <2> QED BY <2>2, <2>3, BucketsAssumption DEF Buckets
<1>2. Cumulative(record(h, x), i) = SumFunctionOnSet(e, S) /\ Cumulative(h, i) = SumFunctionOnSet(f, S)
  BY DEF Cumulative, record
<1>3. \A k \in Buckets : f[k] \in Int /\ e[k] = IF k = j THEN f[k] + 1 ELSE f[k]
  OBVIOUS
<1> HIDE DEF f, e, S, j
<1>4. \A k \in S : f[k] \in Int /\ e[k] \in Int /\ (k # j => e[k] = f[k])
  BY <1>1, <1>3
<1>5. CASE ~(j <= i)
  <2>1. \A k \in S : e[k] = f[k] /\ e[k] \in Int
    BY <1>1, <1>4, <1>5
  <2>2. SumFunctionOnSet(e, S) = SumFunctionOnSet(f, S)
    BY <1>1, <2>1, SumSame
  <2>3. SumFunctionOnSet(f, S) \in Int
    <3>1. \A k \in S : f[k] \in Int
      BY <1>4
    <3> QED BY <1>1, <3>1, SumRecursion
  <2> QED BY <1>2, <1>5, <2>2, <2>3 DEF j
<1>6. CASE j <= i
  <2>1. j \in S
    BY <1>1, <1>6
  <2>2. \A k \in S : f[k] \in Int
    BY <1>4
  <2>3. \A k \in S : e[k] \in Int
    BY <1>4
  <2>4. SumFunctionOnSet(f, S) = f[j] + SumFunctionOnSet(f, S \ {j})
    BY <1>1, <2>1, <2>2, SumSplit
  <2>5. SumFunctionOnSet(e, S) = e[j] + SumFunctionOnSet(e, S \ {j})
    BY <1>1, <2>1, <2>3, SumSplit
  <2>6. IsFiniteSet(S \ {j})
    BY <1>1, FS_RemoveElement
  <2> DEFINE T == S \ {j}
  <2>7. \A k \in T : e[k] = f[k] /\ e[k] \in Int
    BY <1>4
  <2>8. IsFiniteSet(T) /\ SumFunctionOnSet(f, T) = SumFunctionOnSet(f, S \ {j})
    BY <2>6
  <2> HIDE DEF T
  <2>9. SumFunctionOnSet(e, T) = SumFunctionOnSet(f, T)
    BY <2>7, <2>8, SumSame
  <2>10. SumFunctionOnSet(e, T) \in Int
    <3>1. \A k \in T : e[k] \in Int
      BY <2>7
    <3> QED BY <2>8, <3>1, SumRecursion
  <2>11. e[j] = f[j] + 1 /\ f[j] \in Int
    BY <1>1, <1>3
  <2>12. PICK a \in Int, b \in Int : a = f[j] /\ b = SumFunctionOnSet(e, T)
    BY <2>10, <2>11
  <2>13. SumFunctionOnSet(f, S) = a + b
    BY <2>4, <2>9, <2>12 DEF T
  <2>14. SumFunctionOnSet(e, S) = (a + 1) + b
    BY <2>5, <2>11, <2>12 DEF T
  <2>15. (a + 1) + b = (a + b) + 1
    OBVIOUS
  <2> QED BY <1>2, <1>6, <2>13, <2>14, <2>15 DEF j
<1> QED BY <1>5, <1>6

(* Sorted puts a sample in after those that are not larger.                *)
LEMMA SortedInserts ==
  ASSUME NEW s \in Seq(Samples), SortedSeq(s), NEW x \in Samples
  PROVE  \E p \in 0 .. Len(s) : /\ \A k \in 1 .. Len(s) : s[k] <= x <=> k <= p
                                /\ Inserts(Sorted(s, x), s, p, x)
                                /\ Sorted(s, x) \in Seq(Samples)
<1>1. s \in Seq(Int) /\ x \in Int
  <2>1. Samples \subseteq Int
    BY Int64Assumption DEF Samples
  <2> QED BY <2>1, SeqMonotonic
<1>2. PICK p \in 0 .. Len(s) : /\ \A k \in 1 .. Len(s) : s[k] <= x <=> k <= p
                               /\ Quantify(DOMAIN s, LAMBDA k : s[k] <= x) = p
  BY <1>1, PlaceInSorted
<1>3. Sorted(s, x) = InsertAt(s, p + 1, x)
  BY <1>2 DEF Sorted
<1>4. InsertAt(s, p + 1, x) \in Seq(Samples) /\ Inserts(InsertAt(s, p + 1, x), s, p, x)
  BY InsertAtInserts
<1> QED BY <1>2, <1>3, <1>4

(* Recording a sample keeps the histogram in step with the samples.        *)
LEMMA RecordFits ==
  ASSUME NEW h, NEW s \in Seq(Samples), HistogramFits(h, s), NEW x \in Samples
  PROVE  /\ Sorted(s, x) \in Seq(Samples)
         /\ HistogramFits(record(h, x), Sorted(s, x))
<1> DEFINE t == Sorted(s, x)
<1>1. PICK n \in Nat : n = Len(s)
  BY LenProperties
<1>2. \A k \in 1 .. n : s[k] \in Int /\ Int64Min <= s[k] /\ s[k] <= Int64Max
  BY <1>1, ElementOfSeq, Int64Assumption DEF Samples
<1>3. x \in Int /\ Int64Min <= x /\ x <= Int64Max /\ Int64Min \in Int /\ Int64Max \in Int
  BY Int64Assumption DEF Samples
<1>4. SortedSeq(s)
  BY DEF HistogramFits
<1>5. PICK p \in 0 .. n : /\ \A k \in 1 .. n : s[k] <= x <=> k <= p
                          /\ Inserts(t, s, p, x) /\ t \in Seq(Samples)
  BY <1>1, <1>4, SortedInserts
<1> HIDE DEF t
<1>6. Len(t) = n + 1
      /\ \A k \in 1 .. n + 1 : t[k] = IF k <= p THEN s[k] ELSE IF k = p + 1 THEN x ELSE s[k - 1]
  BY <1>1, <1>5 DEF Inserts, Grown
<1>7. record(h, x).total = Len(t)
  BY <1>1, <1>6 DEF record, HistogramFits
<1>8. record(h, x).sum = SumFunctionOnSet(t, 1 .. Len(t))
  <2>1. \A k \in 1 .. n : s[k] \in Int
    BY <1>2
  <2>2. Grown(t, s, n, p, x)
    BY <1>1, <1>5 DEF Inserts
  <2>3. SumFunctionOnSet(t, 1 .. (n + 1)) = SumFunctionOnSet(s, 1 .. n) + x
    BY <1>3, <2>1, <2>2, SumInserted
  <2>4. record(h, x).sum = h.sum + x /\ h.sum = SumFunctionOnSet(s, 1 .. n)
    BY <1>1 DEF record, HistogramFits
  <2> QED BY <1>6, <2>3, <2>4
<1>9. \A i, j \in 1 .. n : i <= j => s[i] <= s[j]
  BY <1>1, <1>4 DEF SortedSeq
<1>10. SortedSeq(t)
  <2> SUFFICES ASSUME NEW i \in 1 .. n + 1, NEW j \in 1 .. n + 1, i <= j PROVE t[i] <= t[j]
    BY <1>6 DEF SortedSeq
  <2> DEFINE old(k) == IF k <= p THEN k ELSE k - 1
  <2>1. CASE i # p + 1 /\ j # p + 1
    <3>1. old(i) \in 1 .. n /\ old(j) \in 1 .. n /\ old(i) <= old(j)
      BY <2>1
    <3>2. t[i] = s[old(i)] /\ t[j] = s[old(j)]
      BY <1>6, <2>1
    <3> HIDE DEF old
    <3> QED BY <1>9, <3>1, <3>2
  <2>2. CASE i = p + 1 /\ j = p + 1
    BY <1>3, <1>6, <2>2
  <2>3. CASE i = p + 1 /\ j # p + 1
    <3>1. j - 1 \in 1 .. n /\ ~(j - 1 <= p) /\ t[j] = s[j - 1] /\ t[i] = x
      BY <1>6, <2>3
    <3> QED BY <1>2, <1>3, <1>5, <3>1
  <2>4. CASE i # p + 1 /\ j = p + 1
    <3>1. i \in 1 .. n /\ i <= p /\ t[i] = s[i] /\ t[j] = x
      BY <1>6, <2>4
    <3> QED BY <1>5, <3>1
  <2> QED BY <2>1, <2>2, <2>3, <2>4
<1>11. record(h, x).min = t[1]
  <2>1. record(h, x).min = Min({h.min, x})
    BY DEF record
  <2>2. h.min = (IF n = 0 THEN Int64Max ELSE s[1]) /\ h.min \in Int
    BY <1>1, <1>2, <1>3 DEF HistogramFits
  <2>3. Min({h.min, x}) = IF h.min <= x THEN h.min ELSE x
    BY <1>3, <2>2, MinMaxOfTwo
  <2>4. CASE n = 0
    BY <1>3, <1>6, <2>1, <2>2, <2>3, <2>4
  <2>5. CASE n # 0
    <3>1. 1 \in 1 .. n /\ 1 \in 1 .. n + 1 /\ h.min = s[1] /\ (1 <= p <=> s[1] <= x)
      BY <1>5, <2>2, <2>5
    <3>2. t[1] = IF 1 <= p THEN s[1] ELSE x
      BY <1>6, <3>1
    <3> QED BY <2>1, <2>3, <3>1, <3>2
  <2> QED BY <2>4, <2>5
<1>12. record(h, x).max = t[Len(t)]
  <2>1. record(h, x).max = Max({h.max, x})
    BY DEF record
  <2>2. h.max = (IF n = 0 THEN Int64Min ELSE s[n]) /\ h.max \in Int
    BY <1>1, <1>2, <1>3 DEF HistogramFits
  <2>3. Max({h.max, x}) = IF h.max >= x THEN h.max ELSE x
    BY <1>3, <2>2, MinMaxOfTwo
  <2>4. CASE n = 0
    BY <1>3, <1>6, <2>1, <2>2, <2>3, <2>4
  <2>5. CASE n # 0
    <3>1. n \in 1 .. n /\ n + 1 \in 1 .. n + 1 /\ h.max = s[n] /\ (n <= p <=> s[n] <= x)
      BY <1>5, <2>2, <2>5
    <3>2. t[n + 1] = IF n = p THEN x ELSE s[n]
      BY <1>6, <3>1
    <3>3. s[n] \in Int
      BY <1>2, <3>1
    <3>4. CASE n = p
      BY <1>3, <1>6, <2>1, <2>3, <3>1, <3>2, <3>3, <3>4
    <3>5. CASE n # p
      BY <1>3, <1>6, <2>1, <2>3, <3>1, <3>2, <3>3, <3>5
    <3> QED BY <3>4, <3>5
  <2> QED BY <2>4, <2>5
<1>13. h.buckets \in [Buckets -> Int]
  BY DEF HistogramFits
<1>14. record(h, x).buckets \in [Buckets -> Int]
  <2>1. record(h, x).buckets = [h.buckets EXCEPT ![BucketOf(x)] = @ + 1]
    BY DEF record
  <2>2. BucketOf(x) \in Buckets
    BY <1>3, BucketInRange
  <2> QED BY <1>13, <2>1, <2>2
<1>15. ASSUME NEW i \in Buckets
       PROVE  Cumulative(record(h, x), i) = SumFunctionOnSet(UpTo(t, i), 1 .. Len(t))
  <2> DEFINE f == UpTo(s, i)
             e == UpTo(t, i)
             y == IF BucketOf(x) <= i THEN 1 ELSE 0
  <2>1. /\ \A k \in 1 .. n : f[k] = IF BucketOf(s[k]) <= i THEN 1 ELSE 0
        /\ \A k \in 1 .. n + 1 : e[k] = IF BucketOf(t[k]) <= i THEN 1 ELSE 0
    BY <1>1, <1>6 DEF UpTo
  <2>2. y \in Int
    OBVIOUS
  <2>3. \A k \in 1 .. n : f[k] \in Int
    BY <2>1
  <2>4. ASSUME NEW k \in 1 .. n + 1
        PROVE  e[k] = IF k <= p THEN f[k] ELSE IF k = p + 1 THEN y ELSE f[k - 1]
    <3>1. CASE k <= p
      <4>1. k \in 1 .. n /\ t[k] = s[k]
        BY <1>6, <3>1
      <4> HIDE DEF e, f
      <4> QED BY <2>1, <3>1, <4>1
    <3>2. CASE k = p + 1
      <4>1. ~(k <= p) /\ t[k] = x
        BY <1>6, <3>2
      <4> HIDE DEF e, f
      <4> QED BY <2>1, <3>2, <4>1
    <3>3. CASE ~(k <= p) /\ k # p + 1
      <4>1. k - 1 \in 1 .. n /\ t[k] = s[k - 1]
        BY <1>6, <3>3
      <4> HIDE DEF e, f
      <4> QED BY <2>1, <3>3, <4>1
    <3> QED BY <3>1, <3>2, <3>3
  <2>5. Cumulative(record(h, x), i) = Cumulative(h, i) + y
    BY <1>3, <1>13, CumulativeRecords
  <2>6. Cumulative(h, i) = SumFunctionOnSet(f, 1 .. n)
    BY <1>1 DEF HistogramFits
  <2> HIDE DEF e, f, y
  <2>7. Grown(e, f, n, p, y)
    BY <2>4 DEF Grown
  <2>8. SumFunctionOnSet(e, 1 .. (n + 1)) = SumFunctionOnSet(f, 1 .. n) + y
    BY <2>2, <2>3, <2>7, SumInserted
  <2> QED BY <1>6, <2>5, <2>6, <2>8 DEF e
<1>16. Len(t) # 0
  BY <1>6
<1> QED BY <1>5, <1>7, <1>8, <1>10, <1>11, <1>12, <1>14, <1>15, <1>16 DEF t, HistogramFits

-------------------------------------------------------------------------------
(* Ranks and percentiles.                                                  *)

(* Multiplication by a natural number keeps an order.                      *)
LEMMA MulMono ==
  ASSUME NEW m \in Nat, NEW a \in Int, NEW b \in Int, a <= b
  PROVE  m * a <= m * b
<1>1. PICK d \in Nat : b = a + d
  <2>1. b - a \in Nat /\ b = a + (b - a)
    OBVIOUS
  <2> QED BY <2>1
<1>2. m * b = (m * a) + (m * d)
  BY <1>1, MulDist
<1>3. m * d \in Nat /\ m * a \in Int
  BY SMT
<1> QED BY <1>2, <1>3

(* The rank is the least k with k / n at the fraction or above.            *)
LEMMA RankIs ==
  ASSUME NEW n \in Nat \ {0}, NEW num \in Nat \ {0}, NEW den \in Nat \ {0}, num <= den
  PROVE  \E r \in 1 .. n : /\ Max({1, (n * num + den - 1) \div den}) = r
                           /\ \A k \in 1 .. n : k * den >= num * n <=> k >= r
                           /\ Min({k \in 1 .. n : k * den >= num * n}) = r
<1>1. PICK c \in Nat \ {0} : c = n * num /\ c = num * n
  BY SMT
<1>2. c <= n * den
  BY <1>1, MulMono
<1>3. PICK a \in Int, q \in 0 .. (den - 1) : a = (c + den - 1) \div den /\ c + den - 1 = (den * a) + q
  <2>1. c + den - 1 \in Int
    BY <1>1
  <2>2. /\ (c + den - 1) % den \in 0 .. (den - 1) /\ (c + den - 1) \div den \in Int
        /\ c + den - 1 = (den * ((c + den - 1) \div den)) + ((c + den - 1) % den)
    BY <2>1, DivMod
  <2> QED BY <2>2
<1>4. PICK m \in Int : m = den * a
  BY MulDist
<1>5. c <= m /\ m <= c + den - 1
  BY <1>3, <1>4
<1>6. \A k \in Int : k * den = den * k /\ den * k \in Int
  BY SMT
<1>7. ASSUME NEW k \in Int PROVE k * den >= c <=> k >= a
  <2>1. PICK j \in Int : j = den * k /\ j = k * den
    BY <1>6
  <2>2. CASE k >= a
    <3>1. m <= j
      BY <1>4, <2>1, <2>2, MulMono
    <3> QED BY <1>5, <2>1, <2>2, <3>1
  <2>3. CASE ~(k >= a)
    <3>1. k <= a - 1
      BY <2>3
    <3>2. den * k <= den * (a - 1)
      BY <3>1, MulMono
    <3>3. den * (a - 1) = (den * a) - (den * 1) /\ den * 1 = den
      BY MulDist
    <3>4. j <= m - den
      BY <1>4, <2>1, <3>2, <3>3
    <3> QED BY <1>5, <2>1, <2>3, <3>4
  <2> QED BY <2>2, <2>3
<1>8. a \in 1 .. n
  <2>1. n >= a
    <3>1. n * den >= c
      <4>1. PICK j \in Int : j = n * den
        BY <1>6
      <4> QED BY <1>2, <4>1
    <3> QED BY <1>7, <3>1
  <2>2. ~(0 >= a)
    <3>1. 0 * den = 0
      OBVIOUS
    <3> QED BY <1>1, <1>7, <3>1
  <2> QED BY <2>1, <2>2
<1>9. Max({1, (n * num + den - 1) \div den}) = a
  <2>1. Max({1, a}) = IF 1 >= a THEN 1 ELSE a
    BY MinMaxOfTwo
  <2>2. (IF 1 >= a THEN 1 ELSE a) = a
    BY <1>8
  <2> QED BY <1>1, <1>3, <2>1, <2>2
<1>10. \A k \in 1 .. n : k * den >= num * n <=> k >= a
  BY <1>1, <1>7
<1>11. Min({k \in 1 .. n : k * den >= num * n}) = a
  <2> DEFINE S == {k \in 1 .. n : k * den >= num * n}
  <2>1. S \in SUBSET Int /\ a \in S /\ S # {} /\ S \subseteq 1 .. n /\ \A k \in S : a <= k
    BY <1>8, <1>10
  <2>2. IsFiniteSet(1 .. n)
    BY FS_Interval
  <2> HIDE DEF S
  <2>3. IsFiniteSet(S)
    BY <2>1, <2>2, FS_Subset
  <2>4. Min(S) \in S /\ \A x \in S : Min(S) <= x
    BY <2>1, <2>3, Extremes
  <2>5. PICK u \in Int : u = Min(S)
    BY <2>1, <2>4
  <2>6. u = a
    BY <2>1, <2>4, <2>5
  <2> QED BY <2>5, <2>6 DEF S
<1> QED BY <1>8, <1>9, <1>10, <1>11

(* Larger samples are in higher buckets.                                   *)
LEMMA BucketsMonotone ==
  ASSUME NEW x \in Int, NEW y \in Int, x <= y
  PROVE  BucketOf(x) <= BucketOf(y)
<1>1. PICK w \in Nat \ {0}, nb \in Nat \ {0} : w = BucketWidth /\ nb = NumBuckets
  BY BucketsAssumption
<1>2. /\ x \div w \in Int /\ x % w \in 0 .. (w - 1) /\ x = (w * (x \div w)) + (x % w)
      /\ y \div w \in Int /\ y % w \in 0 .. (w - 1) /\ y = (w * (y \div w)) + (y % w)
  BY DivMod
<1>3. PICK a \in Int, b \in Int, p \in 0 .. (w - 1), q \in 0 .. (w - 1) :
        a = x \div w /\ b = y \div w /\ x = (w * a) + p /\ y = (w * b) + q
  BY <1>2
<1>4. a <= b
  <2> SUFFICES ASSUME b + 1 <= a PROVE FALSE
    OBVIOUS
  <2>1. w * (b + 1) <= w * a
    BY MulMono
  <2>2. w * (b + 1) = (w * b) + (w * 1) /\ w * 1 = w
    BY MulDist
  <2>3. PICK c \in Int, d \in Int : c = w * a /\ d = w * b
    BY MulDist
  <2> QED BY <1>3, <2>1, <2>2, <2>3
<1>5. /\ BucketOf(x) = IF x < 0 THEN 0 ELSE IF a <= nb - 1 THEN a ELSE nb - 1
      /\ BucketOf(y) = IF y < 0 THEN 0 ELSE IF b <= nb - 1 THEN b ELSE nb - 1
  BY <1>1, <1>3, BucketInRange
<1>6. y >= 0 => b >= 0
  <2> SUFFICES ASSUME y >= 0, b <= -1 PROVE FALSE
    BY <1>3
  <2>1. w * b <= w * (-1)
    BY MulMono
  <2>2. w * (-1) = -w
    BY SMT
  <2>3. PICK d \in Int : d = w * b
    BY MulDist
  <2> QED BY <1>3, <2>1, <2>2, <2>3
<1> QED BY <1>4, <1>5, <1>6

(* In a sorted list, the sample of a rank is in the first bucket at which  *)
(* the number of samples up to it reaches the rank.                        *)
LEMMA CountReachesRank ==
  ASSUME NEW s \in Seq(Int), SortedSeq(s), NEW r \in 1 .. Len(s), NEW i \in Int
  PROVE  SumFunctionOnSet(UpTo(s, i), 1 .. Len(s)) >= r <=> BucketOf(s[r]) <= i
<1> DEFINE f == UpTo(s, i)
           low == BucketOf(s[r]) <= i
           sum(m) == SumFunctionOnSet(f, 1 .. m)
<1>1. PICK n \in Nat : n = Len(s) /\ r \in 1 .. n /\ \A k \in 1 .. n : s[k] \in Int
  BY LenProperties, ElementOfSeq
<1>2. \A k \in 1 .. n : f[k] = IF BucketOf(s[k]) <= i THEN 1 ELSE 0
  BY <1>1 DEF UpTo
<1>3. \A k \in 1 .. n : BucketOf(s[k]) \in Int
  <2> TAKE k \in 1 .. n
  <2>1. BucketOf(s[k]) \in Buckets
    BY <1>1, BucketInRange
  <2> QED BY <2>1, BucketsAssumption DEF Buckets
<1>4. \A k \in 1 .. n : /\ k <= r => BucketOf(s[k]) <= BucketOf(s[r])
                        /\ r <= k => BucketOf(s[r]) <= BucketOf(s[k])
  <2> TAKE k \in 1 .. n
  <2>1. s[k] \in Int /\ s[r] \in Int /\ (k <= r => s[k] <= s[r]) /\ (r <= k => s[r] <= s[k])
    BY <1>1 DEF SortedSeq
  <2> QED BY <2>1, BucketsMonotone
<1>5. \A k \in 1 .. n : /\ f[k] \in {0, 1}
                        /\ low /\ k <= r => f[k] = 1
                        /\ ~low /\ r <= k => f[k] = 0
  <2> TAKE k \in 1 .. n
  <2>1. PICK u \in Int, v \in Int : u = BucketOf(s[k]) /\ v = BucketOf(s[r])
    BY <1>1, <1>3
  <2>2. (k <= r => u <= v) /\ (r <= k => v <= u)
    BY <1>4, <2>1
  <2> HIDE DEF f
  <2> QED BY <1>2, <2>1, <2>2
<1> DEFINE P == {m \in Nat : m <= n =>
                   /\ sum(m) \in Int
                   /\ low => sum(m) >= (IF m <= r THEN m ELSE r)
                   /\ ~low => sum(m) <= (IF m < r THEN m ELSE r - 1)}
<1> HIDE DEF f, low
<1>6. 0 \in P
  <2>1. sum(0) = 0
    <3>1. 1 .. 0 = {}
      OBVIOUS
    <3> QED BY <3>1, SumRecursion, FS_EmptySet
  <2> HIDE DEF sum
  <2> QED BY <1>1, <2>1
<1>7. ASSUME NEW m \in P PROVE m + 1 \in P
  <2> SUFFICES ASSUME m + 1 <= n
               PROVE  /\ sum(m + 1) \in Int
                      /\ low => sum(m + 1) >= (IF m + 1 <= r THEN m + 1 ELSE r)
                      /\ ~low => sum(m + 1) <= (IF m + 1 < r THEN m + 1 ELSE r - 1)
    OBVIOUS
  <2>1. m \in Nat /\ sum(m) \in Int
        /\ (low => sum(m) >= (IF m <= r THEN m ELSE r))
        /\ (~low => sum(m) <= (IF m < r THEN m ELSE r - 1))
    OBVIOUS
  <2>2. sum(m + 1) = f[m + 1] + sum(m)
    <3>1. \A k \in 1 .. (m + 1) : f[k] \in Int
      BY <1>5
    <3> QED BY <3>1, SumEnds
  <2>3. /\ f[m + 1] \in {0, 1}
        /\ low /\ m + 1 <= r => f[m + 1] = 1
        /\ ~low /\ r <= m + 1 => f[m + 1] = 0
    BY <1>5
  <2> HIDE DEF sum, P
  <2>4. PICK a \in Int, b \in {0, 1} : a = sum(m) /\ b = f[m + 1] /\ sum(m + 1) = b + a
    BY <2>1, <2>2, <2>3
  <2>5. low => b + a >= (IF m + 1 <= r THEN m + 1 ELSE r)
    BY <1>1, <2>1, <2>3, <2>4
  <2>6. ~low => b + a <= (IF m + 1 < r THEN m + 1 ELSE r - 1)
    BY <1>1, <2>1, <2>3, <2>4
  <2> QED BY <2>4, <2>5, <2>6
<1>8. P \in SUBSET Nat
  OBVIOUS
<1> HIDE DEF P, sum
<1>9. P = Nat
  BY <1>6, <1>7, <1>8, SetInduction
<1>10. sum(n) \in Int /\ (low => sum(n) >= r) /\ (~low => sum(n) <= r - 1)
  <2>1. n \in P
    BY <1>9
  <2> QED BY <1>1, <2>1 DEF P
<1>11. sum(n) >= r <=> low
  BY <1>1, <1>10
<1> QED BY <1>1, <1>11 DEF sum, f, low

(* The middle of a sample's bucket, once the sample is moved into range.   *)
LEMMA MiddleOfBucket ==
  ASSUME NEW x \in Int
  PROVE  LET inRange == Max({0, Min({x, MaxLatency - 1})})
         IN  inRange - (inRange % BucketWidth) + BucketWidth \div 2
               = BucketOf(x) * BucketWidth + BucketWidth \div 2
<1>1. PICK w \in Nat \ {0}, nb \in Nat \ {0} : w = BucketWidth /\ nb = NumBuckets
  BY BucketsAssumption
<1>2. PICK top \in Nat \ {0} : top = MaxLatency /\ top = w * nb /\ top = nb * w
  <2>1. nb * w \in Nat \ {0} /\ nb * w = w * nb
    BY SMT
  <2> QED BY <1>1, <2>1 DEF MaxLatency
<1>3. Min({x, top - 1}) = IF x <= top - 1 THEN x ELSE top - 1
  BY MinMaxOfTwo
<1> DEFINE c == IF x < 0 THEN 0 ELSE IF x <= top - 1 THEN x ELSE top - 1
<1>4. Max({0, Min({x, top - 1})}) = c
  <2>1. PICK m \in Int : m = Min({x, top - 1}) /\ m = IF x <= top - 1 THEN x ELSE top - 1
    BY <1>3
  <2>2. Max({0, m}) = IF 0 >= m THEN 0 ELSE m
    BY MinMaxOfTwo
  <2>3. (IF 0 >= m THEN 0 ELSE m) = c
    BY <2>1
  <2> QED BY <2>1, <2>2, <2>3
<1>5. PICK a \in Int, p \in 0 .. (w - 1) : a = x \div w /\ p = x % w /\ x = (w * a) + p
  <2>1. x \div w \in Int /\ x % w \in 0 .. (w - 1) /\ x = (w * (x \div w)) + (x % w)
    BY DivMod
  <2> QED BY <2>1
<1>6. BucketOf(x) = IF x < 0 THEN 0 ELSE IF a <= nb - 1 THEN a ELSE nb - 1
  BY <1>1, <1>5, BucketInRange
<1>7. c - (c % w) = w * BucketOf(x)
  <2>1. CASE x < 0
    <3>1. c = 0 /\ BucketOf(x) = 0
      BY <1>6, <2>1
    <3>2. 0 % w = 0 /\ w * 0 = 0
      BY ModSmall
    <3> HIDE DEF c
    <3> QED BY <3>1, <3>2
  <2>2. CASE x >= 0 /\ x <= top - 1
    <3>1. a <= nb - 1
      <4> SUFFICES ASSUME nb <= a PROVE FALSE
        OBVIOUS
      <4>1. w * nb <= w * a
        BY MulMono
      <4>2. PICK d \in Int : d = w * a
        BY MulDist
      <4> QED BY <1>2, <1>5, <2>2, <4>1, <4>2
    <3>2. BucketOf(x) = a /\ c = x
      BY <1>6, <2>2, <3>1
    <3>3. PICK d \in Int : d = w * a
      BY MulDist
    <3> HIDE DEF c
    <3> QED BY <1>5, <3>2, <3>3
  <2>3. CASE x > top - 1
    <3>1. nb <= a
      <4> SUFFICES ASSUME a <= nb - 1 PROVE FALSE
        OBVIOUS
      <4>1. w * a <= w * (nb - 1)
        BY MulMono
      <4>2. w * (nb - 1) = (w * nb) - (w * 1) /\ w * 1 = w
        BY MulDist
      <4>3. PICK d \in Int : d = w * a
        BY MulDist
      <4> QED BY <1>2, <1>5, <2>3, <4>1, <4>2, <4>3
    <3>2. BucketOf(x) = nb - 1 /\ c = top - 1
      BY <1>2, <1>6, <2>3, <3>1
    <3>3. w * (nb - 1) = top - w
      <4>1. w * (nb - 1) = (w * nb) - (w * 1) /\ w * 1 = w
        BY MulDist
      <4> QED BY <1>2, <4>1
    <3>4. ((w * (nb - 1)) + (w - 1)) % w = w - 1
      BY ModUnique
    <3>5. (top - 1) % w = w - 1
      <4>1. (w * (nb - 1)) + (w - 1) = top - 1
        BY <3>3
      <4> QED BY <3>4, <4>1
    <3> HIDE DEF c
    <3>6. c % w = w - 1 /\ w * BucketOf(x) = top - w /\ c = top - 1
      BY <3>2, <3>3, <3>5
    <3> QED BY <3>6
  <2>4. x < 0 \/ (x >= 0 /\ x <= top - 1) \/ x > top - 1
    OBVIOUS
  <2> QED BY <2>1, <2>2, <2>3, <2>4
<1>8. BucketOf(x) \in Int
  BY <1>6, <1>5
<1>9. PICK b \in Int : b = BucketOf(x)
  BY <1>8
<1>10. w * b = b * w
  BY SMT
<1> HIDE DEF c
<1>11. c - (c % w) = b * w
  BY <1>7, <1>9, <1>10
<1> QED BY <1>1, <1>2, <1>4, <1>9, <1>11

(* percentile returns the nearest-rank sample's bucket.                    *)
LEMMA PercentileIs ==
  ASSUME NEW h, NEW s \in Seq(Int), HistogramFits(h, s), s # <<>>,
         NEW num \in Nat \ {0}, NEW den \in Nat \ {0}, num <= den
  PROVE  percentile(h, num, den) = NearestRank(s, num, den)
<1>1. PICK n \in Nat \ {0} : n = Len(s) /\ \A k \in 1 .. n : s[k] \in Int
  BY LenProperties, ElementOfSeq
<1>2. h.total = n /\ h.buckets \in [Buckets -> Int] /\ SortedSeq(s)
      /\ \A i \in Buckets : Cumulative(h, i) = SumFunctionOnSet(UpTo(s, i), 1 .. n)
  BY <1>1 DEF HistogramFits
<1>3. PICK r \in 1 .. n : /\ Max({1, (n * num + den - 1) \div den}) = r
                          /\ \A k \in 1 .. n : k * den >= num * n <=> k >= r
                          /\ Min({k \in 1 .. n : k * den >= num * n}) = r
  BY RankIs
<1>4. Rank(h, num, den) = r
  BY <1>2, <1>3 DEF Rank
<1> DEFINE reached == {i \in Buckets : Cumulative(h, i) >= Rank(h, num, den)}
           b == BucketOf(s[r])
<1>5. s[r] \in Int /\ b \in Buckets
  BY <1>1, BucketInRange
<1>6. ASSUME NEW i \in Buckets
      PROVE  Cumulative(h, i) >= r <=> b <= i
  <2>1. i \in Int
    BY BucketsAssumption DEF Buckets
  <2>2. SumFunctionOnSet(UpTo(s, i), 1 .. Len(s)) >= r <=> BucketOf(s[r]) <= i
    BY <1>1, <1>2, <2>1, CountReachesRank
  <2> QED BY <1>1, <1>2, <2>2
<1>7. reached = {i \in Buckets : b <= i}
  BY <1>4, <1>6
<1>8. Min(reached) = b /\ reached # {}
  <2>1. Buckets \subseteq Int /\ IsFiniteSet(Buckets)
    <3>1. 0 \in Int /\ NumBuckets - 1 \in Int
      BY BucketsAssumption
    <3> QED BY <3>1, FS_Interval DEF Buckets
  <2>2. b \in Int
    BY <1>5, <2>1
  <2> HIDE DEF b
  <2>3. reached \in SUBSET Int /\ b \in reached /\ \A i \in reached : b <= i
    <3> HIDE DEF reached
    <3>1. reached \subseteq Buckets /\ \A i \in Buckets : i \in reached <=> b <= i
      BY <1>7
    <3>2. b <= b
      BY <2>2
    <3> QED BY <1>5, <2>1, <3>1, <3>2
  <2>4. IsFiniteSet(reached)
    BY <2>1, FS_Subset
  <2> HIDE DEF reached
  <2>5. Min(reached) \in reached /\ \A i \in reached : Min(reached) <= i
    BY <2>3, <2>4, Extremes
  <2>6. PICK u \in Int : u = Min(reached)
    BY <2>3, <2>5
  <2>7. b \in Int /\ u = b
    BY <2>3, <2>5, <2>6
  <2> QED BY <2>3, <2>6, <2>7
<1>9. percentile(h, num, den) = Min(reached) * BucketWidth + BucketWidth \div 2
  BY <1>2, <1>8 DEF percentile
<1> HIDE DEF reached
<1>10. NearestRank(s, num, den) = BucketOf(s[r]) * BucketWidth + BucketWidth \div 2
  <2>1. Min({k \in 1 .. Len(s) : k * den >= num * Len(s)}) = r
    BY <1>1, <1>3
  <2>2. LET inRange == Max({0, Min({s[r], MaxLatency - 1})})
        IN  inRange - (inRange % BucketWidth) + BucketWidth \div 2
              = BucketOf(s[r]) * BucketWidth + BucketWidth \div 2
    BY <1>5, MiddleOfBucket
  <2> QED BY <2>1, <2>2 DEF NearestRank
<1> QED BY <1>8, <1>9, <1>10

(* mean is off by less than one.                                           *)
LEMMA MeanIs ==
  ASSUME NEW h, NEW n \in Nat \ {0}, h.total = n, NEW sum \in Int, h.sum = sum
  PROVE  mean(h) * n - sum \in (1 - n) .. (n - 1)
<1>1. CASE sum >= 0
  <2>1. mean(h) = sum \div n
    BY <1>1 DEF mean
  <2>2. sum \div n \in Int /\ sum % n \in 0 .. (n - 1) /\ sum = (n * (sum \div n)) + (sum % n)
    BY DivMod
  <2>3. PICK q \in Int : q = sum \div n
    BY <2>2
  <2>4. PICK m \in Int : m = n * q /\ m = q * n
    BY SMT
  <2>5. PICK p \in 0 .. (n - 1) : sum = m + p
    BY <2>2, <2>3, <2>4
  <2>6. mean(h) * n = m
    BY <2>1, <2>3, <2>4
  <2> QED BY <2>5, <2>6
<1>2. CASE ~(sum >= 0)
  <2>1. mean(h) = -((-sum) \div n)
    BY <1>2 DEF mean
  <2>2. (-sum) \div n \in Int /\ (-sum) % n \in 0 .. (n - 1)
        /\ -sum = (n * ((-sum) \div n)) + ((-sum) % n)
    <3>1. PICK k \in Int : k = -sum
      OBVIOUS
    <3>2. k \div n \in Int /\ k % n \in 0 .. (n - 1) /\ k = (n * (k \div n)) + (k % n)
      BY DivMod
    <3> QED BY <3>1, <3>2
  <2>3. PICK q \in Int : q = (-sum) \div n
    BY <2>2
  <2>4. PICK m \in Int : m = n * q /\ -m = (-q) * n
    BY SMT
  <2>5. PICK p \in 0 .. (n - 1) : -sum = m + p
    BY <2>2, <2>3, <2>4
  <2>6. mean(h) * n = -m
    BY <2>1, <2>3, <2>4
  <2> QED BY <2>5, <2>6
<1> QED BY <1>1, <1>2

Fits == /\ samples \in [HistogramNames -> Seq(Samples)]
        /\ DOMAIN histograms = HistogramNames
        /\ \A x \in HistogramNames : HistogramFits(histograms[x], samples[x])

(* What the invariant says of a histogram makes its statistics those of its*)
(* samples.                                                                *)
LEMMA FitsRight == Fits => StatsRight
<1> SUFFICES ASSUME Fits, NEW x \in HistogramNames, samples[x] # <<>>
             PROVE  LET s == samples[x]
                        h == histograms[x]
                        total == SumFunction(s)
                    IN  /\ h.min = s[1] /\ h.max = Last(s)
                        /\ \A p \in {<<1, 2>>, <<9, 10>>, <<999, 1000>>} :
                             percentile(h, p[1], p[2]) = NearestRank(s, p[1], p[2])
                        /\ mean(h) * Len(s) - total \in (1 - Len(s)) .. (Len(s) - 1)
  BY DEF StatsRight
<1>1. PICK s : s = samples[x] /\ s \in Seq(Samples) /\ s # <<>>
  BY DEF Fits
<1>2. PICK h : h = histograms[x]
  OBVIOUS
<1>3. HistogramFits(h, s)
  BY <1>1, <1>2 DEF Fits
<1>4. s \in Seq(Int)
  <2>1. Samples \subseteq Int
    BY Int64Assumption DEF Samples
  <2> QED BY <1>1, <2>1, SeqMonotonic
<1>5. PICK n \in Nat \ {0} : n = Len(s) /\ DOMAIN s = 1 .. n /\ \A k \in 1 .. n : s[k] \in Int
  BY <1>1, <1>4, LenProperties, ElementOfSeq
<1>6. h.min = s[1] /\ h.max = Last(s)
  BY <1>3, <1>5 DEF HistogramFits, Last
<1>7. \A num, den \in Nat \ {0} : num <= den => percentile(h, num, den) = NearestRank(s, num, den)
  BY <1>1, <1>3, <1>4, PercentileIs
<1>8. /\ percentile(h, 1, 2) = NearestRank(s, 1, 2)
      /\ percentile(h, 9, 10) = NearestRank(s, 9, 10)
      /\ percentile(h, 999, 1000) = NearestRank(s, 999, 1000)
  BY <1>7
<1>9. SumFunction(s) = h.sum /\ SumFunction(s) \in Int
  <2>1. SumFunction(s) = SumFunctionOnSet(s, 1 .. n)
    BY <1>5 DEF SumFunction
  <2>2. IsFiniteSet(1 .. n)
    BY FS_Interval
  <2>3. SumFunctionOnSet(s, 1 .. n) \in Int
    BY <1>5, <2>2, SumRecursion
  <2> QED BY <1>3, <1>5, <2>1, <2>3 DEF HistogramFits
<1>10. mean(h) * n - SumFunction(s) \in (1 - n) .. (n - 1)
  BY <1>3, <1>5, <1>9, MeanIs DEF HistogramFits
<1> QED BY <1>1, <1>2, <1>5, <1>6, <1>8, <1>10

-------------------------------------------------------------------------------
(* Telemetry: every histogram fits its samples.                            *)

(* New histograms have no samples.                                         *)
LEMMA FitsInit == TelemetryInit => Fits
<1> SUFFICES ASSUME TelemetryInit PROVE Fits
  OBVIOUS
<1>1. /\ histograms = [x \in HistogramNames |-> EmptyHistogram]
      /\ samples = [x \in HistogramNames |-> <<>>]
  BY DEF TelemetryInit
<1>2. samples \in [HistogramNames -> Seq(Samples)]
  BY <1>1
<1>3. \A x \in HistogramNames : HistogramFits(histograms[x], samples[x])
  BY <1>1, EmptyFits
<1> QED BY <1>1, <1>2, <1>3 DEF Fits

(* A sample recorded in one histogram.                                     *)
LEMMA RecordedFits ==
  ASSUME Fits, NEW x \in HistogramNames, NEW ns \in Samples, Recorded(x, ns)
  PROVE  Fits'
<1>1. /\ histograms' = [histograms EXCEPT ![x] = record(histograms[x], ns)]
      /\ samples' = [samples EXCEPT ![x] = Sorted(samples[x], ns)]
  BY DEF Recorded
<1>2. /\ samples \in [HistogramNames -> Seq(Samples)] /\ DOMAIN histograms = HistogramNames
      /\ \A y \in HistogramNames : HistogramFits(histograms[y], samples[y])
  BY DEF Fits
<1>3. /\ Sorted(samples[x], ns) \in Seq(Samples)
      /\ HistogramFits(record(histograms[x], ns), Sorted(samples[x], ns))
  BY <1>2, RecordFits
<1>4. samples' \in [HistogramNames -> Seq(Samples)] /\ DOMAIN histograms' = HistogramNames
  BY <1>1, <1>2, <1>3
<1>5. ASSUME NEW y \in HistogramNames PROVE HistogramFits(histograms'[y], samples'[y])
  <2>1. CASE y = x
    <3>1. histograms'[y] = record(histograms[x], ns) /\ samples'[y] = Sorted(samples[x], ns)
      BY <1>1, <1>2, <2>1
    <3> QED BY <1>3, <3>1
  <2>2. CASE y # x
    <3>1. histograms'[y] = histograms[y] /\ samples'[y] = samples[y]
      BY <1>1, <1>2, <2>2
    <3> QED BY <1>2, <3>1
  <2> QED BY <2>1, <2>2
<1> QED BY <1>4, <1>5 DEF Fits

(* What ends is a timer, and what it measured is a sample.                 *)
LEMMA EndMeasures ==
  ASSUME TelemetryTyped, NEW t \in Threads, calls[t].kind = "end"
  PROVE  /\ calls[t].name \in TimerNames /\ t \notin FreshRecords
         /\ calls[t].name \in DOMAIN active_timers =>
              calls[t].at - active_timers[calls[t].name] \in Samples
<1>1. calls[t] \in Calls
  BY DEF TelemetryTyped
<1>2. calls[t] \in [kind : {"end"}, name : TimerNames, at : 0 .. MaxTime]
  BY <1>1 DEF Calls, Idle
<1>3. PICK n \in TimerNames, at \in 0 .. MaxTime : n = calls[t].name /\ at = calls[t].at
  BY <1>2
<1>4. n \in DOMAIN active_timers => active_timers[n] \in 0 .. MaxTime
  BY DEF TelemetryTyped
<1>5. n \in DOMAIN active_timers => at - active_timers[n] \in Samples
  BY <1>4, SpanAssumption, Int64Assumption, MaxTimeAssumption DEF Samples
<1> QED BY <1>3, <1>5 DEF RecordsInProgress, FreshRecords

(* Every step of every thread keeps each histogram in step with its        *)
(* samples: record adds one, reset empties them, and nothing else touches  *)
(* them.                                                                   *)
LEMMA FitsStep == TelemetryTyped /\ Fits /\ [TelemetryNext]_telemetryVars => Fits'
<1> SUFFICES ASSUME TelemetryTyped, Fits, [TelemetryNext]_telemetryVars
             PROVE  Fits'
  OBVIOUS
<1>1. CASE UNCHANGED <<histograms, samples>>
  BY <1>1 DEF Fits
<1>2. ASSUME NEW ns \in DirectSamples, record_latency(ns) PROVE Fits'
  <2>1. ns \in Samples /\ DirectHistogram \in HistogramNames
    BY SamplesAssumption DEF Samples, HistogramNames
  <2>2. Recorded(DirectHistogram, ns)
    BY <1>2 DEF record_latency
  <2> QED BY <2>1, <2>2, RecordedFits
<1>3. ASSUME NEW t \in Threads, EndLocked(t) PROVE Fits'
  <2> DEFINE n == calls[t].name
  <2>1. CASE n \in DOMAIN active_timers /\ Route(n) # NoRoute
    <3>1. Recorded(Route(n), calls[t].at - active_timers[n])
      BY <1>3, <2>1 DEF EndLocked
    <3>2. Route(n) \in HistogramNames
      BY <2>1, Routes DEF HistogramNames
    <3>3. calls[t].at - active_timers[n] \in Samples
      BY <1>3, <2>1, EndMeasures DEF EndLocked
    <3> QED BY <3>1, <3>2, <3>3, RecordedFits
  <2>2. CASE ~(n \in DOMAIN active_timers /\ Route(n) # NoRoute)
    BY <1>1, <1>3, <2>2 DEF EndLocked
  <2> QED BY <2>1, <2>2
<1>4. ASSUME ResetSum PROVE Fits'
  <2>1. /\ histograms' = [x \in HistogramNames |-> EmptyHistogram]
        /\ samples' = [x \in HistogramNames |-> <<>>]
    BY <1>4 DEF ResetSum
  <2>2. samples' \in [HistogramNames -> Seq(Samples)]
    BY <2>1
  <2>3. \A x \in HistogramNames : HistogramFits(histograms'[x], samples'[x])
    BY <2>1, EmptyFits
  <2> QED BY <2>1, <2>2, <2>3 DEF Fits
<1>5. ASSUME NEW n \in TimerNames, start_timer(n) \/ \E t \in Threads : EndRead(t, n) PROVE Fits'
  BY <1>1, <1>5 DEF start_timer, EndRead
<1>6. ASSUME NEW t \in Threads, AddCount(t) \/ \E v \in Ratios : AddSum(t, v) PROVE Fits'
  BY <1>1, <1>6 DEF AddCount, AddSum
<1>7. CASE ResetCount \/ TelemetryTimePasses \/ UNCHANGED telemetryVars
  BY <1>1, <1>7 DEF ResetCount, TelemetryTimePasses, telemetryVars, telemetryState
<1> QED BY <1>2, <1>3, <1>4, <1>5, <1>6, <1>7 DEF TelemetryNext

TelemetryInv == TelemetryTyped /\ Fits

(* The invariant of telemetry holds at first.                              *)
LEMMA TelemetryInvInit == TelemetryInit => TelemetryInv
BY TelemetryTypedInit, FitsInit DEF TelemetryInv

(* Every step keeps the invariant of telemetry.                            *)
LEMMA TelemetryInvStep == TelemetryInv /\ [TelemetryNext]_telemetryVars => TelemetryInv'
BY TelemetryTypedStep, FitsStep DEF TelemetryInv

(* For every bucket width and number of buckets, every number of threads   *)
(* and samples, the statistics of a histogram are those of its samples.    *)
THEOREM HistogramsTellSamples == TelemetrySpec => []StatsRight
<1>1. TelemetryInv => StatsRight
  BY FitsRight DEF TelemetryInv
<1> QED BY <1>1, TelemetryInvInit, TelemetryInvStep, PTL DEF TelemetrySpec

-------------------------------------------------------------------------------
(* Telemetry: what concurrent calls count.                                 *)

(* The sum of a sequence grows by what is appended.                        *)
LEMMA SumAppended ==
  ASSUME NEW s \in Seq(Int), NEW v \in Int
  PROVE  SumFunction(s) \in Int /\ SumFunction(Append(s, v)) = SumFunction(s) + v
<1> DEFINE t == Append(s, v)
<1>1. PICK n \in Nat : n = Len(s) /\ DOMAIN s = 1 .. n /\ \A k \in 1 .. n : s[k] \in Int
  BY LenProperties, ElementOfSeq
<1>2. t \in Seq(Int) /\ Len(t) = n + 1 /\ (\A k \in 1 .. n : t[k] = s[k]) /\ t[n + 1] = v
  BY <1>1, AppendProperties
<1> HIDE DEF t
<1>3. DOMAIN t = 1 .. (n + 1)
  BY <1>2, LenProperties
<1>4. \A k \in 1 .. n + 1 : t[k] \in Int
  BY <1>1, <1>2
<1>5. SumFunctionOnSet(t, 1 .. (n + 1)) = t[n + 1] + SumFunctionOnSet(t, 1 .. n)
  BY <1>4, SumEnds
<1>6. IsFiniteSet(1 .. n)
  BY FS_Interval
<1>7. SumFunctionOnSet(s, 1 .. n) = SumFunctionOnSet(t, 1 .. n) /\ SumFunctionOnSet(s, 1 .. n) \in Int
  <2>1. \A k \in 1 .. n : s[k] = t[k] /\ s[k] \in Int
    BY <1>1, <1>2
  <2>2. \A k \in 1 .. n : s[k] \in Int
    BY <1>1
  <2>3. SumFunctionOnSet(s, 1 .. n) = SumFunctionOnSet(t, 1 .. n)
    BY <1>6, <2>1, SumSame
  <2>4. SumFunctionOnSet(s, 1 .. n) \in Int
    BY <1>6, <2>2, SumRecursion
  <2> QED BY <2>3, <2>4
<1>8. SumFunction(s) = SumFunctionOnSet(s, 1 .. n) /\ SumFunction(t) = SumFunctionOnSet(t, 1 .. (n + 1))
  BY <1>1, <1>3 DEF SumFunction
<1>9. PICK a \in Int : a = SumFunction(s) /\ a = SumFunctionOnSet(t, 1 .. n)
  BY <1>7, <1>8
<1>10. SumFunction(t) = v + a
  BY <1>2, <1>5, <1>8, <1>9
<1> QED BY <1>9, <1>10 DEF t

(* The sum of an empty sequence.                                           *)
LEMMA SumOfNone == SumFunction(<<>>) = 0
<1>1. DOMAIN <<>> = {}
  OBVIOUS
<1> QED BY <1>1, SumRecursion, FS_EmptySet DEF SumFunction

(* The number of samples of a histogram is a natural number.               *)
LEMMA TotalsTyped == Fits => \A x \in HistogramNames : histograms[x].total \in Nat
BY LenProperties DEF Fits, HistogramFits

(* Between the two stores of a reset every call since the first is still   *)
(* in progress, if no call is counted on the wrong side.                   *)
AverageInv ==
  /\ AverageInStep
  /\ ~torn /\ resetting => Len(added) = Cardinality(FreshRecords)

(* Nothing has been counted at first.                                      *)
LEMMA CountedOnceInit == TelemetryInit => EachStartMeasuredOnce /\ AverageInv
<1> SUFFICES ASSUME TelemetryInit PROVE EachStartMeasuredOnce /\ AverageInv
  OBVIOUS
<1>1. DOMAIN active_timers = {} /\ pair = [sum |-> 0, count |-> 0] /\ added = <<>>
  BY DEF TelemetryInit
<1>2. \A x \in HistogramNames : histograms[x].total = 0
  BY DEF TelemetryInit, EmptyHistogram
<1>3. \A x \in TimedHistograms : begun[x] = 0 /\ x \in HistogramNames
  BY DEF TelemetryInit, HistogramNames
<1>4. \A x : TimersOf(x) = {}
  BY <1>1 DEF TimersOf
<1>5. EachStartMeasuredOnce
  BY <1>2, <1>3, <1>4, FS_EmptySet, CountedOnceIs
<1>6. FreshRecords = {} /\ ~resetting
  BY DEF TelemetryInit, RecordsInProgress, FreshRecords, Idle
<1>7. AverageInv
  BY <1>1, <1>6, SumOfNone, FS_EmptySet DEF AverageInStep, AverageInv
<1> QED BY <1>5, <1>7

(* Timers and the histograms they end in.                                  *)
LEMMA StartsStep ==
  ASSUME TelemetryTyped, Fits, EachStartMeasuredOnce, [TelemetryNext]_telemetryVars
  PROVE  EachStartMeasuredOnce'
<1>1. \A x \in TimedHistograms : begun[x] = histograms[x].total + Cardinality(TimersOf(x))
  BY CountedOnceIs
<1>2. SUFFICES ASSUME NEW x \in TimedHistograms
               PROVE  begun'[x] = histograms'[x].total + Cardinality(TimersOf(x)')
  BY DEF EachStartMeasuredOnce, Quantify, TimersOf
<1>3. PICK total \in Nat, c \in Nat : /\ total = histograms[x].total /\ c = Cardinality(TimersOf(x))
                                      /\ begun[x] = total + c /\ IsFiniteSet(TimersOf(x))
  <2>1. x \in HistogramNames
    BY DEF HistogramNames
  <2> QED BY <1>1, <2>1, TotalsTyped, TimersFinite
<1>4. begun \in [TimedHistograms -> Nat] /\ DOMAIN histograms = HistogramNames /\ x \in HistogramNames
  BY DEF TelemetryTyped, Fits, HistogramNames
<1>5. UNCHANGED active_timers => Cardinality(TimersOf(x)') = c
  BY <1>3 DEF TimersOf
<1>6. CASE UNCHANGED <<histograms, active_timers, begun>>
  BY <1>3, <1>5, <1>6
<1>7. ASSUME NEW ns \in DirectSamples, record_latency(ns)
      PROVE  begun'[x] = histograms'[x].total + Cardinality(TimersOf(x)')
  <2>1. UNCHANGED <<active_timers, begun>>
    BY <1>7 DEF record_latency
  <2>2. histograms' = [histograms EXCEPT ![DirectHistogram] = record(@, ns)]
    BY <1>7 DEF record_latency, Recorded
  <2>3. x # DirectHistogram
    BY DEF TimedHistograms, DirectHistogram
  <2>4. histograms'[x] = histograms[x]
    BY <1>4, <2>2, <2>3
  <2> QED BY <1>3, <1>5, <2>1, <2>4
<1>8. ASSUME NEW n \in TimerNames, start_timer(n)
      PROVE  begun'[x] = histograms'[x].total + Cardinality(TimersOf(x)')
  <2>1. histograms' = histograms /\ DOMAIN active_timers' = DOMAIN active_timers \cup {n}
    BY <1>8, TimerStarted DEF start_timer
  <2>2. begun' = IF n \in DOMAIN active_timers \/ Route(n) = NoRoute THEN begun
                 ELSE [begun EXCEPT ![Route(n)] = @ + 1]
    BY <1>8 DEF start_timer
  <2>3. x # NoRoute
    BY <1>4, Routes
  <2>4. CASE Route(n) = x /\ n \notin DOMAIN active_timers
    <3>1. TimersOf(x)' = TimersOf(x) \cup {n} /\ n \notin TimersOf(x)
      BY <2>1, <2>4 DEF TimersOf
    <3>2. Cardinality(TimersOf(x)') = c + 1
      BY <1>3, <3>1, OneMore
    <3>3. begun'[x] = begun[x] + 1
      BY <1>4, <2>2, <2>3, <2>4
    <3> QED BY <1>3, <2>1, <3>2, <3>3
  <2>5. CASE ~(Route(n) = x /\ n \notin DOMAIN active_timers)
    <3>1. TimersOf(x)' = TimersOf(x)
      BY <2>1, <2>5 DEF TimersOf
    <3>2. begun'[x] = begun[x]
      BY <1>4, <2>2, <2>3, <2>5
    <3> QED BY <1>3, <2>1, <3>1, <3>2
  <2> QED BY <2>4, <2>5
<1>9. ASSUME NEW t \in Threads, EndLocked(t)
      PROVE  begun'[x] = histograms'[x].total + Cardinality(TimersOf(x)')
  <2> DEFINE n == calls[t].name
  <2>1. begun' = begun /\ DOMAIN active_timers' = DOMAIN active_timers \ {n}
    BY <1>9, TimerStopped DEF EndLocked
  <2>2. IF n \in DOMAIN active_timers /\ Route(n) # NoRoute
        THEN Recorded(Route(n), calls[t].at - active_timers[n])
        ELSE UNCHANGED <<histograms, samples>>
    BY <1>9 DEF EndLocked
  <2> HIDE DEF n
  <2>3. x # NoRoute
    BY <1>4, Routes
  <2>4. CASE Route(n) = x /\ n \in DOMAIN active_timers
    <3>1. TimersOf(x)' = TimersOf(x) \ {n} /\ n \in TimersOf(x)
      BY <2>1, <2>4 DEF TimersOf
    <3>2. Cardinality(TimersOf(x)') = c - 1
      BY <1>3, <3>1, OneLess
    <3>3. histograms' = [histograms EXCEPT ![x] = record(@, calls[t].at - active_timers[n])]
      BY <2>2, <2>3, <2>4 DEF Recorded
    <3>4. histograms'[x].total = total + 1
      BY <1>3, <1>4, <3>3 DEF record
    <3> QED BY <1>3, <2>1, <3>2, <3>4
  <2>5. CASE ~(Route(n) = x /\ n \in DOMAIN active_timers)
    <3>1. TimersOf(x)' = TimersOf(x)
      BY <2>1, <2>5 DEF TimersOf
    <3>2. histograms'[x] = histograms[x]
      BY <1>4, <2>2, <2>5 DEF Recorded
    <3> QED BY <1>3, <2>1, <3>1, <3>2
  <2> QED BY <2>4, <2>5
<1>10. ASSUME ResetSum
       PROVE  begun'[x] = histograms'[x].total + Cardinality(TimersOf(x)')
  <2>1. begun'[x] = c /\ UNCHANGED active_timers
    BY <1>3, <1>10 DEF ResetSum, Quantify, TimersOf
  <2>2. histograms'[x].total = 0
    BY <1>4, <1>10 DEF ResetSum, EmptyHistogram
  <2> QED BY <1>5, <2>1, <2>2
<1>11. ASSUME NEW n \in TimerNames, NEW t \in Threads, EndRead(t, n)
       PROVE  UNCHANGED <<histograms, active_timers, begun>>
  BY <1>11 DEF EndRead
<1>12. ASSUME NEW t \in Threads, AddCount(t) \/ \E v \in Ratios : AddSum(t, v)
       PROVE  UNCHANGED <<histograms, active_timers, begun>>
  BY <1>12 DEF AddCount, AddSum
<1>13. CASE ResetCount \/ TelemetryTimePasses \/ UNCHANGED telemetryVars
  BY <1>6, <1>13 DEF ResetCount, TelemetryTimePasses, telemetryVars, telemetryState
<1> QED BY <1>6, <1>7, <1>8, <1>9, <1>10, <1>11, <1>12, <1>13 DEF TelemetryNext

(* The two halves of a record call and of a reset.                         *)
LEMMA AverageStep ==
  ASSUME TelemetryTyped, AverageInv, [TelemetryNext]_telemetryVars
  PROVE  AverageInv'
<1>1. /\ pair \in [sum : Int, count : Nat] /\ added \in Seq(Int) /\ added \in Seq(Ratios)
      /\ calls \in [Threads -> Calls] /\ IsFiniteSet(FreshRecords)
      /\ torn \in BOOLEAN /\ resetting \in BOOLEAN
  <2>1. Ratios \subseteq Int /\ added \in Seq(Ratios)
    BY SamplesAssumption DEF TelemetryTyped
  <2>2. added \in Seq(Int)
    BY <2>1, SeqMonotonic
  <2> QED BY <2>1, <2>2 DEF TelemetryTyped
<1>2. PICK c \in Nat : c = Cardinality(FreshRecords)
  BY <1>1, FS_CardinalityType
<1>3. PICK n \in Nat : n = Len(added)
  BY <1>1, LenProperties
<1>4. /\ pair.sum = SumFunction(added)
      /\ ~torn /\ ~resetting => pair.count = n - c
      /\ ~torn /\ resetting => n = c
  BY <1>2, <1>3 DEF AverageInStep, AverageInv
<1>5. Idle \in Calls /\ ~FreshRatio(Idle)
  BY CallKinds
<1>6. ASSUME UNCHANGED <<pair, added, resetState>>, FreshRecords' = FreshRecords
      PROVE  AverageInv'
  BY <1>6 DEF AverageInv, AverageInStep, resetState
<1>7. ASSUME UNCHANGED <<pair, calls, added, resetState>> PROVE AverageInv'
  <2>1. FreshRecords' = FreshRecords
    BY <1>7 DEF RecordsInProgress, FreshRecords
  <2> QED BY <1>6, <1>7, <2>1
<1>8. ASSUME NEW t \in Threads, NEW m \in TimerNames, EndRead(t, m) PROVE AverageInv'
  <2>1. UNCHANGED <<pair, added, resetState>> /\ calls[t] = Idle
    BY <1>8 DEF EndRead
  <2> DEFINE e == [kind |-> "end", name |-> m, at |-> now]
  <2>2. calls' = [calls EXCEPT ![t] = e]
    BY <1>8 DEF EndRead
  <2>3. e \in Calls /\ ~FreshRatio(e) /\ t \notin FreshRecords
    BY <1>5, <2>1, CallKinds DEF TelemetryTyped, RecordsInProgress, FreshRecords, FreshRatio
  <2> HIDE DEF e
  <2>4. FreshRecords' = FreshRecords \ {t}
    BY <2>2, <2>3, CallChanges
  <2> QED BY <1>6, <2>1, <2>3, <2>4
<1>9. ASSUME NEW t \in Threads, EndLocked(t) PROVE AverageInv'
  <2>1. UNCHANGED <<pair, added, resetState>> /\ t \notin FreshRecords
    BY <1>9, EndMeasures DEF EndLocked
  <2>2. calls' = [calls EXCEPT ![t] = Idle]
    BY <1>9 DEF EndLocked
  <2>3. FreshRecords' = FreshRecords \ {t}
    BY <1>5, <2>2, CallChanges
  <2> QED BY <1>6, <2>1, <2>3
<1>10. ASSUME NEW t \in Threads, AddCount(t) PROVE AverageInv'
  <2>1. /\ pair' = [pair EXCEPT !.count = @ + 1] /\ UNCHANGED <<added, resetting>>
        /\ torn' = (torn \/ calls[t].stale # resetting)
        /\ t \in FreshRecords <=> ~calls[t].stale
    BY <1>10 DEF AddCount, RecordsInProgress, FreshRecords
  <2>2. calls' = [calls EXCEPT ![t] = Idle]
    BY <1>10 DEF AddCount
  <2>3. Cardinality(FreshRecords') = IF t \in FreshRecords THEN c - 1 ELSE c
    <3>1. Cardinality(FreshRecords') =
               Cardinality(FreshRecords)
                 + (IF FreshRatio(Idle) THEN IF t \in FreshRecords THEN 0 ELSE 1
                    ELSE IF t \in FreshRecords THEN -1 ELSE 0)
      BY <1>5, <2>2, CallChangesFinite
    <3>2. CASE t \in FreshRecords
      BY <1>2, <1>5, <3>1, <3>2
    <3>3. CASE t \notin FreshRecords
      BY <1>2, <1>5, <3>1, <3>3
    <3> QED BY <3>2, <3>3
  <2>4. pair'.sum = pair.sum /\ pair'.count = pair.count + 1
    BY <1>1, <2>1
  <2>5. calls[t].stale \in BOOLEAN
    BY <1>1, <1>10 DEF AddCount, Calls, Idle
  <2>6. CASE torn'
    BY <1>4, <2>1, <2>4, <2>6 DEF AverageInv, AverageInStep
  <2>7. CASE ~torn' /\ ~resetting
    <3>1. ~torn /\ t \in FreshRecords
      BY <1>1, <2>1, <2>5, <2>7
    <3>2. pair'.count = n - (c - 1) /\ Cardinality(FreshRecords') = c - 1
      BY <1>4, <2>3, <2>4, <2>7, <3>1
    <3> QED BY <1>3, <1>4, <2>1, <2>4, <2>7, <3>2 DEF AverageInv, AverageInStep
  <2>8. CASE ~torn' /\ resetting
    <3>1. ~torn /\ t \notin FreshRecords
      BY <1>1, <2>1, <2>5, <2>8
    <3>2. Cardinality(FreshRecords') = n
      BY <1>4, <2>3, <2>8, <3>1
    <3> QED BY <1>3, <1>4, <2>1, <2>4, <2>8, <3>2 DEF AverageInv, AverageInStep
  <2> QED BY <1>1, <2>6, <2>7, <2>8
<1>11. ASSUME NEW t \in Threads, NEW v \in Ratios, AddSum(t, v) PROVE AverageInv'
  <2>1. /\ pair' = [pair EXCEPT !.sum = @ + v] /\ added' = Append(added, v)
        /\ UNCHANGED <<torn, resetting>>
        /\ calls[t] = Idle
    BY <1>11 DEF AddSum, resetState
  <2>2. calls' = [calls EXCEPT ![t] = FreshCall]
    BY <1>11 DEF AddSum, FreshCall
  <2>3. FreshCall \in Calls /\ FreshRatio(FreshCall) /\ t \notin FreshRecords /\ v \in Int
    BY <1>5, <2>1, CallKinds, SamplesAssumption DEF RecordsInProgress, FreshRecords, FreshRatio
  <2>4. Cardinality(FreshRecords') = c + 1
    BY <1>2, <2>2, <2>3, CallChangesFinite
  <2>5. pair'.sum = pair.sum + v /\ pair'.count = pair.count
    BY <1>1, <2>1
  <2>6. SumFunction(added') = SumFunction(added) + v /\ SumFunction(added) \in Int
    BY <1>1, <2>1, <2>3, SumAppended
  <2>7. Len(added') = n + 1
    BY <1>1, <1>3, <2>1, AppendProperties
  <2>8. /\ pair'.sum = SumFunction(added')
        /\ ~torn /\ ~resetting => pair'.count = (n + 1) - (c + 1)
        /\ ~torn /\ resetting => n + 1 = c + 1
    BY <1>4, <2>5, <2>6
  <2> QED BY <2>1, <2>4, <2>7, <2>8 DEF AverageInv, AverageInStep
<1>12. ASSUME ResetSum PROVE AverageInv'
  <2>1. pair' = [pair EXCEPT !.sum = 0] /\ added' = <<>> /\ resetting' = TRUE
    BY <1>12 DEF ResetSum
  <2>2. Cardinality(FreshRecords') = 0
    BY <1>12, ResetMakesStale, FS_EmptySet
  <2>3. Len(added') = 0 /\ pair'.sum = 0 /\ SumFunction(added') = 0
    BY <1>1, <2>1, SumOfNone
  <2> QED BY <2>1, <2>2, <2>3 DEF AverageInv, AverageInStep
<1>13. ASSUME ResetCount PROVE AverageInv'
  <2>1. /\ pair' = [pair EXCEPT !.count = 0] /\ UNCHANGED <<added, torn, calls>>
        /\ resetting /\ resetting' = FALSE
    BY <1>13 DEF ResetCount, CountCleared
  <2>2. FreshRecords' = FreshRecords
    BY <2>1 DEF RecordsInProgress, FreshRecords
  <2>3. pair'.sum = pair.sum /\ pair'.count = 0
    BY <1>1, <2>1
  <2>4. ~torn => pair'.count = n - c
    BY <1>4, <2>1, <2>3
  <2> QED BY <1>2, <1>3, <1>4, <2>1, <2>2, <2>3, <2>4 DEF AverageInv, AverageInStep
<1>14. ASSUME NEW ns \in DirectSamples, record_latency(ns) PROVE AverageInv'
  BY <1>7, <1>14 DEF record_latency
<1>15. ASSUME NEW m \in TimerNames, start_timer(m) PROVE AverageInv'
  BY <1>7, <1>15 DEF start_timer
<1>16. CASE TelemetryTimePasses \/ UNCHANGED telemetryVars
  BY <1>7, <1>16 DEF TelemetryTimePasses, telemetryVars, telemetryState
<1> QED BY <1>8, <1>9, <1>10, <1>11, <1>12, <1>13, <1>14, <1>15,
           <1>16 DEF TelemetryNext

(* What threads hand to telemetry at the same time is counted once, for    *)
(* every number of threads, timers and calls, and wherever the two stores  *)
(* of a reset come between them.                                           *)
THEOREM ConcurrentCallsCounted == TelemetrySpec => []CountedOnce
<1> DEFINE TInv == TelemetryTyped /\ Fits /\ EachStartMeasuredOnce /\ AverageInv
<1>1. TelemetryInit => TInv
  BY TelemetryTypedInit, FitsInit, CountedOnceInit
<1>2. TInv /\ [TelemetryNext]_telemetryVars => TInv'
  <2> SUFFICES ASSUME TInv, [TelemetryNext]_telemetryVars PROVE TInv'
    OBVIOUS
  <2>1. TelemetryTyped' /\ Fits'
    BY TelemetryTypedStep, FitsStep
  <2>2. EachStartMeasuredOnce' /\ AverageInv'
    BY StartsStep, AverageStep
  <2> QED BY <2>1, <2>2
<1>3. TInv => CountedOnce
  BY DEF CountedOnce, AverageInv
<1> QED BY <1>1, <1>2, <1>3, PTL DEF TelemetrySpec

-------------------------------------------------------------------------------
(* The trade engine: what an account holds.                                *)

(* What is made of each element, and of one more.                          *)
LEMMA SumMapped ==
  ASSUME NEW R, NEW q \in Seq(R), NEW h \in [R -> Int]
  PROVE  /\ [i \in DOMAIN q |-> h[q[i]]] \in Seq(Int)
         /\ \A r \in R : [i \in DOMAIN Append(q, r) |-> h[Append(q, r)[i]]]
                           = Append([i \in DOMAIN q |-> h[q[i]]], h[r])
<1> DEFINE g == [i \in DOMAIN q |-> h[q[i]]]
<1>1. PICK n \in Nat : n = Len(q) /\ DOMAIN q = 1 .. n /\ \A k \in 1 .. n : q[k] \in R
  BY LenProperties, ElementOfSeq
<1>2. g = [i \in 1 .. n |-> g[i]] /\ \A k \in 1 .. n : g[k] = h[q[k]] /\ g[k] \in Int
  BY <1>1
<1> HIDE DEF g
<1>3. g \in Seq(Int) /\ Len(g) = n
  <2>1. DOMAIN g = 1 .. n
    BY <1>2
  <2> QED BY <1>2, <2>1, IsASeq, LenProperties
<1>4. ASSUME NEW r \in R
      PROVE  [i \in DOMAIN Append(q, r) |-> h[Append(q, r)[i]]] = Append(g, h[r])
  <2> DEFINE a == Append(q, r)
             b == Append(g, h[r])
  <2>1. a \in Seq(R) /\ Len(a) = n + 1 /\ a[n + 1] = r /\ \A k \in 1 .. n : a[k] = q[k]
    BY <1>1, AppendProperties
  <2>2. h[r] \in Int
    OBVIOUS
  <2>3. b \in Seq(Int) /\ Len(b) = n + 1 /\ b[n + 1] = h[r] /\ \A k \in 1 .. n : b[k] = g[k]
    BY <1>3, <2>2, AppendProperties
  <2> HIDE DEF a, b
  <2>4. DOMAIN a = 1 .. (n + 1) /\ DOMAIN b = 1 .. (n + 1)
    BY <2>1, <2>3, LenProperties
  <2>5. \A k \in 1 .. (n + 1) : b[k] = h[a[k]]
    <3>1. \A k \in 1 .. (n + 1) : k \in 1 .. n \/ k = n + 1
      OBVIOUS
    <3> QED BY <1>2, <2>1, <2>3, <3>1
  <2>6. b = [k \in 1 .. (n + 1) |-> b[k]]
    BY <2>3, <2>4
  <2>7. [i \in DOMAIN a |-> h[a[i]]] = [k \in 1 .. (n + 1) |-> b[k]]
    BY <2>4, <2>5
  <2> QED BY <2>6, <2>7 DEF a, b
<1> QED BY <1>3, <1>4 DEF g

NetOf == [f \in Fill |-> Signed(f.side, f.qty)]
CashOf == [f \in Fill |-> -Signed(f.side, f.qty) * f.price]

(* What a fill adds to the quantity held and to the cash.                  *)
LEMMA FillValues ==
  ASSUME NEW f \in Fill
  PROVE  /\ Signed(f.side, f.qty) \in Int /\ Signed(f.side, f.qty) * f.price \in Int
         /\ NetOf[f] = Signed(f.side, f.qty) /\ NetOf[f] \in Int
         /\ CashOf[f] = -Signed(f.side, f.qty) * f.price /\ CashOf[f] \in Int
<1>1. f.qty \in Int /\ f.price \in Int
  BY DEF Fill
<1>2. PICK x \in Int : x = Signed(f.side, f.qty)
  BY <1>1 DEF Signed
<1>3. x * f.price \in Int /\ (-x) * f.price \in Int
  BY <1>1, <1>2, MulDist
<1> QED BY <1>2, <1>3 DEF NetOf, CashOf

(* One more fill.                                                          *)
LEMMA HoldsMore ==
  ASSUME NEW fs \in Seq(Fill), NEW f \in Fill
  PROVE  /\ Net(fs) \in Int /\ Cash(fs) \in Int
         /\ Net(Append(fs, f)) = Net(fs) + Signed(f.side, f.qty)
         /\ Cash(Append(fs, f)) = Cash(fs) + (-Signed(f.side, f.qty) * f.price)
<1>1. NetOf \in [Fill -> Int] /\ CashOf \in [Fill -> Int]
  BY FillValues DEF NetOf, CashOf
<1>2. \A q \in Seq(Fill) : \A i \in DOMAIN q : q[i] \in Fill
  BY ElementOfSeq, LenProperties
<1>3. \A q \in Seq(Fill) : /\ [i \in DOMAIN q |-> Signed(q[i].side, q[i].qty)] = [i \in DOMAIN q |-> NetOf[q[i]]]
                           /\ [i \in DOMAIN q |-> -Signed(q[i].side, q[i].qty) * q[i].price]
                                = [i \in DOMAIN q |-> CashOf[q[i]]]
  BY <1>2, FillValues
<1>4. Append(fs, f) \in Seq(Fill)
  BY AppendProperties
<1> DEFINE n(q) == [i \in DOMAIN q |-> NetOf[q[i]]]
           c(q) == [i \in DOMAIN q |-> CashOf[q[i]]]
<1>5. /\ n(fs) \in Seq(Int) /\ n(Append(fs, f)) = Append(n(fs), NetOf[f])
      /\ c(fs) \in Seq(Int) /\ c(Append(fs, f)) = Append(c(fs), CashOf[f])
  BY <1>1, SumMapped
<1>6. \A q \in Seq(Fill) : Net(q) = SumFunction(n(q)) /\ Cash(q) = SumFunction(c(q))
  BY <1>3 DEF Net, Cash
<1>7. NetOf[f] \in Int /\ CashOf[f] \in Int
  BY FillValues
<1> HIDE DEF n, c
<1>8. /\ SumFunction(n(fs)) \in Int /\ SumFunction(Append(n(fs), NetOf[f])) = SumFunction(n(fs)) + NetOf[f]
      /\ SumFunction(c(fs)) \in Int /\ SumFunction(Append(c(fs), CashOf[f])) = SumFunction(c(fs)) + CashOf[f]
  BY <1>5, <1>7, SumAppended
<1> QED BY <1>4, <1>5, <1>6, <1>8, FillValues

(* An account without fills holds nothing and has spent nothing.           *)
LEMMA HoldsNone == Net(<<>>) = 0 /\ Cash(<<>>) = 0
<1>1. DOMAIN <<>> = {}
  BY EmptySeq
<1>2. /\ [i \in DOMAIN <<>> |-> Signed(<<>>[i].side, <<>>[i].qty)] = <<>>
      /\ [i \in DOMAIN <<>> |-> -Signed(<<>>[i].side, <<>>[i].qty) * <<>>[i].price] = <<>>
  BY <1>1
<1> QED BY <1>2, SumOfNone DEF Net, Cash

(* Division is exact where it has no remainder.                            *)
LEMMA DividesExactly ==
  ASSUME NEW m \in Nat \ {0}, NEW x \in Int
  PROVE  (m * x) \div m = x
<1>1. PICK a \in Int : a = m * x
  BY MulDist
<1>2. a \div m \in Int /\ a % m \in 0 .. (m - 1) /\ a = (m * (a \div m)) + (a % m)
  BY DivMod
<1>3. a % m = 0
  <2>1. 0 \in 0 .. (m - 1)
    OBVIOUS
  <2>2. ((m * x) + 0) % m = 0
    BY <2>1, ModUnique
  <2> QED BY <1>1, <2>2
<1>4. m * (a \div m) = m * x
  BY <1>1, <1>2, <1>3
<1> DEFINE d == a \div m
<1>5. d \in Int /\ m * d = m * x
  BY <1>2, <1>4
<1> HIDE DEF d
<1>6. d = x
  <2>1. m * (d - x) = 0
    <3>1. m * (d - x) = (m * d) - (m * x) /\ m * x \in Int
      BY <1>5, MulDist
    <3> QED BY <1>5, <3>1
  <2>2. d - x = 0
    BY <1>5, <2>1, SMT
  <2> QED BY <1>5, <2>2
<1> QED BY <1>1, <1>6 DEF d

AllOn(fs, s) == \A i \in DOMAIN fs : fs[i].side = s

(* A position built up on side s in at most n fills: all it has cost is in *)
(* its average, and a number of fills of one of the trades is not exceeded.*)
BuiltUp(pos, fs, s, n) ==
  /\ pos.realized_pnl = 0
  /\ pos.total_qty[s] = Signed(s, pos.net_qty)
  /\ pos.avg_price[s] * pos.net_qty = -(Scale * Cash(fs))
  /\ \E t \in TradeReports : pos.total_qty[s] <= n * t.qty

(* What was realised, and what the rest has cost by the average.           *)
Earned(pos, fs) ==
  pos.realized_pnl = (Scale * Cash(fs)) + (pos.avg_price[fs[1].side] * pos.net_qty)

(* After at most n trades.                                                 *)
PosFits(pos, fs, n) ==
  /\ pos \in Position /\ pos.net_qty = Net(fs)
  /\ \A s \in Sides : AllOn(fs, s) => BuiltUp(pos, fs, s, n)
  /\ OneRound(fs) => Earned(pos, fs)

(* The fields of an updated position.                                      *)
IsUpdated(pos, r, s, avg, tot, gain, q) ==
  /\ r.realized_pnl = pos.realized_pnl + gain
  /\ r.avg_price[s] = avg /\ r.avg_price[Opposite(s)] = pos.avg_price[Opposite(s)]
  /\ r.total_qty[s] = tot /\ r.total_qty[Opposite(s)] = pos.total_qty[Opposite(s)]
  /\ r.net_qty = pos.net_qty + Signed(s, q)

(* update_position sets the average, the open quantity, the realised profit*)
(* and the net quantity as named here.                                     *)
LEMMA UpdateIs ==
  ASSUME NEW pos \in Position, NEW s \in Sides, NEW q \in Nat \ {0}, NEW p \in Int,
         NewAverage(pos, s, q, p) \in Int, Realized(pos, s, q, p) \in Int
  PROVE  LET r == update_position(pos, s, q, p)
         IN  /\ r \in Position
             /\ IsUpdated(pos, r, s, NewAverage(pos, s, q, p), NewTotal(pos, s, q),
                          Realized(pos, s, q, p), q)
<1> DEFINE r == update_position(pos, s, q, p)
<1>1. PICK a \in Int : a = NewAverage(pos, s, q, p)
  OBVIOUS
<1>2. PICK g \in Int : g = Realized(pos, s, q, p)
  OBVIOUS
<1>3. pos.total_qty \in [Sides -> Nat] /\ pos.avg_price \in [Sides -> Int]
      /\ pos.net_qty \in Int /\ pos.realized_pnl \in Int /\ pos.unrealized_pnl \in Int
  BY DEF Position
<1>4. PICK t \in Nat : t = NewTotal(pos, s, q)
  BY <1>3 DEF NewTotal
<1>5. PICK n \in Int : n = pos.net_qty + Signed(s, q)
  BY <1>3 DEF Signed
<1>6. PICK z \in Int : z = pos.realized_pnl + g
  BY <1>3
<1>7. r = [pos EXCEPT !.realized_pnl = z, !.avg_price[s] = a, !.total_qty[s] = t, !.net_qty = n]
  BY <1>1, <1>2, <1>4, <1>5, <1>6 DEF update_position
<1>8. Opposite(s) # s /\ Opposite(s) \in Sides
  BY DEF Opposite, Sides, Buy, Sell
<1> HIDE DEF r
<1>9. r.realized_pnl = z /\ r.net_qty = n /\ r.unrealized_pnl = pos.unrealized_pnl
      /\ r.avg_price = [pos.avg_price EXCEPT ![s] = a] /\ r.total_qty = [pos.total_qty EXCEPT ![s] = t]
  BY <1>7 DEF Position
<1>10. r = [net_qty |-> r.net_qty, total_qty |-> r.total_qty, avg_price |-> r.avg_price,
            realized_pnl |-> r.realized_pnl, unrealized_pnl |-> r.unrealized_pnl]
  BY <1>7 DEF Position
<1>11. r \in Position
  <2>1. r.avg_price \in [Sides -> Int] /\ r.total_qty \in [Sides -> Nat]
    BY <1>3, <1>9
  <2> QED BY <1>3, <1>9, <1>10, <2>1 DEF Position
<1>12. IsUpdated(pos, r, s, a, t, g, q)
  BY <1>3, <1>5, <1>6, <1>8, <1>9 DEF IsUpdated
<1> QED BY <1>1, <1>2, <1>4, <1>11, <1>12 DEF r

(* The average of a position stays exact, and what it costs in it.         *)
LEMMA AverageExact ==
  ASSUME NEW s \in Sides, NEW avg \in Int, NEW tot \in Nat, NEW net \in Int, NEW cash \in Int,
         tot = Signed(s, net), avg * net = -(Scale * cash),
         NEW q \in Nat \ {0}, NEW p \in Int, Scale % (tot + q) = 0
  PROVE  LET new == ((avg * tot) + ((Scale * p) * q)) \div (tot + q)
         IN  /\ new \in Int
             /\ new * (net + Signed(s, q)) = -(Scale * (cash + (-Signed(s, q) * p)))
<1>1. PICK m \in Nat \ {0} : m = tot + q
  OBVIOUS
<1>2. PICK c \in Int : Scale = m * c
  <2>1. Scale \in Int /\ Scale % m = 0
    BY <1>1, ScaleAssumption
  <2>2. Scale \div m \in Int /\ Scale = (m * (Scale \div m)) + (Scale % m)
    BY <2>1, DivMod
  <2>3. PICK d \in Int : d = Scale \div m
    BY <2>2
  <2>4. PICK e \in Int : e = m * d
    BY MulDist
  <2>5. Scale = e
    BY <2>1, <2>2, <2>3, <2>4
  <2> QED BY <2>4, <2>5
<1>3. PICK pq \in Int : pq = p * q
  BY MulDist
<1>4. Scale \in Int
  BY ScaleAssumption
<1> DEFINE y == IF s = Buy THEN -cash ELSE cash
           z == y + pq
<1>5. y \in Int /\ z \in Int
  BY <1>3
<1>6. avg * tot = Scale * y
  <2>1. PICK a \in Int : a = avg * net
    BY MulDist
  <2>2. PICK b \in Int : b = Scale * cash
    BY <1>4, MulDist
  <2>3. CASE s = Buy
    <3>1. Scale * (-cash) = -b
      BY <1>4, <2>2, SMT
    <3> QED BY <2>1, <2>2, <2>3, <3>1 DEF Signed
  <2>4. CASE s # Buy
    <3>1. tot = -net
      BY <2>4 DEF Signed
    <3>2. avg * (-net) = -a
      BY <2>1, SMT
    <3> QED BY <2>1, <2>2, <2>4, <3>1, <3>2
  <2> QED BY <2>3, <2>4
<1>7. (Scale * p) * q = Scale * pq
  BY <1>3, <1>4, SMT
<1> HIDE DEF y, z
<1>8. (avg * tot) + ((Scale * p) * q) = Scale * z
  BY <1>3, <1>4, <1>5, <1>6, <1>7, MulDist DEF z
<1>9. Scale * z = m * (c * z) /\ c * z \in Int
  BY <1>2, <1>5, SMT
<1>10. ((avg * tot) + ((Scale * p) * q)) \div (tot + q) = c * z
  BY <1>1, <1>8, <1>9, DividesExactly
<1>11. (c * z) * (net + Signed(s, q)) = -(Scale * (cash + (-Signed(s, q) * p)))
  <2>1. CASE s = Buy
    <3>1. net + Signed(s, q) = m /\ Signed(s, q) = q
      BY <1>1, <2>1 DEF Signed
    <3>2. cash + (-q * p) = -z
      <4>1. -q * p = -pq
        BY <1>3, SMT
      <4> QED BY <1>3, <2>1, <4>1 DEF z, y
    <3>3. (c * z) * m = Scale * z
      BY <1>2, <1>5, SMT
    <3>4. Scale * z = -(Scale * (-z))
      BY <1>4, <1>5, SMT
    <3> QED BY <3>1, <3>2, <3>3, <3>4
  <2>2. CASE s # Buy
    <3>1. net + Signed(s, q) = -m /\ Signed(s, q) = -q
      BY <1>1, <2>2 DEF Signed
    <3>2. cash + (-(-q) * p) = z
      <4>1. -(-q) * p = pq
        BY <1>3, SMT
      <4> QED BY <1>3, <2>2, <4>1 DEF z, y
    <3>3. (c * z) * (-m) = -(Scale * z)
      BY <1>2, <1>5, SMT
    <3> QED BY <3>1, <3>2, <3>3
  <2> QED BY <2>1, <2>2
<1> QED BY <1>9, <1>10, <1>11

(* The new average and the realised profit are integers: no division by    *)
(* zero.                                                                   *)
LEMMA UpdateTyped ==
  ASSUME NEW pos \in Position, NEW s \in Sides, NEW q \in Nat \ {0}, NEW p \in Int
  PROVE  NewAverage(pos, s, q, p) \in Int /\ Realized(pos, s, q, p) \in Int
<1>1. pos.avg_price[s] \in Int /\ pos.total_qty[s] \in Nat /\ pos.net_qty \in Int
      /\ pos.avg_price[Opposite(s)] \in Int
  BY DEF Position, Opposite, Sides
<1>2. PICK x \in Int : x = Scale * p
  BY ScaleAssumption, MulDist
<1>3. NewAverage(pos, s, q, p) \in Int
  <2>1. pos.avg_price[s] * pos.total_qty[s] \in Int /\ x * q \in Int
    BY <1>1, <1>2, MulDist
  <2>2. PICK a \in Int : a = (pos.avg_price[s] * pos.total_qty[s]) + (x * q)
    BY <2>1
  <2>3. PICK m \in Nat \ {0} : m = pos.total_qty[s] + q
    BY <1>1
  <2>4. a \div m \in Int
    BY DivMod
  <2> QED BY <1>1, <1>2, <2>2, <2>3, <2>4 DEF NewAverage
<1>4. Realized(pos, s, q, p) \in Int
  <2>1. Abs(pos.net_qty) \in Int
    BY <1>1 DEF Abs
  <2>2. PICK a \in Int : a = Min({q, Abs(pos.net_qty)})
    BY <2>1, MinMaxOfTwo
  <2>3. PICK b \in Int : b = Signed(s, pos.avg_price[Opposite(s)] - x)
    BY <1>1, <1>2 DEF Signed
  <2>4. a * b \in Int
    BY MulDist
  <2> QED BY <1>2, <2>2, <2>3, <2>4 DEF Realized
<1> QED BY <1>3, <1>4

(* A fill on the side that a position was built up on.                     *)
LEMMA BuildsUp ==
  ASSUME NEW pos \in Position, NEW fs \in Seq(Fill), NEW n \in Nat, n + 1 <= MaxBooked,
         NEW s \in Sides, BuiltUp(pos, fs, s, n),
         NEW t \in TradeReports, NEW q \in Nat \ {0}, q = t.qty, NEW p \in Int,
         NEW f \in Fill, f.side = s, f.qty = q, f.price = p
  PROVE  BuiltUp(update_position(pos, s, q, p), Append(fs, f), s, n + 1)
<1> DEFINE r == update_position(pos, s, q, p)
           avg == pos.avg_price[s]
           tot == pos.total_qty[s]
           net == pos.net_qty
           cash == Cash(fs)
           new == ((avg * tot) + ((Scale * p) * q)) \div (tot + q)
<1>1. avg \in Int /\ tot \in Nat /\ net \in Int /\ pos.realized_pnl = 0 /\ cash \in Int
      /\ tot = Signed(s, net) /\ avg * net = -(Scale * cash)
  <2>1. avg \in Int /\ tot \in Nat /\ net \in Int
    BY DEF Position
  <2>2. cash \in Int
    BY HoldsMore
  <2> QED BY <2>1, <2>2 DEF BuiltUp
<1>2. ~Opposed(pos, s)
  BY <1>1 DEF Opposed
<1>3. NewAverage(pos, s, q, p) = new /\ NewTotal(pos, s, q) = tot + q /\ Realized(pos, s, q, p) = 0
  BY <1>2 DEF NewAverage, NewTotal, Realized
<1>4. IsUpdated(pos, r, s, NewAverage(pos, s, q, p), NewTotal(pos, s, q), Realized(pos, s, q, p), q)
  BY UpdateTyped, UpdateIs
<1> HIDE DEF r, new
<1>5. r.realized_pnl = 0 /\ r.avg_price[s] = new /\ r.total_qty[s] = tot + q
      /\ r.net_qty = net + Signed(s, q)
  BY <1>1, <1>3, <1>4 DEF IsUpdated
<1>6. PICK u \in TradeReports : tot + q <= (n + 1) * u.qty /\ tot + q \in 1 .. (MaxBooked * u.qty)
  <2>1. PICK t0 \in TradeReports : tot <= n * t0.qty
    BY DEF BuiltUp
  <2> DEFINE u == IF t0.qty < q THEN t ELSE t0
  <2>2. u \in TradeReports /\ u.qty \in Nat /\ q <= u.qty /\ t0.qty <= u.qty /\ t0.qty \in Nat
    BY TradeReportsAssumption
  <2> HIDE DEF u
  <2>3. PICK k \in Nat : k = u.qty
    BY <2>2
  <2>4. n * t0.qty <= n * k /\ n * t0.qty \in Int /\ n * k \in Int
    BY <2>2, <2>3, MulMono, MulDist
  <2>5. (n + 1) * k = (n * k) + k
    BY SMT
  <2>6. tot + q <= (n + 1) * k
    <3>1. PICK a \in Int : a = n * t0.qty
      BY <2>4
    <3>2. PICK b \in Int : b = n * k
      BY <2>4
    <3>3. tot <= a /\ a <= b /\ q <= k /\ (n + 1) * k = b + k
      BY <2>1, <2>2, <2>3, <2>4, <2>5, <3>1, <3>2
    <3> QED BY <1>1, <2>3, <3>3
  <2>7. (n + 1) * k <= MaxBooked * k /\ (n + 1) * k \in Int /\ MaxBooked * k \in Int
    <3>1. k * (n + 1) <= k * MaxBooked
      BY MaxBookedAssumption, MulMono
    <3> QED BY <3>1, MaxBookedAssumption, SMT
  <2>8. tot + q \in 1 .. (MaxBooked * k)
    BY <1>1, <2>6, <2>7
  <2> QED BY <2>2, <2>3, <2>6, <2>8
<1>7. Scale % (tot + q) = 0
  BY <1>6, ScaleAssumption
<1>8. new * (net + Signed(s, q)) = -(Scale * (cash + (-Signed(s, q) * p)))
  BY <1>1, <1>7, AverageExact DEF new
<1>9. Cash(Append(fs, f)) = cash + (-Signed(s, q) * p)
  BY HoldsMore
<1>10. r.total_qty[s] = Signed(s, r.net_qty)
  BY <1>1, <1>5 DEF Signed
<1>11. r.avg_price[s] * r.net_qty = -(Scale * Cash(Append(fs, f)))
  BY <1>5, <1>8, <1>9
<1>12. \E report \in TradeReports : r.total_qty[s] <= (n + 1) * report.qty
  BY <1>5, <1>6
<1>13. BuiltUp(r, Append(fs, f), s, n + 1)
  BY <1>5, <1>10, <1>11, <1>12 DEF BuiltUp
<1> QED BY <1>13 DEF r

(* A fill that reduces a position, not past zero.                          *)
LEMMA ReducesBuilt ==
  ASSUME NEW pos \in Position, NEW fs \in Seq(Fill), NEW s \in Sides,
         pos.realized_pnl = (Scale * Cash(fs)) + (pos.avg_price[s] * pos.net_qty),
         NEW q \in Nat \ {0}, NEW p \in Int, q <= Signed(s, pos.net_qty),
         NEW f \in Fill, f.side = Opposite(s), f.qty = q, f.price = p
  PROVE  LET r == update_position(pos, Opposite(s), q, p)
         IN  r.realized_pnl = (Scale * Cash(Append(fs, f))) + (r.avg_price[s] * r.net_qty)
<1> DEFINE o == Opposite(s)
           r == update_position(pos, o, q, p)
           avg == pos.avg_price[s]
           net == pos.net_qty
           cash == Cash(fs)
<1>1. o \in Sides /\ o # s /\ Opposite(o) = s
  BY DEF Opposite, Sides, Buy, Sell
<1>2. avg \in Int /\ net \in Int /\ pos.realized_pnl \in Int /\ cash \in Int /\ Scale \in Int
  <2>1. cash \in Int
    BY HoldsMore
  <2> QED BY <2>1, ScaleAssumption DEF Position
<1>3. Opposed(pos, o) /\ Abs(net) = Signed(s, net)
  BY <1>1, <1>2 DEF Opposed, Signed, Opposite, Sides, Buy, Sell, Abs
<1>4. Min({q, Abs(net)}) = q
  <2>1. Abs(net) \in Int
    BY <1>2 DEF Abs
  <2> QED BY <1>3, <2>1, MinMaxOfTwo
<1>5. PICK g \in Int : g = q * Signed(o, avg - (Scale * p)) /\ Realized(pos, o, q, p) = g
  <2>1. Realized(pos, o, q, p) \in Int
    BY <1>1, UpdateTyped
  <2>2. Realized(pos, o, q, p) = q * Signed(o, avg - (Scale * p))
    BY <1>1, <1>3, <1>4 DEF Realized
  <2> QED BY <2>1, <2>2
<1>6. IsUpdated(pos, r, o, NewAverage(pos, o, q, p), NewTotal(pos, o, q), g, q)
  BY <1>1, <1>5, UpdateTyped, UpdateIs
<1> HIDE DEF r
<1>7. r.realized_pnl = pos.realized_pnl + g /\ r.avg_price[s] = avg /\ r.net_qty = net + Signed(o, q)
  BY <1>1, <1>6 DEF IsUpdated
<1>8. Cash(Append(fs, f)) = cash + (-Signed(o, q) * p)
  BY HoldsMore
<1>9. PICK sq \in Int : sq = Signed(o, q)
  BY DEF Signed
<1>10. g = (sq * avg) - (sq * (Scale * p))
  <2>1. PICK sp \in Int : sp = Scale * p
    BY <1>2, MulDist
  <2>2. Signed(o, avg - sp) = IF o = Buy THEN avg - sp ELSE -(avg - sp)
    BY DEF Signed
  <2>3. PICK x \in Int : x = avg
    BY <1>2
  <2>4. q * (x - sp) = (q * x) - (q * sp) /\ (-q) * (x - sp) = ((-q) * x) - ((-q) * sp)
    BY MulDist
  <2>5. q * (-(x - sp)) = (-q) * (x - sp)
    BY SMT
  <2> QED BY <1>5, <1>9, <2>1, <2>2, <2>3, <2>4, <2>5 DEF Signed
<1>11. Scale * (cash + (-sq * p)) = (Scale * cash) - (sq * (Scale * p))
  BY <1>2, <1>9, SMT
<1>12. avg * (net + sq) = (avg * net) + (sq * avg)
  BY <1>2, <1>9, SMT
<1>13. PICK a \in Int : a = Scale * cash
  BY <1>2, MulDist
<1>14. PICK b \in Int : b = avg * net
  BY <1>2, MulDist
<1>15. PICK c \in Int : c = sq * avg
  BY <1>2, <1>9, MulDist
<1>16. PICK d \in Int : d = sq * (Scale * p)
  <2>1. Scale * p \in Int
    BY <1>2, MulDist
  <2> QED BY <1>9, <2>1, MulDist
<1>17. r.realized_pnl = (a + b) + (c - d)
  BY <1>7, <1>10, <1>13, <1>14, <1>15, <1>16
<1>18. Scale * Cash(Append(fs, f)) = a - d /\ r.avg_price[s] * r.net_qty = b + c
  BY <1>7, <1>8, <1>9, <1>11, <1>12, <1>13, <1>14, <1>15, <1>16
<1>19. r.realized_pnl = (Scale * Cash(Append(fs, f))) + (r.avg_price[s] * r.net_qty)
  BY <1>17, <1>18
<1> QED BY <1>19 DEF r

(* A position built up on one side has realised nothing, and what it cost  *)
(* is in the average.                                                      *)
LEMMA BuiltEarned ==
  ASSUME NEW pos \in Position, NEW fs \in Seq(Fill), NEW n, BuiltUp(pos, fs, fs[1].side, n),
         fs[1].side \in Sides
  PROVE  Earned(pos, fs)
<1> DEFINE s == fs[1].side
<1>1. pos.realized_pnl = 0 /\ pos.avg_price[s] * pos.net_qty = -(Scale * Cash(fs))
  BY DEF BuiltUp
<1>2. PICK a \in Int : a = Scale * Cash(fs)
  <2>1. Cash(fs) \in Int
    <3>1. (CHOOSE f : f \in Fill) \in Fill
      <4>1. [side |-> Buy, qty |-> 1, price |-> 0] \in Fill
        BY DEF Fill, Sides
      <4> QED BY <4>1
    <3> QED BY <3>1, HoldsMore
  <2> QED BY <2>1, ScaleAssumption, MulDist
<1> QED BY <1>1, <1>2 DEF Earned

(* gs is the fills fs and the fill f.                                      *)
IsOneMore(fs, gs, f) ==
  /\ gs \in Seq(Fill) /\ Len(fs) \in Nat /\ DOMAIN fs = 1 .. Len(fs)
  /\ DOMAIN gs = 1 .. (Len(fs) + 1) /\ gs[Len(fs) + 1] = f
  /\ \A i \in DOMAIN fs : gs[i] = fs[i]
  /\ gs[1].side \in Sides

(* A fill appended is one more fill.                                       *)
LEMMA OneMoreFill ==
  ASSUME NEW fs \in Seq(Fill), NEW f \in Fill
  PROVE  IsOneMore(fs, Append(fs, f), f)
<1>1. PICK a : a = Append(fs, f)
  OBVIOUS
<1>2. /\ a \in Seq(Fill) /\ Len(a) = Len(fs) + 1 /\ a[Len(fs) + 1] = f
      /\ Len(fs) \in Nat /\ DOMAIN fs = 1 .. Len(fs) /\ \A i \in DOMAIN fs : a[i] = fs[i]
  BY <1>1, AppendProperties, LenProperties
<1>3. DOMAIN a = 1 .. (Len(fs) + 1)
  BY <1>2, LenProperties
<1>4. a[1] \in Fill
  <2>1. 1 \in 1 .. Len(a)
    BY <1>2
  <2> QED BY <1>2, <2>1, ElementOfSeq
<1>5. a[1].side \in Sides
  BY <1>4 DEF Fill
<1>6. IsOneMore(fs, a, f)
  BY <1>2, <1>3, <1>5 DEF IsOneMore
<1> QED BY <1>1, <1>6

(* update_position keeps a position in step with the fills of its account. *)
LEMMA UpdateFits ==
  ASSUME NEW pos, NEW fs \in Seq(Fill), NEW n \in Nat, PosFits(pos, fs, n),
         NEW t \in TradeReports, NEW s \in Sides, NEW f \in Fill,
         f.side = s, f.qty = t.qty, f.price = t.price,
         NEW m, m <= MaxBooked,
         m = n + 1 \/ (m = n /\ \A x \in Sides : ~AllOn(Append(fs, f), x))
  PROVE  PosFits(update_position(pos, s, t.qty, t.price), Append(fs, f), m)
<1> DEFINE r == update_position(pos, s, t.qty, t.price)
           gs == Append(fs, f)
<1>1. t.qty \in Nat \ {0} /\ t.price \in Int
  BY TradeReportsAssumption
<1>2. PICK q \in Nat \ {0} : q = t.qty
  BY <1>1
<1>3. PICK p \in Int : p = t.price
  BY <1>1
<1>4. pos \in Position /\ pos.net_qty = Net(fs) /\ (OneRound(fs) => Earned(pos, fs))
  BY DEF PosFits
<1>5. /\ gs \in Seq(Fill) /\ Len(fs) \in Nat /\ DOMAIN fs = 1 .. Len(fs)
      /\ DOMAIN gs = 1 .. (Len(fs) + 1) /\ gs[Len(fs) + 1] = f
      /\ \A i \in DOMAIN fs : gs[i] = fs[i]
      /\ gs[1].side \in Sides
  <2>1. IsOneMore(fs, gs, f)
    BY OneMoreFill
  <2> HIDE DEF gs, r
  <2> QED BY <2>1 DEF IsOneMore
<1>6. /\ Net(fs) \in Int /\ Cash(fs) \in Int /\ Net(gs) = Net(fs) + Signed(s, q)
  BY <1>2, HoldsMore
<1>7. /\ r \in Position /\ r.net_qty = Net(gs)
  <2> DEFINE u == update_position(pos, s, q, p)
  <2>1. u \in Position /\ IsUpdated(pos, u, s, NewAverage(pos, s, q, p), NewTotal(pos, s, q),
                                    Realized(pos, s, q, p), q)
    <3>1. pos \in Position
      BY <1>4
    <3> QED BY <3>1, UpdateTyped, UpdateIs
  <2>2. r = u
    BY <1>2, <1>3
  <2> HIDE DEF r, gs, u
  <2>3. u.net_qty = pos.net_qty + Signed(s, q)
    BY <2>1 DEF IsUpdated
  <2> QED BY <1>4, <1>6, <2>1, <2>2, <2>3
<1> HIDE DEF gs
<1>8. ASSUME NEW x \in Sides, AllOn(gs, x) PROVE BuiltUp(r, gs, x, m)
  <2>1. x = s
    <3>1. Len(fs) + 1 \in DOMAIN gs
      BY <1>5
    <3> QED BY <1>5, <1>8, <3>1 DEF AllOn
  <2>2. AllOn(fs, s)
    <3>1. \A i \in DOMAIN fs : i \in DOMAIN gs
      BY <1>5
    <3> QED BY <1>5, <1>8, <2>1, <3>1 DEF AllOn
  <2>3. m = n + 1
    BY <1>8 DEF gs
  <2>4. BuiltUp(pos, fs, s, n)
    BY <2>2 DEF PosFits
  <2>5. BuiltUp(update_position(pos, s, q, p), Append(fs, f), s, n + 1)
    <3>1. n + 1 <= MaxBooked
      BY <2>3
    <3>2. pos \in Position /\ f.side = s /\ f.qty = q /\ f.price = p
      BY <1>2, <1>3, <1>4
    <3> HIDE DEF r
    <3> QED BY <1>2, <2>4, <3>1, <3>2, BuildsUp
  <2> QED BY <1>2, <1>3, <2>1, <2>3, <2>5 DEF gs
<1>9. ASSUME OneRound(gs) PROVE Earned(r, gs)
  <2> HIDE DEF r
  <2>1. PICK a \in Sides : a = gs[1].side
    BY <1>5
  <2>2. PICK k \in DOMAIN gs : /\ \A i \in DOMAIN gs : (i <= k) <=> (gs[i].side = a)
                               /\ Signed(a, Net(gs)) >= 0
    BY <1>9, <2>1 DEF OneRound
  <2>3. CASE AllOn(gs, a)
    <3>1. BuiltUp(r, gs, a, m)
      BY <1>8, <2>3
    <3> QED BY <1>5, <1>7, <2>1, <3>1, BuiltEarned
  <2>4. CASE ~AllOn(gs, a)
    <3>1. PICK i \in DOMAIN gs : gs[i].side # a
      BY <2>4 DEF AllOn
    <3>2. k < i /\ i <= Len(fs) + 1 /\ k \in DOMAIN fs /\ 1 \in DOMAIN fs /\ i \in Int /\ k \in Int
      BY <1>5, <2>2, <3>1
    <3>3. fs[1].side = a
      BY <1>5, <2>1, <3>2
    <3>4. s # a
      <4>1. Len(fs) + 1 \in DOMAIN gs /\ ~(Len(fs) + 1 <= k)
        BY <1>5, <3>2
      <4> QED BY <1>5, <2>2, <4>1
    <3>5. s = Opposite(a)
      BY <1>5, <3>4 DEF Opposite, Sides
    <3>6. q <= Signed(a, pos.net_qty) /\ Signed(a, Net(fs)) >= 0
      <4>1. PICK z \in Int : z = Net(fs)
        BY <1>6
      <4>2. Signed(a, z + Signed(s, q)) >= 0
        BY <1>6, <2>2, <4>1
      <4>3. (s = Buy /\ a # Buy) \/ (s # Buy /\ a = Buy)
        BY <3>4 DEF Sides
      <4>4. q <= Signed(a, z) /\ Signed(a, z) >= 0
        BY <1>2, <4>2, <4>3 DEF Signed
      <4> QED BY <1>4, <4>1, <4>4
    <3>7. OneRound(fs)
      <4>1. \A j \in DOMAIN fs : j \in DOMAIN gs
        BY <1>5
      <4>2. \A j \in DOMAIN fs : (j <= k) <=> (fs[j].side = fs[1].side)
        BY <1>5, <2>2, <3>3, <4>1
      <4> QED BY <3>2, <3>3, <3>6, <4>2 DEF OneRound
    <3>8. pos.realized_pnl = (Scale * Cash(fs)) + (pos.avg_price[a] * pos.net_qty)
      <4>1. Earned(pos, fs)
        BY <1>4, <3>7
      <4> QED BY <3>3, <4>1 DEF Earned
    <3>9. r.realized_pnl = (Scale * Cash(gs)) + (r.avg_price[a] * r.net_qty)
      <4> DEFINE u == update_position(pos, Opposite(a), q, p)
      <4>1. f.side = Opposite(a) /\ f.qty = q /\ f.price = p /\ pos \in Position
        BY <1>2, <1>3, <1>4, <3>5
      <4>2. r = u
        BY <1>2, <1>3, <3>5 DEF r
      <4>3. u.realized_pnl = (Scale * Cash(Append(fs, f))) + (u.avg_price[a] * u.net_qty)
        <5>1. q <= Signed(a, pos.net_qty)
          BY <3>6
        <5> QED BY <3>8, <4>1, <5>1, ReducesBuilt
      <4> HIDE DEF u
      <4> QED BY <4>2, <4>3 DEF gs
    <3> QED BY <2>1, <3>9 DEF Earned
  <2> QED BY <2>3, <2>4
<1> HIDE DEF r
<1>10. PosFits(r, gs, m)
  BY <1>7, <1>8, <1>9 DEF PosFits
<1> QED BY <1>10 DEF r, gs

-------------------------------------------------------------------------------
(* The trade engine: its invariant.                                        *)

TradeTyped ==
  /\ DOMAIN book_positions \subseteq Accounts
  /\ fills \in [Accounts -> Seq(Fill)]
  /\ total_trades \in 0 .. MaxBooked /\ total_volume \in Nat /\ total_notional \in Int
  /\ DOMAIN marked \subseteq Instruments /\ \A x \in DOMAIN marked : marked[x] \in Int

(* A marked position is valued at its mark.                                *)
Marked(k) ==
  k[2] \in DOMAIN marked =>
    book_positions[k].unrealized_pnl = Unrealized(book_positions[k], marked[k[2]])

TradeInv ==
  /\ TradeTyped
  /\ \A k \in Accounts : PosFits(PositionOrNew(book_positions, k), fills[k], total_trades)
  /\ \A k \in DOMAIN book_positions : Marked(k)

(* Right after a mark, what was realised and what is not add up to the     *)
(* cash and the value of what is held.                                     *)
LEMMA ProfitAddsUp ==
  ASSUME NEW pos \in Position, NEW s \in Sides, NEW net \in Int, NEW cash \in Int, NEW m \in Int,
         net = pos.net_qty, Signed(s, net) >= 0,
         pos.realized_pnl = (Scale * cash) + (pos.avg_price[s] * net),
         pos.unrealized_pnl = Unrealized(pos, m)
  PROVE  pos.realized_pnl + pos.unrealized_pnl = Scale * (cash + (net * m))
<1>1. PICK avg \in Int : avg = pos.avg_price[s]
  BY DEF Position
<1>2. PICK a \in Int : a = Scale * cash
  BY ScaleAssumption, MulDist
<1>3. PICK b \in Int : b = avg * net
  BY MulDist
<1>4. PICK c \in Int : c = net * m
  BY MulDist
<1>5. PICK d \in Int : d = Scale * c
  BY ScaleAssumption, MulDist
<1>6. Scale * (cash + c) = a + d
  BY <1>2, <1>5, ScaleAssumption, MulDist
<1>7. PICK sm \in Int : sm = Scale * m
  BY ScaleAssumption, MulDist
<1>8. net * sm = d
  BY <1>4, <1>5, <1>7, ScaleAssumption, SMT
<1>9. pos.unrealized_pnl = d - b
  <2>1. CASE net = 0
    <3>1. b = 0 /\ d = 0
      BY <1>3, <1>8, <2>1, SMT
    <3>2. Unrealized(pos, m) = 0
      BY <2>1 DEF Unrealized
    <3> QED BY <3>1, <3>2
  <2>2. CASE net > 0
    <3>1. s = Buy
      BY <2>2 DEF Signed
    <3>2. Unrealized(pos, m) = net * (sm - avg)
      BY <1>1, <1>7, <2>2, <3>1 DEF Unrealized
    <3>3. net * (sm - avg) = (net * sm) - (net * avg)
      BY <1>1, <1>7, MulDist
    <3>4. net * avg = b
      BY <1>1, <1>3, SMT
    <3> QED BY <1>8, <3>2, <3>3, <3>4
  <2>3. CASE net < 0
    <3>1. s = Sell
      BY <2>3 DEF Signed, Sides
    <3>2. Unrealized(pos, m) = -net * (avg - sm)
      BY <1>1, <1>7, <2>3, <3>1 DEF Unrealized
    <3>3. -net * (avg - sm) = (net * sm) - (net * avg)
      BY <1>1, <1>7, SMT
    <3>4. net * avg = b
      BY <1>1, <1>3, SMT
    <3> QED BY <1>8, <3>2, <3>3, <3>4
  <2> QED BY <2>1, <2>2, <2>3
<1>10. pos.realized_pnl = a + b
  BY <1>1, <1>2, <1>3
<1> QED BY <1>4, <1>6, <1>9, <1>10

(* The invariant implies the properties of the runs.                       *)
LEMMA TradeInvSuffices == TradeInv => TradeTypeOK /\ PositionsAndProfit
<1> SUFFICES ASSUME TradeInv PROVE TradeTypeOK /\ PositionsAndProfit
  OBVIOUS
<1>1. TradeTyped
  BY DEF TradeInv
<1>2. ASSUME NEW k \in DOMAIN book_positions
      PROVE  /\ k \in Accounts /\ PosFits(book_positions[k], fills[k], total_trades)
             /\ book_positions[k] \in Position /\ fills[k] \in Seq(Fill)
             /\ book_positions[k].net_qty = Net(fills[k])
  <2>1. k \in Accounts /\ fills[k] \in Seq(Fill)
    BY <1>1 DEF TradeTyped
  <2>2. PosFits(book_positions[k], fills[k], total_trades)
    BY <2>1 DEF TradeInv, PositionOrNew
  <2> QED BY <2>1, <2>2 DEF PosFits
<1>3. TradeTypeOK
  BY <1>1, <1>2 DEF TradeTypeOK, TradeTyped
<1>4. NetExact
  BY <1>2 DEF NetExact
<1>5. ProfitOfOneRound
  <2> SUFFICES ASSUME NEW k \in DOMAIN book_positions, OneRound(fills[k])
               PROVE  /\ book_positions[k].net_qty = 0 =>
                           book_positions[k].realized_pnl = Scale * Cash(fills[k])
                      /\ k[2] \in DOMAIN marked =>
                           book_positions[k].realized_pnl + book_positions[k].unrealized_pnl =
                             Scale * (Cash(fills[k]) + Net(fills[k]) * marked[k[2]])
    BY DEF ProfitOfOneRound
  <2>1. PICK pos \in Position : pos = book_positions[k]
    BY <1>2
  <2>2. PICK fs \in Seq(Fill) : fs = fills[k]
    BY <1>2
  <2>3. PosFits(pos, fs, total_trades) /\ pos.net_qty = Net(fs) /\ OneRound(fs)
    BY <1>2, <2>1, <2>2
  <2>4. Earned(pos, fs)
    BY <2>3 DEF PosFits
  <2>5. Signed(fs[1].side, Net(fs)) >= 0 /\ DOMAIN fs # {}
    BY <2>3 DEF OneRound
  <2>6. fs[1].side \in Sides
    <3>1. 1 \in 1 .. Len(fs)
      BY <2>5, LenProperties
    <3>2. fs[1] \in Fill
      BY <3>1, ElementOfSeq
    <3> QED BY <3>2 DEF Fill
  <2>7. PICK s \in Sides : s = fs[1].side
    BY <2>6
  <2>8. PICK cash \in Int : cash = Cash(fs)
    <3>1. [side |-> Buy, qty |-> 1, price |-> 0] \in Fill
      BY DEF Fill, Sides
    <3> QED BY <3>1, HoldsMore
  <2>9. PICK net \in Int : net = Net(fs) /\ net = pos.net_qty
    BY <2>3 DEF Position
  <2>10. Signed(s, net) >= 0 /\ pos.realized_pnl = (Scale * cash) + (pos.avg_price[s] * net)
    BY <2>4, <2>5, <2>7, <2>8, <2>9 DEF Earned
  <2>11. ASSUME net = 0 PROVE pos.realized_pnl = Scale * cash
    <3>1. pos.avg_price[s] \in Int
      BY DEF Position
    <3>2. pos.avg_price[s] * net = 0
      BY <2>11, <3>1, SMT
    <3>3. Scale * cash \in Int
      BY ScaleAssumption, MulDist
    <3> QED BY <2>10, <3>2, <3>3
  <2>12. ASSUME k[2] \in DOMAIN marked
         PROVE  pos.realized_pnl + pos.unrealized_pnl = Scale * (cash + (net * marked[k[2]]))
    <3>1. PICK m \in Int : m = marked[k[2]]
      BY <1>1, <2>12 DEF TradeTyped
    <3>2. pos.unrealized_pnl = Unrealized(pos, m)
      BY <2>1, <2>12, <3>1 DEF TradeInv, Marked
    <3>3. pos.realized_pnl + pos.unrealized_pnl = Scale * (cash + (net * m))
      BY <2>9, <2>10, <3>2, ProfitAddsUp
    <3> QED BY <3>1, <3>3
  <2> QED BY <2>1, <2>2, <2>8, <2>9, <2>11, <2>12
<1> QED BY <1>3, <1>4, <1>5 DEF PositionsAndProfit

(* A new trade engine has no positions, fills or marks.                    *)
LEMMA TradeInvInit == TradeInit => TradeInv
<1> SUFFICES ASSUME TradeInit PROVE TradeInv
  OBVIOUS
<1>1. TradeTyped
  <2>1. << >> \in Seq(Fill)
    BY EmptySeq
  <2> QED BY <2>1, MaxBookedAssumption DEF TradeInit, TradeTyped
<1>2. \A k \in DOMAIN book_positions : Marked(k)
  BY DEF TradeInit
<1>3. ASSUME NEW k \in Accounts
      PROVE  PosFits(PositionOrNew(book_positions, k), fills[k], total_trades)
  <2>1. /\ PositionOrNew(book_positions, k) = NewPosition /\ fills[k] = <<>> /\ total_trades = 0
    BY DEF TradeInit, PositionOrNew
  <2>2. NewPosition \in Position
    BY DEF NewPosition, Position
  <2>3. DOMAIN << >> = {}
    BY EmptySeq
  <2>4. ASSUME NEW s \in Sides PROVE BuiltUp(NewPosition, <<>>, s, 0)
    <3>1. PICK t \in TradeReports : TRUE
      BY DEF Accounts
    <3>2. 0 <= 0 * t.qty
      BY TradeReportsAssumption, SMT
    <3>3. /\ NewPosition.realized_pnl = 0 /\ NewPosition.total_qty[s] = 0
          /\ NewPosition.net_qty = 0 /\ NewPosition.avg_price[s] = 0
      BY DEF NewPosition
    <3>4. 0 = Signed(s, 0)
      <4>1. PICK x \in Int : x <= 0 /\ 0 <= x
        OBVIOUS
      <4>2. -x = x
        BY <4>1
      <4>3. x = Signed(s, x)
        BY <4>2 DEF Signed
      <4>4. x = 0
        BY <4>1
      <4> QED BY <4>3, <4>4
    <3>5. 0 * 0 = -(Scale * 0)
      BY ScaleAssumption, SMT
    <3> QED BY <3>2, <3>3, <3>4, <3>5, HoldsNone DEF BuiltUp
  <2>5. ~OneRound(<<>>)
    BY <2>3 DEF OneRound
  <2>6. PosFits(NewPosition, <<>>, 0)
    BY <2>2, <2>4, <2>5, HoldsNone DEF PosFits, NewPosition
  <2> QED BY <2>1, <2>6
<1> QED BY <1>1, <1>2, <1>3 DEF TradeInv

(* One update changes the position of one account k0.                      *)
UpdatesAt(ps, c, k0, side, qty, price) ==
  /\ DOMAIN c = DOMAIN ps \cup {k0}
  /\ \A k : PositionOrNew(c, k) = IF k = k0 THEN update_position(PositionOrNew(ps, k), side, qty, price)
                                   ELSE PositionOrNew(ps, k)

(* One update of a position leaves the others alone.                       *)
LEMMA UpdatedAt ==
  ASSUME NEW ps, NEW trader, NEW symbol, NEW side, NEW qty, NEW price
  PROVE  UpdatesAt(ps, Updated(ps, trader, symbol, side, qty, price), <<trader, symbol>>, side, qty, price)
BY DEF Updated, PositionOrNew, UpdatesAt

(* And so for its fills.                                                   *)
FillsAt(fs, c, k0, f) ==
  /\ c \in [Accounts -> Seq(Fill)]
  /\ \A k \in Accounts : c[k] = IF k = k0 THEN Append(fs[k], f) ELSE fs[k]

(* One more fill of an account leaves the others alone.                    *)
LEMMA FilledAt ==
  ASSUME NEW fs \in [Accounts -> Seq(Fill)], NEW trader, NEW symbol, <<trader, symbol>> \in Accounts,
         NEW f \in Fill
  PROVE  FillsAt(fs, Filled(fs, trader, symbol, f.side, f.qty, f.price), <<trader, symbol>>, f)
<1>1. f = [side |-> f.side, qty |-> f.qty, price |-> f.price]
  BY DEF Fill
<1> DEFINE g == [side |-> f.side, qty |-> f.qty, price |-> f.price]
           a == <<trader, symbol>>
           c == [fs EXCEPT ![a] = Append(@, g)]
<1>2. c = Filled(fs, trader, symbol, f.side, f.qty, f.price)
  BY DEF Filled
<1> HIDE DEF g, a
<1>3. g = f /\ a = <<trader, symbol>> /\ a \in Accounts
  BY <1>1 DEF g, a
<1>4. Append(fs[a], g) \in Seq(Fill)
  BY <1>3, AppendProperties
<1>5. FillsAt(fs, c, a, f)
  BY <1>3, <1>4 DEF FillsAt
<1> HIDE DEF c
<1> QED BY <1>2, <1>3, <1>5

(* Another trade leaves a position as it was.                              *)
LEMMA FitsLater ==
  ASSUME NEW pos, NEW fs, NEW n \in Nat, PosFits(pos, fs, n)
  PROVE  PosFits(pos, fs, n + 1)
<1> SUFFICES ASSUME NEW s \in Sides, AllOn(fs, s) PROVE BuiltUp(pos, fs, s, n + 1)
  BY DEF PosFits
<1>1. BuiltUp(pos, fs, s, n)
  BY DEF PosFits
<1>2. PICK t \in TradeReports : pos.total_qty[s] <= n * t.qty
  BY <1>1 DEF BuiltUp
<1>3. PICK q \in Nat : q = t.qty
  BY TradeReportsAssumption
<1>4. PICK a \in Int : a = n * q
  BY MulDist
<1>5. (n + 1) * q = a + q
  <2>1. (n + 1) * q = (n * q) + q
    BY SMT
  <2> QED BY <1>4, <2>1
<1>6. pos.total_qty[s] \in Int
  BY DEF PosFits, Position
<1>7. pos.total_qty[s] <= (n + 1) * q
  BY <1>2, <1>3, <1>4, <1>5, <1>6
<1> QED BY <1>1, <1>3, <1>7 DEF BuiltUp

(* process_trade updates the positions of the two traders, one after the   *)
(* other, or twice the same one, and keeps both in step with their fills.  *)
LEMMA TradeBooked ==
  ASSUME TradeInv, NEW t \in TradeReports, process_trade(t)
  PROVE  TradeInv'
<1> DEFINE k1 == <<t.incoming_trader, t.symbol>>
           k2 == <<t.resting_trader, t.symbol>>
           s == t.aggressor_side
           o == Opposite(s)
           n == total_trades
           f == [side |-> s, qty |-> t.qty, price |-> t.price]
           g == [side |-> o, qty |-> t.qty, price |-> t.price]
           ps1 == Updated(book_positions, t.incoming_trader, t.symbol, s, t.qty, t.price)
           ps2 == Updated(ps1, t.resting_trader, t.symbol, o, t.qty, t.price)
           fs1 == Filled(fills, t.incoming_trader, t.symbol, s, t.qty, t.price)
           fs2 == Filled(fs1, t.resting_trader, t.symbol, o, t.qty, t.price)
<1>1. /\ t.qty \in Nat \ {0} /\ t.price \in Int /\ s \in Sides /\ o \in Sides /\ s # o
      /\ f \in Fill /\ g \in Fill
      /\ f.side = s /\ f.qty = t.qty /\ f.price = t.price
      /\ g.side = o /\ g.qty = t.qty /\ g.price = t.price
  BY TradeReportsAssumption DEF Fill, Opposite, Sides, Buy, Sell
<1>2. k1 \in Accounts /\ k2 \in Accounts /\ k1[2] = t.symbol /\ k2[2] = t.symbol
  BY DEF Accounts
<1>3. /\ book_positions' = ps2 /\ fills' = fs2 /\ n < MaxBooked /\ total_trades' = n + 1
      /\ total_volume' = total_volume + t.qty /\ total_notional' = total_notional + (t.qty * t.price)
      /\ marked' = [x \in DOMAIN marked \ {t.symbol} |-> marked[x]]
  BY DEF process_trade
<1>4. TradeTyped /\ n \in Nat /\ n + 1 <= MaxBooked /\ fills \in [Accounts -> Seq(Fill)]
  BY <1>3, MaxBookedAssumption DEF TradeInv, TradeTyped
<1> DEFINE pos1(k) == IF k = k1 THEN update_position(PositionOrNew(book_positions, k), s, t.qty, t.price)
                      ELSE PositionOrNew(book_positions, k)
           new1(k) == IF k = k1 THEN Append(fills[k], f) ELSE fills[k]
<1>5. DOMAIN ps1 = DOMAIN book_positions \cup {k1} /\ \A k : PositionOrNew(ps1, k) = pos1(k)
  <2>1. UpdatesAt(book_positions, ps1, k1, s, t.qty, t.price)
    BY UpdatedAt
  <2> HIDE DEF ps1, k1
  <2> QED BY <2>1 DEF UpdatesAt
<1>6. fs1 \in [Accounts -> Seq(Fill)] /\ \A k \in Accounts : fs1[k] = new1(k)
  <2>1. fs1 = Filled(fills, t.incoming_trader, t.symbol, f.side, f.qty, f.price)
    OBVIOUS
  <2>2. FillsAt(fills, Filled(fills, t.incoming_trader, t.symbol, f.side, f.qty, f.price), k1, f)
    <3> HIDE DEF f
    <3> QED BY <1>1, <1>2, <1>4, FilledAt
  <2> HIDE DEF f, fs1, k1
  <2> QED BY <2>1, <2>2 DEF FillsAt
<1> HIDE DEF ps1, fs1
<1>7. /\ DOMAIN ps2 = DOMAIN ps1 \cup {k2}
      /\ \A k : PositionOrNew(ps2, k) = IF k = k2 THEN update_position(PositionOrNew(ps1, k), o, t.qty, t.price)
                                        ELSE PositionOrNew(ps1, k)
  <2>1. UpdatesAt(ps1, ps2, k2, o, t.qty, t.price)
    BY UpdatedAt
  <2> HIDE DEF ps2, k2
  <2> QED BY <2>1 DEF UpdatesAt
<1>8. fs2 \in [Accounts -> Seq(Fill)]
      /\ \A k \in Accounts : fs2[k] = IF k = k2 THEN Append(fs1[k], g) ELSE fs1[k]
  <2>1. fs2 = Filled(fs1, t.resting_trader, t.symbol, g.side, g.qty, g.price)
    OBVIOUS
  <2>2. FillsAt(fs1, Filled(fs1, t.resting_trader, t.symbol, g.side, g.qty, g.price), k2, g)
    <3> HIDE DEF g
    <3> QED BY <1>1, <1>2, <1>6, FilledAt
  <2> HIDE DEF g, fs2, k2
  <2> QED BY <2>1, <2>2 DEF FillsAt
<1> HIDE DEF ps2, fs2, f, g, k1, k2, s, o, n
<1>9. ASSUME NEW k \in Accounts
      PROVE  PosFits(PositionOrNew(ps2, k), fs2[k], n + 1)
  <2> DEFINE pos == PositionOrNew(book_positions, k)
  <2>1. PosFits(pos, fills[k], n) /\ fills[k] \in Seq(Fill) /\ fs1[k] \in Seq(Fill)
    BY <1>4, <1>6 DEF TradeInv, n
  <2> HIDE DEF pos
  <2>2. k # k1 => PosFits(PositionOrNew(ps1, k), fs1[k], n)
    BY <1>5, <1>6, <2>1 DEF pos
  <2>3. k = k1 => PosFits(PositionOrNew(ps1, k), fs1[k], n + 1)
    <3> SUFFICES ASSUME k = k1 PROVE PosFits(PositionOrNew(ps1, k), fs1[k], n + 1)
      OBVIOUS
    <3>1. PositionOrNew(ps1, k) = update_position(pos, s, t.qty, t.price) /\ fs1[k] = Append(fills[k], f)
      BY <1>5, <1>6 DEF pos
    <3>2. PosFits(update_position(pos, s, t.qty, t.price), Append(fills[k], f), n + 1)
      BY <1>1, <1>4, <2>1, UpdateFits
    <3> QED BY <3>1, <3>2
  <2>4. CASE k # k2
    <3>1. PositionOrNew(ps2, k) = PositionOrNew(ps1, k) /\ fs2[k] = fs1[k]
      BY <1>7, <1>8, <2>4
    <3> QED BY <1>4, <2>2, <2>3, <3>1, FitsLater
  <2>5. CASE k = k2
    <3>1. /\ PositionOrNew(ps2, k) = update_position(PositionOrNew(ps1, k), o, t.qty, t.price)
          /\ fs2[k] = Append(fs1[k], g)
      BY <1>7, <1>8, <2>5
    <3>2. CASE k # k1
      <4>1. PosFits(PositionOrNew(ps1, k), fs1[k], n)
        BY <2>2, <3>2
      <4>2. PosFits(update_position(PositionOrNew(ps1, k), o, t.qty, t.price), Append(fs1[k], g), n + 1)
        BY <1>1, <1>4, <2>1, <4>1, UpdateFits
      <4> QED BY <3>1, <4>2
    <3>3. CASE k = k1
      <4>1. PosFits(PositionOrNew(ps1, k), fs1[k], n + 1)
        BY <2>3, <3>3
      <4>2. fs1[k] = Append(fills[k], f)
        BY <1>6, <3>3
      <4>3. \A x \in Sides : ~AllOn(Append(fs1[k], g), x)
        <5> SUFFICES ASSUME NEW x \in Sides, AllOn(Append(fs1[k], g), x) PROVE FALSE
          OBVIOUS
        <5>1. IsOneMore(fills[k], fs1[k], f)
          BY <1>1, <2>1, <4>2, OneMoreFill
        <5>2. IsOneMore(fs1[k], Append(fs1[k], g), g)
          BY <1>1, <2>1, OneMoreFill
        <5> DEFINE a == Append(fs1[k], g)
                   i == Len(fills[k]) + 1
                   j == Len(fs1[k]) + 1
        <5>3. i \in DOMAIN fs1[k] /\ fs1[k][i] = f
          BY <5>1 DEF IsOneMore
        <5>4. i \in DOMAIN a /\ a[i] = f
          BY <5>2, <5>3 DEF IsOneMore
        <5>5. j \in DOMAIN a /\ a[j] = g
          BY <5>2 DEF IsOneMore
        <5> HIDE DEF a, i, j
        <5>6. f.side = x /\ g.side = x
          <6>1. AllOn(a, x)
            BY DEF a
          <6> QED BY <5>4, <5>5, <6>1 DEF AllOn
        <5> QED BY <1>1, <5>6
      <4>4. PosFits(update_position(PositionOrNew(ps1, k), o, t.qty, t.price), Append(fs1[k], g), n + 1)
        <5>1. n + 1 \in Nat
          BY <1>4
        <5> QED BY <1>1, <1>4, <2>1, <4>1, <4>3, <5>1, UpdateFits
      <4> QED BY <3>1, <4>4
    <3> QED BY <3>2, <3>3
  <2> QED BY <2>4, <2>5
<1>10. TradeTyped'
  <2>1. DOMAIN ps2 \subseteq Accounts
    BY <1>2, <1>4, <1>5, <1>7 DEF TradeTyped
  <2>2. n + 1 \in 0 .. MaxBooked /\ total_volume + t.qty \in Nat
    BY <1>1, <1>4 DEF TradeTyped
  <2>3. total_notional + (t.qty * t.price) \in Int
    <3>1. t.qty * t.price \in Int
      BY <1>1, MulDist
    <3> QED BY <1>4, <3>1 DEF TradeTyped
  <2>4. DOMAIN marked' \subseteq Instruments /\ \A x \in DOMAIN marked' : marked'[x] \in Int
    BY <1>3, <1>4 DEF TradeTyped
  <2> QED BY <1>3, <1>8, <2>1, <2>2, <2>3, <2>4 DEF TradeTyped
<1>11. ASSUME NEW k \in DOMAIN ps2, k[2] \in DOMAIN marked'
       PROVE  ps2[k].unrealized_pnl = Unrealized(ps2[k], marked'[k[2]])
  <2>1. k[2] \in DOMAIN marked /\ k[2] # t.symbol /\ marked'[k[2]] = marked[k[2]]
    BY <1>3, <1>11
  <2>2. k # k1 /\ k # k2
    BY <1>2, <2>1
  <2>3. k \in DOMAIN book_positions /\ k \in DOMAIN ps1
    BY <1>5, <1>7, <2>2
  <2>4. PositionOrNew(ps2, k) = PositionOrNew(ps1, k)
    BY <1>7, <2>2
  <2>5. PositionOrNew(ps1, k) = PositionOrNew(book_positions, k)
    BY <1>5, <2>2
  <2>6. ps2[k] = book_positions[k]
    BY <2>3, <2>4, <2>5 DEF PositionOrNew
  <2>7. Marked(k)
    BY <2>3 DEF TradeInv
  <2> QED BY <2>1, <2>6, <2>7 DEF Marked
<1> QED BY <1>3, <1>9, <1>10, <1>11 DEF TradeInv, Marked

(* mark_to_market changes nothing but the unrealised profit of the         *)
(* positions in one instrument.                                            *)
LEMMA MarkBooked ==
  ASSUME TradeInv, NEW y \in Instruments, NEW price \in Marks, mark_to_market(y, price)
  PROVE  TradeInv'
<1>1. /\ book_positions' = [k \in DOMAIN book_positions |->
           IF k[2] = y THEN [book_positions[k] EXCEPT !.unrealized_pnl = Unrealized(book_positions[k], price)]
           ELSE book_positions[k]]
      /\ marked' = [x \in DOMAIN marked \cup {y} |-> IF x = y THEN price ELSE marked[x]]
      /\ fills' = fills /\ total_trades' = total_trades
      /\ total_volume' = total_volume /\ total_notional' = total_notional
  BY DEF mark_to_market, totals
<1>2. TradeTyped /\ price \in Int
  BY MarksAssumption DEF TradeInv
<1>3. TradeTyped'
  BY <1>1, <1>2 DEF TradeTyped
<1>4. ASSUME NEW k \in DOMAIN book_positions
      PROVE  /\ k \in Accounts
             /\ book_positions[k] \in Position
             /\ PosFits(book_positions[k], fills[k], total_trades)
             /\ Unrealized(book_positions[k], price) \in Int
  <2>1. k \in Accounts
    BY <1>2 DEF TradeTyped
  <2>2. PosFits(book_positions[k], fills[k], total_trades)
    BY <2>1 DEF TradeInv, PositionOrNew
  <2>3. PICK pos \in Position : pos = book_positions[k]
    BY <2>2 DEF PosFits
  <2>4. pos.net_qty \in Int /\ pos.avg_price[Buy] \in Int /\ pos.avg_price[Sell] \in Int
    BY DEF Position, Sides
  <2>5. Scale * price \in Int
    BY <1>2, ScaleAssumption, MulDist
  <2>6. pos.net_qty * (Scale * price - pos.avg_price[Buy]) \in Int
        /\ -pos.net_qty * (pos.avg_price[Sell] - Scale * price) \in Int
    BY <2>4, <2>5, MulDist
  <2>7. Unrealized(pos, price) \in Int
    <3>1. CASE pos.net_qty > 0
      BY <2>6, <3>1 DEF Unrealized
    <3>2. CASE pos.net_qty < 0
      BY <2>4, <2>6, <3>2 DEF Unrealized
    <3>3. CASE pos.net_qty = 0
      BY <3>3 DEF Unrealized
    <3> QED BY <2>4, <3>1, <3>2, <3>3
  <2> QED BY <2>1, <2>2, <2>3, <2>7
(* Nothing but the unrealised profit changed.                              *)
<1>5. ASSUME NEW k \in DOMAIN book_positions, k[2] = y
      PROVE  LET a == book_positions[k]
                 b == book_positions'[k]
             IN  /\ b \in Position /\ b.net_qty = a.net_qty /\ b.total_qty = a.total_qty
                 /\ b.avg_price = a.avg_price /\ b.realized_pnl = a.realized_pnl
                 /\ b.unrealized_pnl = Unrealized(a, price)
  <2>1. PICK u \in Int : u = Unrealized(book_positions[k], price)
    BY <1>4
  <2>2. book_positions'[k] = [book_positions[k] EXCEPT !.unrealized_pnl = u]
    BY <1>1, <1>5, <2>1
  <2>3. PICK a \in Position : a = book_positions[k]
    BY <1>4
  <2>4. PICK b : b = [a EXCEPT !.unrealized_pnl = u]
    OBVIOUS
  <2>5. /\ b \in Position /\ b.net_qty = a.net_qty /\ b.total_qty = a.total_qty
        /\ b.avg_price = a.avg_price /\ b.realized_pnl = a.realized_pnl /\ b.unrealized_pnl = u
    BY <2>4 DEF Position
  <2> QED BY <2>1, <2>2, <2>3, <2>4, <2>5
<1>6. ASSUME NEW k \in Accounts
      PROVE  PosFits(PositionOrNew(book_positions', k), fills[k], total_trades)
  <2>1. PosFits(PositionOrNew(book_positions, k), fills[k], total_trades)
    BY DEF TradeInv
  <2>2. CASE ~(k \in DOMAIN book_positions /\ k[2] = y)
    BY <1>1, <2>1, <2>2 DEF PositionOrNew
  <2>3. CASE k \in DOMAIN book_positions /\ k[2] = y
    <3> DEFINE a == book_positions[k]
               b == book_positions'[k]
    <3>1. PositionOrNew(book_positions, k) = a /\ PositionOrNew(book_positions', k) = b
      BY <1>1, <2>3 DEF PositionOrNew
    <3>2. /\ b \in Position /\ b.net_qty = a.net_qty /\ b.total_qty = a.total_qty
          /\ b.avg_price = a.avg_price /\ b.realized_pnl = a.realized_pnl
      BY <1>5, <2>3
    <3> HIDE DEF a, b
    <3>3. PosFits(a, fills[k], total_trades)
      BY <2>1, <3>1
    <3>4. PosFits(b, fills[k], total_trades)
      BY <3>2, <3>3 DEF PosFits, BuiltUp, Earned
    <3> QED BY <3>1, <3>4
  <2> QED BY <2>2, <2>3
<1>7. ASSUME NEW k \in DOMAIN book_positions, k[2] \in DOMAIN marked'
      PROVE  book_positions'[k].unrealized_pnl = Unrealized(book_positions'[k], marked'[k[2]])
  <2>1. CASE k[2] # y
    <3>1. book_positions'[k] = book_positions[k] /\ k[2] \in DOMAIN marked /\ marked'[k[2]] = marked[k[2]]
      BY <1>1, <1>7, <2>1
    <3> QED BY <3>1 DEF TradeInv, Marked
  <2>2. CASE k[2] = y
    <3> DEFINE a == book_positions[k]
               b == book_positions'[k]
    <3>1. b.net_qty = a.net_qty /\ b.avg_price = a.avg_price /\ b.unrealized_pnl = Unrealized(a, price)
      BY <1>5, <2>2
    <3>2. marked'[k[2]] = price
      BY <1>1, <2>2
    <3> HIDE DEF a, b
    <3>3. Unrealized(b, price) = Unrealized(a, price)
      BY <3>1 DEF Unrealized
    <3> QED BY <3>1, <3>2, <3>3 DEF b
  <2> QED BY <2>1, <2>2
<1>8. DOMAIN book_positions' = DOMAIN book_positions
  BY <1>1
<1> QED BY <1>1, <1>3, <1>6, <1>7, <1>8 DEF TradeInv, Marked

(* Every step keeps the invariant of the trade engine.                     *)
LEMMA TradeInvStep == TradeInv /\ [TradeNext]_tradeVars => TradeInv'
<1> SUFFICES ASSUME TradeInv, [TradeNext]_tradeVars PROVE TradeInv'
  OBVIOUS
<1>1. CASE TradeNext
  BY <1>1, TradeBooked, MarkBooked DEF TradeNext
<1>2. CASE UNCHANGED tradeVars
  BY <1>2 DEF tradeVars, totals, TradeInv, TradeTyped, Marked
<1> QED BY <1>1, <1>2

(* Whatever the trades and marks, and however many: a position is what its *)
(* trader bought minus what it sold, and through one round of a position   *)
(* the profit is the cash it brought.                                      *)
THEOREM PositionsTellFills == TradeSpec => []PositionsAndProfit
BY TradeInvInit, TradeInvStep, TradeInvSuffices, PTL DEF TradeSpec

-------------------------------------------------------------------------------
(* The scope timers.                                                       *)

(* The first slot that a search over them takes.                           *)
FirstOf(i, T) == IF T = {} THEN i = 0 ELSE i \in T /\ \A j \in T : i <= j

(* A search from the first slot on finds the least one that will do.       *)
LEMMA FirstSlot ==
  ASSUME NEW T \in SUBSET (1 .. MaxSlots), NEW i, i = IF T # {} THEN Min(T) ELSE 0
  PROVE  FirstOf(i, T)
<1>1. IsFiniteSet(1 .. MaxSlots)
  BY FS_Interval, MaxSlotsAssumption
<1>2. T \in SUBSET Int
  BY MaxSlotsAssumption
<1>3. IsFiniteSet(T) /\ T \in SUBSET Int
  BY <1>1, <1>2, FS_Subset
<1>4. CASE T # {}
  BY <1>3, <1>4, Extremes DEF FirstOf
<1>5. CASE T = {}
  BY <1>5 DEF FirstOf
<1> QED BY <1>4, <1>5

SlotsTyped == slots \in [1 .. MaxSlots -> Slot]

(* The three searches over the slots.                                      *)
LEMMA SlotSearches ==
  ASSUME SlotsTyped
  PROVE  /\ FirstOf(FreeSlot, {i \in 1 .. MaxSlots : ~slots[i].used})
         /\ \A l : /\ FirstOf(RunningSlot(l), {i \in 1 .. MaxSlots : slots[i].used /\ slots[i].label = l})
                   /\ FirstOf(LabelledSlot(l), {i \in 1 .. MaxSlots : slots[i].label = l})
<1>1. Len(slots) = MaxSlots
  BY MaxSlotsAssumption DEF SlotsTyped
<1>2. FirstOf(FreeSlot, {i \in 1 .. MaxSlots : ~slots[i].used})
  <2> DEFINE T == {i \in 1 .. MaxSlots : ~slots[i].used}
  <2>1. FreeSlot = IF T # {} THEN Min(T) ELSE 0
    BY <1>1 DEF FreeSlot, SelectInSeq
  <2> HIDE DEF T
  <2>2. T \in SUBSET (1 .. MaxSlots)
    BY DEF T
  <2>3. FirstOf(FreeSlot, T)
    BY <2>1, <2>2, FirstSlot
  <2> QED BY <2>3 DEF T
<1>3. ASSUME NEW l
      PROVE  FirstOf(RunningSlot(l), {i \in 1 .. MaxSlots : slots[i].used /\ slots[i].label = l})
  <2> DEFINE T == {i \in 1 .. MaxSlots : slots[i].used /\ slots[i].label = l}
  <2>1. RunningSlot(l) = IF T # {} THEN Min(T) ELSE 0
    BY <1>1 DEF RunningSlot, SelectInSeq
  <2> HIDE DEF T
  <2>2. T \in SUBSET (1 .. MaxSlots)
    BY DEF T
  <2>3. FirstOf(RunningSlot(l), T)
    BY <2>1, <2>2, FirstSlot
  <2> QED BY <2>3 DEF T
<1>4. ASSUME NEW l
      PROVE  FirstOf(LabelledSlot(l), {i \in 1 .. MaxSlots : slots[i].label = l})
  <2> DEFINE T == {i \in 1 .. MaxSlots : slots[i].label = l}
  <2>1. LabelledSlot(l) = IF T # {} THEN Min(T) ELSE 0
    BY <1>1 DEF LabelledSlot, SelectInSeq
  <2> HIDE DEF T
  <2>2. T \in SUBSET (1 .. MaxSlots)
    BY DEF T
  <2>3. FirstOf(LabelledSlot(l), T)
    BY <2>1, <2>2, FirstSlot
  <2> QED BY <2>3 DEF T
<1> QED BY <1>2, <1>3, <1>4

Holds(i, l) == slots[i].used /\ slots[i].label = l
IsLatest(b, l) == b \in started[l] /\ \A t \in started[l] : t <= b

(* The slot of a running label comes before the ones the label used to     *)
(* have, so that a search by label alone finds it.                         *)
OneSlot(l) ==
  \E i \in 1 .. MaxSlots :
    /\ Holds(i, l) /\ IsLatest(slots[i].begin, l)
    /\ \A j \in 1 .. MaxSlots : slots[j].label = l /\ j # i => ~slots[j].used /\ i < j

NoSlot(l) == \A i \in 1 .. MaxSlots : ~Holds(i, l)

TimesPast == \A l \in Labels : \A t \in started[l] : t <= now
SlotsStarted ==
  \A i \in 1 .. MaxSlots :
    /\ slots[i].used => slots[i].label \in Labels
    /\ slots[i].label \in Labels => slots[i].begin \in started[slots[i].label]
TidySlots == \A l \in Labels \ untidy : IF l \in running THEN OneSlot(l) ELSE NoSlot(l)

Measures ==
  reading.label \in Labels =>
    /\ reading.from \in started[reading.label]
    /\ reading.tidy => IsLatest(reading.from, reading.label)

TimerInv == TimerTypeOK /\ TimesPast /\ SlotsStarted /\ TidySlots /\ Measures

(* The latest start is the maximum of the starts.                          *)
LEMMA LatestIsMax ==
  ASSUME NEW S \in SUBSET (0 .. MaxTime), NEW b \in S, \A t \in S : t <= b
  PROVE  b = Max(S)
<1>1. IsFiniteSet(0 .. MaxTime) /\ MaxTime \in Nat
  <2>1. MaxTime \in Int /\ MaxTime \in Nat
    BY MaxTimeAssumption, TimeWrapAssumption
  <2> QED BY <2>1, FS_Interval
<1>2. S \in SUBSET Int /\ S # {}
  BY <1>1
<1>3. IsFiniteSet(S) /\ S \in SUBSET Int /\ S # {}
  BY <1>1, <1>2, FS_Subset
<1>4. Max(S) \in S /\ \A x \in S : x <= Max(S)
  BY <1>3, Extremes
<1>5. PICK m \in Int : m = Max(S)
  BY <1>3, <1>4
<1> QED BY <1>3, <1>4, <1>5

(* The invariant implies the property of the runs.                         *)
LEMMA TimerInvSuffices == TimerInv => TimersIndependent
<1> SUFFICES ASSUME TimerInv PROVE TimersIndependent
  OBVIOUS
<1>1. started \in [Labels -> SUBSET (0 .. MaxTime)] /\ slots \in [1 .. MaxSlots -> Slot]
  BY DEF TimerInv, TimerTypeOK
<1>2. MeasuresOwnLabel
  <2> SUFFICES ASSUME reading.label \in Labels
               PROVE  /\ reading.from \in started[reading.label]
                      /\ reading.tidy => reading.from = Max(started[reading.label])
    BY DEF MeasuresOwnLabel
  <2>1. /\ reading.from \in started[reading.label]
        /\ reading.tidy => IsLatest(reading.from, reading.label)
    BY DEF TimerInv, Measures
  <2>2. started[reading.label] \in SUBSET (0 .. MaxTime)
    BY <1>1
  <2> QED BY <2>1, <2>2, LatestIsMax DEF IsLatest
<1>3. TidyLabelsFreeSlots
  <2> SUFFICES ASSUME NEW l \in Labels \ untidy
               PROVE  Cardinality({i \in 1 .. MaxSlots : slots[i].used /\ slots[i].label = l})
                        = IF l \in running THEN 1 ELSE 0
    BY DEF TidyLabelsFreeSlots, Quantify
  <2> DEFINE T == {i \in 1 .. MaxSlots : slots[i].used /\ slots[i].label = l}
  <2>1. IF l \in running THEN OneSlot(l) ELSE NoSlot(l)
    BY DEF TimerInv, TidySlots
  <2>2. CASE l \in running
    <3>1. PICK i \in 1 .. MaxSlots :
            /\ Holds(i, l)
            /\ \A j \in 1 .. MaxSlots : slots[j].label = l /\ j # i => ~slots[j].used
      BY <2>1, <2>2 DEF OneSlot
    <3>2. T = {i}
      BY <3>1 DEF Holds
    <3>3. Cardinality(T) = 1
      BY <3>2, FS_Singleton
    <3> QED BY <2>2, <3>3
  <2>3. CASE l \notin running
    <3>1. T = {}
      BY <2>1, <2>3 DEF NoSlot, Holds
    <3>2. Cardinality(T) = 0
      BY <3>1, FS_EmptySet
    <3> QED BY <2>3, <3>2
  <2> QED BY <2>2, <2>3
<1> QED BY <1>2, <1>3 DEF TimersIndependent

(* At first no slot is in use and nothing was measured.                    *)
LEMMA TimerInvInit == TimerInit => TimerInv
<1> SUFFICES ASSUME TimerInit PROVE TimerInv
  OBVIOUS
<1> USE DEF TimerInit
<1>1. 0 \in 0 .. MaxTime
  BY MaxTimeAssumption, TimeWrapAssumption
<1>2. /\ slots \in [1 .. MaxSlots -> Slot]
      /\ \A i \in 1 .. MaxSlots : slots[i] = [label |-> NoLabel, used |-> FALSE, begin |-> 0]
  BY <1>1 DEF Slot
<1>3. TimerTypeOK
  BY <1>1, <1>2 DEF TimerTypeOK, ClockTypeOK, ClockInit, Reading, NoReading
<1>4. TimesPast
  BY DEF TimesPast
<1>5. SlotsStarted /\ TidySlots
  BY <1>2, NoLabelAssumption DEF SlotsStarted, TidySlots, NoSlot, Holds
<1>6. Measures
  BY NoLabelAssumption DEF Measures, NoReading
<1> QED BY <1>3, <1>4, <1>5, <1>6 DEF TimerInv

(* A start takes the first free slot, if there is one.                     *)
LEMMA StartStep ==
  ASSUME TimerInv, NEW l \in Labels, start(l)
  PROVE  TimerInv'
<1>1. /\ now \in 0 .. MaxTime /\ now' = now
      /\ slots \in [1 .. MaxSlots -> Slot] /\ reading' = NoReading
      /\ started \in [Labels -> SUBSET (0 .. MaxTime)] /\ started' = [started EXCEPT ![l] = @ \cup {now}]
      /\ running \subseteq Labels /\ untidy \subseteq Labels /\ running' = running \cup {l}
      /\ untidy' = IF l \in running \/ FreeSlot = 0 THEN untidy \cup {l} ELSE untidy
  BY DEF TimerInv, TimerTypeOK, ClockTypeOK, start
<1>2. slots' = IF FreeSlot = 0 THEN slots
               ELSE [slots EXCEPT ![FreeSlot] = [label |-> l, used |-> TRUE, begin |-> now]]
  BY DEF start
<1>3. FirstOf(FreeSlot, {i \in 1 .. MaxSlots : ~slots[i].used})
  BY <1>1, SlotSearches DEF SlotsTyped
<1>4. /\ started' \in [Labels -> SUBSET (0 .. MaxTime)]
      /\ \A m \in Labels : started'[m] = IF m = l THEN started[l] \cup {now} ELSE started[m]
  BY <1>1
<1>5. TimesPast'
  BY <1>1, <1>4 DEF TimerInv, TimesPast
<1>6. Measures'
  BY <1>1, NoLabelAssumption DEF Measures, NoReading
<1>7. \A i \in 1 .. MaxSlots : /\ slots[i].used => slots[i].label \in Labels
                               /\ slots[i].label \in Labels => slots[i].begin \in started[slots[i].label]
  BY DEF TimerInv, SlotsStarted
<1>8. \A m \in Labels \ untidy : IF m \in running THEN OneSlot(m) ELSE NoSlot(m)
  BY DEF TimerInv, TidySlots
<1>9. CASE FreeSlot = 0
  <2>1. slots' = slots /\ untidy' = untidy \cup {l}
    BY <1>1, <1>2, <1>9
  <2>2. TimerTypeOK'
    BY <1>1, <1>4, <2>1, MaxTimeAssumption, TimeWrapAssumption
       DEF TimerTypeOK, ClockTypeOK, Reading, NoReading
  <2>3. SlotsStarted'
    BY <1>4, <1>7, <2>1 DEF SlotsStarted
  <2>4. ASSUME NEW m \in Labels \ untidy'
        PROVE  IF m \in running' THEN OneSlot(m)' ELSE NoSlot(m)'
    <3>1. m \in Labels \ untidy /\ m # l /\ started'[m] = started[m] /\ (m \in running' <=> m \in running)
      BY <1>1, <1>4, <2>1, <2>4
    <3>2. OneSlot(m) => OneSlot(m)'
      BY <2>1, <3>1 DEF OneSlot, Holds, IsLatest
    <3>3. NoSlot(m) => NoSlot(m)'
      BY <2>1 DEF NoSlot, Holds
    <3> QED BY <1>8, <3>1, <3>2, <3>3
  <2>5. TidySlots'
    BY <2>4 DEF TidySlots
  <2> QED BY <1>5, <1>6, <2>2, <2>3, <2>5 DEF TimerInv
<1>10. CASE FreeSlot # 0
  <2>1. PICK f \in 1 .. MaxSlots : /\ f = FreeSlot /\ ~slots[f].used
                                   /\ \A j \in 1 .. MaxSlots : ~slots[j].used => f <= j
    BY <1>3, <1>10 DEF FirstOf
  <2>2. slots' = [slots EXCEPT ![f] = [label |-> l, used |-> TRUE, begin |-> now]]
    BY <1>2, <1>10, <2>1
  <2>3. [label |-> l, used |-> TRUE, begin |-> now] \in Slot
    BY <1>1 DEF Slot
  <2>4. /\ slots' \in [1 .. MaxSlots -> Slot]
        /\ slots'[f] = [label |-> l, used |-> TRUE, begin |-> now]
        /\ \A i \in 1 .. MaxSlots : i # f => slots'[i] = slots[i]
    BY <1>1, <2>2, <2>3
  <2>5. TimerTypeOK'
    BY <1>1, <1>4, <2>4, MaxTimeAssumption, TimeWrapAssumption
       DEF TimerTypeOK, ClockTypeOK, Reading, NoReading
  <2>6. SlotsStarted'
    <3> SUFFICES ASSUME NEW i \in 1 .. MaxSlots
                 PROVE  /\ slots'[i].used => slots'[i].label \in Labels
                        /\ slots'[i].label \in Labels => slots'[i].begin \in started'[slots'[i].label]
      BY DEF SlotsStarted
    <3>1. CASE i = f
      BY <1>4, <2>4, <3>1
    <3>2. CASE i # f
      BY <1>4, <1>7, <2>4, <3>2
    <3> QED BY <3>1, <3>2
  <2>7. ASSUME NEW m \in Labels \ untidy'
        PROVE  IF m \in running' THEN OneSlot(m)' ELSE NoSlot(m)'
    <3>1. m \in Labels \ untidy
      BY <1>1, <2>7
    <3>2. CASE m = l
      <4>1. m \notin running /\ m \in running'
        BY <1>1, <2>7, <3>2
      <4>2. \A j \in 1 .. MaxSlots : slots[j].label = m => ~slots[j].used
        BY <1>8, <3>1, <4>1 DEF NoSlot, Holds
      <4>3. Holds(f, m)'
        BY <2>4, <3>2 DEF Holds
      <4>4. IsLatest(slots[f].begin, m)'
        BY <1>1, <1>4, <1>5, <2>4, <3>2 DEF IsLatest, TimesPast
      <4>5. ASSUME NEW j \in 1 .. MaxSlots, slots'[j].label = m, j # f
            PROVE  ~slots'[j].used /\ f < j
        <5>1. slots'[j] = slots[j] /\ ~slots[j].used /\ f <= j
          BY <2>1, <2>4, <4>2, <4>5
        <5> QED BY <4>5, <5>1
      <4>6. OneSlot(m)'
        BY <4>3, <4>4, <4>5 DEF OneSlot
      <4> QED BY <4>1, <4>6
    <3>3. CASE m # l
      <4>1. started'[m] = started[m] /\ (m \in running' <=> m \in running)
        BY <1>1, <1>4, <3>3
      <4>2. CASE m \in running
        <5>1. PICK i \in 1 .. MaxSlots :
                /\ Holds(i, m) /\ IsLatest(slots[i].begin, m)
                /\ \A j \in 1 .. MaxSlots : slots[j].label = m /\ j # i => ~slots[j].used /\ i < j
          BY <1>8, <3>1, <4>2 DEF OneSlot
        <5>2. i # f /\ slots'[i] = slots[i]
          BY <2>1, <2>4, <5>1 DEF Holds
        <5>3. Holds(i, m)' /\ IsLatest(slots[i].begin, m)'
          BY <4>1, <5>1, <5>2 DEF Holds, IsLatest
        <5>4. ASSUME NEW j \in 1 .. MaxSlots, slots'[j].label = m, j # i
              PROVE  ~slots'[j].used /\ i < j
          <6>1. slots'[j] = slots[j]
            BY <2>4, <3>3, <5>4
          <6> QED BY <5>1, <5>4, <6>1
        <5>5. OneSlot(m)'
          BY <5>3, <5>4 DEF OneSlot
        <5> QED BY <4>1, <4>2, <5>5
      <4>3. CASE m \notin running
        <5>1. NoSlot(m)
          BY <1>8, <3>1, <4>3
        <5>2. NoSlot(m)'
          <6> SUFFICES ASSUME NEW i \in 1 .. MaxSlots PROVE ~Holds(i, m)'
            BY DEF NoSlot
          <6>1. CASE i = f
            BY <2>4, <3>3, <6>1 DEF Holds
          <6>2. CASE i # f
            BY <2>4, <5>1, <6>2 DEF Holds, NoSlot
          <6> QED BY <6>1, <6>2
        <5> QED BY <4>1, <4>3, <5>2
      <4> QED BY <4>2, <4>3
    <3> QED BY <3>2, <3>3
  <2>8. TidySlots'
    BY <2>7 DEF TidySlots
  <2> QED BY <1>5, <1>6, <2>5, <2>6, <2>8 DEF TimerInv
<1> QED BY <1>9, <1>10

(* What an end or an endAndLog that finds slot i measures.                 *)
LEMMA MeasuredIs ==
  ASSUME TimerInv, NEW l \in Labels, NEW i \in 1 .. MaxSlots, slots[i].label = l
  PROVE  /\ Measured(l, i) \in Reading
         /\ Measured(l, i).label = l /\ Measured(l, i).from = slots[i].begin
         /\ Measured(l, i).tidy = (l \notin untidy)
         /\ Measured(l, i).from \in started[l]
BY DEF TimerInv, TimerTypeOK, SlotsStarted, Measured, Reading, Slot

(* An end frees the first slot in use with its label.                      *)
LEMMA EndStep ==
  ASSUME TimerInv, NEW l \in Labels, end(l)
  PROVE  TimerInv'
<1> DEFINE f == RunningSlot(l)
<1>1. /\ now \in 0 .. MaxTime /\ UNCHANGED <<now, started, untidy>>
      /\ slots \in [1 .. MaxSlots -> Slot]
      /\ started \in [Labels -> SUBSET (0 .. MaxTime)]
      /\ running \subseteq Labels /\ untidy \subseteq Labels /\ running' = running \ {l}
      /\ reading' = Measured(l, f) /\ f # 0
      /\ slots' = [slots EXCEPT ![f].used = FALSE]
  BY DEF TimerInv, TimerTypeOK, ClockTypeOK, end
<1>2. f \in 1 .. MaxSlots /\ slots[f].used /\ slots[f].label = l
  <2>1. FirstOf(f, {i \in 1 .. MaxSlots : slots[i].used /\ slots[i].label = l})
    BY <1>1, SlotSearches DEF SlotsTyped
  <2> HIDE DEF f
  <2> QED BY <1>1, <2>1 DEF FirstOf
<1>3. /\ Measured(l, f) \in Reading
      /\ Measured(l, f).label = l /\ Measured(l, f).from = slots[f].begin
      /\ Measured(l, f).tidy = (l \notin untidy)
      /\ Measured(l, f).from \in started[l]
  <2> HIDE DEF f
  <2> QED BY <1>2, MeasuredIs
<1> HIDE DEF f
<1>4. /\ slots' \in [1 .. MaxSlots -> Slot]
      /\ slots'[f].label = l /\ ~slots'[f].used /\ slots'[f].begin = slots[f].begin
      /\ \A i \in 1 .. MaxSlots : i # f => slots'[i] = slots[i]
  <2>1. slots[f] \in Slot
    BY <1>1, <1>2
  <2>2. [slots[f] EXCEPT !.used = FALSE] \in Slot
    BY <2>1 DEF Slot
  <2>3. /\ [slots[f] EXCEPT !.used = FALSE].label = slots[f].label
        /\ [slots[f] EXCEPT !.used = FALSE].used = FALSE
        /\ [slots[f] EXCEPT !.used = FALSE].begin = slots[f].begin
    BY <2>1 DEF Slot
  <2>4. slots' = [slots EXCEPT ![f] = [slots[f] EXCEPT !.used = FALSE]]
    BY <1>1
  <2> QED BY <1>1, <1>2, <2>2, <2>3, <2>4
<1>5. TimerTypeOK'
  BY <1>1, <1>3, <1>4 DEF TimerTypeOK, ClockTypeOK
<1>6. TimesPast'
  BY <1>1 DEF TimerInv, TimesPast
<1>7. \A i \in 1 .. MaxSlots : /\ slots[i].used => slots[i].label \in Labels
                               /\ slots[i].label \in Labels => slots[i].begin \in started[slots[i].label]
  BY DEF TimerInv, SlotsStarted
<1>8. SlotsStarted'
  <2> SUFFICES ASSUME NEW i \in 1 .. MaxSlots
               PROVE  /\ slots'[i].used => slots'[i].label \in Labels
                      /\ slots'[i].label \in Labels => slots'[i].begin \in started'[slots'[i].label]
    BY DEF SlotsStarted
  <2>1. CASE i = f
    BY <1>1, <1>2, <1>4, <1>7, <2>1
  <2>2. CASE i # f
    BY <1>1, <1>4, <1>7, <2>2
  <2> QED BY <2>1, <2>2
<1>9. \A m \in Labels \ untidy : IF m \in running THEN OneSlot(m) ELSE NoSlot(m)
  BY DEF TimerInv, TidySlots
<1>10. l \notin untidy => /\ IsLatest(slots[f].begin, l)
                          /\ \A j \in 1 .. MaxSlots : slots[j].label = l /\ j # f => ~slots[j].used
  <2> SUFFICES ASSUME l \notin untidy
               PROVE  /\ IsLatest(slots[f].begin, l)
                      /\ \A j \in 1 .. MaxSlots : slots[j].label = l /\ j # f => ~slots[j].used
    OBVIOUS
  <2>1. l \in running
    BY <1>2, <1>9 DEF NoSlot, Holds
  <2>2. PICK i \in 1 .. MaxSlots :
          /\ Holds(i, l) /\ IsLatest(slots[i].begin, l)
          /\ \A j \in 1 .. MaxSlots : slots[j].label = l /\ j # i => ~slots[j].used
    BY <1>9, <2>1 DEF OneSlot
  <2>3. i = f
    BY <1>2, <2>2
  <2> QED BY <2>2, <2>3
<1>11. Measures'
  BY <1>1, <1>3, <1>10 DEF Measures, IsLatest
<1>12. ASSUME NEW m \in Labels \ untidy'
       PROVE  IF m \in running' THEN OneSlot(m)' ELSE NoSlot(m)'
  <2>1. m \in Labels \ untidy /\ started'[m] = started[m]
    BY <1>1
  <2>2. CASE m = l
    <3>1. m \notin running'
      BY <1>1, <2>2
    <3>2. NoSlot(m)'
      BY <1>4, <1>10, <2>1, <2>2 DEF NoSlot, Holds
    <3> QED BY <3>1, <3>2
  <2>3. CASE m # l
    <3>1. m \in running' <=> m \in running
      BY <1>1, <2>3
    <3>2. CASE m \in running
      <4>1. PICK i \in 1 .. MaxSlots :
              /\ Holds(i, m) /\ IsLatest(slots[i].begin, m)
              /\ \A j \in 1 .. MaxSlots : slots[j].label = m /\ j # i => ~slots[j].used /\ i < j
        BY <1>9, <2>1, <3>2 DEF OneSlot
      <4>2. i # f /\ slots'[i] = slots[i]
        BY <1>2, <1>4, <2>3, <4>1 DEF Holds
      <4>3. Holds(i, m)' /\ IsLatest(slots[i].begin, m)'
        BY <2>1, <4>1, <4>2 DEF Holds, IsLatest
      <4>4. ASSUME NEW j \in 1 .. MaxSlots, slots'[j].label = m, j # i
            PROVE  ~slots'[j].used /\ i < j
        <5>1. slots'[j] = slots[j]
          BY <1>4, <2>3, <4>4
        <5> QED BY <4>1, <4>4, <5>1
      <4>5. OneSlot(m)'
        BY <4>3, <4>4 DEF OneSlot
      <4> QED BY <3>1, <3>2, <4>5
    <3>3. CASE m \notin running
      <4>1. NoSlot(m)
        BY <1>9, <2>1, <3>3
      <4>2. NoSlot(m)'
        BY <1>2, <1>4, <2>3, <4>1 DEF NoSlot, Holds
      <4> QED BY <3>1, <3>3, <4>2
    <3> QED BY <3>2, <3>3
  <2> QED BY <2>2, <2>3
<1>13. TidySlots'
  BY <1>12 DEF TidySlots
<1> QED BY <1>5, <1>6, <1>8, <1>11, <1>13 DEF TimerInv

(* What every step leaves alone that changes neither slots nor starts.     *)
LEMMA UntidyStep ==
  ASSUME TimerInv, NEW l \in Labels, UNCHANGED <<now, slots, started>>,
         running' = running \ {l}, untidy' = untidy \cup {l}, reading' \in Reading, Measures'
  PROVE  TimerInv'
<1>1. TimerTypeOK'
  BY DEF TimerInv, TimerTypeOK, ClockTypeOK
<1>2. TimesPast' /\ SlotsStarted'
  BY DEF TimerInv, TimesPast, SlotsStarted
<1>3. ASSUME NEW m \in Labels \ untidy'
      PROVE  IF m \in running' THEN OneSlot(m)' ELSE NoSlot(m)'
  <2>1. m \in Labels \ untidy /\ (m \in running' <=> m \in running)
    OBVIOUS
  <2>2. IF m \in running THEN OneSlot(m) ELSE NoSlot(m)
    BY <2>1 DEF TimerInv, TidySlots
  <2>3. OneSlot(m) => OneSlot(m)'
    BY DEF OneSlot, Holds, IsLatest
  <2>4. NoSlot(m) => NoSlot(m)'
    BY DEF NoSlot, Holds
  <2> QED BY <2>1, <2>2, <2>3, <2>4
<1>4. TidySlots'
  BY <1>3 DEF TidySlots
<1> QED BY <1>1, <1>2, <1>4 DEF TimerInv

(* An end of a label that does not run measures nothing.                   *)
LEMMA EndUnknownStep ==
  ASSUME TimerInv, NEW l \in Labels, EndUnknown(l)
  PROVE  TimerInv'
<1>1. PICK any \in 0 .. MaxTime : reading' = [NoReading EXCEPT !.from = any]
  BY DEF EndUnknown
<1>2. reading' \in Reading /\ reading'.label = NoLabel
  BY <1>1 DEF NoReading, Reading
<1>3. Measures'
  BY <1>2, NoLabelAssumption DEF Measures
<1> QED BY <1>2, <1>3, UntidyStep DEF EndUnknown

(* The first endAndLog of a label measures its latest start, because the   *)
(* slot it holds precedes the ones it has held.                            *)
LEMMA EndAndLogStep ==
  ASSUME TimerInv, NEW l \in Labels, endAndLog(l)
  PROVE  TimerInv'
<1> DEFINE f == LabelledSlot(l)
<1>1. reading' = IF f = 0 THEN NoReading ELSE [Measured(l, f) EXCEPT !.tidy = @ /\ l \in running]
  BY DEF endAndLog
<1>2. FirstOf(f, {i \in 1 .. MaxSlots : slots[i].label = l})
  BY SlotSearches DEF SlotsTyped, TimerInv, TimerTypeOK
<1> HIDE DEF f
<1>3. started' = started
  BY DEF endAndLog
<1>4. CASE f = 0
  <2>1. reading' \in Reading /\ reading'.label = NoLabel
    <3>1. 0 \in 0 .. MaxTime
      BY MaxTimeAssumption, TimeWrapAssumption
    <3> QED BY <1>1, <1>4, <3>1 DEF NoReading, Reading
  <2>2. Measures'
    BY <2>1, NoLabelAssumption DEF Measures
  <2> QED BY <2>1, <2>2, UntidyStep DEF endAndLog
<1>5. CASE f # 0
  <2>1. /\ f \in 1 .. MaxSlots /\ slots[f].label = l
        /\ \A j \in 1 .. MaxSlots : slots[j].label = l => f <= j
    BY <1>2, <1>5 DEF FirstOf
  <2>2. /\ Measured(l, f) \in Reading
        /\ Measured(l, f).label = l /\ Measured(l, f).from = slots[f].begin
        /\ Measured(l, f).tidy = (l \notin untidy)
        /\ Measured(l, f).from \in started[l]
    BY <2>1, MeasuredIs
  <2>3. /\ reading' \in Reading /\ reading'.label = l /\ reading'.from = slots[f].begin
        /\ reading'.tidy = (l \notin untidy /\ l \in running)
        /\ reading'.from \in started[l]
    <3> DEFINE M == Measured(l, f)
    <3>1. reading' = [M EXCEPT !.tidy = @ /\ l \in running] /\ M \in Reading
      BY <1>1, <1>5, <2>2
    <3>2. /\ M.label = l /\ M.from = slots[f].begin /\ M.tidy = (l \notin untidy)
          /\ M.from \in started[l]
      BY <2>2
    <3> HIDE DEF M
    <3>3. reading' \in Reading /\ reading'.label = M.label /\ reading'.from = M.from
      BY <3>1 DEF Reading
    <3>4. reading'.tidy = (M.tidy /\ l \in running)
      BY <3>1 DEF Reading
    <3> QED BY <3>2, <3>3, <3>4
  <2>4. ASSUME l \notin untidy, l \in running
        PROVE  IsLatest(slots[f].begin, l)
    <3>1. OneSlot(l)
      BY <2>4 DEF TimerInv, TidySlots
    <3>2. PICK i \in 1 .. MaxSlots :
            /\ Holds(i, l) /\ IsLatest(slots[i].begin, l)
            /\ \A j \in 1 .. MaxSlots : slots[j].label = l /\ j # i => ~slots[j].used /\ i < j
      BY <3>1 DEF OneSlot
    <3>3. f <= i
      BY <2>1, <3>2 DEF Holds
    <3>4. f # i => i < f
      BY <2>1, <3>2
    <3>5. f = i
      BY <3>3, <3>4, <2>1
    <3> QED BY <3>2, <3>5
  <2>5. Measures'
    BY <1>3, <2>3, <2>4 DEF Measures, IsLatest
  <2> QED BY <2>3, <2>5, UntidyStep DEF endAndLog
<1> QED BY <1>4, <1>5

(* The clock moves and nothing else.                                       *)
LEMMA TimePassesStep ==
  ASSUME TimerInv, TimePasses
  PROVE  TimerInv'
<1>1. now \in 0 .. MaxTime /\ now' = (now + 1) % TimeWrap /\ now' <= MaxTime
  BY DEF TimerInv, TimerTypeOK, ClockTypeOK, TimePasses, advance
<1>2. now + 1 \in 0 .. (TimeWrap - 1) /\ TimeWrap \in Nat \ {0}
  BY <1>1, SteadyAssumption, MaxTimeAssumption, TimeWrapAssumption
<1>3. now' = now + 1
  <2>1. (now + 1) % TimeWrap = now + 1
    BY <1>2, ModSmall
  <2> QED BY <1>1, <2>1
<1>4. now' \in 0 .. MaxTime /\ now <= now'
  BY <1>1, <1>3, MaxTimeAssumption, TimeWrapAssumption
<1>5. UNCHANGED <<slots, reading, started, running, untidy>>
  BY DEF TimePasses, timerState
<1>6. TimerTypeOK'
  BY <1>4, <1>5 DEF TimerInv, TimerTypeOK, ClockTypeOK
<1>7. TimesPast'
  <2> SUFFICES ASSUME NEW l \in Labels, NEW t \in started'[l] PROVE t <= now'
    BY DEF TimesPast
  <2>1. started[l] \in SUBSET (0 .. MaxTime) /\ t \in started[l]
    BY <1>5 DEF TimerInv, TimerTypeOK
  <2>2. t <= now /\ t \in Int
    BY <2>1, MaxTimeAssumption, TimeWrapAssumption DEF TimerInv, TimesPast
  <2> QED BY <1>1, <1>3, <2>2
<1>8. SlotsStarted' /\ Measures'
  BY <1>5 DEF TimerInv, SlotsStarted, Measures, IsLatest
<1>9. TidySlots'
  BY <1>5 DEF TimerInv, TidySlots, OneSlot, NoSlot, Holds, IsLatest
<1> QED BY <1>6, <1>7, <1>8, <1>9 DEF TimerInv

(* Every step keeps the invariant of the timers.                           *)
LEMMA TimerInvStep == TimerInv /\ [TimerNext]_timerVars => TimerInv'
<1> SUFFICES ASSUME TimerInv, [TimerNext]_timerVars PROVE TimerInv'
  OBVIOUS
<1>1. CASE \E l \in Labels : start(l) \/ end(l) \/ EndUnknown(l) \/ endAndLog(l)
  BY <1>1, StartStep, EndStep, EndUnknownStep, EndAndLogStep
<1>2. CASE TimePasses
  BY <1>2, TimePassesStep
<1>3. CASE UNCHANGED timerVars
  <2>1. UNCHANGED <<now, slots, reading, started, running, untidy>>
    BY <1>3 DEF timerVars, timerState
  <2> QED BY <2>1 DEF TimerInv, TimerTypeOK, ClockTypeOK, TimesPast, SlotsStarted, TidySlots,
                      OneSlot, NoSlot, Holds, IsLatest, Measures
<1> QED BY <1>1, <1>2, <1>3 DEF TimerNext

(* For every number of slots and labels: an end measures a start of its    *)
(* own label, the latest one if the label was used in turn, and a label    *)
(* used in turn holds one slot while it runs and none when it has ended.   *)
THEOREM TimersDoNotInterfere == TimerSpec => []TimersIndependent
BY TimerInvInit, TimerInvStep, TimerInvSuffices, PTL DEF TimerSpec

-------------------------------------------------------------------------------
(* The simple book: levels.                                                *)

(* The queue of a level; empty if there is no such level.                  *)
At(lv, s, p) == IF p \in DOMAIN lv[s] THEN lv[s][p] ELSE <<>>

(* Two sides of levels, none of them empty.                                *)
Levels(lv) ==
  /\ lv = [s \in Sides |-> lv[s]]
  /\ \A s \in Sides : /\ DOMAIN lv[s] \subseteq Int /\ IsFiniteSet(DOMAIN lv[s])
                      /\ \A p \in DOMAIN lv[s] : lv[s][p] # <<>>

(* A price has a level if and only if orders rest there.                   *)
LEMMA LevelThere ==
  ASSUME NEW lv, Levels(lv), NEW s \in Sides, NEW p
  PROVE  /\ p \in DOMAIN lv[s] <=> At(lv, s, p) # <<>>
         /\ p \in DOMAIN lv[s] => At(lv, s, p) = lv[s][p] /\ p \in Int
BY DEF At, Levels

(* c is lv with the queue q at level p of side s.                          *)
IsPut(lv, c, s, p, q) == c = [lv EXCEPT ![s] = SetLevel(@, p, q)]

Only(lv, c, s, p, q) ==
  /\ At(c, s, p) = q
  /\ \A x \in Sides : \A y : ~(x = s /\ y = p) => At(c, x, y) = At(lv, x, y)

(* A queue put at one price leaves the other levels alone.                 *)
LEMMA LevelPut ==
  ASSUME NEW lv, Levels(lv), NEW s \in Sides, NEW p \in Int, NEW q, NEW c, IsPut(lv, c, s, p, q)
  PROVE  Levels(c) /\ Only(lv, c, s, p, q)
<1>1. DOMAIN lv = Sides
  BY DEF Levels
<1>2. /\ c = [x \in Sides |-> c[x]] /\ c[s] = SetLevel(lv[s], p, q)
      /\ \A x \in Sides \ {s} : c[x] = lv[x]
  BY <1>1 DEF Levels, IsPut
<1>3. IsFiniteSet(DOMAIN lv[s])
  BY DEF Levels
<1>4. CASE q = <<>>
  <2>1. c[s] = [y \in DOMAIN lv[s] \ {p} |-> lv[s][y]]
    BY <1>2, <1>4 DEF SetLevel, Erase, Restrict
  <2>2. DOMAIN c[s] = DOMAIN lv[s] \ {p} /\ \A y \in DOMAIN c[s] : c[s][y] = lv[s][y]
    BY <2>1
  <2>3. IsFiniteSet(DOMAIN c[s])
    BY <1>3, <2>2, FS_RemoveElement
  <2>4. Levels(c)
    BY <1>2, <2>2, <2>3 DEF Levels
  <2>5. At(c, s, p) = q
    BY <1>4, <2>2 DEF At
  <2>6. ASSUME NEW x \in Sides, NEW y, ~(x = s /\ y = p) PROVE At(c, x, y) = At(lv, x, y)
    BY <1>2, <2>2, <2>6 DEF At
  <2> QED BY <2>4, <2>5, <2>6 DEF Only
<1>5. CASE q # <<>>
  <2>1. c[s] = [y \in DOMAIN lv[s] \cup {p} |-> IF y = p THEN q ELSE lv[s][y]]
    BY <1>2, <1>5 DEF SetLevel, Put
  <2>2. DOMAIN c[s] = DOMAIN lv[s] \cup {p}
        /\ \A y \in DOMAIN c[s] : c[s][y] = IF y = p THEN q ELSE lv[s][y]
    BY <2>1
  <2>3. IsFiniteSet(DOMAIN c[s])
    BY <1>3, <2>2, FS_AddElement
  <2>4. Levels(c)
    BY <1>2, <1>5, <2>2, <2>3 DEF Levels
  <2>5. At(c, s, p) = q
    BY <2>2 DEF At
  <2>6. ASSUME NEW x \in Sides, NEW y, ~(x = s /\ y = p) PROVE At(c, x, y) = At(lv, x, y)
    BY <1>2, <2>2, <2>6 DEF At
  <2> QED BY <2>4, <2>5, <2>6 DEF Only
<1> QED BY <1>4, <1>5

-------------------------------------------------------------------------------
(* Queues of nodes.                                                        *)

Queued(qs) == Levels(qs) /\ \A s \in Sides : \A p \in Int : At(qs, s, p) \in Seq(Node)

(* The nodes are told apart by their uids, which are the first n numbers.  *)
Numbered(qs, n) ==
  \A s \in Sides : \A p \in Int : \A k \in DOMAIN At(qs, s, p) :
    /\ At(qs, s, p)[k].uid <= n /\ At(qs, s, p)[k].qty > 0
    /\ \A x \in Sides : \A y \in Int : \A j \in DOMAIN At(qs, x, y) :
         At(qs, x, y)[j].uid = At(qs, s, p)[k].uid => x = s /\ y = p /\ j = k

(* The entry of an id in the index denotes node k of its level.            *)
Denotes(qs, loc, id, k) ==
  /\ k \in DOMAIN At(qs, loc.side, loc.price)
  /\ At(qs, loc.side, loc.price)[k].uid = loc.uid
  /\ At(qs, loc.side, loc.price)[k].id = id

IndexTyped(index) ==
  /\ DOMAIN index \subseteq BookIds
  /\ \A id \in DOMAIN index : index[id] \in [side : Sides, price : Int, uid : 1 .. MaxNodes]

EntriesDenote(qs, index) == \A id \in DOMAIN index : \E k : Denotes(qs, index[id], id, k)

(* A node whose id was not sent again is found by the index.               *)
Indexed(index, s, p, node) ==
  node.id \in DOMAIN index /\ index[node.id] = [side |-> s, price |-> p, uid |-> node.uid]

Found(qs, index, used) ==
  \A s \in Sides : \A p \in Int : \A k \in DOMAIN At(qs, s, p) :
    At(qs, s, p)[k].id \notin used => Indexed(index, s, p, At(qs, s, p)[k])

SimpleSound(qs, index, n, used) ==
  /\ Queued(qs) /\ Numbered(qs, n)
  /\ IndexTyped(index) /\ EntriesDenote(qs, index) /\ Found(qs, index, used)

(* The nodes of c are those of qs but for the one numbered u, at the same  *)
(* levels.                                                                 *)
SameNode(a, b) == a.uid = b.uid /\ a.id = b.id

KeepsAt(old, q, u) ==
  /\ \A j \in DOMAIN q : \E i \in DOMAIN old : SameNode(q[j], old[i]) /\ old[i].uid # u
  /\ \A i \in DOMAIN old : old[i].uid # u => \E j \in DOMAIN q : SameNode(q[j], old[i])
  /\ \A j, k \in DOMAIN q : q[j].uid = q[k].uid => j = k

Keeps(qs, c, u) == \A x \in Sides : \A y \in Int : KeepsAt(At(qs, x, y), At(c, x, y), u)

Positive(c) == \A x \in Sides : \A y \in Int : \A j \in DOMAIN At(c, x, y) : At(c, x, y)[j].qty > 0

(* Nodes that stay keep their numbers.                                     *)
LEMMA KeptNumbered ==
  ASSUME NEW qs, NEW n, Numbered(qs, n), NEW c, NEW u, Keeps(qs, c, u), Positive(c)
  PROVE  Numbered(c, n)
<1> SUFFICES ASSUME NEW s \in Sides, NEW p \in Int, NEW k \in DOMAIN At(c, s, p)
             PROVE  /\ At(c, s, p)[k].uid <= n /\ At(c, s, p)[k].qty > 0
                    /\ \A x \in Sides : \A y \in Int : \A j \in DOMAIN At(c, x, y) :
                         At(c, x, y)[j].uid = At(c, s, p)[k].uid => x = s /\ y = p /\ j = k
  BY DEF Numbered
<1>1. PICK i \in DOMAIN At(qs, s, p) : SameNode(At(c, s, p)[k], At(qs, s, p)[i])
  BY DEF Keeps, KeepsAt
<1>2. At(c, s, p)[k].uid <= n /\ At(c, s, p)[k].qty > 0
  BY <1>1 DEF Numbered, SameNode, Positive
<1>3. ASSUME NEW x \in Sides, NEW y \in Int, NEW j \in DOMAIN At(c, x, y),
             At(c, x, y)[j].uid = At(c, s, p)[k].uid
      PROVE  x = s /\ y = p /\ j = k
  <2>1. PICK m \in DOMAIN At(qs, x, y) : SameNode(At(c, x, y)[j], At(qs, x, y)[m])
    BY DEF Keeps, KeepsAt
  <2>2. At(qs, x, y)[m].uid = At(qs, s, p)[i].uid
    BY <1>1, <1>3, <2>1 DEF SameNode
  <2>3. x = s /\ y = p
    BY <2>2 DEF Numbered
  <2>4. j \in DOMAIN At(c, s, p) /\ At(c, s, p)[j].uid = At(c, s, p)[k].uid
    BY <1>3, <2>3
  <2>5. j = k
    BY <2>4 DEF Keeps, KeepsAt
  <2> QED BY <2>3, <2>5
<1> QED BY <1>2, <1>3

(* A node was changed, but not what tells it apart.                        *)
LEMMA ReducedSound ==
  ASSUME NEW qs, NEW index, NEW n, NEW used, SimpleSound(qs, index, n, used),
         NEW c, Queued(c), Positive(c), Keeps(qs, c, 0)
  PROVE  SimpleSound(c, index, n, used)
<1>1. Numbered(c, n)
  BY KeptNumbered DEF SimpleSound
<1>2. EntriesDenote(c, index)
  <2> SUFFICES ASSUME NEW id \in DOMAIN index PROVE \E k : Denotes(c, index[id], id, k)
    BY DEF EntriesDenote
  <2> DEFINE s == index[id].side
             p == index[id].price
  <2>1. s \in Sides /\ p \in Int
    BY DEF SimpleSound, IndexTyped
  <2>2. PICK i : Denotes(qs, index[id], id, i)
    BY DEF SimpleSound, EntriesDenote
  <2>3. i \in DOMAIN At(qs, s, p) /\ At(qs, s, p)[i] \in Node
    BY <2>1, <2>2, ElementOfSeq, LenProperties DEF SimpleSound, Queued, Denotes
  <2>4. At(qs, s, p)[i].uid # 0
    BY <2>3 DEF Node
  <2>5. PICK j \in DOMAIN At(c, s, p) : SameNode(At(c, s, p)[j], At(qs, s, p)[i])
    BY <2>1, <2>3, <2>4 DEF Keeps, KeepsAt
  <2>6. Denotes(c, index[id], id, j)
    BY <2>2, <2>5 DEF Denotes, SameNode
  <2> QED BY <2>6
<1>3. Found(c, index, used)
  <2> SUFFICES ASSUME NEW s \in Sides, NEW p \in Int, NEW k \in DOMAIN At(c, s, p),
                      At(c, s, p)[k].id \notin used
               PROVE  Indexed(index, s, p, At(c, s, p)[k])
    BY DEF Found
  <2>1. PICK i \in DOMAIN At(qs, s, p) : SameNode(At(c, s, p)[k], At(qs, s, p)[i])
    BY DEF Keeps, KeepsAt
  <2> QED BY <2>1 DEF SimpleSound, Found, SameNode, Indexed
<1> QED BY <1>1, <1>2, <1>3 DEF SimpleSound

(* A node was taken out of its queue, and its id out of the index.         *)
LEMMA TakenSound ==
  ASSUME NEW qs, NEW index, NEW n, NEW used, SimpleSound(qs, index, n, used),
         NEW s \in Sides, NEW p \in Int, NEW k \in DOMAIN At(qs, s, p),
         NEW c, Queued(c), Positive(c), Keeps(qs, c, At(qs, s, p)[k].uid)
  PROVE  SimpleSound(c, Erase(index, At(qs, s, p)[k].id), n, used)
<1> DEFINE u == At(qs, s, p)[k].uid
           d == At(qs, s, p)[k].id
           e == Erase(index, d)
<1>1. Numbered(c, n)
  BY KeptNumbered DEF SimpleSound
<1>2. DOMAIN e = DOMAIN index \ {d} /\ \A id \in DOMAIN e : e[id] = index[id]
  BY DEF Erase, Restrict
<1> HIDE DEF e
<1>3. IndexTyped(e)
  BY <1>2 DEF SimpleSound, IndexTyped
<1>4. EntriesDenote(c, e)
  <2> SUFFICES ASSUME NEW id \in DOMAIN e PROVE \E j : Denotes(c, e[id], id, j)
    BY DEF EntriesDenote
  <2> DEFINE x == index[id].side
             y == index[id].price
  <2>1. x \in Sides /\ y \in Int
    BY <1>2 DEF SimpleSound, IndexTyped
  <2>2. PICK i : Denotes(qs, index[id], id, i)
    BY <1>2 DEF SimpleSound, EntriesDenote
  <2>3. i \in DOMAIN At(qs, x, y) /\ At(qs, x, y)[i].id = id /\ id # d
    BY <1>2, <2>2 DEF Denotes
  <2>4. At(qs, x, y)[i].uid # u
    BY <2>1, <2>3 DEF SimpleSound, Numbered
  <2>5. PICK j \in DOMAIN At(c, x, y) : SameNode(At(c, x, y)[j], At(qs, x, y)[i])
    BY <2>1, <2>3, <2>4 DEF Keeps, KeepsAt
  <2>6. Denotes(c, index[id], id, j)
    BY <2>2, <2>5 DEF Denotes, SameNode
  <2> QED BY <1>2, <2>6
<1>5. Found(c, e, used)
  <2> SUFFICES ASSUME NEW x \in Sides, NEW y \in Int, NEW j \in DOMAIN At(c, x, y),
                      At(c, x, y)[j].id \notin used
               PROVE  Indexed(e, x, y, At(c, x, y)[j])
    BY DEF Found
  <2>1. PICK i \in DOMAIN At(qs, x, y) :
          SameNode(At(c, x, y)[j], At(qs, x, y)[i]) /\ At(qs, x, y)[i].uid # u
    BY DEF Keeps, KeepsAt
  <2>2. Indexed(index, x, y, At(c, x, y)[j])
    BY <2>1 DEF SimpleSound, Found, SameNode, Indexed
  <2>3. At(c, x, y)[j].id # d
    <3> SUFFICES ASSUME At(c, x, y)[j].id = d PROVE FALSE
      OBVIOUS
    <3>1. Indexed(index, s, p, At(qs, s, p)[k])
      BY DEF SimpleSound, Found
    <3>2. At(c, x, y)[j].uid = u
      BY <2>2, <3>1 DEF Indexed
    <3> QED BY <2>1, <3>2 DEF SameNode
  <2> QED BY <1>2, <2>2, <2>3 DEF Indexed
<1> QED BY <1>1, <1>3, <1>4, <1>5 DEF SimpleSound, e

(* A queue of nodes put at one price leaves queues of nodes.               *)
LEMMA LevelQueued ==
  ASSUME NEW qs, Queued(qs), NEW s \in Sides, NEW p \in Int, NEW q \in Seq(Node),
         NEW c, IsPut(qs, c, s, p, q)
  PROVE  Queued(c) /\ Only(qs, c, s, p, q)
<1>1. Levels(c) /\ Only(qs, c, s, p, q)
  BY LevelPut DEF Queued
<1>2. ASSUME NEW x \in Sides, NEW y \in Int PROVE At(c, x, y) \in Seq(Node)
  BY <1>1 DEF Queued, Only
<1> QED BY <1>1, <1>2 DEF Queued

(* q is the queue old without its node k.                                  *)
TakenOut(old, k, q) ==
  /\ Len(q) = Len(old) - 1
  /\ \A j \in 1 .. Len(q) : (IF j < k THEN j ELSE j + 1) \in 1 .. Len(old)
                            /\ q[j] = old[IF j < k THEN j ELSE j + 1]

(* A node taken out of its queue is gone, and the others stay.             *)
LEMMA TakenKeeps ==
  ASSUME NEW qs, NEW n, Queued(qs), Numbered(qs, n),
         NEW s \in Sides, NEW p \in Int, NEW k \in DOMAIN At(qs, s, p),
         NEW q \in Seq(Node), TakenOut(At(qs, s, p), k, q),
         NEW c, IsPut(qs, c, s, p, q)
  PROVE  Queued(c) /\ Positive(c) /\ Keeps(qs, c, At(qs, s, p)[k].uid)
<1> DEFINE old == At(qs, s, p)
           u == old[k].uid
<1>1. Queued(c) /\ Only(qs, c, s, p, q)
  BY LevelQueued
<1>2. old \in Seq(Node) /\ DOMAIN old = 1 .. Len(old) /\ DOMAIN q = 1 .. Len(q)
      /\ Len(old) \in Nat /\ Len(q) \in Nat /\ Len(q) = Len(old) - 1 /\ k \in 1 .. Len(old)
  BY LenProperties DEF Queued, TakenOut
<1>3. \A j \in DOMAIN q : \E i \in DOMAIN old : q[j] = old[i] /\ i # k /\ (j < k => i = j) /\ (~(j < k) => i = j + 1)
  <2> TAKE j \in DOMAIN q
  <2>1. CASE j < k
    BY <1>2, <2>1 DEF TakenOut
  <2>2. CASE ~(j < k)
    <3>1. j + 1 \in DOMAIN old /\ q[j] = old[j + 1] /\ j + 1 # k
      BY <1>2, <2>2 DEF TakenOut
    <3> QED BY <2>2, <3>1
  <2> QED BY <2>1, <2>2
<1>4. \A i \in DOMAIN old : i # k => \E j \in DOMAIN q : q[j] = old[i]
  <2> SUFFICES ASSUME NEW i \in DOMAIN old, i # k PROVE \E j \in DOMAIN q : q[j] = old[i]
    OBVIOUS
  <2>1. CASE i < k
    BY <1>2, <2>1 DEF TakenOut
  <2>2. CASE i > k
    <3>1. i - 1 \in DOMAIN q /\ ~(i - 1 < k) /\ (i - 1) + 1 = i
      BY <1>2, <2>2
    <3>2. q[i - 1] = old[i]
      BY <1>2, <3>1 DEF TakenOut
    <3> QED BY <3>1, <3>2
  <2>3. i < k \/ i > k
    BY <1>2
  <2> QED BY <2>1, <2>2, <2>3
<1>5. \A i, j \in DOMAIN old : old[i].uid = old[j].uid => i = j
  BY DEF Numbered
<1>6. \A i \in DOMAIN old : old[i].qty > 0
  BY DEF Numbered
<1>7. Positive(c)
  <2> SUFFICES ASSUME NEW x \in Sides, NEW y \in Int, NEW j \in DOMAIN At(c, x, y)
               PROVE  At(c, x, y)[j].qty > 0
    BY DEF Positive
  <2>1. CASE x = s /\ y = p
    BY <1>1, <1>3, <1>6, <2>1 DEF Only
  <2>2. CASE ~(x = s /\ y = p)
    BY <1>1, <2>2 DEF Numbered, Only
  <2> QED BY <2>1, <2>2
<1>8. Keeps(qs, c, u)
  <2> SUFFICES ASSUME NEW x \in Sides, NEW y \in Int PROVE KeepsAt(At(qs, x, y), At(c, x, y), u)
    BY DEF Keeps
  <2>1. CASE x = s /\ y = p
    <3>1. \A j \in DOMAIN q : \E i \in DOMAIN old : SameNode(q[j], old[i]) /\ old[i].uid # u
      BY <1>2, <1>3, <1>5 DEF SameNode
    <3>2. \A i \in DOMAIN old : old[i].uid # u => \E j \in DOMAIN q : SameNode(q[j], old[i])
      BY <1>4 DEF SameNode
    <3>3. ASSUME NEW j \in DOMAIN q, NEW m \in DOMAIN q, q[j].uid = q[m].uid
          PROVE  j = m
      <4>1. PICK a \in DOMAIN old : q[j] = old[a] /\ (j < k => a = j) /\ (~(j < k) => a = j + 1)
        BY <1>3
      <4>2. PICK b \in DOMAIN old : q[m] = old[b] /\ (m < k => b = m) /\ (~(m < k) => b = m + 1)
        BY <1>3
      <4>3. a = b
        BY <1>5, <3>3, <4>1, <4>2
      <4>4. j \in Int /\ m \in Int /\ k \in Int /\ a \in Int
        BY <1>2
      <4> QED BY <4>1, <4>2, <4>3, <4>4
    <3>4. KeepsAt(old, q, u)
      BY <3>1, <3>2, <3>3 DEF KeepsAt
    <3>5. At(c, x, y) = q /\ At(qs, x, y) = old
      BY <1>1, <2>1 DEF Only
    <3> HIDE DEF old
    <3> QED BY <3>4, <3>5
  <2>2. CASE ~(x = s /\ y = p)
    <3>1. At(c, x, y) = At(qs, x, y)
      BY <1>1, <2>2 DEF Only
    <3>2. \A i \in DOMAIN At(qs, x, y) : At(qs, x, y)[i].uid # u
      BY <2>2 DEF Numbered
    <3>3. \A j, m \in DOMAIN At(qs, x, y) : At(qs, x, y)[j].uid = At(qs, x, y)[m].uid => j = m
      BY DEF Numbered
    <3> QED BY <3>1, <3>2, <3>3 DEF SameNode, KeepsAt
  <2> QED BY <2>1, <2>2
<1> QED BY <1>1, <1>7, <1>8

(* The front of a level has traded, but not all of it.                     *)
LEMMA FrontKeeps ==
  ASSUME NEW qs, NEW n, Queued(qs), Numbered(qs, n),
         NEW s \in Sides, NEW p \in Int, At(qs, s, p) # <<>>,
         NEW r \in Node, SameNode(r, At(qs, s, p)[1]), r.qty > 0,
         NEW c, IsPut(qs, c, s, p, [At(qs, s, p) EXCEPT ![1] = r])
  PROVE  Queued(c) /\ Positive(c) /\ Keeps(qs, c, 0)
<1> DEFINE old == At(qs, s, p)
           q == [old EXCEPT ![1] = r]
<1>1. old \in Seq(Node) /\ 1 \in DOMAIN old /\ DOMAIN old = 1 .. Len(old)
  BY EmptySeq, LenProperties DEF Queued
<1>2. q \in Seq(Node) /\ DOMAIN q = DOMAIN old
  BY <1>1, ExceptSeq
<1>3. q[1] = r /\ \A j \in DOMAIN q \ {1} : q[j] = old[j]
  BY <1>1
<1>4. \A j \in DOMAIN old : SameNode(q[j], old[j]) /\ q[j].qty > 0 /\ old[j].uid # 0
  <2> TAKE j \in DOMAIN old
  <2>1. old[j].qty > 0 /\ old[j] \in Node
    BY <1>1, ElementOfSeq DEF Numbered
  <2>2. old[j].uid # 0
    BY <2>1 DEF Node
  <2>3. CASE j = 1
    BY <1>3, <2>2, <2>3
  <2>4. CASE j # 1
    BY <1>2, <1>3, <2>1, <2>2, <2>4 DEF SameNode
  <2> QED BY <2>3, <2>4
<1> HIDE DEF q
<1>5. Queued(c) /\ Only(qs, c, s, p, q)
  BY <1>2, LevelQueued DEF q
<1>6. Positive(c)
  <2> SUFFICES ASSUME NEW x \in Sides, NEW y \in Int, NEW j \in DOMAIN At(c, x, y)
               PROVE  At(c, x, y)[j].qty > 0
    BY DEF Positive
  <2>1. CASE x = s /\ y = p
    BY <1>2, <1>4, <1>5, <2>1 DEF Only
  <2>2. CASE ~(x = s /\ y = p)
    BY <1>5, <2>2 DEF Numbered, Only
  <2> QED BY <2>1, <2>2
<1>7. ASSUME NEW x \in Sides, NEW y \in Int
      PROVE  /\ DOMAIN At(c, x, y) = DOMAIN At(qs, x, y)
             /\ \A j \in DOMAIN At(qs, x, y) :
                  SameNode(At(c, x, y)[j], At(qs, x, y)[j]) /\ At(qs, x, y)[j].uid # 0
  <2>1. CASE x = s /\ y = p
    BY <1>2, <1>4, <1>5, <2>1 DEF Only
  <2>2. CASE ~(x = s /\ y = p)
    <3>1. At(c, x, y) = At(qs, x, y) /\ At(qs, x, y) \in Seq(Node)
      BY <1>5, <2>2 DEF Queued, Only
    <3>2. \A j \in DOMAIN At(qs, x, y) : At(qs, x, y)[j] \in Node
      BY <3>1, ElementOfSeq, LenProperties
    <3>3. \A j \in DOMAIN At(qs, x, y) : At(qs, x, y)[j].uid # 0
      BY <3>2 DEF Node
    <3> QED BY <3>1, <3>3 DEF SameNode
  <2> QED BY <2>1, <2>2
<1>8. Keeps(qs, c, 0)
  <2> SUFFICES ASSUME NEW x \in Sides, NEW y \in Int PROVE KeepsAt(At(qs, x, y), At(c, x, y), 0)
    BY DEF Keeps
  <2>1. \A j, m \in DOMAIN At(qs, x, y) : At(qs, x, y)[j].uid = At(qs, x, y)[m].uid => j = m
    BY DEF Numbered
  <2>2. /\ DOMAIN At(c, x, y) = DOMAIN At(qs, x, y)
        /\ \A j \in DOMAIN At(qs, x, y) :
             SameNode(At(c, x, y)[j], At(qs, x, y)[j]) /\ At(qs, x, y)[j].uid # 0
    BY <1>7
  <2> QED BY <2>1, <2>2 DEF SameNode, KeepsAt
<1> QED BY <1>5, <1>6, <1>8

(* A new node at the end of a level takes over the index entry of its id.  *)
LEMMA AddedSound ==
  ASSUME NEW qs, NEW index, NEW n \in Nat, NEW used, SimpleSound(qs, index, n, used),
         NEW s \in Sides, NEW p \in Int, NEW r \in Node, r.uid = n + 1, r.qty > 0,
         NEW now_used, used \subseteq now_used,
         \A x \in Sides : \A y \in Int : \A j \in DOMAIN At(qs, x, y) :
           At(qs, x, y)[j].id = r.id => r.id \in now_used,
         NEW c, IsPut(qs, c, s, p, Append(At(qs, s, p), r))
  PROVE  SimpleSound(c, Put(index, r.id, [side |-> s, price |-> p, uid |-> r.uid]), n + 1, now_used)
<1> DEFINE old == At(qs, s, p)
           q == Append(old, r)
           m == Len(old) + 1
           loc == [side |-> s, price |-> p, uid |-> r.uid]
           e == Put(index, r.id, loc)
<1>1. old \in Seq(Node) /\ Len(old) \in Nat /\ DOMAIN old = 1 .. Len(old)
  BY LenProperties DEF SimpleSound, Queued
<1>2. /\ q \in Seq(Node) /\ DOMAIN q = 1 .. m /\ q[m] = r /\ m \in DOMAIN q
      /\ \A j \in DOMAIN old : q[j] = old[j] /\ j \in DOMAIN q
      /\ \A j \in DOMAIN q : j # m => j \in DOMAIN old
  BY <1>1, AppendProperties, LenProperties
<1> HIDE DEF q, m
<1>3. Queued(c) /\ Only(qs, c, s, p, q)
  BY <1>2, LevelQueued DEF q, SimpleSound
<1>4. /\ DOMAIN e = DOMAIN index \cup {r.id} /\ e[r.id] = loc
      /\ \A id \in DOMAIN index : id # r.id => e[id] = index[id]
  BY DEF Put
<1> HIDE DEF e
(* A node of c is the new one or one of qs.                                *)
<1>5. ASSUME NEW x \in Sides, NEW y \in Int, NEW j \in DOMAIN At(c, x, y)
      PROVE  \/ x = s /\ y = p /\ j = m /\ At(c, x, y)[j] = r
             \/ j \in DOMAIN At(qs, x, y) /\ At(c, x, y)[j] = At(qs, x, y)[j]
                  /\ At(qs, x, y)[j].uid <= n /\ At(qs, x, y)[j].uid \in Nat
  <2>1. CASE x = s /\ y = p /\ j = m
    BY <1>2, <1>3, <2>1 DEF Only
  <2>2. CASE ~(x = s /\ y = p /\ j = m)
    <3>1. j \in DOMAIN At(qs, x, y) /\ At(c, x, y)[j] = At(qs, x, y)[j]
      BY <1>2, <1>3, <2>2 DEF Only
    <3>2. At(qs, x, y)[j].uid <= n /\ At(qs, x, y) \in Seq(Node)
      BY <3>1 DEF SimpleSound, Numbered, Queued
    <3>3. At(qs, x, y)[j] \in Node
      BY <3>1, <3>2, ElementOfSeq, LenProperties
    <3> QED BY <3>1, <3>2, <3>3 DEF Node
  <2> QED BY <2>1, <2>2
<1>6. Numbered(c, n + 1)
  <2> SUFFICES ASSUME NEW x \in Sides, NEW y \in Int, NEW j \in DOMAIN At(c, x, y)
               PROVE  /\ At(c, x, y)[j].uid <= n + 1 /\ At(c, x, y)[j].qty > 0
                      /\ \A v \in Sides : \A w \in Int : \A i \in DOMAIN At(c, v, w) :
                           At(c, v, w)[i].uid = At(c, x, y)[j].uid => v = x /\ w = y /\ i = j
    BY DEF Numbered
  <2>1. At(c, x, y)[j].uid <= n + 1
    BY <1>5
  <2>2. At(c, x, y)[j].qty > 0
    BY <1>5 DEF SimpleSound, Numbered
  <2>3. ASSUME NEW v \in Sides, NEW w \in Int, NEW i \in DOMAIN At(c, v, w),
               At(c, v, w)[i].uid = At(c, x, y)[j].uid
        PROVE  v = x /\ w = y /\ i = j
    <3>1. CASE x = s /\ y = p /\ j = m /\ At(c, x, y)[j] = r
      BY <1>5, <2>3, <3>1
    <3>2. CASE /\ j \in DOMAIN At(qs, x, y) /\ At(c, x, y)[j] = At(qs, x, y)[j]
               /\ At(qs, x, y)[j].uid <= n /\ At(qs, x, y)[j].uid \in Nat
      <4>1. ~(At(c, v, w)[i] = r)
        BY <2>3, <3>2
      <4>2. i \in DOMAIN At(qs, v, w) /\ At(c, v, w)[i] = At(qs, v, w)[i]
        BY <1>5, <4>1
      <4> QED BY <2>3, <3>2, <4>2 DEF SimpleSound, Numbered
    <3> QED BY <1>5, <3>1, <3>2
  <2> QED BY <2>1, <2>2, <2>3
<1>7. IndexTyped(e)
  <2>1. loc \in [side : Sides, price : Int, uid : 1 .. MaxNodes] /\ r.id \in BookIds
    BY DEF Node
  <2> QED BY <1>4, <2>1 DEF SimpleSound, IndexTyped
<1>8. EntriesDenote(c, e)
  <2> SUFFICES ASSUME NEW id \in DOMAIN e PROVE \E j : Denotes(c, e[id], id, j)
    BY DEF EntriesDenote
  <2>1. CASE id = r.id
    <3>1. Denotes(c, e[id], id, m)
      BY <1>2, <1>3, <1>4, <2>1 DEF Denotes, Only
    <3> QED BY <3>1
  <2>2. CASE id # r.id
    <3>1. id \in DOMAIN index /\ e[id] = index[id]
      BY <1>4, <2>2
    <3>2. index[id].side \in Sides
      BY <3>1 DEF SimpleSound, IndexTyped
    <3>3. PICK j : Denotes(qs, index[id], id, j)
      BY <3>1 DEF SimpleSound, EntriesDenote
    <3>4. Denotes(c, index[id], id, j)
      BY <1>2, <1>3, <3>2, <3>3 DEF Denotes, Only
    <3> QED BY <3>1, <3>4
  <2> QED BY <2>1, <2>2
<1>9. Found(c, e, now_used)
  <2> SUFFICES ASSUME NEW x \in Sides, NEW y \in Int, NEW j \in DOMAIN At(c, x, y),
                      At(c, x, y)[j].id \notin now_used
               PROVE  Indexed(e, x, y, At(c, x, y)[j])
    BY DEF Found
  <2>1. CASE x = s /\ y = p /\ j = m /\ At(c, x, y)[j] = r
    BY <1>4, <2>1 DEF Indexed
  <2>2. CASE j \in DOMAIN At(qs, x, y) /\ At(c, x, y)[j] = At(qs, x, y)[j]
    <3>1. Indexed(index, x, y, At(c, x, y)[j])
      BY <2>2 DEF SimpleSound, Found
    <3>2. At(c, x, y)[j].id # r.id
      BY <2>2
    <3> QED BY <1>4, <3>1, <3>2 DEF Indexed
  <2> QED BY <1>5, <2>1, <2>2
<1> QED BY <1>3, <1>6, <1>7, <1>8, <1>9 DEF SimpleSound, e

(* The first level of a side that has any, in the order of its map.        *)
LEMMA BeginIs ==
  ASSUME NEW qs, Queued(qs), NEW s \in Sides, DOMAIN qs[s] # {}
  PROVE  /\ BeginPrice(qs, s) \in DOMAIN qs[s] /\ BeginPrice(qs, s) \in Int
         /\ At(qs, s, BeginPrice(qs, s)) = qs[s][BeginPrice(qs, s)]
         /\ At(qs, s, BeginPrice(qs, s)) # <<>>
<1>1. DOMAIN qs[s] \in SUBSET Int /\ IsFiniteSet(DOMAIN qs[s])
  BY DEF Queued, Levels
<1>2. Max(DOMAIN qs[s]) \in DOMAIN qs[s] /\ Min(DOMAIN qs[s]) \in DOMAIN qs[s]
  BY <1>1, Extremes
<1>3. BeginPrice(qs, s) \in DOMAIN qs[s] /\ BeginPrice(qs, s) \in Int
  BY <1>1, <1>2 DEF BeginPrice
<1> QED BY <1>3, LevelThere DEF Queued

(* m is what a trade of q with the front of level p of side s makes of the *)
(* state st of the loop.                                                   *)
Traded(st, m, s, p, q) ==
  LET front == At(st.queues, s, p)[1]
  IN  /\ IsPut(st.queues, m.queues, s, p,
               IF q = front.qty THEN Tail(At(st.queues, s, p))
               ELSE [At(st.queues, s, p) EXCEPT ![1] = [front EXCEPT !.qty = @ - q]])
      /\ m.index = IF q = front.qty THEN Erase(st.index, front.id) ELSE st.index
      /\ m.trades = Append(st.trades, [resting |-> front.id, price |-> p, qty |-> q])
      /\ m.remaining = st.remaining - q

(* One pass of the matching loop trades with the front of the best level.  *)
LEMMA TradeFrontTrades ==
  ASSUME NEW st, Queued(st.queues), NEW n, Numbered(st.queues, n), NEW o, o.side \in Sides,
         st.remaining \in Int, Meets(st.queues, o, st.remaining)
  PROVE  LET s == Opposite(o.side)
             p == BeginPrice(st.queues, s)
             front == At(st.queues, s, p)[1]
             q == IF st.remaining < front.qty THEN st.remaining ELSE front.qty
         IN  /\ s \in Sides /\ p \in Int /\ p \in DOMAIN st.queues[s]
             /\ At(st.queues, s, p) \in Seq(Node) /\ At(st.queues, s, p) # <<>>
             /\ front \in Node /\ q \in Nat /\ 0 < q /\ q <= st.remaining /\ q <= front.qty
             /\ Traded(st, TradeFront(st, o), s, p, q)
<1> DEFINE s == Opposite(o.side)
           p == BeginPrice(st.queues, s)
           old == At(st.queues, s, p)
           front == old[1]
           q == IF st.remaining < front.qty THEN st.remaining ELSE front.qty
<1>1. s \in Sides /\ DOMAIN st.queues[s] # {} /\ st.remaining > 0
  BY DEF Meets, Opposite, Sides
<1>2. /\ p \in DOMAIN st.queues[s] /\ p \in Int
      /\ old = st.queues[s][p] /\ old # <<>> /\ old \in Seq(Node)
  BY <1>1, BeginIs DEF Queued
<1>3. 1 \in DOMAIN old /\ front \in Node /\ Head(old) = front
  BY <1>2, EmptySeq, LenProperties, ElementOfSeq
<1>4. front.qty \in Nat /\ front.qty > 0
  <2>1. front.qty > 0
    BY <1>1, <1>2, <1>3 DEF Numbered
  <2> QED BY <1>3, <2>1 DEF Node
<1>5. q \in Nat /\ 0 < q /\ q <= st.remaining /\ q <= front.qty
  BY <1>1, <1>4
<1>6. Min({st.remaining, Head(old).qty}) = q
  <2>1. st.remaining \in Int /\ front.qty \in Int
    BY <1>4
  <2>2. Min({st.remaining, front.qty}) = IF st.remaining <= front.qty THEN st.remaining ELSE front.qty
    BY <2>1, MinMaxOfTwo
  <2> QED BY <1>3, <2>1, <2>2
<1>7. TradeFront(st, o) =
        [queues |-> [st.queues EXCEPT ![s] =
                       SetLevel(@, p, IF q = front.qty THEN Tail(old) ELSE [old EXCEPT ![1].qty = @ - q])],
         index |-> IF q = front.qty THEN Erase(st.index, front.id) ELSE st.index,
         trades |-> Append(st.trades, [resting |-> front.id, price |-> p, qty |-> q]),
         remaining |-> st.remaining - q]
  <2> HIDE DEF q
  <2> QED BY <1>2, <1>3, <1>6 DEF TradeFront
<1>8. [old EXCEPT ![1].qty = @ - q] = [old EXCEPT ![1] = [front EXCEPT !.qty = @ - q]]
  OBVIOUS
<1> HIDE DEF s, p, old, front, q
<1>9. Traded(st, TradeFront(st, o), s, p, q)
  BY <1>7, <1>8 DEF Traded, IsPut, front, old
<1> QED BY <1>1, <1>2, <1>3, <1>5, <1>9 DEF s, p, old, front, q

(* A trade leaves the queues and the index in step.                        *)
LEMMA TradedSound ==
  ASSUME NEW st, NEW n, NEW used, SimpleSound(st.queues, st.index, n, used),
         NEW s \in Sides, NEW p \in Int, At(st.queues, s, p) # <<>>,
         NEW q \in Nat, 0 < q, q <= At(st.queues, s, p)[1].qty,
         NEW m, Traded(st, m, s, p, q)
  PROVE  SimpleSound(m.queues, m.index, n, used)
<1> DEFINE old == At(st.queues, s, p)
           front == old[1]
<1>1. /\ Queued(st.queues) /\ Numbered(st.queues, n)
      /\ old \in Seq(Node) /\ 1 \in DOMAIN old /\ front \in Node /\ Len(old) \in Nat
  BY EmptySeq, LenProperties, ElementOfSeq DEF SimpleSound, Queued
<1>2. CASE q = front.qty
  <2>1. IsPut(st.queues, m.queues, s, p, Tail(old)) /\ m.index = Erase(st.index, front.id)
    BY <1>2 DEF Traded
  <2>2. Tail(old) \in Seq(Node) /\ TakenOut(old, 1, Tail(old))
    <3>1. Tail(old) \in Seq(Node) /\ Len(Tail(old)) = Len(old) - 1
          /\ \A j \in 1 .. Len(Tail(old)) : Tail(old)[j] = old[j + 1]
      BY <1>1, HeadTailProperties
    <3>2. \A j \in 1 .. Len(Tail(old)) : ~(j < 1) /\ j + 1 \in 1 .. Len(old)
      BY <1>1, <3>1
    <3> QED BY <3>1, <3>2 DEF TakenOut
  <2>3. Queued(m.queues) /\ Positive(m.queues) /\ Keeps(st.queues, m.queues, front.uid)
    BY <1>1, <2>1, <2>2, TakenKeeps
  <2> QED BY <1>1, <2>1, <2>3, TakenSound
<1>3. CASE q # front.qty
  <2> DEFINE r == [front EXCEPT !.qty = @ - q]
  <2>1. IsPut(st.queues, m.queues, s, p, [old EXCEPT ![1] = r]) /\ m.index = st.index
    BY <1>3 DEF Traded
  <2>2. r \in Node /\ SameNode(r, front) /\ r.qty > 0
    BY <1>1, <1>3 DEF Node, SameNode
  <2> HIDE DEF r
  <2>3. Queued(m.queues) /\ Positive(m.queues) /\ Keeps(st.queues, m.queues, 0)
    BY <1>1, <2>1, <2>2, FrontKeeps
  <2> QED BY <2>1, <2>3, ReducedSound
<1> QED BY <1>2, <1>3

-------------------------------------------------------------------------------
(* The loop of matchIncoming.                                              *)

SimpleStart(o) == [queues |-> queues, index |-> order_index, trades |-> <<>>, remaining |-> o.qty]
SimpleStep(o, st) == IF Meets(st.queues, o, st.remaining) THEN TradeFront(st, o) ELSE st

SimpleRuns(F, o, n) ==
  F[0] = SimpleStart(o) /\ \A m \in Nat : m < n => F[m + 1] = SimpleStep(o, F[m])

IsSimpleFold(g, o, S) ==
  g = [s \in SUBSET S |-> IF s = {} THEN SimpleStart(o) ELSE SimpleStep(o, g[s \ {Max(s)}])]

(* The fold that matchIncoming is, written out.                            *)
LEMMA SimpleMatchIs ==
  ASSUME NEW o, NEW S, S = DOMAIN [i \in 1 .. o.qty |-> i]
  PROVE  matchIncoming(o) = (CHOOSE g : IsSimpleFold(g, o, S))[S]
BY DEF matchIncoming, FoldLeft, MapThenFoldSet, IsSimpleFold, SimpleStart, SimpleStep

(* The states of n passes of the loop can be listed.                       *)
LEMMA SimpleRunExists ==
  ASSUME NEW o, NEW n \in Nat
  PROVE  \E F : SimpleRuns(F, o, n)
<1> DEFINE P == {k \in Nat : \E F : SimpleRuns(F, o, k)}
<1>1. 0 \in P
  <2> DEFINE F == [i \in {0} |-> SimpleStart(o)]
  <2>1. SimpleRuns(F, o, 0)
    BY DEF SimpleRuns
  <2> QED BY <2>1
<1>2. ASSUME NEW k \in P PROVE k + 1 \in P
  <2>1. PICK F : SimpleRuns(F, o, k)
    OBVIOUS
  <2> DEFINE G == [i \in 0 .. (k + 1) |-> IF i <= k THEN F[i] ELSE SimpleStep(o, F[k])]
  <2>2. G[0] = SimpleStart(o)
    BY <2>1 DEF SimpleRuns
  <2>3. ASSUME NEW m \in Nat, m < k + 1 PROVE G[m + 1] = SimpleStep(o, G[m])
    <3>1. m \in 0 .. (k + 1) /\ m + 1 \in 0 .. (k + 1) /\ m <= k /\ G[m] = F[m]
      BY <2>3
    <3>2. CASE m < k
      <4>1. m + 1 <= k /\ F[m + 1] = SimpleStep(o, F[m])
        BY <2>1, <3>2 DEF SimpleRuns
      <4> QED BY <3>1, <4>1
    <3>3. CASE ~(m < k)
      <4>1. m = k /\ ~(m + 1 <= k)
        BY <3>1, <3>3
      <4> QED BY <3>1, <4>1
    <3> QED BY <3>2, <3>3
  <2> HIDE DEF G
  <2>4. SimpleRuns(G, o, k + 1)
    BY <2>2, <2>3 DEF SimpleRuns
  <2> QED BY <2>4
<1>3. P \in SUBSET Nat
  OBVIOUS
<1> HIDE DEF P
<1>4. P = Nat
  BY <1>1, <1>2, <1>3, SetInduction
<1> QED BY <1>4 DEF P

(* The function that the fold chooses exists.                              *)
LEMMA SimpleFoldExists ==
  ASSUME NEW o, NEW n \in Nat
  PROVE  \E g : IsSimpleFold(g, o, 1 .. n)
<1> DEFINE S == 1 .. n
<1>1. PICK F : SimpleRuns(F, o, n)
  BY SimpleRunExists
<1> DEFINE g == [s \in SUBSET S |-> F[Cardinality(s)]]
<1>2. ASSUME NEW s \in SUBSET S
      PROVE  F[Cardinality(s)] = IF s = {} THEN SimpleStart(o) ELSE SimpleStep(o, g[s \ {Max(s)}])
  <2>1. CASE s = {}
    BY <1>1, <2>1, FS_EmptySet DEF SimpleRuns
  <2>2. CASE s # {}
    <3>1. /\ s \ {Max(s)} \in SUBSET S /\ Cardinality(s \ {Max(s)}) \in Nat
          /\ Cardinality(s \ {Max(s)}) < n
          /\ Cardinality(s) = Cardinality(s \ {Max(s)}) + 1
      BY <2>2, WithoutGreatest
    <3>2. g[s \ {Max(s)}] = F[Cardinality(s \ {Max(s)})]
      BY <3>1
    <3>3. PICK m \in Nat : m = Cardinality(s \ {Max(s)}) /\ m < n /\ m + 1 = Cardinality(s)
      BY <3>1
    <3>4. F[m + 1] = SimpleStep(o, F[m])
      BY <1>1, <3>3 DEF SimpleRuns
    <3> QED BY <2>2, <3>2, <3>3, <3>4
  <2> QED BY <2>1, <2>2
<1>3. IsSimpleFold(g, o, S)
  BY <1>2 DEF IsSimpleFold
<1> QED BY <1>3

(* The matching loop is as many passes as the order has units.             *)
LEMMA SimpleMatchRuns ==
  ASSUME NEW o, o.qty \in Nat
  PROVE  \E F : SimpleRuns(F, o, o.qty) /\ matchIncoming(o) = F[o.qty]
<1>1. PICK n \in Nat : n = o.qty
  OBVIOUS
<1>2. DOMAIN [i \in 1 .. o.qty |-> i] = 1 .. n
  BY <1>1
<1> DEFINE g == CHOOSE g : IsSimpleFold(g, o, 1 .. n)
           F == [m \in 0 .. n |-> g[1 .. m]]
<1>3. IsSimpleFold(g, o, 1 .. n)
  <2>1. \E h : IsSimpleFold(h, o, 1 .. n)
    BY SimpleFoldExists
  <2> QED BY <2>1
<1>4. matchIncoming(o) = g[1 .. n]
  BY <1>2, SimpleMatchIs
<1> HIDE DEF g
<1>5. ASSUME NEW s \in SUBSET (1 .. n)
      PROVE  g[s] = IF s = {} THEN SimpleStart(o) ELSE SimpleStep(o, g[s \ {Max(s)}])
  BY <1>3 DEF IsSimpleFold
<1>6. F[0] = SimpleStart(o)
  <2>1. 0 \in 0 .. n /\ 1 .. 0 = {}
    OBVIOUS
  <2> QED BY <1>5, <2>1
<1>7. ASSUME NEW m \in Nat, m < n PROVE F[m + 1] = SimpleStep(o, F[m])
  <2>1. m + 1 \in 0 .. n /\ m \in 0 .. n /\ 1 .. (m + 1) \in SUBSET (1 .. n)
    BY <1>7
  <2>2. 1 .. (m + 1) # {} /\ (1 .. (m + 1)) \ {Max(1 .. (m + 1))} = 1 .. m
    BY GreatestOfInterval
  <2>3. g[1 .. (m + 1)] = SimpleStep(o, g[1 .. m])
    BY <1>5, <2>1, <2>2
  <2> QED BY <2>1, <2>3
<1>8. F[n] = g[1 .. n]
  OBVIOUS
<1> HIDE DEF F
<1>9. SimpleRuns(F, o, n)
  BY <1>6, <1>7 DEF SimpleRuns
<1> QED BY <1>1, <1>4, <1>8, <1>9

(* Every id in the queues c was one of an order in qs.                     *)
IdsFrom(qs, c) ==
  \A x \in Sides : \A y \in Int : \A j \in DOMAIN At(c, x, y) :
    \E i \in DOMAIN At(qs, x, y) : At(qs, x, y)[i].id = At(c, x, y)[j].id

(* A trade brings no new ids.                                              *)
LEMMA TradedIds ==
  ASSUME NEW st, Queued(st.queues), NEW s \in Sides, NEW p \in Int, At(st.queues, s, p) # <<>>,
         NEW q, NEW m, Traded(st, m, s, p, q)
  PROVE  IdsFrom(st.queues, m.queues)
<1> DEFINE old == At(st.queues, s, p)
<1>1. old \in Seq(Node) /\ 1 \in DOMAIN old /\ DOMAIN old = 1 .. Len(old) /\ Len(old) \in Nat
  BY EmptySeq, LenProperties DEF Queued
<1>2. PICK new : /\ IsPut(st.queues, m.queues, s, p, new)
                 /\ \A j \in DOMAIN new : \E i \in DOMAIN old : old[i].id = new[j].id
  <2>1. CASE q = old[1].qty
    <3>1. Len(Tail(old)) = Len(old) - 1 /\ Tail(old) \in Seq(Node)
          /\ \A j \in 1 .. Len(Tail(old)) : Tail(old)[j] = old[j + 1]
      BY <1>1, HeadTailProperties
    <3>2. DOMAIN Tail(old) = 1 .. Len(Tail(old))
      BY <3>1, LenProperties
    <3>3. \A j \in DOMAIN Tail(old) : j + 1 \in DOMAIN old /\ old[j + 1].id = Tail(old)[j].id
      BY <1>1, <3>1, <3>2
    <3> QED BY <2>1, <3>3 DEF Traded
  <2>2. CASE q # old[1].qty
    <3> DEFINE r == [old[1] EXCEPT !.qty = @ - q]
    <3>1. IsPut(st.queues, m.queues, s, p, [old EXCEPT ![1] = r])
      BY <2>2 DEF Traded
    <3>2. old[1] \in Node
      BY <1>1, ElementOfSeq
    <3>3. r.id = old[1].id
      BY <3>2 DEF Node
    <3> HIDE DEF r
    <3>4. \A j \in DOMAIN [old EXCEPT ![1] = r] : j \in DOMAIN old /\ old[j].id = [old EXCEPT ![1] = r][j].id
      BY <1>1, <3>3
    <3> QED BY <3>1, <3>4
  <2> QED BY <2>1, <2>2
<1>3. Levels(m.queues) /\ Only(st.queues, m.queues, s, p, new)
  BY <1>2, LevelPut DEF Queued
<1> SUFFICES ASSUME NEW x \in Sides, NEW y \in Int, NEW j \in DOMAIN At(m.queues, x, y)
             PROVE  \E i \in DOMAIN At(st.queues, x, y) :
                      At(st.queues, x, y)[i].id = At(m.queues, x, y)[j].id
  BY DEF IdsFrom
<1>4. CASE x = s /\ y = p
  BY <1>2, <1>3, <1>4 DEF Only
<1>5. CASE ~(x = s /\ y = p)
  BY <1>3, <1>5 DEF Only
<1> QED BY <1>4, <1>5

(* Nor do several.                                                         *)
LEMMA IdsFromTransitive ==
  ASSUME NEW a, NEW b, NEW c, IdsFrom(a, b), IdsFrom(b, c)
  PROVE  IdsFrom(a, c)
<1> SUFFICES ASSUME NEW x \in Sides, NEW y \in Int, NEW j \in DOMAIN At(c, x, y)
             PROVE  \E i \in DOMAIN At(a, x, y) : At(a, x, y)[i].id = At(c, x, y)[j].id
  BY DEF IdsFrom
<1>1. PICK k \in DOMAIN At(b, x, y) : At(b, x, y)[k].id = At(c, x, y)[j].id
  BY DEF IdsFrom
<1>2. PICK i \in DOMAIN At(a, x, y) : At(a, x, y)[i].id = At(b, x, y)[k].id
  BY DEF IdsFrom
<1> QED BY <1>1, <1>2

(* A state of the loop of matchIncoming.                                   *)
LoopSound(st, n, used) ==
  /\ SimpleSound(st.queues, st.index, n, used)
  /\ st.remaining \in Nat /\ IdsFrom(queues, st.queues)

(* A pass of the loop keeps the queues and the index in step.              *)
LEMMA SimpleStepSound ==
  ASSUME NEW st, NEW n, NEW used, LoopSound(st, n, used), NEW o, o.side \in Sides
  PROVE  LoopSound(SimpleStep(o, st), n, used)
<1>1. CASE ~Meets(st.queues, o, st.remaining)
  BY <1>1 DEF SimpleStep
<1>2. CASE Meets(st.queues, o, st.remaining)
  <2> DEFINE s == Opposite(o.side)
             p == BeginPrice(st.queues, s)
             front == At(st.queues, s, p)[1]
             q == IF st.remaining < front.qty THEN st.remaining ELSE front.qty
             m == TradeFront(st, o)
  <2>1. Queued(st.queues) /\ Numbered(st.queues, n) /\ st.remaining \in Int /\ st.remaining \in Nat
    BY DEF LoopSound, SimpleSound
  <2>2. /\ s \in Sides /\ p \in Int /\ At(st.queues, s, p) # <<>>
        /\ q \in Nat /\ 0 < q /\ q <= st.remaining /\ q <= At(st.queues, s, p)[1].qty
        /\ Traded(st, m, s, p, q)
    BY <1>2, <2>1, TradeFrontTrades
  <2> HIDE DEF s, p, front, q, m
  <2>3. SimpleSound(m.queues, m.index, n, used)
    BY <2>2, TradedSound DEF LoopSound
  <2>4. IdsFrom(st.queues, m.queues)
    BY <2>1, <2>2, TradedIds
  <2>5. IdsFrom(queues, m.queues)
    BY <2>4, IdsFromTransitive DEF LoopSound
  <2>6. m.remaining \in Nat
    BY <2>1, <2>2 DEF Traded
  <2>7. LoopSound(m, n, used)
    BY <2>3, <2>5, <2>6 DEF LoopSound
  <2> QED BY <1>2, <2>7 DEF SimpleStep, m
<1> QED BY <1>1, <1>2

(* So do all passes.                                                       *)
LEMMA SimpleRunSound ==
  ASSUME NEW n, NEW used, SimpleSound(queues, order_index, n, used),
         NEW o, o.side \in Sides, o.qty \in Nat, NEW F, SimpleRuns(F, o, o.qty),
         NEW k \in 0 .. o.qty
  PROVE  LoopSound(F[k], n, used)
<1> DEFINE P == {j \in Nat : j <= o.qty => LoopSound(F[j], n, used)}
<1>1. 0 \in P
  <2>1. IdsFrom(queues, queues)
    BY DEF IdsFrom
  <2> QED BY <2>1 DEF SimpleRuns, SimpleStart, LoopSound
<1>2. ASSUME NEW j \in P PROVE j + 1 \in P
  <2> SUFFICES ASSUME j + 1 <= o.qty PROVE LoopSound(F[j + 1], n, used)
    OBVIOUS
  <2>1. j < o.qty /\ LoopSound(F[j], n, used)
    OBVIOUS
  <2>2. F[j + 1] = SimpleStep(o, F[j])
    BY <2>1 DEF SimpleRuns
  <2> QED BY <2>1, <2>2, SimpleStepSound
<1>3. P \in SUBSET Nat
  OBVIOUS
<1> HIDE DEF P
<1>4. P = Nat
  BY <1>1, <1>2, <1>3, SetInduction
<1> QED BY <1>4 DEF P

-------------------------------------------------------------------------------
(* The simple book: its invariant.                                         *)

SimpleInv ==
  /\ SimpleSound(queues, order_index, nodes, reused)
  /\ nodes \in 0 .. MaxNodes /\ reused \subseteq BookIds

(* The nodes of the book are those in its queues.                          *)
LEMMA NodesAre ==
  ASSUME Queued(queues)
  PROVE  /\ \A node \in AllNodes : \E x \in Sides : \E y \in Int :
              \E j \in DOMAIN At(queues, x, y) : node = At(queues, x, y)[j]
         /\ \A x \in Sides : \A y \in Int : \A j \in DOMAIN At(queues, x, y) :
              At(queues, x, y)[j] \in AllNodes
<1>1. ASSUME NEW node \in AllNodes
      PROVE  \E x \in Sides : \E y \in Int : \E j \in DOMAIN At(queues, x, y) : node = At(queues, x, y)[j]
  <2>1. PICK x \in Sides : node \in NodesAt(x)
    BY <1>1 DEF AllNodes, Sides
  <2>2. PICK y \in DOMAIN queues[x] : node \in ToSet(queues[x][y])
    BY <2>1 DEF NodesAt
  <2>3. PICK j \in DOMAIN queues[x][y] : node = queues[x][y][j]
    BY <2>2 DEF ToSet
  <2>4. At(queues, x, y) = queues[x][y] /\ y \in Int
    BY <2>2, LevelThere DEF Queued
  <2> QED BY <2>3, <2>4
<1>2. ASSUME NEW x \in Sides, NEW y \in Int, NEW j \in DOMAIN At(queues, x, y)
      PROVE  At(queues, x, y)[j] \in AllNodes
  <2>1. y \in DOMAIN queues[x]
    BY DEF At
  <2>2. At(queues, x, y) = queues[x][y]
    BY <2>1 DEF At
  <2>3. queues[x][y][j] \in NodesAt(x)
    BY <2>1, <2>2 DEF NodesAt, ToSet
  <2> QED BY <2>2, <2>3 DEF AllNodes, Sides
<1> QED BY <1>1, <1>2

(* The invariant implies the type invariant and the property of the index. *)
LEMMA SimpleInvSuffices == SimpleInv => SimpleTypeOK /\ IndexSound
<1> SUFFICES ASSUME SimpleInv PROVE SimpleTypeOK /\ IndexSound
  OBVIOUS
<1>1. SimpleSound(queues, order_index, nodes, reused)
  BY DEF SimpleInv
<1>2. Queued(queues) /\ Levels(queues)
  BY <1>1 DEF SimpleSound, Queued
<1>3. SimpleTypeOK
  <2>1. ASSUME NEW s \in Sides
        PROVE  /\ DOMAIN queues[s] \subseteq Int
               /\ \A p \in DOMAIN queues[s] : queues[s][p] \in Seq(Node)
    <3>1. DOMAIN queues[s] \subseteq Int
      BY <1>2 DEF Levels
    <3>2. \A p \in DOMAIN queues[s] : queues[s][p] = At(queues, s, p)
      BY DEF At
    <3> QED BY <1>2, <3>1, <3>2 DEF Queued
  <2> QED BY <1>1, <2>1 DEF SimpleInv, SimpleTypeOK, SimpleSound, IndexTyped
<1>4. NoDanglingEntry
  <2> SUFFICES ASSUME NEW id \in DOMAIN order_index
               PROVE  LET loc == order_index[id]
                      IN  /\ loc.price \in DOMAIN queues[loc.side]
                          /\ \E n \in ToSet(queues[loc.side][loc.price]) : n.uid = loc.uid /\ n.id = id
    BY DEF NoDanglingEntry
  <2> DEFINE loc == order_index[id]
  <2>1. PICK k : Denotes(queues, loc, id, k)
    BY <1>1 DEF SimpleSound, EntriesDenote
  <2>2. loc.price \in DOMAIN queues[loc.side]
    BY <2>1 DEF Denotes, At
  <2>3. At(queues, loc.side, loc.price) = queues[loc.side][loc.price]
    BY <2>2 DEF At
  <2>4. queues[loc.side][loc.price][k] \in ToSet(queues[loc.side][loc.price])
    BY <2>1, <2>3 DEF Denotes, ToSet
  <2> QED BY <2>1, <2>2, <2>3, <2>4 DEF Denotes
<1>5. Cancellable
  <2> SUFFICES ASSUME NEW n \in AllNodes, n.id \notin reused
               PROVE  n.id \in DOMAIN order_index /\ order_index[n.id].uid = n.uid
    BY DEF Cancellable
  <2>1. PICK x \in Sides, y \in Int : \E j \in DOMAIN At(queues, x, y) : n = At(queues, x, y)[j]
    BY <1>2, NodesAre
  <2>2. Indexed(order_index, x, y, n)
    BY <1>1, <2>1 DEF SimpleSound, Found
  <2> QED BY <2>2 DEF Indexed
<1> QED BY <1>3, <1>4, <1>5 DEF IndexSound

(* A new book has neither orders nor entries.                              *)
LEMMA SimpleInvInit == SimpleInit => SimpleInv
<1> SUFFICES ASSUME SimpleInit PROVE SimpleInv
  OBVIOUS
<1> USE DEF SimpleInit
<1>1. /\ queues = [s \in Sides |-> queues[s]] /\ \A s \in Sides : DOMAIN queues[s] = {}
      /\ DOMAIN order_index = {}
  BY DEF EmptyMap
<1>2. Levels(queues)
  BY <1>1, FS_EmptySet DEF Levels
<1>3. \A s \in Sides : \A p : At(queues, s, p) = <<>>
  BY <1>1 DEF At
<1>4. << >> \in Seq(Node) /\ DOMAIN << >> = {}
  BY EmptySeq
<1>5. Queued(queues) /\ Numbered(queues, nodes) /\ Found(queues, order_index, reused)
  BY <1>2, <1>3, <1>4 DEF Queued, Numbered, Found
<1>6. IndexTyped(order_index) /\ EntriesDenote(queues, order_index)
  BY <1>1 DEF IndexTyped, EntriesDenote
<1> QED BY <1>5, <1>6, MaxNodesAssumption DEF SimpleInv, SimpleSound

(* addOrder: the order trades, and what is left of a limit order rests and *)
(* is indexed.                                                             *)
LEMMA EnterSound ==
  ASSUME SimpleInv, NEW o \in BookOrders, Enter(o)
  PROVE  SimpleInv'
<1> DEFINE st == matchIncoming(o)
<1>1. o.qty \in Nat /\ o.side \in Sides /\ o.price \in Int /\ o.id \in BookIds
  BY BookOrdersAssumption DEF BookIds
<1>2. /\ SimpleSound(queues, order_index, nodes, reused) /\ Queued(queues)
      /\ nodes \in 0 .. MaxNodes /\ reused \subseteq BookIds /\ nodes < MaxNodes /\ MaxNodes \in Nat
  BY MaxNodesAssumption DEF SimpleInv, SimpleSound, Enter
<1>3. LoopSound(st, nodes, reused)
  <2>1. PICK F : SimpleRuns(F, o, o.qty) /\ st = F[o.qty]
    BY <1>1, SimpleMatchRuns
  <2>2. o.qty \in 0 .. o.qty
    BY <1>1
  <2> HIDE DEF st
  <2>3. LoopSound(F[o.qty], nodes, reused)
    BY <1>1, <1>2, <2>1, <2>2, SimpleRunSound
  <2> QED BY <2>1, <2>3
<1>4. /\ reused' = IF \E n \in AllNodes : n.id = o.id THEN reused \cup {o.id} ELSE reused
      /\ IF st.remaining > 0 /\ o.type = "Limit" THEN addOrder(st, o)
         ELSE queues' = st.queues /\ order_index' = st.index /\ UNCHANGED nodes
  BY DEF Enter
<1> HIDE DEF st
<1>5. reused \subseteq reused' /\ reused' \subseteq BookIds
  BY <1>1, <1>2, <1>4
<1>6. CASE st.remaining > 0 /\ o.type = "Limit"
  <2> DEFINE r == [uid |-> nodes + 1, id |-> o.id, qty |-> st.remaining]
             q == Append(At(st.queues, o.side, o.price), r)
  <2>1. /\ queues' = [st.queues EXCEPT ![o.side] = Put(@, o.price, q)]
        /\ order_index' = Put(st.index, o.id, [side |-> o.side, price |-> o.price, uid |-> nodes + 1])
        /\ nodes' = nodes + 1
    BY <1>4, <1>6 DEF addOrder, At
  <2>2. r \in Node /\ r.uid = nodes + 1 /\ r.qty > 0 /\ r.id = o.id
    BY <1>1, <1>2, <1>3, <1>6 DEF Node, LoopSound
  <2>3. At(st.queues, o.side, o.price) \in Seq(Node)
    BY <1>1, <1>3 DEF LoopSound, SimpleSound, Queued
  <2> HIDE DEF r
  <2>4. q # <<>>
    BY <2>2, <2>3, AppendProperties
  <2>5. IsPut(st.queues, queues', o.side, o.price, q)
    BY <2>1, <2>4 DEF IsPut, SetLevel
  <2>6. ASSUME NEW x \in Sides, NEW y \in Int, NEW j \in DOMAIN At(st.queues, x, y),
               At(st.queues, x, y)[j].id = o.id
        PROVE  o.id \in reused'
    <3>1. PICK i \in DOMAIN At(queues, x, y) : At(queues, x, y)[i].id = o.id
      BY <1>3, <2>6 DEF LoopSound, IdsFrom
    <3>2. At(queues, x, y)[i] \in AllNodes
      BY <1>2, NodesAre
    <3> QED BY <1>4, <3>1, <3>2
  <2>7. SimpleSound(queues', order_index', nodes', reused')
    <3>1. SimpleSound(st.queues, st.index, nodes, reused) /\ nodes \in Nat
      BY <1>2, <1>3 DEF LoopSound
    <3>2. SimpleSound(queues', Put(st.index, r.id, [side |-> o.side, price |-> o.price, uid |-> r.uid]),
                      nodes + 1, reused')
      BY <1>1, <1>5, <2>2, <2>5, <2>6, <3>1, AddedSound
    <3> QED BY <2>1, <2>2, <3>2
  <2> QED BY <1>2, <1>5, <2>1, <2>7 DEF SimpleInv
<1>7. CASE ~(st.remaining > 0 /\ o.type = "Limit")
  <2>1. queues' = st.queues /\ order_index' = st.index /\ nodes' = nodes
    BY <1>4, <1>7
  <2>2. SimpleSound(st.queues, st.index, nodes, reused')
    BY <1>3, <1>5 DEF LoopSound, SimpleSound, Found
  <2> QED BY <1>2, <1>5, <2>1, <2>2 DEF SimpleInv
<1> QED BY <1>6, <1>7

(* Where the node that an entry denotes is, and that cancelOrder takes it. *)
LEMMA CancelTakes ==
  ASSUME SimpleSound(queues, order_index, nodes, reused), NEW id \in DOMAIN order_index
  PROVE  LET s == order_index[id].side
             p == order_index[id].price
             old == At(queues, s, p)
             k == PlaceIn(old, order_index[id].uid)
             q == RemoveAt(old, k)
         IN  /\ s \in Sides /\ p \in Int /\ k \in DOMAIN old /\ old[k].id = id
             /\ q \in Seq(Node) /\ TakenOut(old, k, q)
             /\ IsPut(queues, Without(s, p, order_index[id].uid), s, p, q)
<1> DEFINE s == order_index[id].side
           p == order_index[id].price
           u == order_index[id].uid
           old == At(queues, s, p)
           k == PlaceIn(old, u)
           q == RemoveAt(old, k)
<1>1. s \in Sides /\ p \in Int
  BY DEF SimpleSound, IndexTyped
<1>2. PICK i : i \in DOMAIN old /\ old[i].uid = u /\ old[i].id = id
  BY DEF SimpleSound, EntriesDenote, Denotes
<1>3. k \in DOMAIN old /\ old[k].uid = u
  BY <1>2 DEF PlaceIn
<1>4. old[k].id = id
  <2>1. i = k
    BY <1>1, <1>2, <1>3 DEF SimpleSound, Numbered
  <2> QED BY <1>2, <2>1
<1>5. old \in Seq(Node) /\ k \in 1 .. Len(old)
  BY <1>1, <1>3, LenProperties DEF SimpleSound, Queued
<1>6. old = queues[s][p]
  BY <1>3 DEF At
<1>7. IsPut(queues, Without(s, p, u), s, p, q)
  BY <1>6 DEF IsPut, Without
<1> HIDE DEF old, k
<1>8. /\ q \in Seq(Node) /\ Len(q) = Len(old) - 1
      /\ \A j \in 1 .. Len(old) - 1 : /\ (IF j < k THEN j ELSE j + 1) \in 1 .. Len(old)
                                      /\ q[j] = old[IF j < k THEN j ELSE j + 1]
  BY <1>5, RemovedAt
<1> HIDE DEF q
<1>9. TakenOut(old, k, q)
  BY <1>8 DEF TakenOut
<1> QED BY <1>1, <1>3, <1>4, <1>7, <1>8, <1>9 DEF old, k, q

(* cancelOrder takes the node that the index names, with its level if it   *)
(* was the last.                                                           *)
LEMMA CancelSound ==
  ASSUME SimpleInv, NEW id \in BookIds, cancelOrder(id)
  PROVE  SimpleInv'
<1>1. nodes' = nodes /\ reused' = reused /\ SimpleSound(queues, order_index, nodes, reused)
  BY DEF cancelOrder, SimpleInv
<1>2. CASE id \notin DOMAIN order_index
  BY <1>1, <1>2 DEF cancelOrder, SimpleInv
<1>3. CASE id \in DOMAIN order_index
  <2> DEFINE s == order_index[id].side
             p == order_index[id].price
             u == order_index[id].uid
             old == At(queues, s, p)
             k == PlaceIn(old, u)
             q == RemoveAt(old, k)
  <2>1. queues' = Without(s, p, u) /\ order_index' = Erase(order_index, id)
    BY <1>3 DEF cancelOrder
  <2>2. /\ s \in Sides /\ p \in Int /\ k \in DOMAIN old /\ old[k].id = id
        /\ q \in Seq(Node) /\ TakenOut(old, k, q)
        /\ IsPut(queues, Without(s, p, u), s, p, q)
    BY <1>1, <1>3, CancelTakes
  <2>3. Queued(queues) /\ Numbered(queues, nodes)
    BY <1>1 DEF SimpleSound
  <2> HIDE DEF s, p, u, k, q
  <2>4. Queued(queues') /\ Positive(queues') /\ Keeps(queues, queues', old[k].uid)
    BY <2>1, <2>2, <2>3, TakenKeeps
  <2>5. SimpleSound(queues', Erase(order_index, old[k].id), nodes, reused)
    BY <1>1, <2>2, <2>4, TakenSound
  <2> QED BY <1>1, <2>1, <2>2, <2>5 DEF SimpleInv
<1> QED BY <1>2, <1>3

(* Every step keeps the invariant of the simple book.                      *)
LEMMA SimpleInvStep == SimpleInv /\ [SimpleNext]_simpleVars => SimpleInv'
<1> SUFFICES ASSUME SimpleInv, [SimpleNext]_simpleVars PROVE SimpleInv'
  OBVIOUS
<1>1. CASE SimpleNext
  BY <1>1, EnterSound, CancelSound DEF SimpleNext
<1>2. CASE UNCHANGED simpleVars
  BY <1>2 DEF simpleVars, SimpleInv, SimpleSound
<1> QED BY <1>1, <1>2

(* However orders enter, trade and are cancelled, and with ids reused or   *)
(* not: each entry of the index names an order of its id that rests where  *)
(* the entry says, and each order whose id was not sent again while it     *)
(* rested is found by its id.                                              *)
THEOREM SimpleIndexSound == SimpleSpec => []IndexSound
BY SimpleInvInit, SimpleInvStep, SimpleInvSuffices, PTL DEF SimpleSpec

-------------------------------------------------------------------------------
(* The simple book and the L3 book.                                        *)

(* Two queues, or the levels of two books, have the same orders.           *)
QueueAlike(q, r) == Len(q) = Len(r) /\ \A k \in 1 .. Len(q) : q[k].id = r[k].id /\ q[k].qty = r[k].qty
Alike(qs, lv) == \A s \in Sides : \A p \in Int : QueueAlike(At(qs, s, p), At(lv, s, p))

(* Queues that are alike, put at the same price of two books that are      *)
(* alike.                                                                  *)
LEMMA StaysAlike ==
  ASSUME NEW qs, NEW lv, Alike(qs, lv), NEW s \in Sides, NEW p \in Int, NEW q, NEW r, QueueAlike(q, r),
         NEW c, Only(qs, c, s, p, q), NEW d, Only(lv, d, s, p, r)
  PROVE  Alike(c, d)
<1> SUFFICES ASSUME NEW x \in Sides, NEW y \in Int PROVE QueueAlike(At(c, x, y), At(d, x, y))
  BY DEF Alike
<1>1. CASE x = s /\ y = p
  BY <1>1 DEF Only
<1>2. CASE ~(x = s /\ y = p)
  BY <1>2 DEF Only, Alike
<1> QED BY <1>1, <1>2

(* The twin is an L3 book of the orders that a caller may send.            *)
TwinSound(b) == BookSound(b, BookIds, {0}, Int)

(* What the lemmas about the L3 book need of the twin.                     *)
LEMMA TwinLevels ==
  ASSUME NEW b, TwinSound(b)
  PROVE  /\ Levels(b.levels) /\ \A s \in Sides : \A p \in Int : At(b.levels, s, p) \in Seq(L3Orders(BookIds, {0}))
         /\ BookTyped(b, BookIds, {0}, Int) /\ IndexExact(b)
<1>1. BookTyped(b, BookIds, {0}, Int) /\ CountsExact(b) /\ IndexExact(b)
  BY DEF TwinSound, BookSound
<1>2. \A s \in Sides : /\ DOMAIN b.levels[s] \subseteq Int /\ IsFiniteSet(DOMAIN b.levels[s])
                       /\ \A p \in DOMAIN b.levels[s] : b.levels[s][p] # <<>>
                            /\ b.levels[s][p] \in Seq(L3Orders(BookIds, {0}))
  BY <1>1 DEF BookTyped, CountsExact, Prices
<1>3. b.levels = [s \in Sides |-> b.levels[s]]
  BY <1>1 DEF BookTyped
<1>4. << >> \in Seq(L3Orders(BookIds, {0}))
  BY EmptySeq
<1>5. \A s \in Sides : \A p \in Int : At(b.levels, s, p) \in Seq(L3Orders(BookIds, {0}))
  BY <1>2, <1>4 DEF At
<1> QED BY <1>1, <1>2, <1>3, <1>5 DEF Levels

(* The same prices have a level, and the same one is the best.             *)
LEMMA AlikePrices ==
  ASSUME NEW qs, Queued(qs), NEW b, TwinSound(b), Alike(qs, b.levels), NEW s \in Sides
  PROVE  DOMAIN qs[s] = Prices(b, s) /\ BeginPrice(qs, s) = BestPrice(b, s)
<1>1. \A p \in Int : At(qs, s, p) # <<>> <=> At(b.levels, s, p) # <<>>
  <2> TAKE p \in Int
  <2>1. Len(At(qs, s, p)) = Len(At(b.levels, s, p))
    BY DEF Alike, QueueAlike
  <2>2. At(qs, s, p) \in Seq(Node) /\ At(b.levels, s, p) \in Seq(L3Orders(BookIds, {0}))
    BY TwinLevels DEF Queued
  <2> QED BY <2>1, <2>2, EmptySeq
<1>2. Levels(qs) /\ Levels(b.levels)
  BY TwinLevels DEF Queued
<1>3. \A p \in Int : p \in DOMAIN qs[s] <=> p \in DOMAIN b.levels[s]
  BY <1>1, <1>2, LevelThere
<1>4. DOMAIN qs[s] \subseteq Int /\ DOMAIN b.levels[s] \subseteq Int
  BY <1>2 DEF Levels
<1>5. DOMAIN qs[s] = Prices(b, s)
  BY <1>3, <1>4 DEF Prices
<1> QED BY <1>5 DEF BeginPrice, BestPrice

(* The trades of the L3 book, as matchIncoming lists its own.              *)
Seen(ts) ==
  [k \in DOMAIN ts |-> [resting |-> ts[k].resting, price |-> ts[k].price, qty |-> ts[k].qty]]

(* One more trade of the L3 book is one more to be seen.                   *)
LEMMA SeenAppend ==
  ASSUME NEW R, NEW ts \in Seq(R), NEW t \in R
  PROVE  Seen(Append(ts, t)) = Append(Seen(ts), [resting |-> t.resting, price |-> t.price, qty |-> t.qty])
<1> DEFINE a == Append(ts, t)
           e == [resting |-> t.resting, price |-> t.price, qty |-> t.qty]
           n == Len(ts)
<1>1. /\ n \in Nat /\ DOMAIN ts = 1 .. n
      /\ a \in Seq(R) /\ DOMAIN a = 1 .. (n + 1) /\ a[n + 1] = t /\ \A k \in 1 .. n : a[k] = ts[k]
  BY AppendProperties, LenProperties
<1>2. Seen(ts) \in Seq({Seen(ts)[k] : k \in 1 .. n}) /\ Len(Seen(ts)) = n
  <2>1. Seen(ts) = [k \in 1 .. n |-> Seen(ts)[k]]
    BY <1>1 DEF Seen
  <2>2. DOMAIN Seen(ts) = 1 .. n
    BY <1>1 DEF Seen
  <2>3. \A k \in 1 .. n : Seen(ts)[k] \in {Seen(ts)[i] : i \in 1 .. n}
    OBVIOUS
  <2> QED BY <1>1, <2>1, <2>2, <2>3, IsASeq, LenProperties
<1>3. Append(Seen(ts), e) = [k \in 1 .. (n + 1) |-> IF k <= n THEN Seen(ts)[k] ELSE e]
  BY <1>1, <1>2
<1>4. Seen(a) = [k \in 1 .. (n + 1) |-> [resting |-> a[k].resting, price |-> a[k].price, qty |-> a[k].qty]]
  BY <1>1 DEF Seen
<1>5. ASSUME NEW k \in 1 .. (n + 1)
      PROVE  [resting |-> a[k].resting, price |-> a[k].price, qty |-> a[k].qty]
               = IF k <= n THEN Seen(ts)[k] ELSE e
  <2>1. CASE k <= n
    <3>1. k \in 1 .. n
      BY <1>1, <2>1
    <3> QED BY <1>1, <2>1, <3>1 DEF Seen
  <2>2. CASE ~(k <= n)
    <3>1. k = n + 1
      BY <1>1, <2>2
    <3> QED BY <1>1, <2>2, <3>1
  <2> QED BY <2>1, <2>2
<1> HIDE DEF a, e, n
<1> QED BY <1>3, <1>4, <1>5 DEF a, e, n

(* The simple loop for order o is in step with the one of the twin.        *)
InStep(st, l, o) ==
  /\ Alike(st.queues, l.book.levels)
  /\ st.trades = Seen(l.trades)
  /\ st.remaining = Remaining(TwinOrder(o), l.trades)

(* An order for the simple book is a day order for the L3 book.            *)
LEMMA TwinIncoming ==
  ASSUME NEW o \in BookOrders
  PROVE  /\ Incoming(TwinOrder(o), BookIds, {0}, Int)
         /\ TwinOrder(o).id = o.id /\ TwinOrder(o).side = o.side /\ TwinOrder(o).type = o.type
         /\ TwinOrder(o).price = o.price /\ TwinOrder(o).qty = o.qty /\ TwinOrder(o).tif = "Day"
         /\ o.side \in Sides /\ o.qty \in Nat /\ o.price \in Int /\ o.id \in BookIds
BY BookOrdersAssumption DEF TwinOrder, Incoming, BookIds

(* A pass of each loop leaves them in step.                                *)
LEMMA StepsAlike ==
  ASSUME NEW o \in BookOrders, NEW st, NEW n, NEW used, LoopSound(st, n, used),
         NEW b, b.trades \in Nat, NEW l, NEW k \in Nat,
         RunSound(b, TwinOrder(o), l, k, BookIds, {0}, Int), InStep(st, l, o)
  PROVE  InStep(SimpleStep(o, st), Iteration(TwinOrder(o), l), o)
<1> DEFINE O == TwinOrder(o)
           B == l.book
           rem == Remaining(O, l.trades)
           s == Opposite(o.side)
<1>1. /\ Incoming(O, BookIds, {0}, Int)
      /\ O.id = o.id /\ O.side = o.side /\ O.type = o.type /\ O.price = o.price /\ O.qty = o.qty
      /\ o.side \in Sides /\ o.qty \in Nat
  BY TwinIncoming
<1>2. /\ Queued(st.queues) /\ Numbered(st.queues, n) /\ st.remaining \in Nat
      /\ TwinSound(B) /\ l.trades \in Seq(TradesMade(BookIds, {0}, Int)) /\ rem = st.remaining
      /\ TotalQty(l.trades) \in Nat
  BY DEF LoopSound, SimpleSound, RunSound, TwinSound, InStep
<1>3. s \in Sides
  BY DEF Opposite, Sides
<1>4. DOMAIN st.queues[s] = Prices(B, s) /\ BeginPrice(st.queues, s) = BestPrice(B, s)
  BY <1>2, <1>3, AlikePrices DEF InStep
<1>5. Meets(st.queues, o, st.remaining) <=> CanMatch(B, O, rem)
  BY <1>1, <1>2, <1>4 DEF Meets, CanMatch, Crosses
<1>6. CASE ~Meets(st.queues, o, st.remaining)
  BY <1>5, <1>6 DEF SimpleStep, Iteration
<1>7. CASE Meets(st.queues, o, st.remaining)
  <2> DEFINE p == BeginPrice(st.queues, s)
             old == At(st.queues, s, p)
             q == IF st.remaining < old[1].qty THEN st.remaining ELSE old[1].qty
             m == TradeFront(st, o)
             c == MatchOne(B, O, rem)
             t == TradeOf(B, O, rem)
             other == B.levels[s][p]
  <2>1. /\ p \in Int /\ p \in DOMAIN st.queues[s] /\ old \in Seq(Node) /\ old # <<>>
        /\ old[1] \in Node /\ q \in Nat /\ 0 < q /\ q <= st.remaining /\ q <= old[1].qty
        /\ Traded(st, m, s, p, q)
    <3>1. st.remaining \in Int
      BY <1>2
    <3> QED BY <1>1, <1>2, <1>7, <3>1, TradeFrontTrades
  <2>2. /\ IsBook(c) /\ Trades(B, c, s, p, MatchQty(B, O, rem))
        /\ other \in Seq(L3Orders(BookIds, {0})) /\ other # <<>> /\ NextResting(B, O) = other[1]
        /\ other[1] \in L3Orders(BookIds, {0})
        /\ MatchQty(B, O, rem) # other[1].qty => Reduce(other[1], MatchQty(B, O, rem)) \in L3Orders(BookIds, {0})
    <3>1. CanMatch(B, O, rem) /\ rem \in Int /\ BookSound(B, BookIds, {0}, Int)
      BY <1>2, <1>5, <1>7 DEF TwinSound
    <3>2. p = BestPrice(B, Opposite(O.side)) /\ s = Opposite(O.side)
      BY <1>1, <1>4
    <3> HIDE DEF O, B, rem, s, p, old, q, m
    <3> QED BY <1>1, <3>1, <3>2, MatchOneTrades
  <2>3. Iteration(O, l) = [book |-> c, trades |-> Append(l.trades, t)] /\ SimpleStep(o, st) = m
    BY <1>5, <1>7 DEF Iteration, SimpleStep
  <2>4. At(B.levels, s, p) = other
    BY <1>4, <2>1 DEF At, Prices
  <2>5. QueueAlike(old, other)
    BY <1>3, <2>1, <2>4 DEF InStep, Alike
  <2>6. 1 \in 1 .. Len(old) /\ 1 \in DOMAIN old /\ Len(old) \in Nat
    BY <2>1, EmptySeq, LenProperties
  <2>7. old[1].id = other[1].id /\ old[1].qty = other[1].qty
    BY <2>5, <2>6 DEF QueueAlike
  <2>8. MatchQty(B, O, rem) = q
    BY <1>2, <2>2, <2>7 DEF MatchQty
  <2>9. /\ t.resting = old[1].id /\ t.price = p /\ t.qty = q
        /\ t \in TradesMade(BookIds, {0}, Int)
    <3>1. t = [resting |-> other[1].id, trader |-> other[1].trader, price |-> BestPrice(B, s),
               qty |-> MatchQty(B, O, rem)]
      BY <1>1, <2>2 DEF TradeOf
    <3> HIDE DEF t, q, p, old, other
    <3> QED BY <1>4, <2>1, <2>2, <2>7, <2>8, <3>1 DEF TradesMade, L3Orders, p
  <2> HIDE DEF O, B, rem, s, p, old, q, m, c, t, other
  <2>10. Alike(m.queues, c.levels)
    <3>1. CASE q = old[1].qty
      <4>1. IsPut(st.queues, m.queues, s, p, Tail(old)) /\ Tail(old) \in Seq(Node)
        BY <2>1, <3>1, HeadTailProperties DEF Traded, old
      <4>2. IsPut(B.levels, c.levels, s, p, Tail(other))
        BY <2>2, <2>7, <2>8, <3>1 DEF Trades, Removes, LevelIs, IsPut, other
      <4>3. QueueAlike(Tail(old), Tail(other))
        <5>1. /\ Len(Tail(old)) = Len(old) - 1 /\ \A j \in 1 .. Len(Tail(old)) : Tail(old)[j] = old[j + 1]
              /\ Len(Tail(other)) = Len(other) - 1
              /\ \A j \in 1 .. Len(Tail(other)) : Tail(other)[j] = other[j + 1]
          BY <2>1, <2>2, HeadTailProperties
        <5>2. Len(old) = Len(other) /\ \A j \in 1 .. Len(Tail(old)) : j + 1 \in 1 .. Len(old)
          BY <2>5, <2>6, <5>1 DEF QueueAlike
        <5> QED BY <2>5, <5>1, <5>2 DEF QueueAlike
      <4>4. Only(st.queues, m.queues, s, p, Tail(old))
        BY <1>2, <1>3, <2>1, <4>1, LevelQueued
      <4>5. Only(B.levels, c.levels, s, p, Tail(other))
        BY <1>2, <1>3, <2>1, <4>2, TwinLevels, LevelPut
      <4> QED BY <1>3, <2>1, <4>3, <4>4, <4>5, StaysAlike DEF InStep, B
    <3>2. CASE q # old[1].qty
      <4> DEFINE r == [old[1] EXCEPT !.qty = @ - q]
                 r2 == Reduce(other[1], q)
                 new == [old EXCEPT ![1] = r]
                 new2 == [other EXCEPT ![1] = r2]
      <4>1. IsPut(st.queues, m.queues, s, p, new)
        BY <2>1, <3>2 DEF Traded, old
      <4>2. IsPut(B.levels, c.levels, s, p, new2)
        BY <2>2, <2>7, <2>8, <3>2 DEF Trades, Reduces, LevelIs, IsPut, other
      <4>3. r \in Node /\ r.id = old[1].id /\ r.qty = old[1].qty - q
        <5>1. PICK x \in Nat : x = old[1].qty - q
          BY <2>1 DEF Node
        <5>2. r = [old[1] EXCEPT !.qty = x] /\ old[1] \in Node
          BY <2>1, <5>1
        <5> HIDE DEF r
        <5> QED BY <5>1, <5>2 DEF Node
      <4>4. r2.id = other[1].id /\ r2.qty = other[1].qty - q /\ r2 \in L3Orders(BookIds, {0})
        <5>1. r2 \in L3Orders(BookIds, {0})
          BY <2>2, <2>7, <2>8, <3>2
        <5>2. r2.id = other[1].id /\ r2.qty = other[1].qty - q
          BY <2>2 DEF L3Orders, Reduce
        <5> QED BY <5>1, <5>2
      <4>5. new \in Seq(Node) /\ Len(new) = Len(old) /\ new[1] = r /\ \A j \in 2 .. Len(old) : new[j] = old[j]
        <5> HIDE DEF r
        <5> QED BY <2>1, <2>6, <4>3, ExceptSeq
      <4>6. Len(new2) = Len(other) /\ new2[1] = r2 /\ \A j \in 2 .. Len(other) : new2[j] = other[j]
        <5>1. 1 \in 1 .. Len(other) /\ 1 \in DOMAIN other
          BY <2>2, EmptySeq, LenProperties
        <5> HIDE DEF r2
        <5> QED BY <2>2, <4>4, <5>1, ExceptSeq
      <4> HIDE DEF r, r2, new, new2
      <4>7. QueueAlike(new, new2)
        <5>1. Len(old) = Len(other) /\ \A j \in 1 .. Len(old) : j = 1 \/ j \in 2 .. Len(old)
          BY <2>5, <2>6 DEF QueueAlike
        <5>2. \A j \in 2 .. Len(old) : old[j].id = other[j].id /\ old[j].qty = other[j].qty
          BY <2>5, <2>6 DEF QueueAlike
        <5>3. r.id = r2.id /\ r.qty = r2.qty
          BY <2>7, <4>3, <4>4
        <5>4. \A j \in 1 .. Len(old) : new[j].id = new2[j].id /\ new[j].qty = new2[j].qty
          BY <4>5, <4>6, <5>1, <5>2, <5>3
        <5> QED BY <4>5, <4>6, <5>1, <5>4 DEF QueueAlike
      <4>8. Only(st.queues, m.queues, s, p, new)
        BY <1>2, <1>3, <2>1, <4>1, <4>5, LevelQueued
      <4>9. Only(B.levels, c.levels, s, p, new2)
        BY <1>2, <1>3, <2>1, <4>2, TwinLevels, LevelPut
      <4> QED BY <1>3, <2>1, <4>7, <4>8, <4>9, StaysAlike DEF InStep, B
    <3> QED BY <3>1, <3>2
  <2>11. m.trades = Seen(Append(l.trades, t))
    <3>1. m.trades = Append(Seen(l.trades), [resting |-> old[1].id, price |-> p, qty |-> q])
      BY <2>1 DEF Traded, old, InStep
    <3> QED BY <1>2, <2>9, <3>1, SeenAppend
  <2>12. m.remaining = Remaining(O, Append(l.trades, t))
    <3>1. TotalQty(Append(l.trades, t)) = TotalQty(l.trades) + q
      <4>1. \A r \in TradesMade(BookIds, {0}, Int) : r.qty \in Int
        BY DEF TradesMade
      <4> QED BY <1>2, <2>9, <4>1, TotalAppend
    <3>2. m.remaining = st.remaining - q /\ st.remaining = O.qty - TotalQty(l.trades)
      BY <1>2, <2>1 DEF Traded, Remaining, rem
    <3> QED BY <1>1, <1>2, <2>1, <3>1, <3>2 DEF Remaining
  <2> QED BY <2>3, <2>10, <2>11, <2>12 DEF InStep, O
<1> QED BY <1>6, <1>7

(* As long as no id was sent again while its order rested, the two books   *)
(* have the same orders.                                                   *)
TwinInv ==
  /\ TwinSound(twin)
  /\ reused = {} => Alike(queues, twin.levels) /\ last_trades = twin_trades

(* Books with the same orders show the same levels.                        *)
LEMMA TwinInvSuffices == SimpleInv /\ TwinInv => AgreesWithL3
<1> SUFFICES ASSUME SimpleInv, TwinInv, reused = {}
             PROVE  /\ \A s \in Sides : LevelsOf(s) = [p \in Prices(twin, s) |-> LevelInfo(twin, s, p).qty]
                    /\ last_trades = twin_trades
  BY DEF AgreesWithL3
<1>1. Queued(queues) /\ TwinSound(twin) /\ Alike(queues, twin.levels) /\ Levels(twin.levels)
  BY TwinLevels DEF SimpleInv, SimpleSound, TwinInv
<1>2. ASSUME NEW s \in Sides
      PROVE  LevelsOf(s) = [p \in Prices(twin, s) |-> LevelInfo(twin, s, p).qty]
  <2>1. DOMAIN queues[s] = Prices(twin, s)
    BY <1>1, AlikePrices
  <2>2. ASSUME NEW p \in DOMAIN queues[s]
        PROVE  TotalQty(queues[s][p]) = LevelInfo(twin, s, p).qty
    <3> DEFINE q == queues[s][p]
               r == twin.levels[s][p]
    <3>1. At(queues, s, p) = q /\ p \in Int /\ At(twin.levels, s, p) = r
      BY <1>1, <2>1, LevelThere DEF Queued, Prices
    <3>2. q \in Seq(Node) /\ r \in Seq(L3Orders(BookIds, {0})) /\ QueueAlike(q, r)
      BY <1>1, <3>1, TwinLevels DEF Queued, Alike
    <3> HIDE DEF q, r
    <3>3. DOMAIN q = DOMAIN r /\ \A k \in DOMAIN q : q[k].qty = r[k].qty
      BY <3>2, LenProperties DEF QueueAlike
    <3>4. [k \in DOMAIN q |-> q[k].qty] = [k \in DOMAIN r |-> r[k].qty]
      BY <3>3
    <3>5. TotalQty(q) = TotalQty(r)
      BY <3>4 DEF TotalQty
    <3> QED BY <3>5 DEF LevelInfo, q, r
  <2> QED BY <2>1, <2>2 DEF LevelsOf
<1> QED BY <1>2 DEF TwinInv

(* Two new books have the same orders: none.                               *)
LEMMA TwinInvInit == SimpleInit => TwinInv
<1> SUFFICES ASSUME SimpleInit PROVE TwinInv
  OBVIOUS
<1> USE DEF SimpleInit
<1>1. TwinSound(twin)
  BY EmptyBookSound DEF TwinSound
<1>2. \A s \in Sides : \A p : At(queues, s, p) = <<>>
  BY DEF At, EmptyMap
<1>3. \A s \in Sides : \A p : At(twin.levels, s, p) = <<>>
  BY DEF At, EmptyMap, EmptyBook
<1>4. Alike(queues, twin.levels)
  BY <1>2, <1>3 DEF Alike, QueueAlike
<1> QED BY <1>1, <1>4 DEF TwinInv

(* The loops end with the same orders in the books.                        *)
LEMMA LoopsAlike ==
  ASSUME SimpleInv, TwinSound(twin), Alike(queues, twin.levels), NEW o \in BookOrders
  PROVE  /\ InStep(matchIncoming(o), match_incoming(twin, TwinOrder(o)), o)
         /\ RunSound(twin, TwinOrder(o), match_incoming(twin, TwinOrder(o)), 0, BookIds, {0}, Int)
<1> DEFINE O == TwinOrder(o)
<1>1. /\ Incoming(O, BookIds, {0}, Int) /\ O.qty = o.qty /\ O.tif = "Day"
      /\ o.side \in Sides /\ o.qty \in Nat
  BY TwinIncoming
<1> HIDE DEF O
<1>2. CanFill(twin, O) /\ O.qty \in Int
  BY <1>1 DEF CanFill
<1>3. PICK F : SimpleRuns(F, o, o.qty) /\ matchIncoming(o) = F[o.qty]
  BY <1>1, SimpleMatchRuns
<1>4. PICK G : IsRun(G, twin, O) /\ match_incoming(twin, O) = G[o.qty]
  <2>1. PICK G : IsRun(G, twin, O) /\ match_incoming(twin, O) = G[IF O.qty > 0 THEN O.qty ELSE 0]
    BY <1>2, MatchIncomingRuns
  <2>2. o.qty = IF O.qty > 0 THEN O.qty ELSE 0
    BY <1>1
  <2> QED BY <2>1, <2>2
<1>5. SimpleSound(queues, order_index, nodes, reused) /\ BookSound(twin, BookIds, {0}, Int) /\ twin.trades \in Nat
  BY DEF SimpleInv, TwinSound, BookSound, BookTyped
<1> DEFINE P == {k \in Nat : k <= o.qty => /\ RunSound(twin, O, G[k], k, BookIds, {0}, Int)
                                           /\ InStep(F[k], G[k], o)}
<1>6. 0 \in P
  <2>1. F[0] = SimpleStart(o) /\ G[0] = Start(twin)
    BY <1>3, <1>4 DEF SimpleRuns, IsRun, Runs
  <2>2. << >> \in Seq(TradesMade(BookIds, {0}, Int)) /\ Len(<<>>) = 0 /\ DOMAIN << >> = {}
    BY EmptySeq
  <2>3. RunSound(twin, O, Start(twin), 0, BookIds, {0}, Int)
    BY <1>1, <1>5, <2>2, TotalEmpty DEF RunSound, Start
  <2>4. Seen(<<>>) = <<>>
    BY DEF Seen
  <2>5. Remaining(TwinOrder(o), <<>>) = o.qty
    BY <1>1, TotalEmpty DEF Remaining, O
  <2>6. InStep(SimpleStart(o), Start(twin), o)
    BY <2>4, <2>5 DEF InStep, SimpleStart, Start
  <2> QED BY <2>1, <2>3, <2>6
<1>7. ASSUME NEW k \in P PROVE k + 1 \in P
  <2> SUFFICES ASSUME k + 1 <= o.qty
               PROVE  RunSound(twin, O, G[k + 1], k + 1, BookIds, {0}, Int) /\ InStep(F[k + 1], G[k + 1], o)
    OBVIOUS
  <2>1. k \in Nat /\ k < o.qty /\ k < O.qty /\ k \in 0 .. o.qty
    BY <1>1
  <2>2. RunSound(twin, O, G[k], k, BookIds, {0}, Int) /\ InStep(F[k], G[k], o)
    BY <2>1
  <2>3. F[k + 1] = SimpleStep(o, F[k])
    BY <1>3, <2>1 DEF SimpleRuns
  <2>4. G[k + 1] = Iteration(O, G[k])
    BY <1>4, <2>1 DEF IsRun, Runs
  <2>5. LoopSound(F[k], nodes, reused)
    BY <1>1, <1>3, <1>5, <2>1, SimpleRunSound
  <2> HIDE DEF P
  <2>6. RunSound(twin, O, Iteration(O, G[k]), k + 1, BookIds, {0}, Int)
    BY <1>1, <1>5, <2>1, <2>2, IterationSound
  <2>7. InStep(SimpleStep(o, F[k]), Iteration(O, G[k]), o)
    BY <1>5, <2>1, <2>2, <2>5, StepsAlike DEF O
  <2> QED BY <2>3, <2>4, <2>6, <2>7
<1>8. P \in SUBSET Nat
  OBVIOUS
<1> HIDE DEF P
<1>9. P = Nat
  BY <1>6, <1>7, <1>8, SetInduction
<1>10. InStep(F[o.qty], G[o.qty], o)
  BY <1>1, <1>9 DEF P
<1>11. RunSound(twin, O, match_incoming(twin, O), 0, BookIds, {0}, Int)
  BY <1>1, <1>5, MatchIncomingSound
<1> QED BY <1>3, <1>4, <1>10, <1>11 DEF O

(* The same order at the end of both queues.                               *)
LEMMA AppendAlike ==
  ASSUME NEW R, NEW S, NEW q \in Seq(R), NEW r \in Seq(S), QueueAlike(q, r),
         NEW a \in R, NEW b \in S, a.id = b.id, a.qty = b.qty
  PROVE  QueueAlike(Append(q, a), Append(r, b))
<1>1. Len(q) \in Nat /\ Len(r) = Len(q)
  BY LenProperties DEF QueueAlike
<1>2. /\ Len(Append(q, a)) = Len(q) + 1 /\ Append(q, a)[Len(q) + 1] = a
      /\ \A k \in 1 .. Len(q) : Append(q, a)[k] = q[k]
  BY AppendProperties, LenProperties
<1>3. /\ Len(Append(r, b)) = Len(q) + 1 /\ Append(r, b)[Len(q) + 1] = b
      /\ \A k \in 1 .. Len(q) : Append(r, b)[k] = r[k]
  BY <1>1, AppendProperties, LenProperties
<1>4. \A k \in 1 .. Len(q) + 1 : k \in 1 .. Len(q) \/ k = Len(q) + 1
  BY <1>1
<1>5. \A k \in 1 .. Len(q) : q[k].id = r[k].id /\ q[k].qty = r[k].qty
  BY DEF QueueAlike
<1>6. \A k \in 1 .. Len(q) + 1 : /\ Append(q, a)[k].id = Append(r, b)[k].id
                                 /\ Append(q, a)[k].qty = Append(r, b)[k].qty
  BY <1>2, <1>3, <1>4, <1>5
<1> QED BY <1>2, <1>3, <1>6 DEF QueueAlike

(* The same order is added to both books.                                  *)
LEMMA TwinEnters ==
  ASSUME SimpleInv, TwinInv, NEW o \in BookOrders, Enter(o)
  PROVE  TwinInv'
<1> DEFINE O == TwinOrder(o)
           st == matchIncoming(o)
           m == match_incoming(twin, O)
           r == add_order(twin, O)
<1>1. /\ Incoming(O, BookIds, {0}, Int)
      /\ O.id = o.id /\ O.side = o.side /\ O.type = o.type /\ O.price = o.price /\ O.qty = o.qty
      /\ O.tif = "Day" /\ o.side \in Sides /\ o.qty \in Nat /\ o.price \in Int /\ o.id \in BookIds
  BY TwinIncoming
<1>2. /\ twin' = r.book /\ twin_trades' = Seen(r.trades) /\ last_trades' = st.trades
      /\ reused' = IF \E n \in AllNodes : n.id = o.id THEN reused \cup {o.id} ELSE reused
      /\ IF st.remaining > 0 /\ o.type = "Limit" THEN addOrder(st, o)
         ELSE queues' = st.queues /\ order_index' = st.index /\ UNCHANGED nodes
  BY DEF Enter, Seen
<1> HIDE DEF O, st, m, r
<1>3. BookSound(twin, BookIds, {0}, Int) /\ TwinSound(twin)
  BY DEF TwinInv, TwinSound
<1>4. TwinSound(twin')
  <2>1. CallSound(twin, O.id, r, BookIds, {0}, Int)
    BY <1>1, <1>3, AddOrderSound DEF r
  <2> QED BY <1>2, <2>1 DEF CallSound, TwinSound
<1>5. ASSUME reused' = {} PROVE Alike(queues', twin'.levels) /\ last_trades' = twin_trades'
  <2>1. reused = {} /\ \A n \in AllNodes : n.id # o.id
    BY <1>2, <1>5
  <2>2. Alike(queues, twin.levels) /\ Queued(queues)
    BY <2>1 DEF TwinInv, SimpleInv, SimpleSound
  <2>3. o.id \notin DOMAIN twin.index
    <3> SUFFICES ASSUME o.id \in DOMAIN twin.index PROVE FALSE
      OBVIOUS
    <3> DEFINE x == twin.index[o.id].side
               y == twin.index[o.id].price
               k == PlaceOf(twin, o.id)
    <3>1. /\ x \in Sides /\ y \in Prices(twin, x) /\ k \in DOMAIN twin.levels[x][y]
          /\ twin.levels[x][y][k].id = o.id
      <4>1. LeadsTo(twin, o.id, x, y, k)
        BY <1>3, TwinLevels, FoundByIndex
      <4> QED BY <4>1 DEF LeadsTo
    <3> HIDE DEF x, y, k
    <3>2. Levels(twin.levels)
      BY <1>3, TwinLevels
    <3>3. At(twin.levels, x, y) = twin.levels[x][y] /\ y \in Int
      BY <3>1, <3>2, LevelThere DEF Prices
    <3>4. k \in DOMAIN At(queues, x, y) /\ At(queues, x, y)[k].id = o.id
      <4>1. QueueAlike(At(queues, x, y), twin.levels[x][y])
        BY <2>2, <3>1, <3>3 DEF Alike
      <4>2. At(queues, x, y) \in Seq(Node) /\ twin.levels[x][y] \in Seq(L3Orders(BookIds, {0}))
        <5>1. At(twin.levels, x, y) \in Seq(L3Orders(BookIds, {0}))
          BY <1>3, <3>1, <3>3, TwinLevels
        <5> QED BY <2>2, <3>1, <3>3, <5>1 DEF Queued
      <4> QED BY <3>1, <4>1, <4>2, LenProperties DEF QueueAlike
    <3>5. At(queues, x, y)[k] \in AllNodes
      BY <2>2, <3>1, <3>3, <3>4, NodesAre
    <3> QED BY <2>1, <3>4, <3>5
  <2>4. r.book = RestRemainder(m.book, O, m.trades) /\ r.trades = m.trades
    BY <1>1, <2>3 DEF add_order, r, m
  <2>5. InStep(st, m, o) /\ RunSound(twin, O, m, 0, BookIds, {0}, Int)
    BY <1>3, <2>2, LoopsAlike DEF st, m, O
  <2>6. /\ Alike(st.queues, m.book.levels) /\ st.trades = Seen(m.trades)
        /\ st.remaining = Remaining(O, m.trades)
        /\ TwinSound(m.book) /\ DOMAIN m.book.index \subseteq DOMAIN twin.index
        /\ TotalQty(m.trades) \in Nat
    BY <2>5 DEF InStep, O, RunSound, TwinSound
  <2>7. last_trades' = twin_trades'
    BY <1>2, <2>4, <2>6
  <2>8. CASE ~(st.remaining > 0 /\ o.type = "Limit")
    <3>1. queues' = st.queues /\ twin' = m.book
      BY <1>1, <1>2, <2>4, <2>6, <2>8 DEF RestRemainder, Rests
    <3> QED BY <2>6, <2>7, <3>1
  <2>9. CASE st.remaining > 0 /\ o.type = "Limit"
    <3> DEFINE s == o.side
               p == o.price
               old == At(st.queues, s, p)
               other == At(m.book.levels, s, p)
               node == [uid |-> nodes + 1, id |-> o.id, qty |-> st.remaining]
               e == Entry(m.book, O, Remaining(O, m.trades))
               c == add_resting_order(m.book, O, Remaining(O, m.trades))
    <3>1. queues' = [st.queues EXCEPT ![s] = Put(@, p, Append(old, node))]
      BY <1>2, <2>9 DEF addOrder, At
    <3>2. twin' = c
      BY <1>1, <1>2, <2>4, <2>6, <2>9 DEF RestRemainder, Rests
    <3>3. LoopSound(st, nodes, reused)
      <4>1. SimpleSound(queues, order_index, nodes, reused)
        BY DEF SimpleInv
      <4>2. PICK F : SimpleRuns(F, o, o.qty) /\ st = F[o.qty]
        BY <1>1, SimpleMatchRuns DEF st
      <4>3. o.qty \in 0 .. o.qty
        BY <1>1
      <4>4. LoopSound(F[o.qty], nodes, reused)
        BY <1>1, <4>1, <4>2, <4>3, SimpleRunSound
      <4> QED BY <4>2, <4>4
    <3>4. node \in Node /\ old \in Seq(Node) /\ Queued(st.queues) /\ s \in Sides /\ p \in Int
      <4>1. Queued(st.queues) /\ st.remaining \in Nat
        BY <3>3 DEF LoopSound, SimpleSound
      <4>2. nodes + 1 \in 1 .. MaxNodes
        BY MaxNodesAssumption DEF SimpleInv, Enter
      <4> QED BY <1>1, <4>1, <4>2 DEF Queued, Node
    <3>5. Remaining(O, m.trades) \in Nat \ {0} /\ O.qty - Remaining(O, m.trades) \in Nat
      BY <1>1, <2>6, <2>9, <3>3 DEF LoopSound, Remaining
    <3>6. /\ IsBook(c) /\ e \in L3Orders(BookIds, {0}) /\ Adds(m.book, c, s, p, e)
      <4>1. BookTyped(m.book, BookIds, {0}, Int)
        BY <2>6, TwinLevels
      <4>2. O.id \in BookIds \ DOMAIN m.book.index /\ O.trader \in {0} /\ O.qty \in Int /\ O.side \in Sides
        BY <1>1, <2>3, <2>6 DEF Incoming
      <4>3. /\ IsBook(c) /\ e \in L3Orders(BookIds, {0}) /\ Adds(m.book, c, O.side, O.price, e)
        <5> HIDE DEF c, e
        <5> QED BY <3>5, <4>1, <4>2, RestingAdds DEF c, e
      <4> QED BY <1>1, <4>3
    <3>7. node.id = e.id /\ node.qty = e.qty
      BY <1>1, <2>6 DEF Entry
    <3>8. other \in Seq(L3Orders(BookIds, {0})) /\ Levels(m.book.levels) /\ QueueAlike(old, other)
      BY <2>6, <3>4, TwinLevels DEF Alike
    <3> HIDE DEF s, p, old, other, node, e, c
    <3>9. QueueAlike(Append(old, node), Append(other, e))
      BY <3>4, <3>6, <3>7, <3>8, AppendAlike
    <3>10. Only(st.queues, queues', s, p, Append(old, node))
      <4>1. Append(old, node) \in Seq(Node) /\ Append(old, node) # <<>>
        BY <3>4, AppendProperties
      <4>2. IsPut(st.queues, queues', s, p, Append(old, node))
        BY <3>1, <4>1 DEF IsPut, SetLevel
      <4> QED BY <3>4, <4>1, <4>2, LevelQueued
    <3>11. Only(m.book.levels, c.levels, s, p, Append(other, e))
      <4>1. IsPut(m.book.levels, c.levels, s, p, Append(other, e))
        BY <3>6 DEF Adds, LevelIs, LevelOrNew, Prices, IsPut, other, At
      <4> QED BY <3>4, <3>8, <4>1, LevelPut
    <3>12. Alike(queues', c.levels)
      BY <2>6, <3>4, <3>9, <3>10, <3>11, StaysAlike
    <3> QED BY <2>7, <3>2, <3>12
  <2> QED BY <2>8, <2>9
<1> QED BY <1>4, <1>5 DEF TwinInv

(* Order k of a queue was taken out, in both books.                        *)
LEMMA TakenAlike ==
  ASSUME NEW old, NEW other, QueueAlike(old, other), NEW k,
         NEW q, NEW r, TakenOut(old, k, q), Len(r) = Len(other) - 1,
         \A j \in 1 .. Len(r) : /\ r[j].id = other[IF j < k THEN j ELSE j + 1].id
                                /\ r[j].qty = other[IF j < k THEN j ELSE j + 1].qty
  PROVE  QueueAlike(q, r)
<1>1. Len(q) = Len(r)
  BY DEF QueueAlike, TakenOut
<1>2. ASSUME NEW j \in 1 .. Len(q) PROVE q[j].id = r[j].id /\ q[j].qty = r[j].qty
  <2> DEFINE i == IF j < k THEN j ELSE j + 1
  <2>1. i \in 1 .. Len(old) /\ q[j] = old[i]
    BY DEF TakenOut
  <2>2. r[j].id = other[i].id /\ r[j].qty = other[i].qty
    BY <1>1
  <2> HIDE DEF i
  <2>3. old[i].id = other[i].id /\ old[i].qty = other[i].qty
    BY <2>1 DEF QueueAlike
  <2> QED BY <2>1, <2>2, <2>3
<1> QED BY <1>1, <1>2 DEF QueueAlike

(* Two books that are alike have orders of the same ids.                   *)
LEMMA SameIds ==
  ASSUME SimpleSound(queues, order_index, nodes, reused), TwinSound(twin),
         Alike(queues, twin.levels), reused = {}, NEW id
  PROVE  id \in DOMAIN order_index <=> id \in DOMAIN twin.index
<1>1. /\ Levels(twin.levels) /\ BookTyped(twin, BookIds, {0}, Int) /\ IndexExact(twin)
      /\ \A s \in Sides : \A p \in Int : At(twin.levels, s, p) \in Seq(L3Orders(BookIds, {0}))
  BY TwinLevels
<1>2. \A s \in Sides : \A p \in Int :
        /\ DOMAIN At(queues, s, p) = DOMAIN At(twin.levels, s, p)
        /\ \A k \in DOMAIN At(queues, s, p) : At(queues, s, p)[k].id = At(twin.levels, s, p)[k].id
  <2> TAKE s \in Sides
  <2> TAKE p \in Int
  <2>1. QueueAlike(At(queues, s, p), At(twin.levels, s, p))
    BY DEF Alike
  <2>2. At(queues, s, p) \in Seq(Node) /\ At(twin.levels, s, p) \in Seq(L3Orders(BookIds, {0}))
    BY <1>1 DEF SimpleSound, Queued
  <2> QED BY <2>1, <2>2, LenProperties DEF QueueAlike
<1>3. ASSUME id \in DOMAIN order_index PROVE id \in DOMAIN twin.index
  <2> DEFINE s == order_index[id].side
             p == order_index[id].price
  <2>1. s \in Sides /\ p \in Int
    BY <1>3 DEF SimpleSound, IndexTyped
  <2>2. PICK k : Denotes(queues, order_index[id], id, k)
    BY <1>3 DEF SimpleSound, EntriesDenote
  <2>3. k \in DOMAIN At(twin.levels, s, p) /\ At(twin.levels, s, p)[k].id = id
    BY <1>2, <2>1, <2>2 DEF Denotes
  <2> HIDE DEF s, p
  <2>4. p \in Prices(twin, s) /\ At(twin.levels, s, p) = twin.levels[s][p]
    BY <2>3 DEF At, Prices
  <2>5. k \in DOMAIN twin.levels[s][p] /\ twin.levels[s][p][k].id = id
    BY <2>3, <2>4
  <2>6. IndexExact(twin)
    BY <1>1
  <2>7. twin.levels[s][p][k].id \in DOMAIN twin.index
    BY <2>1, <2>4, <2>5, <2>6, PlaceIs
  <2> QED BY <2>5, <2>7
<1>4. ASSUME id \in DOMAIN twin.index PROVE id \in DOMAIN order_index
  <2> DEFINE s == twin.index[id].side
             p == twin.index[id].price
             k == PlaceOf(twin, id)
  <2>1. LeadsTo(twin, id, s, p, k)
    BY <1>1, <1>4, FoundByIndex
  <2> HIDE DEF s, p, k
  <2>2. s \in Sides /\ p \in DOMAIN twin.levels[s] /\ k \in DOMAIN twin.levels[s][p] /\ twin.levels[s][p][k].id = id
    BY <2>1 DEF LeadsTo, Prices
  <2>3. At(twin.levels, s, p) = twin.levels[s][p] /\ p \in Int
    BY <1>1, <2>2, LevelThere
  <2>4. k \in DOMAIN At(queues, s, p) /\ At(queues, s, p)[k].id = id
    BY <1>2, <2>2, <2>3
  <2>5. Indexed(order_index, s, p, At(queues, s, p)[k])
    BY <2>2, <2>3, <2>4 DEF SimpleSound, Found
  <2> QED BY <2>4, <2>5 DEF Indexed
<1> QED BY <1>3, <1>4

(* The same order is cancelled in both books.                              *)
LEMMA TwinCancels ==
  ASSUME SimpleInv, TwinInv, NEW id \in BookIds, cancelOrder(id)
  PROVE  TwinInv'
<1>1. /\ twin' = cancel_order(twin, id).book /\ reused' = reused
      /\ last_trades' = <<>> /\ twin_trades' = <<>>
  BY DEF cancelOrder
<1>2. TwinSound(twin) /\ SimpleSound(queues, order_index, nodes, reused)
  BY DEF TwinInv, SimpleInv
<1>3. TwinSound(twin')
  BY <1>1, <1>2, CancelOrderSound DEF TwinSound
<1>4. ASSUME reused = {} PROVE Alike(queues', twin'.levels)
  <2>1. Alike(queues, twin.levels)
    BY <1>4 DEF TwinInv
  <2>2. id \in DOMAIN order_index <=> id \in DOMAIN twin.index
    BY <1>2, <1>4, <2>1, SameIds
  <2>3. CASE id \notin DOMAIN order_index
    <3>1. queues' = queues
      BY <2>3 DEF cancelOrder
    <3>2. twin' = twin
      BY <1>1, <2>2, <2>3 DEF cancel_order
    <3> QED BY <2>1, <3>1, <3>2
  <2>4. CASE id \in DOMAIN order_index
    <3> DEFINE s == order_index[id].side
               p == order_index[id].price
               u == order_index[id].uid
               old == At(queues, s, p)
               k == PlaceIn(old, u)
               q == RemoveAt(old, k)
    <3>1. /\ s \in Sides /\ p \in Int /\ k \in DOMAIN old /\ old[k].id = id
          /\ q \in Seq(Node) /\ TakenOut(old, k, q)
          /\ IsPut(queues, Without(s, p, u), s, p, q)
      BY <1>2, <2>4, CancelTakes
    <3>2. queues' = Without(s, p, u)
      BY <2>4 DEF cancelOrder
    <3> HIDE DEF s, p, u, k, q
    <3>3. Only(queues, queues', s, p, q)
      <4>1. Queued(queues) /\ IsPut(queues, queues', s, p, q)
        BY <1>2, <3>1, <3>2 DEF SimpleSound
      <4> QED BY <3>1, <4>1, LevelQueued
    <3> DEFINE other == At(twin.levels, s, p)
    <3>4. QueueAlike(old, other)
      BY <2>1, <3>1 DEF Alike
    <3>5. /\ Levels(twin.levels) /\ BookTyped(twin, BookIds, {0}, Int) /\ IndexExact(twin)
          /\ other \in Seq(L3Orders(BookIds, {0}))
      BY <1>2, <3>1, TwinLevels
    <3>6. k \in DOMAIN other /\ other[k].id = id
      <4>1. old \in Seq(Node)
        BY <1>2, <3>1 DEF SimpleSound, Queued
      <4> HIDE DEF old, other
      <4> QED BY <3>1, <3>4, <3>5, <4>1, LenProperties DEF QueueAlike
    <3>7. p \in Prices(twin, s) /\ other = twin.levels[s][p]
      BY <3>6 DEF At, Prices
    <3>8. twin.index[id] = [side |-> s, price |-> p] /\ PlaceOf(twin, id) = k
      BY <3>1, <3>5, <3>6, <3>7, PlaceIs
    <3> DEFINE r == update_queue_positions(RemoveAt(QueueOf(twin, id), PlaceOf(twin, id)))
    <3>9. Removes(twin, RemoveOrder(twin, id), s, p, k, r)
      <4>1. id \in DOMAIN twin.index
        BY <2>2, <2>4
      <4>2. Removes(twin, RemoveOrder(twin, id), twin.index[id].side, twin.index[id].price,
                    PlaceOf(twin, id), r)
        <5> HIDE DEF r
        <5> QED BY <3>5, <4>1, RemoveOrderRemoves DEF r
      <4> QED BY <3>8, <4>2
    <3>10. twin' = RemoveOrder(twin, id)
      BY <1>1, <2>2, <2>4 DEF cancel_order
    <3> HIDE DEF old, other, r
    <3>11. QueueAlike(q, r)
      <4>1. /\ Len(r) = Len(other) - 1
            /\ \A j \in 1 .. Len(r) : /\ r[j].id = other[IF j < k THEN j ELSE j + 1].id
                                      /\ r[j].qty = other[IF j < k THEN j ELSE j + 1].qty
        BY <3>7, <3>9 DEF Removes
      <4> QED BY <3>1, <3>4, <4>1, TakenAlike
    <3>12. Only(twin.levels, RemoveOrder(twin, id).levels, s, p, r)
      <4>1. IsPut(twin.levels, RemoveOrder(twin, id).levels, s, p, r)
        BY <3>9 DEF Removes, LevelIs, IsPut
      <4> QED BY <3>1, <3>5, <4>1, LevelPut
    <3>13. Alike(queues', RemoveOrder(twin, id).levels)
      BY <2>1, <3>1, <3>3, <3>11, <3>12, StaysAlike
    <3> QED BY <3>10, <3>13
  <2> QED BY <2>3, <2>4
<1> QED BY <1>1, <1>3, <1>4 DEF TwinInv

(* As long as no id is reused while its order rests, the simple book and   *)
(* the L3 book show the same levels and make the same trades, whatever the *)
(* orders and however many there are.                                      *)
THEOREM SimpleBookAgrees == SimpleSpec => []AgreesWithL3
<1>1. SimpleInit => TwinInv
  BY TwinInvInit
<1>2. SimpleInv /\ TwinInv /\ [SimpleNext]_simpleVars => TwinInv'
  <2> SUFFICES ASSUME SimpleInv, TwinInv, [SimpleNext]_simpleVars PROVE TwinInv'
    OBVIOUS
  <2>1. CASE SimpleNext
    BY <2>1, TwinEnters, TwinCancels DEF SimpleNext
  <2>2. CASE UNCHANGED simpleVars
    BY <2>2 DEF simpleVars, TwinInv
  <2> QED BY <2>1, <2>2
<1> QED BY <1>1, <1>2, SimpleInvInit, SimpleInvStep, TwinInvSuffices, PTL DEF SimpleSpec

-------------------------------------------------------------------------------
(* The samples of a list, one after the other.                             *)

SampleStart(g) == [rng |-> g, values |-> <<>>]
SampleStep(what, st) ==
  LET d == Sample(st.rng, what)
  IN  [rng |-> d.rng, values |-> Append(st.values, <<what, d.value>>)]

SampleAt(f, g, whats, s) ==
  f[s] = IF s = {} THEN SampleStart(g) ELSE SampleStep(whats[Max(s)], f[s \ {Max(s)}])

IsSampleFold(f, g, whats, S) ==
  f = [s \in SUBSET S |-> IF s = {} THEN SampleStart(g)
                          ELSE SampleStep(whats[Max(s)], f[s \ {Max(s)}])]

SamplesUpTo(f, g, whats, n, m) ==
  \A s \in SUBSET (1 .. n) : Cardinality(s) <= m => SampleAt(f, g, whats, s)

(* The fold that SampleAll is, written out.                                *)
LEMMA SampleAllIs ==
  ASSUME NEW g, NEW whats
  PROVE  SampleAll(g, whats) = (CHOOSE f : IsSampleFold(f, g, whats, DOMAIN whats))[DOMAIN whats]
BY DEF SampleAll, FoldLeft, MapThenFoldSet, IsSampleFold, SampleStart, SampleStep

(* The fold is defined for the first m requests, and so for one more.      *)
LEMMA SamplesUpToExist ==
  ASSUME NEW g, NEW whats, NEW n \in Nat, NEW m \in Nat
  PROVE  \E f : SamplesUpTo(f, g, whats, n, m)
<1> DEFINE P == {k \in Nat : \E f : SamplesUpTo(f, g, whats, n, k)}
           V(f, s) == IF s = {} THEN SampleStart(g) ELSE SampleStep(whats[Max(s)], f[s \ {Max(s)}])
<1>1. ASSUME NEW s \in SUBSET (1 .. n) PROVE Cardinality(s) \in Nat /\ (Cardinality(s) = 0 => s = {})
  <2>1. CASE s = {}
    BY <2>1, FS_EmptySet
  <2>2. CASE s # {}
    <3>1. Cardinality(s \ {Max(s)}) \in Nat /\ Cardinality(s) = Cardinality(s \ {Max(s)}) + 1
      BY <2>2, WithoutGreatest
    <3> QED BY <3>1
  <2> QED BY <2>1, <2>2
<1>2. 0 \in P
  <2> DEFINE f == [s \in SUBSET (1 .. n) |-> SampleStart(g)]
  <2>1. ASSUME NEW s \in SUBSET (1 .. n), Cardinality(s) <= 0 PROVE SampleAt(f, g, whats, s)
    <3>1. s = {}
      BY <1>1, <2>1
    <3> QED BY <3>1 DEF SampleAt
  <2> HIDE DEF f
  <2>2. SamplesUpTo(f, g, whats, n, 0)
    BY <2>1 DEF SamplesUpTo
  <2> QED BY <2>2
<1>3. ASSUME NEW k \in P PROVE k + 1 \in P
  <2>1. PICK f : SamplesUpTo(f, g, whats, n, k)
    OBVIOUS
  <2> DEFINE h == [s \in SUBSET (1 .. n) |-> IF Cardinality(s) <= k THEN f[s] ELSE V(f, s)]
  <2>2. ASSUME NEW s \in SUBSET (1 .. n), Cardinality(s) <= k + 1 PROVE SampleAt(h, g, whats, s)
    <3>1. h[s] = V(f, s)
      <4>1. CASE Cardinality(s) <= k
        BY <2>1, <4>1 DEF SamplesUpTo, SampleAt
      <4>2. CASE ~(Cardinality(s) <= k)
        BY <4>2
      <4> QED BY <4>1, <4>2
    <3>2. CASE s = {}
      BY <3>1, <3>2 DEF SampleAt
    <3>3. CASE s # {}
      <4>1. /\ s \ {Max(s)} \in SUBSET (1 .. n) /\ Cardinality(s \ {Max(s)}) \in Nat
            /\ Cardinality(s) = Cardinality(s \ {Max(s)}) + 1
        BY <3>3, WithoutGreatest
      <4>2. Cardinality(s \ {Max(s)}) <= k
        BY <2>2, <4>1
      <4>3. h[s \ {Max(s)}] = f[s \ {Max(s)}]
        BY <4>1, <4>2
      <4> QED BY <3>1, <3>3, <4>3 DEF SampleAt
    <3> QED BY <3>2, <3>3
  <2> HIDE DEF h
  <2>3. SamplesUpTo(h, g, whats, n, k + 1)
    BY <2>2 DEF SamplesUpTo
  <2> QED BY <2>3
<1>4. P \in SUBSET Nat
  OBVIOUS
<1> HIDE DEF P
<1>5. P = Nat
  BY <1>2, <1>3, <1>4, SetInduction
<1> QED BY <1>5 DEF P

(* The function that the fold chooses exists.                              *)
LEMMA SampleFoldExists ==
  ASSUME NEW g, NEW whats, NEW n \in Nat
  PROVE  \E f : IsSampleFold(f, g, whats, 1 .. n)
<1>1. PICK f : SamplesUpTo(f, g, whats, n, n)
  BY SamplesUpToExist
<1> DEFINE h == [s \in SUBSET (1 .. n) |-> f[s]]
<1>2. ASSUME NEW s \in SUBSET (1 .. n)
      PROVE  h[s] = IF s = {} THEN SampleStart(g) ELSE SampleStep(whats[Max(s)], h[s \ {Max(s)}])
  <2>1. CASE s = {}
    <3>1. Cardinality(s) <= n
      BY <2>1, FS_EmptySet
    <3> QED BY <1>1, <2>1, <3>1 DEF SamplesUpTo, SampleAt
  <2>2. CASE s # {}
    <3>1. /\ s \ {Max(s)} \in SUBSET (1 .. n) /\ Cardinality(s \ {Max(s)}) \in Nat
          /\ Cardinality(s \ {Max(s)}) < n
          /\ Cardinality(s) = Cardinality(s \ {Max(s)}) + 1
      BY <2>2, WithoutGreatest
    <3>2. Cardinality(s) <= n
      BY <3>1
    <3> QED BY <1>1, <2>2, <3>1, <3>2 DEF SamplesUpTo, SampleAt
  <2> QED BY <2>1, <2>2
<1>3. h = [s \in SUBSET (1 .. n) |-> IF s = {} THEN SampleStart(g)
                                     ELSE SampleStep(whats[Max(s)], h[s \ {Max(s)}])]
  BY <1>2
<1> HIDE DEF h
<1>4. IsSampleFold(h, g, whats, 1 .. n)
  BY <1>3 DEF IsSampleFold
<1> QED BY <1>4

(* The generator and the values after each sample of a list.               *)
SampleRuns(F, g, whats) ==
  /\ F[0] = SampleStart(g)
  /\ \A m \in Nat : m < Len(whats) => F[m + 1] = SampleStep(whats[m + 1], F[m])

(* A list is sampled one request after the other.                          *)
LEMMA SampleAllRuns ==
  ASSUME NEW g, NEW W, NEW whats \in Seq(W)
  PROVE  \E F : SampleRuns(F, g, whats) /\ SampleAll(g, whats) = F[Len(whats)]
<1>1. PICK n \in Nat : n = Len(whats) /\ DOMAIN whats = 1 .. n
  OBVIOUS
<1> DEFINE f == CHOOSE f : IsSampleFold(f, g, whats, 1 .. n)
           F == [m \in 0 .. n |-> f[1 .. m]]
<1>2. IsSampleFold(f, g, whats, 1 .. n)
  <2>1. \E h : IsSampleFold(h, g, whats, 1 .. n)
    BY SampleFoldExists
  <2> QED BY <2>1
<1>3. SampleAll(g, whats) = f[1 .. n]
  BY <1>1, SampleAllIs
<1> HIDE DEF f
<1>4. ASSUME NEW s \in SUBSET (1 .. n)
      PROVE  f[s] = IF s = {} THEN SampleStart(g) ELSE SampleStep(whats[Max(s)], f[s \ {Max(s)}])
  BY <1>2 DEF IsSampleFold
<1>5. F[0] = SampleStart(g)
  <2>1. 0 \in 0 .. n /\ 1 .. 0 = {}
    OBVIOUS
  <2> QED BY <1>4, <2>1
<1>6. ASSUME NEW m \in Nat, m < n PROVE F[m + 1] = SampleStep(whats[m + 1], F[m])
  <2>1. m + 1 \in 0 .. n /\ m \in 0 .. n /\ 1 .. (m + 1) \in SUBSET (1 .. n)
    BY <1>6
  <2>2. 1 .. (m + 1) # {} /\ (1 .. (m + 1)) \ {Max(1 .. (m + 1))} = 1 .. m
    BY GreatestOfInterval
  <2>3. Max(1 .. (m + 1)) = m + 1
    <3>1. (m + 1) \notin 1 .. m /\ (m + 1) \in 1 .. (m + 1)
      OBVIOUS
    <3> QED BY <2>2, <3>1
  <2>4. f[1 .. (m + 1)] = SampleStep(whats[m + 1], f[1 .. m])
    BY <1>4, <2>1, <2>2, <2>3
  <2> QED BY <2>1, <2>4
<1>7. F[n] = f[1 .. n]
  OBVIOUS
<1> HIDE DEF F
<1>8. SampleRuns(F, g, whats)
  BY <1>1, <1>5, <1>6 DEF SampleRuns
<1> QED BY <1>1, <1>3, <1>7, <1>8

-------------------------------------------------------------------------------
(* What a generator is and what is drawn from it.                          *)

DrawValues == ({"normal"} \X Seeds \X Nat \X {1, 2}) \cup ({"exponential"} \X Seeds \X Nat)
Generators == [seed : Seeds, pos : Nat, saved : DrawValues \cup {NoValue}]
Whats == Profiles \cup {Jitter}
Outcomes == Whats \X DrawValues
Samplings == [rng : Generators, values : Seq(Outcomes)]

(* A normal value comes from the generator, or was kept by normal_dist_.   *)
LEMMA NormalTyped ==
  ASSUME NEW g \in Generators
  PROVE  NormalDraw(g).rng \in Generators /\ NormalDraw(g).value \in DrawValues
<1>1. CASE g.saved # NoValue
  <2>1. g.saved \in DrawValues
    BY <1>1 DEF Generators
  <2>2. [g EXCEPT !.saved = NoValue] \in Generators
    BY DEF Generators
  <2> QED BY <1>1, <2>1, <2>2 DEF NormalDraw
<1>2. CASE g.saved = NoValue
  <2>1. <<"normal", g.seed, g.pos, 1>> \in DrawValues /\ <<"normal", g.seed, g.pos, 2>> \in DrawValues
    BY DEF Generators, DrawValues
  <2>2. [g EXCEPT !.pos = @ + 2, !.saved = <<"normal", g.seed, g.pos, 2>>] \in Generators
    <3>1. PICK v \in DrawValues : v = <<"normal", g.seed, g.pos, 2>>
      BY <2>1
    <3>2. PICK k \in Nat : k = g.pos + 2
      BY DEF Generators
    <3>3. [g EXCEPT !.pos = k, !.saved = v] = [[g EXCEPT !.pos = k] EXCEPT !.saved = v]
      BY DEF Generators
    <3>4. [g EXCEPT !.pos = k] \in Generators
      BY DEF Generators
    <3>5. [[g EXCEPT !.pos = k] EXCEPT !.saved = v] \in Generators
      BY <3>4 DEF Generators
    <3> QED BY <3>1, <3>2, <3>3, <3>5
  <2> QED BY <1>2, <2>1, <2>2 DEF NormalDraw
<1> QED BY <1>1, <1>2

(* A sample draws a value and leaves a generator.                          *)
LEMMA SampleTyped ==
  ASSUME NEW g \in Generators, NEW what \in Whats
  PROVE  Sample(g, what).rng \in Generators /\ Sample(g, what).value \in DrawValues
<1>1. [g EXCEPT !.pos = @ + 1] \in Generators
  BY DEF Generators
<1>2. ASSUME NEW h \in Generators
      PROVE  ExponentialDraw(h).rng \in Generators /\ ExponentialDraw(h).value \in DrawValues
  <2>1. [h EXCEPT !.pos = @ + 1] \in Generators
    BY DEF Generators
  <2>2. <<"exponential", h.seed, h.pos>> \in DrawValues
    BY DEF Generators, DrawValues
  <2> QED BY <2>1, <2>2 DEF ExponentialDraw
<1> QED BY <1>1, <1>2, NormalTyped DEF Sample

(* Each request of a list adds one sample.                                 *)
LEMMA RunTyped ==
  ASSUME NEW F, NEW g \in Generators, NEW whats \in Seq(Whats), SampleRuns(F, g, whats),
         NEW n \in Nat, n <= Len(whats)
  PROVE  F[n] \in Samplings /\ Len(F[n].values) = n
<1> DEFINE P == {m \in Nat : m <= Len(whats) => F[m] \in Samplings /\ Len(F[m].values) = m}
<1>1. 0 \in P
  <2>1. F[0] = [rng |-> g, values |-> <<>>]
    BY DEF SampleRuns, SampleStart
  <2>2. [rng |-> g, values |-> <<>>] \in Samplings
    BY DEF Samplings
  <2> QED BY <2>1, <2>2
<1>2. ASSUME NEW m \in P PROVE m + 1 \in P
  <2> SUFFICES ASSUME m + 1 <= Len(whats)
               PROVE  F[m + 1] \in Samplings /\ Len(F[m + 1].values) = m + 1
    OBVIOUS
  <2>1. m < Len(whats) /\ m + 1 \in 1 .. Len(whats) /\ whats[m + 1] \in Whats
    OBVIOUS
  <2>2. F[m] \in Samplings /\ Len(F[m].values) = m
    BY <2>1
  <2>3. F[m + 1] = SampleStep(whats[m + 1], F[m])
    BY <2>1 DEF SampleRuns
  <2> DEFINE d == Sample(F[m].rng, whats[m + 1])
  <2>4. d.rng \in Generators /\ d.value \in DrawValues
    BY <2>1, <2>2, SampleTyped DEF Samplings
  <2>5. F[m + 1] = [rng |-> d.rng, values |-> Append(F[m].values, <<whats[m + 1], d.value>>)]
    BY <2>3 DEF SampleStep
  <2> HIDE DEF d
  <2>6. <<whats[m + 1], d.value>> \in Outcomes
    BY <2>1, <2>4 DEF Outcomes
  <2> QED BY <2>2, <2>4, <2>5, <2>6 DEF Samplings
<1>3. P \in SUBSET Nat
  OBVIOUS
<1> HIDE DEF P
<1>4. P = Nat
  BY <1>1, <1>2, <1>3, SetInduction
<1> QED BY <1>4 DEF P

(* The samples of a list are one for each request of it.                   *)
LEMMA SampleAllTyped ==
  ASSUME NEW g \in Generators, NEW whats \in Seq(Whats)
  PROVE  SampleAll(g, whats) \in Samplings /\ Len(SampleAll(g, whats).values) = Len(whats)
<1>1. PICK F : SampleRuns(F, g, whats) /\ SampleAll(g, whats) = F[Len(whats)]
  BY SampleAllRuns
<1> QED BY <1>1, RunTyped

-------------------------------------------------------------------------------
(* Two lists one after the other are sampled as their concatenation.       *)

Following(st, vs) == [rng |-> st.rng, values |-> vs \o st.values]

(* What was sampled before makes no difference to the next sample.         *)
LEMMA StepFollowing ==
  ASSUME NEW what \in Whats, NEW st \in Samplings, NEW vs \in Seq(Outcomes)
  PROVE  SampleStep(what, Following(st, vs)) = Following(SampleStep(what, st), vs)
<1> DEFINE d == Sample(st.rng, what)
           e == <<what, d.value>>
<1>1. d.value \in DrawValues
  BY SampleTyped DEF Samplings
<1>2. e \in Outcomes
  BY <1>1 DEF Outcomes
<1>3. st.values \in Seq(Outcomes)
  BY DEF Samplings
<1>4. Following(st, vs).rng = st.rng /\ Following(st, vs).values = vs \o st.values
  BY DEF Following
<1>5. Append(vs \o st.values, e) = vs \o Append(st.values, e)
  <2> HIDE DEF e
  <2> QED BY <1>2, <1>3
<1>6. SampleStep(what, st) = [rng |-> d.rng, values |-> Append(st.values, e)]
  BY DEF SampleStep
<1>7. SampleStep(what, Following(st, vs)) = [rng |-> d.rng, values |-> Append(vs \o st.values, e)]
  BY <1>4 DEF SampleStep
<1> HIDE DEF d, e
<1> QED BY <1>5, <1>6, <1>7 DEF Following

(* The samples of a list go on from those of a first part of it.           *)
LEMMA RunContinues ==
  ASSUME NEW F, NEW G, NEW H, NEW g \in Generators,
         NEW whats \in Seq(Whats), NEW more \in Seq(Whats),
         SampleRuns(F, g, whats), SampleRuns(H, F[Len(whats)].rng, more),
         SampleRuns(G, g, whats \o more)
  PROVE  G[Len(whats) + Len(more)] = Following(H[Len(more)], F[Len(whats)].values)
<1>1. PICK n \in Nat : n = Len(whats)
  OBVIOUS
<1>2. PICK l \in Nat : l = Len(more)
  OBVIOUS
<1>3. whats \o more \in Seq(Whats) /\ Len(whats \o more) = n + l
  BY <1>1, <1>2
<1>4. ASSUME NEW m \in Nat, m < n PROVE (whats \o more)[m + 1] = whats[m + 1]
  BY <1>1, <1>4
<1>5. ASSUME NEW m \in Nat, m < l PROVE (whats \o more)[n + m + 1] = more[m + 1] /\ more[m + 1] \in Whats
  BY <1>1, <1>2, <1>5
<1> DEFINE P == {m \in Nat : m <= n => G[m] = F[m]}
<1>6. P = Nat
  <2>1. 0 \in P
    BY DEF SampleRuns
  <2>2. ASSUME NEW m \in P PROVE m + 1 \in P
    <3> SUFFICES ASSUME m + 1 <= n PROVE G[m + 1] = F[m + 1]
      OBVIOUS
    <3>1. m < n /\ m < n + l
      OBVIOUS
    <3>2. G[m + 1] = SampleStep(whats[m + 1], G[m])
      BY <1>3, <1>4, <3>1 DEF SampleRuns
    <3>3. F[m + 1] = SampleStep(whats[m + 1], F[m])
      BY <1>1, <3>1 DEF SampleRuns
    <3> QED BY <3>1, <3>2, <3>3
  <2>3. P \in SUBSET Nat
    OBVIOUS
  <2> HIDE DEF P
  <2> QED BY <2>1, <2>2, <2>3, SetInduction
<1>7. G[n] = F[n]
  BY <1>6
<1>8. F[n] \in Samplings
  BY <1>1, RunTyped
<1>9. PICK vs \in Seq(Outcomes) : vs = F[n].values
  BY <1>8 DEF Samplings
<1>10. F[n].rng \in Generators
  BY <1>8 DEF Samplings
<1> HIDE DEF P
<1> DEFINE Q == {m \in Nat : m <= l => G[n + m] = Following(H[m], vs)}
<1>11. Q = Nat
  <2>1. 0 \in Q
    <3>1. H[0] = SampleStart(F[n].rng)
      BY <1>1 DEF SampleRuns
    <3>2. Following(H[0], vs) = [rng |-> F[n].rng, values |-> vs]
      BY <3>1 DEF Following, SampleStart
    <3>3. F[n] = [rng |-> F[n].rng, values |-> F[n].values]
      BY <1>8 DEF Samplings
    <3> QED BY <1>7, <1>9, <3>2, <3>3
  <2>2. ASSUME NEW m \in Q PROVE m + 1 \in Q
    <3> SUFFICES ASSUME m + 1 <= l PROVE G[n + (m + 1)] = Following(H[m + 1], vs)
      OBVIOUS
    <3>1. m < l /\ n + m \in Nat /\ n + m < n + l /\ n + (m + 1) = n + m + 1
      OBVIOUS
    <3>2. G[n + m + 1] = SampleStep((whats \o more)[n + m + 1], G[n + m])
      BY <1>3, <3>1 DEF SampleRuns
    <3>3. H[m + 1] = SampleStep(more[m + 1], H[m])
      BY <1>2, <3>1 DEF SampleRuns
    <3>4. (whats \o more)[n + m + 1] = more[m + 1] /\ more[m + 1] \in Whats
      BY <1>5, <3>1
    <3>5. H[m] \in Samplings
      BY <1>1, <1>2, <1>10, <3>1, RunTyped
    <3>6. SampleStep(more[m + 1], Following(H[m], vs)) = Following(SampleStep(more[m + 1], H[m]), vs)
      BY <3>4, <3>5, StepFollowing
    <3>7. G[n + m] = Following(H[m], vs)
      BY <3>1
    <3> HIDE DEF Q
    <3> QED BY <3>1, <3>2, <3>3, <3>4, <3>6, <3>7
  <2>3. Q \in SUBSET Nat
    OBVIOUS
  <2> HIDE DEF Q
  <2> QED BY <2>1, <2>2, <2>3, SetInduction
<1>12. G[n + l] = Following(H[l], vs)
  BY <1>11
<1> QED BY <1>1, <1>2, <1>9, <1>12

(* Two lists one after the other are sampled as one list.                  *)
LEMMA SampledTogether ==
  ASSUME NEW g \in Generators, NEW whats \in Seq(Whats), NEW more \in Seq(Whats)
  PROVE  SampleAll(g, whats \o more)
           = Following(SampleAll(SampleAll(g, whats).rng, more), SampleAll(g, whats).values)
<1>1. PICK F : SampleRuns(F, g, whats) /\ SampleAll(g, whats) = F[Len(whats)]
  BY SampleAllRuns
<1>2. PICK H : /\ SampleRuns(H, F[Len(whats)].rng, more)
               /\ SampleAll(F[Len(whats)].rng, more) = H[Len(more)]
  BY SampleAllRuns
<1>3. whats \o more \in Seq(Whats) /\ Len(whats \o more) = Len(whats) + Len(more)
  OBVIOUS
<1>4. PICK G : SampleRuns(G, g, whats \o more) /\ SampleAll(g, whats \o more) = G[Len(whats \o more)]
  BY <1>3, SampleAllRuns
<1>5. G[Len(whats) + Len(more)] = Following(H[Len(more)], F[Len(whats)].values)
  BY <1>1, <1>2, <1>4, RunContinues
<1> QED BY <1>1, <1>2, <1>3, <1>4, <1>5

-------------------------------------------------------------------------------
(* A model seeded at rest replays.                                         *)

ProfilesTyped ==
  /\ network_profile \in Profiles /\ matching_profile \in Profiles /\ md_profile \in Profiles
  /\ \A c \in DOMAIN client_profiles : c \in Clients /\ client_profiles[c] \in Profiles

HistoryTyped ==
  /\ rng \in Generators /\ seeded \in Seeds
  /\ asked \in Seq(Whats) /\ results \in Seq(Outcomes) /\ Len(asked) = Len(results)

(* What the model was asked since the seeding leads a fresh generator to   *)
(* the results and to the state of the model's own.                        *)
ReplaysSoFar ==
  kept = NoValue => SampleAll(FreshGenerator(seeded), asked) = [rng |-> rng, values |-> results]

LatencyInv == ProfilesTyped /\ HistoryTyped /\ ReplaysSoFar

(* A fresh generator, of which nothing was asked.                          *)
LEMMA FreshIsGenerator ==
  ASSUME NEW seed \in Seeds
  PROVE  /\ FreshGenerator(seed) \in Generators
         /\ SampleAll(FreshGenerator(seed), <<>>) = [rng |-> FreshGenerator(seed), values |-> <<>>]
<1>1. FreshGenerator(seed) \in Generators
  BY DEF FreshGenerator, Generators
<1>2. <<>> \in Seq(Whats) /\ Len(<<>>) = 0
  OBVIOUS
<1>3. PICK F : /\ SampleRuns(F, FreshGenerator(seed), <<>>)
               /\ SampleAll(FreshGenerator(seed), <<>>) = F[0]
  BY <1>2, SampleAllRuns
<1> QED BY <1>1, <1>3 DEF SampleRuns, SampleStart

(* The invariant implies the properties of the runs.                       *)
LEMMA LatencyInvSuffices == LatencyInv => LatencyTypeOK /\ ReplayFromRest
<1>1. LatencyInv => LatencyTypeOK
  BY DEF LatencyInv, ProfilesTyped, HistoryTyped, LatencyTypeOK, Generators
<1>2. LatencyInv => ReplayFromRest
  BY DEF LatencyInv, ReplaysSoFar, ReplayFromRest, ReplayExact
<1> QED BY <1>1, <1>2

(* A new model has a fresh generator.                                      *)
LEMMA LatencyInvStart ==
  ASSUME LatencyInit
  PROVE  LatencyInv
<1>1. ProfilesTyped
  BY FirstProfilesAssumption DEF LatencyInit, ProfilesTyped
<1>2. HistoryTyped
  BY SeedAssumption, FreshIsGenerator DEF LatencyInit, HistoryTyped
<1>3. ReplaysSoFar
  BY SeedAssumption, FreshIsGenerator DEF LatencyInit, ReplaysSoFar
<1> QED BY <1>1, <1>2, <1>3 DEF LatencyInv

(* A sampling call: the same requests lead a fresh generator as far.       *)
LEMMA ReturnsKeep ==
  ASSUME LatencyInv, NEW whats \in Seq(Whats), Returns(whats)
  PROVE  LatencyInv'
<1> DEFINE all == SampleAll(rng, whats)
<1>1. HistoryTyped /\ ProfilesTyped /\ ReplaysSoFar
  BY DEF LatencyInv
<1>2. all \in Samplings /\ Len(all.values) = Len(whats)
  BY <1>1, SampleAllTyped DEF HistoryTyped
<1>3. rng' = all.rng /\ results' = results \o all.values /\ asked' = asked \o whats
  BY DEF Returns
<1>4. seeded' = seeded /\ kept' = kept /\ profiles' = profiles
  BY DEF Returns
<1>5. HistoryTyped'
  <2> HIDE DEF all
  <2>1. rng' \in Generators /\ all.values \in Seq(Outcomes)
    BY <1>2, <1>3 DEF Samplings
  <2>2. PICK a \in Seq(Whats) : a = asked
    BY <1>1 DEF HistoryTyped
  <2>3. PICK r \in Seq(Outcomes) : r = results
    BY <1>1 DEF HistoryTyped
  <2>4. PICK vs \in Seq(Outcomes) : vs = all.values
    BY <2>1
  <2>5. Len(a) = Len(r) /\ Len(vs) = Len(whats)
    BY <1>1, <1>2, <2>2, <2>3, <2>4 DEF HistoryTyped
  <2>6. a \o whats \in Seq(Whats) /\ r \o vs \in Seq(Outcomes) /\ Len(a \o whats) = Len(r \o vs)
    <3>1. a \o whats \in Seq(Whats) /\ Len(a \o whats) = Len(a) + Len(whats)
      BY ConcatProperties
    <3>2. r \o vs \in Seq(Outcomes) /\ Len(r \o vs) = Len(r) + Len(vs)
      BY ConcatProperties
    <3> QED BY <2>5, <3>1, <3>2
  <2>7. asked' = a \o whats /\ results' = r \o vs
    BY <1>3, <2>2, <2>3, <2>4
  <2> QED BY <1>1, <1>4, <2>1, <2>6, <2>7 DEF HistoryTyped
<1>6. ProfilesTyped'
  BY <1>1, <1>4 DEF ProfilesTyped, profiles
<1>7. ReplaysSoFar'
  <2> SUFFICES ASSUME kept = NoValue
               PROVE  SampleAll(FreshGenerator(seeded), asked \o whats)
                        = [rng |-> all.rng, values |-> results \o all.values]
    BY <1>3, <1>4 DEF ReplaysSoFar
  <2>1. SampleAll(FreshGenerator(seeded), asked) = [rng |-> rng, values |-> results]
    BY <1>1 DEF ReplaysSoFar
  <2>2. FreshGenerator(seeded) \in Generators /\ asked \in Seq(Whats)
    BY <1>1, FreshIsGenerator DEF HistoryTyped
  <2>3. SampleAll(FreshGenerator(seeded), asked \o whats)
          = Following(SampleAll(SampleAll(FreshGenerator(seeded), asked).rng, whats),
                      SampleAll(FreshGenerator(seeded), asked).values)
    BY <2>2, SampledTogether
  <2>4. SampleAll(FreshGenerator(seeded), asked \o whats) = Following(all, results)
    BY <2>1, <2>3
  <2> QED BY <2>4 DEF Following
<1> QED BY <1>5, <1>6, <1>7 DEF LatencyInv

(* Profiles change between samples: no sample of the past depends on them. *)
LEMMA ProfileChangesKeep ==
  ASSUME LatencyInv, UNCHANGED <<rng, seeded, kept, asked, results>>, ProfilesTyped'
  PROVE  LatencyInv'
<1>1. HistoryTyped /\ ReplaysSoFar
  BY DEF LatencyInv
<1>2. HistoryTyped'
  BY <1>1 DEF HistoryTyped
<1>3. ReplaysSoFar'
  BY <1>1 DEF ReplaysSoFar
<1> QED BY <1>2, <1>3 DEF LatencyInv

(* set_seed: if normal_dist_ keeps no value, the generator is a fresh one. *)
LEMMA SeedKeeps ==
  ASSUME LatencyInv, NEW seed \in Seeds, set_seed(seed)
  PROVE  LatencyInv'
<1>1. rng \in Generators /\ ProfilesTyped
  BY DEF LatencyInv, HistoryTyped
<1>2. /\ rng' = [rng EXCEPT !.seed = seed, !.pos = 0] /\ seeded' = seed
      /\ kept' = rng.saved /\ asked' = <<>> /\ results' = <<>> /\ profiles' = profiles
  BY DEF set_seed
<1>3. rng' = [seed |-> seed, pos |-> 0, saved |-> rng.saved]
  BY <1>1, <1>2 DEF Generators
<1>4. HistoryTyped'
  <2>1. rng' \in Generators
    BY <1>1, <1>3 DEF Generators
  <2> QED BY <1>2, <2>1 DEF HistoryTyped
<1>5. ProfilesTyped'
  BY <1>1, <1>2 DEF ProfilesTyped, profiles
<1>6. ReplaysSoFar'
  <2> SUFFICES ASSUME rng.saved = NoValue
               PROVE  SampleAll(FreshGenerator(seed), <<>>) = [rng |-> rng', values |-> <<>>]
    BY <1>2 DEF ReplaysSoFar
  <2>1. rng' = FreshGenerator(seed)
    BY <1>3 DEF FreshGenerator
  <2> QED BY <2>1, FreshIsGenerator
<1> QED BY <1>4, <1>5, <1>6 DEF LatencyInv

(* Every call keeps the invariant.                                         *)
LEMMA LatencyStep ==
  ASSUME LatencyInv, LatencyNext
  PROVE  LatencyInv'
<1>1. ProfilesTyped
  BY DEF LatencyInv
<1>2. ASSUME NEW c PROVE ClientOrNetwork(c) \in Profiles
  BY <1>1 DEF ProfilesTyped, ClientOrNetwork
<1>3. Profiles \subseteq Whats /\ Jitter \in Whats
  BY DEF Whats
<1>4. CASE sample_matching_latency \/ sample_md_latency \/ add_jitter
  <2>1. /\ <<matching_profile>> \in Seq(Whats) /\ <<md_profile>> \in Seq(Whats)
        /\ <<Jitter>> \in Seq(Whats)
    BY <1>1, <1>3 DEF ProfilesTyped
  <2> QED BY <1>4, <2>1, ReturnsKeep DEF sample_matching_latency, sample_md_latency, add_jitter
<1>5. ASSUME NEW c \in Clients, sample_network_latency(c)
      PROVE  LatencyInv'
  <2>1. <<ClientOrNetwork(c)>> \in Seq(Whats)
    BY <1>2, <1>3
  <2> QED BY <1>5, <2>1, ReturnsKeep DEF sample_network_latency
<1>6. ASSUME NEW c \in Clients, sample_round_trip(c)
      PROVE  LatencyInv'
  <2>1. ClientOrNetwork(c) \in Whats /\ matching_profile \in Whats /\ md_profile \in Whats
    BY <1>1, <1>2, <1>3 DEF ProfilesTyped
  <2>2. <<ClientOrNetwork(c), matching_profile, ClientOrNetwork(c), md_profile>> \in Seq(Whats)
    BY <2>1
  <2> QED BY <1>6, <2>2, ReturnsKeep DEF sample_round_trip
<1>7. ASSUME NEW c \in Clients, NEW p \in Profiles, set_client_profile(c, p)
      PROVE  LatencyInv'
  <2>1. client_profiles' = [x \in DOMAIN client_profiles \cup {c} |->
                              IF x = c THEN p ELSE client_profiles[x]]
    BY <1>7 DEF set_client_profile
  <2>2. ASSUME NEW x \in DOMAIN client_profiles'
        PROVE  x \in Clients /\ client_profiles'[x] \in Profiles
    BY <1>1, <2>1 DEF ProfilesTyped
  <2>3. ProfilesTyped'
    BY <1>1, <1>7, <2>2 DEF ProfilesTyped, set_client_profile
  <2> QED BY <1>7, <2>3, ProfileChangesKeep DEF set_client_profile
<1>8. ASSUME NEW p \in Profiles,
             set_network_profile(p) \/ set_matching_profile(p) \/ set_md_profile(p)
      PROVE  LatencyInv'
  <2>1. ProfilesTyped'
    BY <1>1, <1>8 DEF ProfilesTyped, set_network_profile, set_matching_profile, set_md_profile
  <2>2. UNCHANGED <<rng, seeded, kept, asked, results>>
    BY <1>8 DEF set_network_profile, set_matching_profile, set_md_profile
  <2> QED BY <2>1, <2>2, ProfileChangesKeep
<1>9. ASSUME NEW seed \in Seeds, set_seed(seed)
      PROVE  LatencyInv'
  BY <1>9, SeedKeeps
<1> QED BY <1>4, <1>5, <1>6, <1>7, <1>8, <1>9 DEF LatencyNext

(* Every step keeps the invariant of the latency model.                    *)
LEMMA LatencyInvStep == LatencyInv /\ [LatencyNext]_latencyVars => LatencyInv'
<1> SUFFICES ASSUME LatencyInv, [LatencyNext]_latencyVars PROVE LatencyInv'
  OBVIOUS
<1>1. CASE LatencyNext
  BY <1>1, LatencyStep
<1>2. CASE UNCHANGED latencyVars
  <2>1. UNCHANGED <<rng, seeded, kept, asked, results>> /\ profiles' = profiles
    BY <1>2 DEF latencyVars
  <2>2. ProfilesTyped'
    BY <2>1 DEF LatencyInv, ProfilesTyped, profiles
  <2> QED BY <2>1, <2>2, ProfileChangesKeep
<1> QED BY <1>1, <1>2

(* Whenever the model was seeded with no value kept by normal_dist_, every *)
(* later call returns what a new model with that seed returns to the same  *)
(* calls, for any profiles, tail draws and number of samples.              *)
THEOREM SeededAtRestReplays == LatencySpec => []ReplayFromRest
BY LatencyInvStart, LatencyInvStep, LatencyInvSuffices, PTL DEF LatencySpec

-------------------------------------------------------------------------------
(* The types of the risk engine.                                           *)

(* The stamps that check_rate_limit leaves are times.                      *)
LEMMA WindowTyped ==
  ASSUME NEW t, order_timestamps[t] \in Seq(Times), NEW time \in Times
  PROVE  Window(t, time) \in Seq(Times)
<1> DEFINE stamps == order_timestamps[t]
           young == {i \in 1 .. Len(stamps) : ~Expired(t, time, stamps[i])}
           first == SelectInSeq(stamps, LAMBDA ts : ~Expired(t, time, ts))
<1>1. first = IF young # {} THEN Min(young) ELSE 0
  BY DEF SelectInSeq
<1>2. first = 0 \/ first \in 1 .. Len(stamps)
  <2>1. CASE young # {}
    <3>1. young \in SUBSET Nat
      OBVIOUS
    <3>2. \E i \in young : \A k \in young : i <= k
      BY <2>1, <3>1, LeastElement
    <3>3. Min(young) \in young
      BY <3>2 DEF Min
    <3> QED BY <1>1, <2>1, <3>3
  <2> QED BY <1>1, <2>1
<1>3. Unexpired(t, time) = IF first = 0 THEN <<>> ELSE SubSeq(stamps, first, Len(stamps))
  BY DEF Unexpired
<1> HIDE DEF first
<1>4. Unexpired(t, time) \in Seq(Times)
  <2>1. CASE first = 0
    BY <1>3, <2>1
  <2>2. CASE first \in 1 .. Len(stamps)
    <3>1. SubSeq(stamps, first, Len(stamps)) \in Seq(Times)
      BY <2>2
    <3> QED BY <1>3, <2>2, <3>1
  <2> QED BY <1>2, <2>1, <2>2
<1> QED BY <1>4 DEF Window

(* Every step of the risk engine keeps its types.                          *)
LEMMA RiskTypedStep == RiskTypeOK /\ [RiskNext]_riskVars => RiskTypeOK'
<1> SUFFICES ASSUME RiskTypeOK, [RiskNext]_riskVars PROVE RiskTypeOK'
  OBVIOUS
<1>1. ASSUME NEW o \in CheckedOrders, NEW f \in 0 .. Abs(o.qty), Submit(o, f)
      PROVE  RiskTypeOK'
  <2>1. o.trader \in Traders /\ o.symbol \in Symbols /\ o.submit_time \in Times
    BY DEF CheckedOrders
  <2>2. check_order(o) /\ UNCHANGED <<limits, switches>>
    BY <1>1 DEF Submit
  <2>3. order_timestamps' \in [Traders -> Seq(Times)]
    <3>1. Window(o.trader, o.submit_time) \in Seq(Times)
      BY <2>1, WindowTyped DEF RiskTypeOK
    <3> QED BY <2>2, <3>1 DEF check_order, RiskTypeOK
  <2>4. accepted' \in [Traders -> Seq(Times)]
    <3>1. Append(accepted[o.trader], o.submit_time) \in Seq(Times)
      BY <2>1 DEF RiskTypeOK
    <3> QED BY <2>2, <3>1 DEF check_order, RiskTypeOK
  <2>5. orders_checked' \in Nat /\ orders_rejected' \in 0 .. orders_checked'
    BY <2>2 DEF check_order, RiskTypeOK
  <2>6. positions' \in [Traders -> [Symbols -> Int]] /\ net_position' \in [Traders -> Int]
    <3>1. CASE on_fill(o.trader, o.symbol, o.side, f)
      <4>1. Signed(o.side, f) \in Int
        BY DEF Signed
      <4>2. positions \in [Traders -> [Symbols -> Int]] /\ net_position \in [Traders -> Int]
        BY DEF RiskTypeOK
      <4> QED BY <2>1, <3>1, <4>1, <4>2 DEF on_fill
    <3>2. CASE UNCHANGED exposure
      BY <3>2 DEF exposure, RiskTypeOK
    <3> QED BY <1>1, <3>1, <3>2 DEF Submit
  <2> QED BY <2>2, <2>3, <2>4, <2>5, <2>6 DEF RiskTypeOK, limits, switches
<1>2. ASSUME NEW t \in Traders, kill_trader(t) \/ unkill_trader(t)
      PROVE  RiskTypeOK'
  BY <1>2 DEF kill_trader, unkill_trader, RiskTypeOK, limits, exposure, gate
<1>3. CASE kill_all \/ unkill_all
  BY <1>3 DEF kill_all, unkill_all, RiskTypeOK, limits, exposure, gate
<1>4. ASSUME NEW l \in LimitChoices, setDefaultLimits(l)
      PROVE  RiskTypeOK'
  BY <1>4 DEF setDefaultLimits, RiskTypeOK, switches, exposure, gate
<1>5. ASSUME NEW l \in LimitChoices, NEW t \in Traders, setTraderLimits(t, l)
      PROVE  RiskTypeOK'
  BY <1>5 DEF setTraderLimits, RiskTypeOK, switches, exposure, gate
<1>6. CASE UNCHANGED riskVars
  BY <1>6 DEF riskVars, limits, exposure, switches, gate, RiskTypeOK
<1> QED BY <1>1, <1>2, <1>3, <1>4, <1>5, <1>6 DEF RiskNext, Operate

(* A new risk engine has no positions, stamps or killed traders.           *)
LEMMA RiskTypedInit == RiskInit => RiskTypeOK
<1> SUFFICES ASSUME RiskInit PROVE RiskTypeOK
  OBVIOUS
<1> USE DEF RiskInit
<1>1. /\ \A t \in DOMAIN trader_limits : t \in Traders /\ trader_limits[t] \in LimitChoices
      /\ default_limits \in LimitChoices \cup {DefaultLimits}
  OBVIOUS
<1>2. positions \in [Traders -> [Symbols -> Int]] /\ net_position \in [Traders -> Int]
  OBVIOUS
<1>3. order_timestamps \in [Traders -> Seq(Times)] /\ accepted \in [Traders -> Seq(Times)]
  OBVIOUS
<1>4. killed \in [Traders -> BOOLEAN] /\ global_kill \in BOOLEAN
  OBVIOUS
<1>5. orders_checked \in Nat /\ orders_rejected \in 0 .. orders_checked
  OBVIOUS
<1> QED BY <1>1, <1>2, <1>3, <1>4, <1>5 DEF RiskTypeOK

-------------------------------------------------------------------------------
(* The six components.                                                     *)

ServicesInv ==
  /\ ClockTypeOK /\ RiskTypeOK /\ TradeInv /\ SimpleInv /\ LatencyInv
  /\ TimerTypeOK /\ (component = "timers" => TimerInv)
  /\ TelemetryTypeOK /\ (component = "telemetry" => TelemetryInv)

(* The invariant of telemetry implies its types.                           *)
LEMMA TelemetryInvSuffices == TelemetryInv => TelemetryTypeOK /\ ClockTypeOK
<1> SUFFICES ASSUME TelemetryInv PROVE TelemetryTypeOK /\ ClockTypeOK
  OBVIOUS
<1>1. TelemetryTyped /\ Fits
  BY DEF TelemetryInv
<1>2. ClockTypeOK
  BY <1>1 DEF TelemetryTyped, ClockTypeOK
<1>3. \A x \in HistogramNames : histograms[x].total = Len(samples[x])
  BY <1>1 DEF Fits, HistogramFits
<1>4. \A n \in DOMAIN active_timers : active_timers[n] \in 0 .. MaxTime
  BY <1>1 DEF TelemetryTyped
<1> QED BY <1>1, <1>2, <1>3, <1>4 DEF TelemetryTyped, TelemetryTypeOK

(* The six components as they are constructed.                             *)
LEMMA ServicesInvInit == ServicesInit => ServicesInv
<1> SUFFICES ASSUME ServicesInit PROVE ServicesInv
  OBVIOUS
<1>1. RiskTypeOK /\ TradeInv /\ SimpleInv /\ LatencyInv
  BY RiskTypedInit, TradeInvInit, SimpleInvInit, LatencyInvStart DEF ServicesInit
<1>2. TimerInv /\ TelemetryInv
  BY TimerInvInit, TelemetryInvInit DEF ServicesInit
<1>3. TimerTypeOK /\ TelemetryTypeOK /\ ClockTypeOK
  BY <1>2, TelemetryInvSuffices DEF TimerInv
<1> QED BY <1>1, <1>2, <1>3 DEF ServicesInv

(* The clock moves without the timers.                                     *)
LEMMA TimersRest ==
  ASSUME TimerTypeOK, ClockTypeOK', UNCHANGED timerState
  PROVE  TimerTypeOK'
BY DEF TimerTypeOK, timerState

(* The clock moves without telemetry.                                      *)
LEMMA TelemetryRests ==
  ASSUME TelemetryTypeOK, ClockTypeOK', UNCHANGED telemetryState
  PROVE  TelemetryTypeOK'
BY DEF TelemetryTypeOK, telemetryState, resetState

(* A step of one component leaves the others to rest.                      *)
LEMMA ServicesInvStep ==
  ASSUME ServicesInv,
         [ServicesNext]_<<component, riskVars, tradeVars, simpleVars, timerVars,
                          telemetryState, latencyVars>>
  PROVE  ServicesInv'
<1>1. /\ ClockTypeOK /\ RiskTypeOK /\ TradeInv /\ SimpleInv /\ LatencyInv
      /\ TimerTypeOK /\ (component = "timers" => TimerInv)
      /\ TelemetryTypeOK /\ (component = "telemetry" => TelemetryInv)
  BY DEF ServicesInv
<1>2. component' = component
  BY DEF ServicesNext
<1>3. RiskTypeOK'
  <2>1. [RiskNext]_riskVars
    BY DEF ServicesNext
  <2> QED BY <1>1, <2>1, RiskTypedStep
<1>4. TradeInv'
  <2>1. [TradeNext]_tradeVars
    BY DEF ServicesNext
  <2> QED BY <1>1, <2>1, TradeInvStep
<1>5. SimpleInv'
  <2>1. [SimpleNext]_simpleVars
    BY DEF ServicesNext
  <2> QED BY <1>1, <2>1, SimpleInvStep
<1>6. LatencyInv'
  <2>1. [LatencyNext]_latencyVars
    BY DEF ServicesNext
  <2> QED BY <1>1, <2>1, LatencyInvStep
<1>7. CASE component = "timers"
  <2>1. [TimerNext]_timerVars /\ UNCHANGED telemetryState
    BY <1>7 DEF ServicesNext
  <2>2. TimerInv'
    BY <1>1, <1>7, <2>1, TimerInvStep
  <2>3. TimerTypeOK' /\ ClockTypeOK'
    BY <2>2 DEF TimerInv, TimerTypeOK
  <2>4. TelemetryTypeOK'
    BY <1>1, <2>1, <2>3, TelemetryRests
  <2> QED BY <1>2, <1>3, <1>4, <1>5, <1>6, <1>7, <2>2, <2>3, <2>4 DEF ServicesInv
<1>8. CASE component = "telemetry"
  <2>1. [TelemetryNext]_telemetryVars /\ UNCHANGED timerState
    <3>1. CASE ServicesNext
      BY <1>8, <3>1 DEF ServicesNext
    <3>2. CASE UNCHANGED <<timerVars, telemetryState>>
      BY <3>2 DEF timerVars, telemetryVars
    <3> QED BY <3>1, <3>2
  <2>2. TelemetryInv'
    BY <1>1, <1>8, <2>1, TelemetryInvStep
  <2>3. TelemetryTypeOK' /\ ClockTypeOK'
    <3>1. TelemetryTyped' /\ Fits'
      BY <2>2 DEF TelemetryInv
    <3>2. ClockTypeOK'
      BY <3>1 DEF TelemetryTyped, ClockTypeOK
    <3>3. \A x \in HistogramNames : histograms'[x].total = Len(samples'[x])
      BY <3>1 DEF Fits, HistogramFits
    <3>4. \A n \in DOMAIN active_timers' : active_timers'[n] \in 0 .. MaxTime
      BY <3>1 DEF TelemetryTyped
    <3> QED BY <3>1, <3>2, <3>3, <3>4 DEF TelemetryTyped, TelemetryTypeOK
  <2>4. TimerTypeOK'
    BY <1>1, <2>1, <2>3, TimersRest
  <2> QED BY <1>2, <1>3, <1>4, <1>5, <1>6, <1>8, <2>2, <2>3, <2>4 DEF ServicesInv
<1>9. CASE component # "timers" /\ component # "telemetry"
  <2>1. now' = now /\ UNCHANGED timerState /\ UNCHANGED telemetryState
    <3>1. CASE ServicesNext
      BY <1>9, <3>1 DEF ServicesNext, timerVars
    <3>2. CASE UNCHANGED <<timerVars, telemetryState>>
      BY <3>2 DEF timerVars
    <3> QED BY <3>1, <3>2
  <2>2. ClockTypeOK'
    BY <1>1, <2>1 DEF ClockTypeOK
  <2>3. TimerTypeOK' /\ TelemetryTypeOK'
    BY <1>1, <2>1, <2>2, TimersRest, TelemetryRests
  <2> QED BY <1>2, <1>3, <1>4, <1>5, <1>6, <1>9, <2>2, <2>3 DEF ServicesInv
<1> QED BY <1>7, <1>8, <1>9

(* Whichever of the six components runs, its state stays of its type.      *)
THEOREM ServicesTyped == ServicesSpec => []ServicesTypeOK
<1>1. ServicesInv /\ [ServicesNext]_<<component, riskVars, tradeVars, simpleVars, timerVars,
                                      telemetryState, latencyVars>> => ServicesInv'
  BY ServicesInvStep
<1>2. ServicesInv => ServicesTypeOK
  BY TradeInvSuffices, SimpleInvSuffices, LatencyInvSuffices DEF ServicesInv, ServicesTypeOK
<1> QED BY <1>1, <1>2, ServicesInvInit, PTL DEF ServicesSpec
===============================================================================
