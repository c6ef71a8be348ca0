-------------------------- MODULE MatchingEngineProofs ------------------------
(***************************************************************************)
(* The engine for any number of symbols, orders, traders and limits:       *)
(*   - no fill of the risk engine's own specification takes a position     *)
(*     over its limit, and no window holds more orders than the rate       *)
(*     limit, if orders arrive in the order of their submit times and the  *)
(*     rate is not reconfigured;                                           *)
(*   - no fill takes a tracked position over its limit;                    *)
(*   - every resting order is indexed under the symbol of its book, until  *)
(*     its id is sent for another symbol;                                  *)
(*   - kill_all from another thread admits nothing new but the one order   *)
(*     in flight;                                                          *)
(*   - what the feeds of a symbol show is its book.                        *)
(* For the rate limit the invariant says what the stamps a trader has left *)
(* are: the last of the orders accepted, down to one that has left the     *)
(* window of the latest.  The rest follows from EngineInv, with KillInv    *)
(* for kill_all and FeedsInv for the feeds; what a call makes of a book is *)
(* taken from L3BookLemmas.                                                *)
(***************************************************************************)
EXTENDS MatchingEngine, L3BookLemmas, CommonLemmas, FiniteSetTheorems, SequenceTheorems,
        TLAPS

-------------------------------------------------------------------------------
(* The risk engine.                                                        *)

LimitsTyped ==
  /\ \A t \in DOMAIN trader_limits : trader_limits[t] \in TraderRiskLimits
  /\ default_limits \in TraderRiskLimits

ExposureTyped ==
  /\ positions \in [Traders -> [Symbols -> Int]]
  /\ net_position \in [Traders -> Int]

(* A filled part of an order that passes the limit check leaves a position *)
(* within the limit, or nearer to zero than it was.                        *)
LEMMA FillOfCheckedOrder ==
  ASSUME NEW pos \in Int, NEW qty \in Int, NEW limit \in Nat, NEW side \in Sides,
         NEW filled \in 1 .. qty,
         Abs(pos + Signed(side, qty)) <= limit
  PROVE  \/ Abs(pos + Signed(side, filled)) <= limit
         \/ Abs(pos + Signed(side, filled)) < Abs(pos)
<1>1. CASE side = Buy
  BY <1>1 DEF Abs, Signed
<1>2. CASE side # Buy
  BY <1>2 DEF Abs, Signed
<1> QED BY <1>1, <1>2

(* The limits in force are limits.                                         *)
LEMMA LimitsInForce ==
  ASSUME LimitsTyped, NEW t
  PROVE  get_limits(t).max_position \in Nat /\ get_limits(t).max_net \in Nat
BY DEF LimitsTyped, get_limits, TraderRiskLimits

(* What an accepted order has passed.                                      *)
LEMMA AcceptedOrder ==
  ASSUME NEW o, Refusal(o) = "None"
  PROVE  check_quantity_validity(o) /\ check_position_limit(o)
BY DEF Refusal

(* Setting limits keeps them limits.                                       *)
LEMMA LimitsStep == LimitsTyped /\ [RiskNext]_riskVars => LimitsTyped'
<1> SUFFICES ASSUME LimitsTyped, [RiskNext]_riskVars
             PROVE  LimitsTyped'
  OBVIOUS
<1> USE DEF LimitsTyped
<1>1. ASSUME NEW t \in Traders, NEW l \in LimitChoices, setTraderLimits(t, l)
      PROVE  LimitsTyped'
  <2>1. l \in TraderRiskLimits
    BY LimitsAssumption
  <2> QED BY <1>1, <2>1 DEF setTraderLimits
<1>2. ASSUME NEW l \in LimitChoices, setDefaultLimits(l)
      PROVE  LimitsTyped'
  <2>1. l \in TraderRiskLimits
    BY LimitsAssumption
  <2> QED BY <1>2, <2>1 DEF setDefaultLimits
<1>3. CASE UNCHANGED limits
  BY <1>3 DEF limits
<1>4. ASSUME NEW o \in CheckedOrders, NEW f \in 0 .. Abs(o.qty), Submit(o, f)
      PROVE  UNCHANGED limits
  BY <1>4 DEF Submit
<1>5. ASSUME kill_all \/ unkill_all \/ \E t \in Traders : kill_trader(t) \/ unkill_trader(t)
      PROVE  UNCHANGED limits
  BY <1>5 DEF kill_all, unkill_all, kill_trader, unkill_trader
<1>6. CASE UNCHANGED riskVars
  BY <1>6 DEF riskVars, limits
<1> QED BY <1>1, <1>2, <1>3, <1>4, <1>5, <1>6 DEF RiskNext, Operate

(* Only the submission of an order moves a position.                       *)
LEMMA OnlyFillsMove ==
  ASSUME [RiskNext]_riskVars
  PROVE  \/ UNCHANGED exposure
         \/ \E o \in CheckedOrders : \E f \in 0 .. Abs(o.qty) :
              Submit(o, f) /\ Refusal(o) = "None" /\ f > 0
                /\ on_fill(o.trader, o.symbol, o.side, f)
<1>1. ASSUME NEW o \in CheckedOrders, NEW f \in 0 .. Abs(o.qty), Submit(o, f)
      PROVE  \/ UNCHANGED exposure
             \/ Refusal(o) = "None" /\ f > 0 /\ on_fill(o.trader, o.symbol, o.side, f)
  BY <1>1 DEF Submit
<1>2. ASSUME Operate
      PROVE  UNCHANGED exposure
  BY <1>2 DEF Operate, kill_all, unkill_all, kill_trader, unkill_trader,
       setTraderLimits, setDefaultLimits
<1>3. CASE UNCHANGED riskVars
  BY <1>3 DEF riskVars, exposure
<1> QED BY <1>1, <1>2, <1>3 DEF RiskNext

(* The fields of an order that the arithmetic needs.                       *)
LEMMA OrderFields ==
  ASSUME NEW o \in CheckedOrders
  PROVE  /\ o.trader \in Traders /\ o.symbol \in Symbols
         /\ o.side \in Sides /\ o.qty \in Int
BY QuantitiesAssumption DEF CheckedOrders

(* A signed quantity is an integer.                                        *)
LEMMA SignedInt == \A side \in Sides, q \in Int : Signed(side, q) \in Int
BY DEF Signed

(* Positions stay integers.                                                *)
LEMMA ExposureStep == ExposureTyped /\ [RiskNext]_riskVars => ExposureTyped'
<1> SUFFICES ASSUME ExposureTyped, [RiskNext]_riskVars
             PROVE  ExposureTyped'
  OBVIOUS
<1>1. CASE UNCHANGED exposure
  BY <1>1 DEF exposure, ExposureTyped
<1>2. ASSUME NEW o \in CheckedOrders, NEW f \in 0 .. Abs(o.qty),
             on_fill(o.trader, o.symbol, o.side, f)
      PROVE  ExposureTyped'
  <2>1. Signed(o.side, f) \in Int
    BY OrderFields, SignedInt
  <2> QED BY <1>2, <2>1, OrderFields DEF on_fill, ExposureTyped
<1> QED BY <1>1, <1>2, OnlyFillsMove

ExposureInv == LimitsTyped /\ ExposureTyped

(* Limits are limits and positions are integers in every reachable state.  *)
THEOREM ExposureTypes == RiskSpec => []ExposureInv
<1>1. RiskInit => ExposureInv
  <2> SUFFICES ASSUME RiskInit PROVE ExposureInv
    OBVIOUS
  <2>1. DefaultLimits \in TraderRiskLimits
    BY LimitsAssumption
  <2> QED BY <2>1 DEF RiskInit, ExposureInv, LimitsTyped, ExposureTyped
<1>2. ExposureInv /\ [RiskNext]_riskVars => ExposureInv'
  BY LimitsStep, ExposureStep DEF ExposureInv
<1> QED BY <1>1, <1>2, PTL DEF RiskSpec

StepRespectsLimits ==
  \A t \in Traders :
    /\ \A s \in Symbols :
         positions'[t][s] # positions[t][s] =>
           \/ Abs(positions'[t][s]) <= get_limits(t).max_position
           \/ Abs(positions'[t][s]) < Abs(positions[t][s])
    /\ net_position'[t] # net_position[t] =>
         \/ Abs(net_position'[t]) <= get_limits(t).max_net
         \/ Abs(net_position'[t]) < Abs(net_position[t])

(* One step from a state of the invariant.                                 *)
LEMMA StepOfInv == ExposureInv /\ [RiskNext]_riskVars => StepRespectsLimits
<1> SUFFICES ASSUME ExposureInv, [RiskNext]_riskVars, NEW t \in Traders
             PROVE  /\ \A s \in Symbols :
                         positions'[t][s] # positions[t][s] =>
                           \/ Abs(positions'[t][s]) <= get_limits(t).max_position
                           \/ Abs(positions'[t][s]) < Abs(positions[t][s])
                    /\ net_position'[t] # net_position[t] =>
                         \/ Abs(net_position'[t]) <= get_limits(t).max_net
                         \/ Abs(net_position'[t]) < Abs(net_position[t])
  BY DEF StepRespectsLimits
<1>1. CASE UNCHANGED exposure
  BY <1>1 DEF exposure
<1>2. ASSUME NEW o \in CheckedOrders, NEW f \in 0 .. Abs(o.qty),
             Refusal(o) = "None", f > 0, on_fill(o.trader, o.symbol, o.side, f)
      PROVE  /\ \A s \in Symbols :
                  positions'[t][s] # positions[t][s] =>
                    \/ Abs(positions'[t][s]) <= get_limits(t).max_position
                    \/ Abs(positions'[t][s]) < Abs(positions[t][s])
             /\ net_position'[t] # net_position[t] =>
                  \/ Abs(net_position'[t]) <= get_limits(t).max_net
                  \/ Abs(net_position'[t]) < Abs(net_position[t])
    <2>1. /\ o.trader \in Traders /\ o.symbol \in Symbols
          /\ o.side \in Sides /\ o.qty \in Int
      BY OrderFields
    <2>2. check_quantity_validity(o) /\ check_position_limit(o)
      BY <1>2, AcceptedOrder
    <2>3. f \in 1 .. o.qty
      BY <1>2, <2>1, <2>2 DEF check_quantity_validity, Abs
    <2>4. /\ get_limits(o.trader).max_position \in Nat
          /\ get_limits(o.trader).max_net \in Nat
      BY LimitsInForce DEF ExposureInv
    <2>5. positions[o.trader][o.symbol] \in Int /\ net_position[o.trader] \in Int
      BY <2>1 DEF ExposureInv, ExposureTyped
    <2>6. /\ Abs(positions[o.trader][o.symbol] + Signed(o.side, o.qty))
               <= get_limits(o.trader).max_position
          /\ Abs(net_position[o.trader] + Signed(o.side, o.qty))
               <= get_limits(o.trader).max_net
      BY <2>2 DEF check_position_limit
    <2>7. LET moved == positions[o.trader][o.symbol] + Signed(o.side, f)
          IN  \/ Abs(moved) <= get_limits(o.trader).max_position
              \/ Abs(moved) < Abs(positions[o.trader][o.symbol])
      BY <2>1, <2>3, <2>4, <2>5, <2>6, FillOfCheckedOrder
    <2>8. LET moved == net_position[o.trader] + Signed(o.side, f)
          IN  \/ Abs(moved) <= get_limits(o.trader).max_net
              \/ Abs(moved) < Abs(net_position[o.trader])
      BY <2>1, <2>3, <2>4, <2>5, <2>6, FillOfCheckedOrder
    <2>9. \A s \in Symbols :
            positions'[t][s] = IF t = o.trader /\ s = o.symbol
                               THEN positions[t][s] + Signed(o.side, f)
                               ELSE positions[t][s]
      BY <1>2, <2>1 DEF on_fill, ExposureInv, ExposureTyped
    <2>10. net_position'[t] = IF t = o.trader THEN net_position[t] + Signed(o.side, f)
                              ELSE net_position[t]
      BY <1>2, <2>1 DEF on_fill, ExposureInv, ExposureTyped
    <2> QED BY <2>7, <2>8, <2>9, <2>10
<1> QED BY <1>1, <1>2, OnlyFillsMove

(* No fill takes a position over the limit in force at the time, unless it *)
(* reduces one that an earlier limit allowed.                              *)
THEOREM FillsWithinLimits == RiskSpec => FillsRespectLimits
<1>1. ExposureInv /\ [RiskNext]_riskVars => [StepRespectsLimits]_riskVars
  BY StepOfInv
<1>2. [][StepRespectsLimits]_riskVars <=> FillsRespectLimits
  BY DEF StepRespectsLimits, FillsRespectLimits
<1> QED BY <1>1, <1>2, ExposureTypes, PTL DEF RiskSpec

-------------------------------------------------------------------------------
(* The rate limit.                                                         *)

Rate == DefaultLimits.max_rate
Span == DefaultLimits.window

(* Whatever limits are set, they have the rate and window of the default.  *)
RateFixed == \A l \in LimitChoices : l.max_rate = Rate /\ l.window = Span

(* W are the stamps left of a trader whose orders were accepted at the     *)
(* times A: the last ones, at most r, those before them out of the window  *)
(* of the latest; and r orders always take longer than a window.           *)
WindowOf(A, W, r, w) ==
  /\ Len(W) <= r /\ Len(W) <= Len(A)
  /\ \A k \in 1 .. Len(W) : W[k] = A[Len(A) - Len(W) + k]
  /\ \A i, j \in 1 .. Len(A) : i <= j => A[i] <= A[j]
  /\ \A k \in 1 .. (Len(A) - Len(W)) : A[k] + w < A[Len(A)]
  /\ \A k \in 1 .. (Len(A) - r) : A[k] + w < A[k + r]

WindowsTyped ==
  /\ order_timestamps \in [Traders -> Seq(Times)]
  /\ accepted \in [Traders -> Seq(Times)]

LimitsChosen ==
  /\ \A t \in DOMAIN trader_limits : trader_limits[t] \in LimitChoices
  /\ default_limits \in LimitChoices \cup {DefaultLimits}

RateInv ==
  /\ LimitsChosen
  /\ WindowsTyped
  /\ \A t \in Traders : WindowOf(accepted[t], order_timestamps[t], Rate, Span)

(* Accepting an order at a time not before the others, after dropping the  *)
(* first d stamps, leaves such a window again.                             *)
LEMMA WindowAfterAccept ==
  ASSUME NEW A \in Seq(Times), NEW W \in Seq(Times), NEW r \in Nat, NEW w \in Nat,
         WindowOf(A, W, r, w), NEW now \in Times, \A k \in 1 .. Len(A) : A[k] <= now,
         NEW d \in 0 .. Len(W), \A k \in 1 .. d : W[k] + w < now,
         Len(SubSeq(W, d + 1, Len(W))) < r
  PROVE  WindowOf(Append(A, now), Append(SubSeq(W, d + 1, Len(W)), now), r, w)
<1> DEFINE n == Len(A)
           m == Len(W)
           U == SubSeq(W, d + 1, m)
           A2 == Append(A, now)
           U2 == Append(U, now)
<1>1. /\ n \in Nat /\ m \in Nat /\ d \in Nat /\ d <= m
      /\ \A k \in 1 .. n : A[k] \in Nat
      /\ \A k \in 1 .. m : W[k] \in Times
      /\ now \in Nat
  <2>1. Times \subseteq Nat
    BY TimesAssumption, TimeWrapAssumption
  <2>2. n \in Nat /\ m \in Nat
    BY LenProperties
  <2>3. (\A k \in 1 .. n : A[k] \in Times) /\ \A k \in 1 .. m : W[k] \in Times
    BY ElementOfSeq
  <2>4. d \in 0 .. m /\ now \in Times
    OBVIOUS
  <2> HIDE DEF n, m, U, A2, U2
  <2>5. d \in Nat /\ d <= m /\ now \in Nat
    BY <2>1, <2>2, <2>4
  <2>6. \A k \in 1 .. n : A[k] \in Nat
    BY <2>1, <2>3
  <2> QED BY <2>2, <2>3, <2>5, <2>6
<1>2. U \in Seq(Times) /\ Len(U) = m - d /\ \A k \in 1 .. (m - d) : U[k] = W[d + k]
  <2>1. d + 1 \in Int /\ m \in Int /\ \A k \in (d + 1) .. m : W[k] \in Times
    BY <1>1
  <2>2. /\ U \in Seq(Times) /\ Len(U) = (IF d + 1 <= m THEN m - (d + 1) + 1 ELSE 0)
        /\ \A k \in 1 .. (m - (d + 1) + 1) : U[k] = W[(d + 1) + k - 1]
    BY <2>1, SubSeqProperties
  <2> HIDE DEF U, m
  <2>3. m - (d + 1) + 1 = m - d /\ \A k \in 1 .. (m - d) : (d + 1) + k - 1 = d + k
    BY <1>1
  <2> QED BY <1>1, <2>2, <2>3
<1>3. /\ Len(A2) = n + 1 /\ A2[n + 1] = now /\ \A k \in 1 .. n : A2[k] = A[k]
      /\ Len(U2) = m - d + 1 /\ U2[m - d + 1] = now
      /\ \A k \in 1 .. (m - d) : U2[k] = W[d + k]
  BY <1>2, AppendProperties
<1>4. /\ m <= r /\ m <= n
      /\ \A k \in 1 .. m : W[k] = A[n - m + k]
      /\ \A i, j \in 1 .. n : i <= j => A[i] <= A[j]
      /\ \A k \in 1 .. (n - m) : A[k] + w < A[n]
      /\ \A k \in 1 .. (n - r) : A[k] + w < A[k + r]
  BY DEF WindowOf
<1>5. m - d < r
  BY <1>2
<1> HIDE DEF n, m, U, A2, U2
<1>6. ASSUME NEW k \in 1 .. (n - m + d) PROVE k \in 1 .. n /\ A[k] + w < now
  <2>1. CASE k <= n - m
    <3>1. n \in 1 .. n /\ k \in 1 .. n /\ k \in 1 .. (n - m)
      BY <1>1, <1>4, <2>1
    <3>2. A[k] + w < A[n] /\ A[n] <= now
      BY <1>4, <3>1 DEF n
    <3> QED BY <1>1, <3>1, <3>2
  <2>2. CASE k > n - m
    <3>1. k - (n - m) \in 1 .. d /\ k - (n - m) \in 1 .. m /\ n - m + (k - (n - m)) = k
          /\ k \in 1 .. n
      BY <1>1, <1>4, <2>2
    <3>2. W[k - (n - m)] = A[k] /\ W[k - (n - m)] + w < now
      BY <1>4, <3>1
    <3> QED BY <3>1, <3>2
  <2> QED BY <1>1, <1>4, <2>1, <2>2
<1>7. Len(U2) <= r /\ Len(U2) <= Len(A2)
  BY <1>1, <1>3, <1>4, <1>5
<1>8. ASSUME NEW k \in 1 .. (m - d + 1) PROVE U2[k] = A2[(n + 1) - (m - d + 1) + k]
  <2>1. CASE k = m - d + 1
    <3>1. (n + 1) - (m - d + 1) + k = n + 1
      BY <1>1, <2>1
    <3> QED BY <1>3, <2>1, <3>1
  <2>2. CASE k # m - d + 1
    <3>1. /\ k \in 1 .. (m - d) /\ d + k \in 1 .. m /\ n - m + (d + k) \in 1 .. n
          /\ (n + 1) - (m - d + 1) + k = n - m + (d + k)
      BY <1>1, <1>4, <2>2
    <3> QED BY <1>3, <1>4, <3>1
  <2> QED BY <2>1, <2>2
<1>9. ASSUME NEW i \in 1 .. (n + 1), NEW j \in 1 .. (n + 1), i <= j
      PROVE  A2[i] <= A2[j]
  <2>1. CASE j \in 1 .. n
    <3>1. i \in 1 .. n
      BY <1>1, <1>9, <2>1
    <3> QED BY <1>3, <1>4, <1>9, <2>1, <3>1
  <2>2. CASE j = n + 1 /\ i \in 1 .. n
    BY <1>3, <2>2 DEF n
  <2>3. CASE j = n + 1 /\ i = n + 1
    BY <1>1, <1>3, <2>3
  <2> QED BY <1>1, <2>1, <2>2, <2>3
<1>10. ASSUME NEW k \in 1 .. ((n + 1) - (m - d + 1)) PROVE A2[k] + w < A2[n + 1]
  <2>1. k \in 1 .. (n - m + d)
    BY <1>1
  <2> QED BY <1>3, <1>6, <2>1
<1>11. ASSUME NEW k \in 1 .. ((n + 1) - r) PROVE A2[k] + w < A2[k + r]
  <2>1. CASE k = n + 1 - r
    <3>1. k \in 1 .. (n - m + d) /\ k + r = n + 1
      BY <1>1, <1>4, <1>5, <2>1
    <3> QED BY <1>3, <1>6, <3>1
  <2>2. CASE k # n + 1 - r
    <3>1. k \in 1 .. (n - r) /\ k \in 1 .. n /\ k + r \in 1 .. n
      BY <1>1, <2>2
    <3> QED BY <1>3, <1>4, <3>1
  <2> QED BY <2>1, <2>2
<1> QED BY <1>3, <1>7, <1>8, <1>9, <1>10, <1>11 DEF WindowOf, A2, U2, U, m

(* What check_rate_limit leaves of the stamps at a time not before any of  *)
(* them: all but some first ones that are out of the window.               *)
LEMMA UnexpiredIs ==
  ASSUME NEW t, NEW now \in Times, order_timestamps[t] \in Seq(Times),
         get_limits(t).window = Span, Span \in Nat,
         \A k \in 1 .. Len(order_timestamps[t]) : order_timestamps[t][k] <= now
  PROVE  \E d \in 0 .. Len(order_timestamps[t]) :
           /\ Unexpired(t, now)
                = SubSeq(order_timestamps[t], d + 1, Len(order_timestamps[t]))
           /\ \A k \in 1 .. d : order_timestamps[t][k] + Span < now
<1> DEFINE W == order_timestamps[t]
           m == Len(W)
           kept == {i \in 1 .. m : ~Expired(t, now, W[i])}
           first == IF kept # {} THEN Min(kept) ELSE 0
<1>1. m \in Nat /\ \A k \in 1 .. m : W[k] \in Times /\ W[k] \in Nat /\ W[k] <= now
  <2>1. Times \subseteq Nat
    BY TimesAssumption, TimeWrapAssumption
  <2>2. m \in Nat /\ \A k \in 1 .. m : W[k] \in Times
    BY LenProperties, ElementOfSeq
  <2> QED BY <2>1, <2>2
<1>2. Unexpired(t, now) = IF first = 0 THEN <<>> ELSE SubSeq(W, first, m)
  BY DEF Unexpired, SelectInSeq
<1>3. ASSUME NEW k \in 1 .. m PROVE Expired(t, now, W[k]) <=> W[k] + Span < now
  <2>1. /\ now \in 0 .. (TimeWrap - 1) /\ W[k] \in 0 .. (TimeWrap - 1) /\ W[k] <= now
        /\ TimeWrap \in Nat \ {0}
    BY <1>1, TimesAssumption, TimeWrapAssumption
  <2>2. now - W[k] \in 0 .. (TimeWrap - 1)
    BY <2>1
  <2>3. Age(now, W[k]) = now - W[k]
    BY <2>1, <2>2, ModSmall DEF Age
  <2> QED BY <2>1, <2>3 DEF Expired
<1> HIDE DEF m
<1>4. CASE kept = {}
  <2>1. Unexpired(t, now) = <<>>
    BY <1>2, <1>4
  <2>2. SubSeq(W, m + 1, m) = <<>>
    BY <1>1, SubSeqEmpty
  <2>3. m \in 0 .. m
    BY <1>1
  <2>4. \A k \in 1 .. m : W[k] + Span < now
    BY <1>3, <1>4
  <2> QED BY <2>1, <2>2, <2>3, <2>4 DEF m
<1>5. CASE kept # {}
  <2>1. /\ first \in kept /\ \A k \in kept : first <= k
    <3>1. kept \in SUBSET Nat
      BY <1>1
    <3>2. \E i \in kept : \A k \in kept : i <= k
      BY <1>5, <3>1, LeastElement
    <3> QED BY <1>5, <3>2 DEF Min
  <2> HIDE DEF first
  <2>2. first \in 1 .. m /\ first - 1 \in 0 .. m /\ (first - 1) + 1 = first /\ first # 0
    BY <1>1, <2>1
  <2>3. \A k \in 1 .. (first - 1) : k \in 1 .. m /\ ~(first <= k)
    BY <1>1, <2>2
  <2>4. \A k \in 1 .. (first - 1) : W[k] + Span < now
    BY <1>3, <2>1, <2>3
  <2> QED BY <1>2, <2>2, <2>4 DEF m
<1> QED BY <1>4, <1>5

(* The limits in force have the fixed rate and window.                     *)
LEMMA RateInForce ==
  ASSUME RateFixed, LimitsChosen, NEW t
  PROVE  /\ get_limits(t).max_rate = Rate /\ get_limits(t).window = Span
         /\ Rate \in Nat /\ Span \in Nat
  BY LimitsAssumption DEF RateFixed, LimitsChosen, get_limits, Rate, Span, TraderRiskLimits

(* A window holds at most r orders, for two that are r apart are not both  *)
(* in it.                                                                  *)
LEMMA WindowBound ==
  ASSUME NEW A \in Seq(Times), NEW W, NEW r \in Nat, NEW w \in Nat, WindowOf(A, W, r, w),
         NEW from \in Times
  PROVE  Cardinality({k \in DOMAIN A : A[k] \in from .. (from + w)}) <= r
<1> DEFINE n == Len(A)
           K == {k \in DOMAIN A : A[k] \in from .. (from + w)}
<1>1. /\ n \in Nat /\ DOMAIN A = 1 .. n /\ from \in Nat
      /\ \A k \in 1 .. n : A[k] \in Nat
  <2>1. Times \subseteq Nat
    BY TimesAssumption, TimeWrapAssumption
  <2>2. n \in Nat /\ DOMAIN A = 1 .. n /\ \A k \in 1 .. n : A[k] \in Times
    BY LenProperties, ElementOfSeq
  <2> QED BY <2>1, <2>2
<1>2. /\ \A i, j \in 1 .. n : i <= j => A[i] <= A[j]
      /\ \A k \in 1 .. (n - r) : A[k] + w < A[k + r]
  BY DEF WindowOf
<1> SUFFICES Cardinality(K) <= r
  OBVIOUS
<1> HIDE DEF n
<1>3. CASE K = {}
  <2>1. Cardinality(K) = 0
    BY <1>3, FS_EmptySet
  <2> HIDE DEF K
  <2> QED BY <2>1
<1>4. CASE K # {}
  <2>1. K \in SUBSET Nat
    BY <1>1
  <2>2. PICK a \in K : \A k \in K : a <= k
    BY <1>4, <2>1, LeastElement
  <2>3. ASSUME NEW k \in K PROVE k \in a .. (a + r - 1)
    <3>1. a \in 1 .. n /\ k \in 1 .. n /\ a <= k
      BY <1>1, <2>2
    <3>2. SUFFICES ASSUME k >= a + r PROVE FALSE
      BY <3>1
    <3>3. a \in 1 .. (n - r) /\ a + r \in 1 .. n
      BY <1>1, <3>1, <3>2
    <3>4. A[a] + w < A[a + r] /\ A[a + r] <= A[k]
      BY <1>2, <3>1, <3>2, <3>3
    <3>5. A[a] >= from /\ A[k] <= from + w /\ A[a] \in Nat /\ A[k] \in Nat /\ A[a + r] \in Nat
      BY <1>1, <3>1, <3>3
    <3> QED BY <1>1, <3>4, <3>5
  <2>4. K \subseteq a .. (a + r - 1) /\ a \in Nat
    BY <1>1, <2>3
  <2>5. /\ IsFiniteSet(a .. (a + r - 1))
        /\ Cardinality(a .. (a + r - 1)) <= r
    <3>1. a \in Int /\ a + r - 1 \in Int
      BY <2>4
    <3>2. Cardinality(a .. (a + r - 1)) = IF a > a + r - 1 THEN 0 ELSE (a + r - 1) - a + 1
      BY <3>1, FS_Interval
    <3> QED BY <2>4, <3>1, <3>2, FS_Interval
  <2>6. /\ Cardinality(K) <= Cardinality(a .. (a + r - 1))
        /\ Cardinality(K) \in Nat /\ Cardinality(a .. (a + r - 1)) \in Nat
    BY <2>4, <2>5, FS_Subset, FS_CardinalityType
  <2> HIDE DEF K
  <2> QED BY <2>5, <2>6
<1> QED BY <1>3, <1>4

(* What a check leaves of its trader's stamps: an accepted order adds its  *)
(* own; a refused one adds none, and if it was refused for the rate there  *)
(* was none to drop, since the window never holds more than the rate.      *)
LEMMA CheckedWindow ==
  ASSUME RateFixed, InOrder, RateInv, NEW o \in CheckedOrders, InSubmitOrder(o),
         check_order(o)
  PROVE  WindowsTyped'
         /\ \A t \in Traders : WindowOf(accepted'[t], order_timestamps'[t], Rate, Span)
<1> DEFINE x == o.trader
           time == o.submit_time
           W == order_timestamps[x]
           A == accepted[x]
           r == Refusal(o)
<1>1. x \in Traders /\ time \in Times
  BY DEF CheckedOrders
<1>2. /\ get_limits(x).max_rate = Rate /\ get_limits(x).window = Span
      /\ Rate \in Nat /\ Span \in Nat
  BY RateInForce DEF RateInv
<1>3. /\ W \in Seq(Times) /\ A \in Seq(Times) /\ WindowOf(A, W, Rate, Span)
      /\ Len(W) \in Nat /\ Len(A) \in Nat /\ DOMAIN A = 1 .. Len(A)
  <2>1. W \in Seq(Times) /\ A \in Seq(Times) /\ WindowOf(A, W, Rate, Span)
    BY <1>1 DEF RateInv, WindowsTyped
  <2> QED BY <2>1, LenProperties
<1>4. \A k \in 1 .. Len(A) : A[k] <= time
  BY <1>3 DEF InSubmitOrder
<1>5. \A k \in 1 .. Len(W) : W[k] <= time
  <2>1. /\ Len(W) <= Len(A)
        /\ \A k \in 1 .. Len(W) : W[k] = A[Len(A) - Len(W) + k]
    BY <1>3 DEF WindowOf
  <2>2. ASSUME NEW k \in 1 .. Len(W) PROVE Len(A) - Len(W) + k \in 1 .. Len(A)
    <3> HIDE DEF W, A
    <3> QED BY <1>3, <2>1
  <2> QED BY <1>4, <2>1, <2>2
<1>6. PICK d \in 0 .. Len(W) :
        /\ Unexpired(x, time) = SubSeq(W, d + 1, Len(W))
        /\ \A k \in 1 .. d : W[k] + Span < time
  BY <1>1, <1>2, <1>3, <1>5, UnexpiredIs
<1>7. /\ order_timestamps' = [order_timestamps EXCEPT ![x] =
                                IF r \in {"None", "RateLimit"} THEN Window(x, time) ELSE @]
      /\ accepted' = [accepted EXCEPT ![x] = IF r = "None" THEN Append(@, time) ELSE @]
  BY DEF check_order
<1>8. CASE r = "None"
  <2>1. check_rate_limit(x, time)
    BY <1>8 DEF Refusal
  <2>2. Len(SubSeq(W, d + 1, Len(W))) < Rate
    BY <1>2, <1>6, <2>1 DEF check_rate_limit
  <2>3. WindowOf(Append(A, time), Append(SubSeq(W, d + 1, Len(W)), time), Rate, Span)
    BY <1>1, <1>2, <1>3, <1>4, <1>6, <2>2, WindowAfterAccept
  <2>4. Append(SubSeq(W, d + 1, Len(W)), time) \in Seq(Times) /\ Append(A, time) \in Seq(Times)
    <3>1. \A k \in (d + 1) .. Len(W) : W[k] \in Times
      <4>1. \A k \in (d + 1) .. Len(W) : k \in 1 .. Len(W)
        BY <1>3
      <4> QED BY <1>3, <4>1, ElementOfSeq
    <3>2. SubSeq(W, d + 1, Len(W)) \in Seq(Times)
      BY <1>3, <3>1, SubSeqProperties
    <3> QED BY <1>1, <1>3, <3>2, AppendProperties
  <2>5. Window(x, time) = Append(SubSeq(W, d + 1, Len(W)), time)
    BY <1>6, <2>1 DEF Window
  <2>6. /\ order_timestamps' = [order_timestamps EXCEPT ![x] =
                                  Append(SubSeq(W, d + 1, Len(W)), time)]
        /\ accepted' = [accepted EXCEPT ![x] = Append(A, time)]
    BY <1>7, <1>8, <2>5
  <2> HIDE DEF x, W, A
  <2> QED BY <1>1, <2>3, <2>4, <2>6 DEF RateInv, WindowsTyped
<1>9. CASE r = "RateLimit"
  <2>1. ~check_rate_limit(x, time)
    BY <1>9 DEF Refusal
  <2>2. ~(Len(SubSeq(W, d + 1, Len(W))) < Rate)
    BY <1>2, <1>6, <2>1 DEF check_rate_limit
  <2>3. d = 0
    <3>1. Len(SubSeq(W, d + 1, Len(W)))
            = IF d + 1 <= Len(W) THEN Len(W) - (d + 1) + 1 ELSE 0
      <4>1. \A k \in (d + 1) .. Len(W) : W[k] \in Times
        <5>1. \A k \in (d + 1) .. Len(W) : k \in 1 .. Len(W)
          BY <1>3
        <5> QED BY <1>3, <5>1, ElementOfSeq
      <4> QED BY <1>3, <4>1, SubSeqProperties
    <3>2. Len(W) <= Rate
      BY <1>3 DEF WindowOf
    <3>3. d \in 0 .. Len(W)
      OBVIOUS
    <3>4. CASE d + 1 <= Len(W)
      <4>1. Len(SubSeq(W, d + 1, Len(W))) = Len(W) - (d + 1) + 1
        BY <3>1, <3>4
      <4>2. ~(Len(W) - (d + 1) + 1 < Rate)
        BY <2>2, <4>1
      <4> HIDE DEF W
      <4> QED BY <1>2, <1>3, <3>2, <3>3, <4>2
    <3>5. CASE ~(d + 1 <= Len(W))
      <4>1. ~(0 < Rate)
        BY <2>2, <3>1, <3>5
      <4> HIDE DEF W
      <4> QED BY <1>2, <1>3, <3>2, <3>3, <4>1
    <3> QED BY <3>4, <3>5
  <2>4. Window(x, time) = W
    <3>1. SubSeq(W, 0 + 1, Len(W)) = W
      BY <1>3, SubSeqFull
    <3> QED BY <1>6, <2>1, <2>3, <3>1 DEF Window
  <2>5. UNCHANGED <<order_timestamps, accepted>>
    BY <1>1, <1>7, <1>9, <2>4 DEF RateInv, WindowsTyped
  <2> QED BY <2>5 DEF RateInv, WindowsTyped
<1>10. CASE r \notin {"None", "RateLimit"}
  <2>1. UNCHANGED <<order_timestamps, accepted>>
    BY <1>1, <1>7, <1>10 DEF RateInv, WindowsTyped
  <2> QED BY <2>1 DEF RateInv, WindowsTyped
<1> QED BY <1>8, <1>9, <1>10

LEMMA RateInvStep == ASSUME RateFixed, InOrder, RateInv, [RiskNext]_riskVars PROVE RateInv'
<1>1. ASSUME NEW o \in CheckedOrders, NEW f \in 0 .. Abs(o.qty), Submit(o, f)
      PROVE  RateInv'
  <2>1. InSubmitOrder(o) /\ check_order(o) /\ UNCHANGED <<trader_limits, default_limits>>
    BY <1>1 DEF Submit, limits
  <2>2. LimitsChosen'
    BY <2>1 DEF RateInv, LimitsChosen
  <2> QED BY <2>1, <2>2, CheckedWindow DEF RateInv
<1>2. ASSUME Operate PROVE LimitsChosen' /\ UNCHANGED <<order_timestamps, accepted>>
  <2>1. ASSUME NEW t \in Traders, NEW l \in LimitChoices, setTraderLimits(t, l)
        PROVE  LimitsChosen' /\ UNCHANGED <<order_timestamps, accepted>>
    BY <2>1 DEF setTraderLimits, RateInv, LimitsChosen, gate
  <2>2. ASSUME NEW l \in LimitChoices, setDefaultLimits(l)
        PROVE  LimitsChosen' /\ UNCHANGED <<order_timestamps, accepted>>
    BY <2>2 DEF setDefaultLimits, RateInv, LimitsChosen, gate
  <2>3. ASSUME kill_all \/ unkill_all \/ \E t \in Traders : kill_trader(t) \/ unkill_trader(t)
        PROVE  LimitsChosen' /\ UNCHANGED <<order_timestamps, accepted>>
    BY <2>3 DEF kill_all, unkill_all, kill_trader, unkill_trader, limits, gate, RateInv,
       LimitsChosen
  <2> QED BY <1>2, <2>1, <2>2, <2>3 DEF Operate
<1>3. ASSUME LimitsChosen', UNCHANGED <<order_timestamps, accepted>> PROVE RateInv'
  BY <1>3 DEF RateInv, WindowsTyped
<1>4. CASE UNCHANGED riskVars
  BY <1>3, <1>4 DEF riskVars, limits, gate, RateInv, LimitsChosen
<1> QED BY <1>1, <1>2, <1>3, <1>4 DEF RiskNext

(* If orders arrive in the order of their submit times and nobody changes  *)
(* the rate, no span of the window's length holds more accepted orders of  *)
(* a trader than the limit, whatever is refused in between and why.        *)
THEOREM RateLimited == ASSUME RateFixed, InOrder PROVE RiskSpec => []RateRespected
<1>1. RiskInit => RateInv
  <2> SUFFICES ASSUME RiskInit PROVE RateInv
    OBVIOUS
  <2>1. Rate \in Nat /\ Span \in Nat
    BY LimitsAssumption DEF Rate, Span, TraderRiskLimits
  <2>2. WindowOf(<<>>, <<>>, Rate, Span)
    BY <2>1 DEF WindowOf
  <2>3. LimitsChosen /\ WindowsTyped
    BY DEF RiskInit, LimitsChosen, WindowsTyped
  <2> QED BY <2>2, <2>3 DEF RiskInit, RateInv
<1>2. RateInv /\ [RiskNext]_riskVars => RateInv'
  BY RateInvStep
<1>3. RateInv => RateRespected
  <2> SUFFICES ASSUME RateInv, NEW t \in Traders, NEW from \in Times
               PROVE  Cardinality({k \in DOMAIN accepted[t] :
                                     accepted[t][k] \in from .. (from + get_limits(t).window)})
                        <= get_limits(t).max_rate
    BY DEF RateRespected
  <2>1. /\ get_limits(t).max_rate = Rate /\ get_limits(t).window = Span
        /\ Rate \in Nat /\ Span \in Nat
    BY RateInForce DEF RateInv
  <2>2. accepted[t] \in Seq(Times) /\ WindowOf(accepted[t], order_timestamps[t], Rate, Span)
    BY DEF RateInv, WindowsTyped
  <2>3. Cardinality({k \in DOMAIN accepted[t] : accepted[t][k] \in from .. (from + Span)})
          <= Rate
    BY <2>1, <2>2, WindowBound
  <2> QED BY <2>1, <2>3
<1> QED BY <1>1, <1>2, <1>3, PTL DEF RiskSpec

-------------------------------------------------------------------------------
(* The risk engine.                                                        *)

(* The window that check_rate_limit leaves is one of submit times.         *)
LEMMA WindowTyped ==
  ASSUME NEW t, NEW now \in Times, order_timestamps[t] \in Seq(Times)
  PROVE  Window(t, now) \in Seq(Times)
<1> DEFINE W == order_timestamps[t]
           kept == {i \in 1 .. Len(W) : ~Expired(t, now, W[i])}
           first == IF kept # {} THEN Min(kept) ELSE 0
<1>1. Len(W) \in Nat /\ \A i \in 1 .. Len(W) : W[i] \in Times
  BY LenProperties, ElementOfSeq
<1>2. Unexpired(t, now) = IF first = 0 THEN <<>> ELSE SubSeq(W, first, Len(W))
  BY DEF Unexpired, SelectInSeq
<1>3. first = 0 \/ first \in 1 .. Len(W)
  <2>1. kept \in SUBSET Nat /\ kept \subseteq 1 .. Len(W)
    BY <1>1
  <2>2. kept # {} => \E i \in kept : \A k \in kept : i <= k
    BY <2>1, LeastElement
  <2> HIDE DEF kept
  <2> QED BY <2>1, <2>2 DEF Min
<1> HIDE DEF first
<1>4. Unexpired(t, now) \in Seq(Times)
  <2>1. CASE first = 0
    BY <1>2, <2>1, EmptySeq
  <2>2. CASE first # 0
    <3>1. first \in Int /\ Len(W) \in Int /\ \A i \in first .. Len(W) : W[i] \in Times
      BY <1>1, <1>3, <2>2
    <3> HIDE DEF W
    <3>2. SubSeq(W, first, Len(W)) \in Seq(Times)
      BY <3>1, SubSeqProperties
    <3> QED BY <1>2, <2>2, <3>2 DEF W
  <2> QED BY <2>1, <2>2
<1>5. Append(Unexpired(t, now), now) \in Seq(Times)
  BY <1>4, AppendProperties
<1> QED BY <1>4, <1>5 DEF Window

(* Check of an order: the types of what it changes.                        *)
LEMMA CheckTyped ==
  ASSUME RiskTypeOK, NEW o, o.trader \in Traders, o.submit_time \in Times,
         check_order(o), UNCHANGED <<limits, exposure, switches>>
  PROVE  RiskTypeOK'
<1>1. order_timestamps[o.trader] \in Seq(Times) /\ accepted[o.trader] \in Seq(Times)
  BY DEF RiskTypeOK
<1>2. Window(o.trader, o.submit_time) \in Seq(Times)
  BY <1>1, WindowTyped
<1>3. Append(accepted[o.trader], o.submit_time) \in Seq(Times)
  BY <1>1, AppendProperties
<1>4. order_timestamps' \in [Traders -> Seq(Times)]
  BY <1>2 DEF check_order, RiskTypeOK
<1>5. accepted' \in [Traders -> Seq(Times)]
  BY <1>3 DEF check_order, RiskTypeOK
<1>6. orders_checked' \in Nat /\ orders_rejected' \in 0 .. orders_checked'
  BY DEF check_order, RiskTypeOK
<1>7. UNCHANGED <<trader_limits, default_limits, positions, net_position, killed, global_kill>>
  BY DEF limits, exposure, switches
<1> QED BY <1>4, <1>5, <1>6, <1>7 DEF RiskTypeOK

(* What the engine does to the limits: nothing.  Fills of a checked order   *)
(* keep the tracked positions within them.                                 *)
RiskInv == RiskTypeOK /\ TrackedWithinLimits

LEMMA LimitsOfTypes == RiskTypeOK => LimitsTyped
BY LimitsAssumption DEF RiskTypeOK, LimitsTyped

(* A fill of part of an order that has passed the check of its position.   *)
LEMMA FillTracked ==
  ASSUME RiskInv, NEW o, o.trader \in Traders, o.symbol \in Symbols, o.side \in Sides,
         o.qty \in Int, check_position_limit(o), NEW filled \in 1 .. o.qty,
         on_fill(o.trader, o.symbol, o.side, filled), UNCHANGED <<limits, switches, gate>>
  PROVE  RiskInv'
<1> DEFINE T == o.trader
           d == Signed(o.side, filled)
           L == get_limits(T)
<1>1. RiskTypeOK /\ TrackedWithinLimits
  BY DEF RiskInv
<1>2. /\ positions \in [Traders -> [Symbols -> Int]]
      /\ net_position \in [Traders -> Int]
  BY <1>1 DEF RiskTypeOK
<1>3. d \in Int
  BY SignedInt
<1>4. /\ positions' = [positions EXCEPT ![T][o.symbol] = @ + d]
      /\ net_position' = [net_position EXCEPT ![T] = @ + d]
  BY DEF on_fill
<1>5. /\ positions' \in [Traders -> [Symbols -> Int]]
      /\ net_position' \in [Traders -> Int]
      /\ \A t \in Traders, s \in Symbols :
           positions'[t][s] = IF t = T /\ s = o.symbol THEN positions[t][s] + d ELSE positions[t][s]
      /\ \A t \in Traders :
           net_position'[t] = IF t = T THEN net_position[t] + d ELSE net_position[t]
  <2> HIDE DEF d
  <2> QED BY <1>2, <1>3, <1>4
<1>6. RiskTypeOK'
  BY <1>1, <1>5 DEF RiskTypeOK, limits, switches, gate
<1>7. \A t : get_limits(t)' = get_limits(t)
  BY DEF get_limits, limits
<1>8. L.max_position \in Nat /\ L.max_net \in Nat
  BY <1>1, LimitsOfTypes, LimitsInForce
<1>9. /\ Abs(positions[T][o.symbol] + Signed(o.side, o.qty)) <= L.max_position
      /\ Abs(net_position[T] + Signed(o.side, o.qty)) <= L.max_net
      /\ Abs(positions[T][o.symbol]) <= L.max_position
      /\ Abs(net_position[T]) <= L.max_net
  BY <1>1 DEF check_position_limit, TrackedWithinLimits
<1>10. positions[T][o.symbol] \in Int /\ net_position[T] \in Int
  BY <1>2
<1> HIDE DEF d, L
<1>11. /\ Abs(positions[T][o.symbol] + d) <= L.max_position
       /\ Abs(net_position[T] + d) <= L.max_net
  <2>1. \A pos \in Int, limit \in Nat :
          Abs(pos) <= limit /\ Abs(pos + Signed(o.side, o.qty)) <= limit => Abs(pos + d) <= limit
    <3> SUFFICES ASSUME NEW pos \in Int, NEW limit \in Nat, Abs(pos) <= limit,
                        Abs(pos + Signed(o.side, o.qty)) <= limit
                 PROVE  Abs(pos + d) <= limit
      OBVIOUS
    <3>1. Abs(pos + d) <= limit \/ Abs(pos + d) < Abs(pos)
      BY FillOfCheckedOrder DEF d
    <3> QED BY <1>3, <3>1 DEF Abs
  <2> QED BY <1>8, <1>9, <1>10, <2>1
<1>12. TrackedWithinLimits'
  <2> SUFFICES ASSUME NEW t \in Traders
               PROVE  /\ Abs(net_position'[t]) <= get_limits(t).max_net
                      /\ \A s \in Symbols : Abs(positions'[t][s]) <= get_limits(t).max_position
    BY <1>7 DEF TrackedWithinLimits
  <2>1. /\ Abs(net_position[t]) <= get_limits(t).max_net
        /\ \A s \in Symbols : Abs(positions[t][s]) <= get_limits(t).max_position
    BY <1>1 DEF TrackedWithinLimits
  <2>2. Abs(net_position'[t]) <= get_limits(t).max_net
    BY <1>5, <1>11, <2>1 DEF L
  <2>3. ASSUME NEW s \in Symbols PROVE Abs(positions'[t][s]) <= get_limits(t).max_position
    BY <1>5, <1>11, <2>1 DEF L
  <2> QED BY <2>2, <2>3
<1> QED BY <1>6, <1>12 DEF RiskInv

(* The other steps change no position and no limit.                        *)
LEMMA TrackedStays ==
  ASSUME TrackedWithinLimits, UNCHANGED <<limits, exposure>>
  PROVE  TrackedWithinLimits'
<1>1. \A t : get_limits(t)' = get_limits(t)
  BY DEF get_limits, limits
<1> QED BY <1>1 DEF TrackedWithinLimits, exposure

-------------------------------------------------------------------------------
(* The market: books, feeds and routes.                                    *)

(* A resting order is indexed under the symbol of its book, if no order of *)
(* its id went to another symbol since it came to rest.                    *)
Routed ==
  \A s \in DOMAIN books : \A id \in DOMAIN books[s].index \ reused :
    id \in DOMAIN order_symbol_index /\ order_symbol_index[id] = s

BooksSound == \A s \in DOMAIN books : BookSound(books[s], OrderIds, Traders, LimitPrices)

MarketTyped ==
  /\ DOMAIN books \subseteq Symbols /\ DOMAIN feeds = DOMAIN books
  /\ DOMAIN depths \subseteq DOMAIN books
  /\ DOMAIN order_symbol_index \subseteq OrderIds
  /\ \A id \in DOMAIN order_symbol_index : order_symbol_index[id] \in DOMAIN books
  /\ tape \in [Symbols -> Seq(TapeEntry)]
  /\ reused \subseteq OrderIds

MarketInv == MarketTyped /\ BooksSound /\ Routed

(* NoSymbol asks process_cancel to look the order up in the index.         *)
LEMMA RoutedIsRoutable == MarketInv => Routable
<1> SUFFICES ASSUME MarketInv, NEW s \in DOMAIN books,
                    NEW id \in DOMAIN books[s].index \ reused
             PROVE  Route(id, NoSymbol) = s
  BY DEF Routable
<1> QED BY DEF MarketInv, Routed, Route

(* The checks, the kill switches and early returns leave the market alone. *)
LEMMA MarketStays == ASSUME MarketInv, UNCHANGED market PROVE MarketInv'
BY DEF MarketInv, MarketTyped, BooksSound, Routed, market

(* No order comes to rest.                                                 *)
NothingNewRests == \A id, s : RestsIn(id, s)' => RestsIn(id, s)

(* An id is dropped from those reused when it rests nowhere.               *)
LEMMA StaysReused ==
  ASSUME NEW ids, NEW id, NEW s \in Symbols, id \notin StillResting(ids), RestsIn(id, s)'
  PROVE  id \notin ids
BY DEF StillResting

(* A symbol added has an empty book.                                       *)
LEMMA SymbolAdded ==
  ASSUME MarketInv, NEW s \in Symbols, NEW junk, add_symbol(s, junk)
  PROVE  MarketInv' /\ NothingNewRests
<1>1. /\ books' = Put(books, s, EmptyBook) /\ DOMAIN books' = DOMAIN books \cup {s}
      /\ DOMAIN feeds' = DOMAIN feeds \cup {s}
      /\ UNCHANGED <<depths, order_symbol_index, tape, reused>>
      /\ s \notin DOMAIN books
  BY DEF add_symbol, Put
<1>2. MarketTyped'
  BY <1>1 DEF MarketInv, MarketTyped
<1>3. \A x \in DOMAIN books' : books'[x] = IF x = s THEN EmptyBook ELSE books[x]
  BY <1>1 DEF Put
<1>4. BooksSound'
  <2>1. BookSound(EmptyBook, OrderIds, Traders, LimitPrices)
    BY EmptyBookSound
  <2> QED BY <1>1, <1>3, <2>1 DEF MarketInv, BooksSound
<1>5. DOMAIN EmptyBook.index = {}
  BY DEF EmptyBook, EmptyMap
<1>6. Routed'
  BY <1>1, <1>3, <1>5 DEF MarketInv, Routed
<1>7. NothingNewRests
  BY <1>1, <1>3, <1>5 DEF NothingNewRests, RestsIn
<1> QED BY <1>2, <1>4, <1>6, <1>7 DEF MarketInv

(* What the tape holds after the trades of a call.                         *)
LEMMA TapeTyped ==
  ASSUME NEW s, tape[s] \in Seq(TapeEntry), NEW trader \in Traders, NEW side,
         NEW ts \in Seq(TradesMade(OrderIds, Traders, LimitPrices))
  PROVE  /\ TapeAfter(s, trader, side, ts) \in Seq(TapeEntry)
         /\ Len(TapeAfter(s, trader, side, ts)) = Len(tape[s]) + Len(ts)
         /\ \A i \in 1 .. Len(tape[s]) : TapeAfter(s, trader, side, ts)[i] = tape[s][i]
         /\ \A i \in 1 .. Len(ts) :
              /\ TapeAfter(s, trader, side, ts)[Len(tape[s]) + i].price = ts[i].price
              /\ TapeAfter(s, trader, side, ts)[Len(tape[s]) + i].qty = ts[i].qty
<1> DEFINE R == TradesMade(OrderIds, Traders, LimitPrices)
           E(k) == [price |-> ts[k].price, qty |-> ts[k].qty,
                    buyer |-> IF side = Buy THEN trader ELSE ts[k].trader,
                    seller |-> IF side = Buy THEN ts[k].trader ELSE trader]
           u == [k \in DOMAIN ts |-> E(k)]
<1>1. PICK n \in Nat : n = Len(ts) /\ DOMAIN ts = 1 .. n /\ \A k \in 1 .. n : ts[k] \in R
  BY LenProperties, ElementOfSeq
<1>2. \A k \in 1 .. n : E(k) \in TapeEntry
  BY <1>1, PricesAssumption DEF TradesMade, TapeEntry
<1>3. u \in [1 .. n -> TapeEntry] /\ \A k \in 1 .. n : u[k].price = ts[k].price /\ u[k].qty = ts[k].qty
  BY <1>1, <1>2
<1>4. TapeAfter(s, trader, side, ts) = tape[s] \o u
  BY DEF TapeAfter
<1> HIDE DEF E, u
<1>5. u \in Seq(TapeEntry) /\ Len(u) = n
  <2>1. u \in Seq(TapeEntry)
    BY <1>3, SeqDef
  <2>2. DOMAIN u = 1 .. n /\ DOMAIN u = 1 .. Len(u) /\ Len(u) \in Nat
    BY <1>3, <2>1, LenProperties
  <2> QED BY <2>1, <2>2
<1>6. PICK m \in Nat : m = Len(tape[s])
  BY LenProperties
<1>7. /\ tape[s] \o u \in Seq(TapeEntry)
      /\ Len(tape[s] \o u) = m + n
      /\ \A i \in 1 .. m + n : (tape[s] \o u)[i] = IF i <= m THEN tape[s][i] ELSE u[i - m]
  BY <1>5, <1>6, ConcatProperties
<1>8. \A i \in 1 .. m : (tape[s] \o u)[i] = tape[s][i]
  BY <1>7
<1>9. ASSUME NEW i \in 1 .. n PROVE (tape[s] \o u)[m + i] = u[i]
  <2>1. m + i \in 1 .. m + n /\ ~(m + i <= m) /\ (m + i) - m = i
    OBVIOUS
  <2> QED BY <1>7, <2>1
<1>10. ASSUME NEW i \in 1 .. n
       PROVE  (tape[s] \o u)[m + i].price = ts[i].price /\ (tape[s] \o u)[m + i].qty = ts[i].qty
  BY <1>3, <1>9
<1>11. Len(TapeAfter(s, trader, side, ts)) = Len(tape[s]) + Len(ts)
  BY <1>1, <1>4, <1>6, <1>7
<1> QED BY <1>1, <1>4, <1>6, <1>7, <1>8, <1>10, <1>11

(* What Publish makes of the market: one book is replaced.                 *)
LEMMA Published ==
  ASSUME MarketInv, NEW s \in DOMAIN books, NEW trader \in Traders, NEW side, NEW id, NEW r,
         CallSound(books[s], id, r, OrderIds, Traders, LimitPrices),
         Publish(s, trader, side, r)
  PROVE  /\ s \in Symbols
         /\ DOMAIN books' = DOMAIN books
         /\ \A x \in DOMAIN books : books'[x] = IF x = s THEN r.book ELSE books[x]
         /\ DOMAIN feeds' = DOMAIN feeds
         /\ DOMAIN depths' \subseteq DOMAIN books
         /\ tape' \in [Symbols -> Seq(TapeEntry)]
         /\ BooksSound'
         /\ Len(r.trades) \in Nat
<1>1. s \in Symbols /\ s \in DOMAIN feeds /\ DOMAIN depths \subseteq DOMAIN books
  BY DEF MarketInv, MarketTyped
<1>2. /\ r.trades \in Seq(TradesMade(OrderIds, Traders, LimitPrices))
      /\ BookSound(r.book, OrderIds, Traders, LimitPrices)
  BY DEF CallSound
<1>3. Len(r.trades) \in Nat
  BY <1>2, LenProperties
<1>4. /\ DOMAIN books' = DOMAIN books
      /\ \A x \in DOMAIN books : books'[x] = IF x = s THEN r.book ELSE books[x]
  BY DEF Publish, Put
<1>5. DOMAIN feeds' = DOMAIN feeds /\ DOMAIN depths' \subseteq DOMAIN books
  BY <1>1 DEF Publish, Put
<1>6. tape' \in [Symbols -> Seq(TapeEntry)]
  <2>1. tape \in [Symbols -> Seq(TapeEntry)]
    BY DEF MarketInv, MarketTyped
  <2>2. tape[s] \in Seq(TapeEntry)
    BY <1>1, <2>1
  <2>3. TapeAfter(s, trader, side, r.trades) \in Seq(TapeEntry)
    BY <1>2, <2>2, TapeTyped
  <2>4. tape' = [tape EXCEPT ![s] = TapeAfter(s, trader, side, r.trades)]
    BY DEF Publish
  <2> QED BY <2>1, <2>3, <2>4
<1>7. BooksSound'
  BY <1>2, <1>4 DEF MarketInv, BooksSound
<1> QED BY <1>1, <1>3, <1>4, <1>5, <1>6, <1>7

-------------------------------------------------------------------------------
(* The calls.                                                              *)

(* What holds of an order between its check and its execution.             *)
Checked(o) ==
  /\ o \in NewOrders /\ o.symbol \in DOMAIN books /\ o.qty > 0
  /\ check_position_limit(o)

CallInv == (pc = "idle" /\ pending = NoPending) \/ (pc = "checked" /\ Checked(pending))

StatsTyped == {orders_processed, trades_generated, cancels_processed, rejects} \subseteq Nat

(* An order submitted is one that L3BookLemmas speaks of.                  *)
LEMMA NewOrderFields ==
  ASSUME NEW o \in NewOrders
  PROVE  /\ Incoming(o, OrderIds, Traders, LimitPrices)
         /\ o.symbol \in Symbols /\ o.submit_time \in Times
BY QuantitiesAssumption DEF NewOrders, Incoming

(* An order executed: if it rests it is indexed, and what it fills is part *)
(* of what was checked.                                                    *)
LEMMA Executed ==
  ASSUME MarketInv, RiskInv, StatsTyped, NewExecute, Checked(pending)
  PROVE  /\ MarketInv' /\ RiskInv' /\ StatsTyped' /\ CallInv'
         /\ \A id, x : RestsIn(id, x)' =>
              RestsIn(id, x) \/ (id = pending.id /\ x = pending.symbol)
<1> DEFINE o == pending
           s == o.symbol
           b == books[s]
           r == add_order(b, o)
<1>1. /\ Incoming(o, OrderIds, Traders, LimitPrices) /\ o.symbol \in Symbols
      /\ s \in DOMAIN books /\ check_position_limit(o)
  BY NewOrderFields DEF Checked
<1>2. o.id \in OrderIds /\ o.trader \in Traders /\ o.side \in Sides /\ o.qty \in Int
  BY <1>1 DEF Incoming
<1>3. BookSound(b, OrderIds, Traders, LimitPrices)
  BY <1>1 DEF MarketInv, BooksSound
<1>4. /\ CallSound(b, o.id, r, OrderIds, Traders, LimitPrices)
      /\ o.id \in DOMAIN r.book.index =>
           o.id \in DOMAIN b.index \/ r.report.status \in {"New", "PartiallyFilled"}
      /\ o.id \in DOMAIN b.index => r.report.status = "Rejected"
      /\ r.report.filled_qty \in Nat
      /\ r.report.filled_qty > 0 => r.report.filled_qty <= o.qty
  BY <1>1, <1>3, PricesAssumption, AddOrderSound
<1>5. /\ Publish(s, o.trader, o.side, r)
      /\ order_symbol_index' = IF Indexed(r.report.status)
                               THEN Put(order_symbol_index, o.id, s)
                               ELSE order_symbol_index
      /\ IF r.report.filled_qty > 0
         THEN on_fill(o.trader, s, o.side, r.report.filled_qty)
         ELSE UNCHANGED exposure
      /\ UNCHANGED <<limits, switches, gate>>
      /\ UNCHANGED <<orders_processed, cancels_processed, rejects>>
      /\ pc' = "idle" /\ pending' = NoPending
      /\ reused' = StillResting(
           IF Indexed(r.report.status) /\ \E x \in Symbols \ {s} : RestsIn(o.id, x)
           THEN reused \cup {o.id} ELSE reused)
  BY DEF NewExecute
<1> HIDE DEF r, o, s
<1>6. /\ DOMAIN books' = DOMAIN books
      /\ \A x \in DOMAIN books : books'[x] = IF x = s THEN r.book ELSE books[x]
      /\ DOMAIN feeds' = DOMAIN feeds
      /\ DOMAIN depths' \subseteq DOMAIN books
      /\ tape' \in [Symbols -> Seq(TapeEntry)]
      /\ BooksSound'
      /\ Len(r.trades) \in Nat
  BY <1>1, <1>2, <1>4, <1>5, Published
<1>7. DOMAIN r.book.index \subseteq DOMAIN b.index \cup {o.id}
  BY <1>4 DEF CallSound
<1>8. MarketTyped'
  <2>1. DOMAIN order_symbol_index' \subseteq OrderIds
    BY <1>2, <1>5 DEF MarketInv, MarketTyped, Put
  <2>2. \A id \in DOMAIN order_symbol_index' : order_symbol_index'[id] \in DOMAIN books
    BY <1>1, <1>5 DEF MarketInv, MarketTyped, Put
  <2>3. reused' \subseteq OrderIds
    BY <1>2, <1>5 DEF MarketInv, MarketTyped, StillResting
  <2> QED BY <1>6, <2>1, <2>2, <2>3 DEF MarketInv, MarketTyped
<1>9. Routed'
  <2> SUFFICES ASSUME NEW x \in DOMAIN books, NEW id \in DOMAIN books'[x].index \ reused'
               PROVE  id \in DOMAIN order_symbol_index' /\ order_symbol_index'[id] = x
    BY <1>6 DEF Routed
  <2>1. x \in Symbols /\ RestsIn(id, x)'
    BY <1>6 DEF MarketInv, MarketTyped, RestsIn
  <2>2. /\ id \notin reused
        /\ id = o.id /\ Indexed(r.report.status) =>
             ~\E y \in Symbols \ {s} : RestsIn(o.id, y)
    BY <1>5, <2>1, StaysReused
  <2>3. id \in DOMAIN books[x].index =>
          id \in DOMAIN order_symbol_index /\ order_symbol_index[id] = x
    BY <2>2 DEF MarketInv, Routed
  <2>4. CASE id = o.id
    <3>1. CASE Indexed(r.report.status)
      <4>1. ~RestsIn(id, x) \/ x = s
        BY <2>1, <2>2, <2>4, <3>1
      <4>2. x = s
        BY <1>6, <2>1, <4>1 DEF RestsIn
      <4> QED BY <1>5, <2>4, <3>1, <4>2 DEF Put
    <3>2. CASE ~Indexed(r.report.status)
      <4>1. order_symbol_index' = order_symbol_index
        BY <1>5, <3>2
      <4>2. id \in DOMAIN books[x].index
        <5>1. x = s => id \in DOMAIN b.index
          <6>1. o.id \in DOMAIN r.book.index => o.id \in DOMAIN b.index
            BY <1>4, <3>2 DEF Indexed
          <6> QED BY <1>6, <2>4, <6>1
        <5> QED BY <1>6, <5>1 DEF b
      <4> QED BY <2>3, <4>1, <4>2
    <3> QED BY <3>1, <3>2
  <2>5. CASE id # o.id
    <3>1. id \in DOMAIN books[x].index
      BY <1>6, <1>7, <2>5
    <3>2. id \in DOMAIN order_symbol_index' /\ order_symbol_index'[id] = order_symbol_index[id]
      BY <1>5, <2>3, <2>5, <3>1 DEF Put
    <3> QED BY <2>3, <3>1, <3>2
  <2> QED BY <2>4, <2>5
<1>10. RiskInv'
  <2>1. CASE r.report.filled_qty > 0
    <3>1. r.report.filled_qty \in 1 .. o.qty
      BY <1>2, <1>4, <2>1
    <3>2. on_fill(o.trader, o.symbol, o.side, r.report.filled_qty)
      BY <1>5, <2>1 DEF s
    <3> QED BY <1>1, <1>2, <1>5, <3>1, <3>2, FillTracked
  <2>2. CASE ~(r.report.filled_qty > 0)
    <3>1. UNCHANGED exposure
      BY <1>5, <2>2
    <3>2. RiskTypeOK'
      BY <1>5, <3>1 DEF RiskInv, RiskTypeOK, limits, switches, gate, exposure
    <3> QED BY <1>5, <3>1, <3>2, TrackedStays DEF RiskInv
  <2> QED BY <2>1, <2>2
<1>11. StatsTyped'
  <2>1. trades_generated' = trades_generated + Len(r.trades)
    BY <1>5 DEF Publish
  <2> QED BY <1>5, <1>6, <2>1 DEF StatsTyped
<1>12. CallInv'
  BY <1>5 DEF CallInv, NoPending
<1>13. \A id, x : RestsIn(id, x)' => RestsIn(id, x) \/ (id = o.id /\ x = s)
  BY <1>6, <1>7 DEF RestsIn
<1> QED BY <1>6, <1>8, <1>9, <1>10, <1>11, <1>12, <1>13 DEF MarketInv, o, s

(* A cancel: an order that stays, if its id was sent for no other symbol,  *)
(* is not of the id that is taken out.                                     *)
LEMMA Cancelled ==
  ASSUME MarketInv, NEW id, NEW z, process_cancel(id, z)
  PROVE  MarketInv' /\ NothingNewRests
<1> DEFINE to == Route(id, z)
           r == cancel_order(books[to], id)
<1>1. /\ to \in DOMAIN books
      /\ books' = Put(books, to, r.book)
      /\ DOMAIN feeds' = DOMAIN feeds \cup {to}
      /\ DOMAIN depths' = DOMAIN depths \cup {to}
      /\ tape' = tape /\ reused' = StillResting(reused)
      /\ order_symbol_index' = IF r.report.status = "Canceled"
                               THEN Erase(order_symbol_index, id) ELSE order_symbol_index
  BY DEF process_cancel, Put
<1>2. BookSound(books[to], OrderIds, Traders, LimitPrices)
  BY <1>1 DEF MarketInv, BooksSound
<1>3. /\ BookSound(r.book, OrderIds, Traders, LimitPrices)
      /\ DOMAIN r.book.index = DOMAIN books[to].index \ {id}
      /\ r.report.status = "Canceled" <=> id \in DOMAIN books[to].index
  BY <1>2, PricesAssumption, CancelOrderSound
<1> HIDE DEF to, r
<1>4. /\ DOMAIN books' = DOMAIN books
      /\ \A x \in DOMAIN books : books'[x] = IF x = to THEN r.book ELSE books[x]
  BY <1>1 DEF Put
<1>5. BooksSound'
  BY <1>3, <1>4 DEF MarketInv, BooksSound
<1>6. /\ DOMAIN order_symbol_index' \subseteq DOMAIN order_symbol_index
      /\ \A x \in DOMAIN order_symbol_index' : order_symbol_index'[x] = order_symbol_index[x]
  BY <1>1 DEF Erase, Restrict
<1>7. MarketTyped'
  <2>1. \A x \in DOMAIN order_symbol_index' : order_symbol_index'[x] \in DOMAIN books'
    BY <1>4, <1>6 DEF MarketInv, MarketTyped
  <2>2. DOMAIN order_symbol_index' \subseteq OrderIds
    BY <1>6 DEF MarketInv, MarketTyped
  <2>3. reused' \subseteq OrderIds
    BY <1>1 DEF MarketInv, MarketTyped, StillResting
  <2> QED BY <1>1, <1>4, <2>1, <2>2, <2>3 DEF MarketInv, MarketTyped
<1>8. Routed'
  <2> SUFFICES ASSUME NEW x \in DOMAIN books, NEW i \in DOMAIN books'[x].index \ reused'
               PROVE  i \in DOMAIN order_symbol_index' /\ order_symbol_index'[i] = x
    BY <1>4 DEF Routed
  <2>1. i \in DOMAIN books[x].index /\ (x = to => i # id)
    BY <1>3, <1>4
  <2>2. i \notin reused
    <3>1. x \in Symbols /\ RestsIn(i, x)'
      BY <1>4 DEF MarketInv, MarketTyped, RestsIn
    <3> QED BY <1>1, <3>1, StaysReused
  <2>3. i \in DOMAIN order_symbol_index /\ order_symbol_index[i] = x
    BY <2>1, <2>2 DEF MarketInv, Routed
  <2>4. CASE r.report.status = "Canceled"
    <3>1. i = id => order_symbol_index[id] = to
      BY <1>1, <1>3, <2>2, <2>4 DEF MarketInv, Routed
    <3>2. i # id
      BY <2>1, <2>3, <3>1
    <3>3. i \in DOMAIN order_symbol_index'
      BY <1>1, <2>3, <2>4, <3>2 DEF Erase, Restrict
    <3> QED BY <1>6, <2>3, <3>3
  <2>5. CASE r.report.status # "Canceled"
    BY <1>1, <2>3, <2>5
  <2> QED BY <2>4, <2>5
<1>9. NothingNewRests
  BY <1>3, <1>4 DEF NothingNewRests, RestsIn
<1> QED BY <1>5, <1>7, <1>8, <1>9 DEF MarketInv

(* A replace: no order comes to rest that did not rest before.             *)
LEMMA Replaced ==
  ASSUME MarketInv, StatsTyped, NEW id, NEW t \in Traders, NEW s, NEW p \in LimitPrices,
         NEW q \in OrderQuantities, process_replace(id, t, s, p, q)
  PROVE  MarketInv' /\ StatsTyped' /\ NothingNewRests
<1> DEFINE b == books[s]
           side == IF id \in DOMAIN b.index THEN b.index[id].side ELSE Buy
           r == replace_order(b, id, t, p, q)
<1>1. /\ s \in DOMAIN books
      /\ Publish(s, t, side, r)
      /\ UNCHANGED <<order_symbol_index, orders_processed, cancels_processed, rejects>>
      /\ reused' = StillResting(reused)
  BY DEF process_replace
<1>2. BookSound(b, OrderIds, Traders, LimitPrices) /\ q \in Int
  BY <1>1, QuantitiesAssumption DEF MarketInv, BooksSound
<1>3. /\ CallSound(b, id, r, OrderIds, Traders, LimitPrices)
      /\ DOMAIN r.book.index \subseteq DOMAIN b.index
  BY <1>2, PricesAssumption, ReplaceOrderSound
<1> HIDE DEF r, side
<1>4. /\ DOMAIN books' = DOMAIN books
      /\ \A x \in DOMAIN books : books'[x] = IF x = s THEN r.book ELSE books[x]
      /\ DOMAIN feeds' = DOMAIN feeds
      /\ DOMAIN depths' \subseteq DOMAIN books
      /\ tape' \in [Symbols -> Seq(TapeEntry)]
      /\ BooksSound'
      /\ Len(r.trades) \in Nat
  BY <1>1, <1>3, Published
<1>5. MarketTyped'
  BY <1>1, <1>4 DEF MarketInv, MarketTyped, StillResting
<1>6. Routed'
  <2> SUFFICES ASSUME NEW x \in DOMAIN books, NEW i \in DOMAIN books'[x].index \ reused'
               PROVE  i \in DOMAIN order_symbol_index /\ order_symbol_index[i] = x
    BY <1>1, <1>4 DEF Routed
  <2>1. x \in Symbols /\ RestsIn(i, x)'
    BY <1>4 DEF MarketInv, MarketTyped, RestsIn
  <2>2. i \in DOMAIN books[x].index \ reused
    BY <1>1, <1>3, <1>4, <2>1, StaysReused
  <2> QED BY <2>2 DEF MarketInv, Routed
<1>7. StatsTyped'
  <2>1. trades_generated' = trades_generated + Len(r.trades)
    BY <1>1 DEF Publish
  <2> QED BY <1>1, <1>4, <2>1 DEF StatsTyped
<1>8. NothingNewRests
  BY <1>3, <1>4 DEF NothingNewRests, RestsIn
<1> QED BY <1>4, <1>5, <1>6, <1>7, <1>8 DEF MarketInv

-------------------------------------------------------------------------------
(* Every step.                                                             *)

EngineInv == MarketInv /\ RiskInv /\ StatsTyped /\ CallInv

(* The check of an order is good for as long as no limit, position or book *)
(* has changed.                                                            *)
LEMMA CallStays ==
  ASSUME CallInv, UNCHANGED <<books, limits, exposure, call>>
  PROVE  CallInv'
<1>1. \A t : get_limits(t)' = get_limits(t)
  BY DEF get_limits, limits
<1>2. pc' = pc /\ pending' = pending /\ books' = books
      /\ positions' = positions /\ net_position' = net_position
  BY DEF call, exposure
<1>3. \A o : check_position_limit(o) => check_position_limit(o)'
  BY <1>1, <1>2 DEF check_position_limit
<1>4. Checked(pending) => Checked(pending)'
  BY <1>2, <1>3 DEF Checked
<1> QED BY <1>2, <1>4 DEF CallInv

(* An order checked, and passed or refused.                                *)
LEMMA CheckStep ==
  ASSUME EngineInv, NEW o \in NewOrders, NewCheck(o)
  PROVE  EngineInv'
<1>1. /\ o.symbol \in DOMAIN books
      /\ check_order(o)
      /\ orders_processed' = orders_processed + 1
      /\ UNCHANGED <<market, trades_generated, cancels_processed, late, limits, exposure, switches>>
  BY DEF NewCheck
<1>2. rejects' = rejects \/ rejects' = rejects + 1
  BY DEF NewCheck
<1>3. o.trader \in Traders /\ o.submit_time \in Times
  BY DEF NewOrders
<1>4. MarketInv'
  BY <1>1, MarketStays DEF EngineInv
<1>5. RiskInv'
  <2>1. RiskTypeOK'
    BY <1>1, <1>3, CheckTyped DEF EngineInv, RiskInv
  <2>2. TrackedWithinLimits'
    BY <1>1, TrackedStays DEF EngineInv, RiskInv
  <2> QED BY <2>1, <2>2 DEF RiskInv
<1>6. StatsTyped'
  BY <1>1, <1>2 DEF EngineInv, StatsTyped
<1>7. CallInv'
  <2>1. CASE Refusal(o) = "None"
    <3>1. pc' = "checked" /\ pending' = o
      BY <2>1 DEF NewCheck
    <3>2. check_position_limit(o) /\ o.qty > 0
      BY <2>1, AcceptedOrder DEF check_quantity_validity
    <3>3. check_position_limit(o)'
      BY <1>1, <3>2 DEF check_position_limit, get_limits, limits, exposure
    <3>4. books' = books
      BY <1>1 DEF market
    <3>5. Checked(pending)'
      BY <1>1, <3>1, <3>2, <3>3, <3>4 DEF Checked
    <3> QED BY <3>1, <3>5 DEF CallInv
  <2>2. CASE Refusal(o) # "None"
    <3>1. UNCHANGED <<books, limits, exposure, call>>
      BY <1>1, <2>2 DEF NewCheck, market
    <3> QED BY <3>1, CallStays DEF EngineInv
  <2> QED BY <2>1, <2>2
<1> QED BY <1>4, <1>5, <1>6, <1>7 DEF EngineInv

(* A step that leaves the market, the limits and the positions alone.      *)
LEMMA QuietStep ==
  ASSUME EngineInv, UNCHANGED <<market, limits, exposure, call>>, StatsTyped', RiskTypeOK'
  PROVE  EngineInv'
<1>1. MarketInv'
  BY MarketStays DEF EngineInv
<1>2. CallInv'
  BY CallStays DEF EngineInv, market
<1>3. TrackedWithinLimits'
  BY TrackedStays DEF EngineInv, RiskInv
<1> QED BY <1>1, <1>2, <1>3 DEF EngineInv, RiskInv

(* The kill switches leave limits and positions alone.                     *)
LEMMA SwitchesTyped ==
  ASSUME RiskTypeOK, NEW t,
         kill_all \/ unkill_all \/ (t \in Traders /\ (kill_trader(t) \/ unkill_trader(t)))
  PROVE  RiskTypeOK' /\ UNCHANGED <<limits, exposure>>
<1>1. UNCHANGED <<limits, exposure, gate>>
  BY DEF kill_all, unkill_all, kill_trader, unkill_trader
<1>2. killed' \in [Traders -> BOOLEAN] /\ global_kill' \in BOOLEAN
  <2>1. killed \in [Traders -> BOOLEAN] /\ global_kill \in BOOLEAN
    BY DEF RiskTypeOK
  <2>2. CASE kill_all
    BY <2>1, <2>2 DEF kill_all
  <2>3. CASE unkill_all
    BY <2>3 DEF unkill_all
  <2>4. CASE t \in Traders /\ (kill_trader(t) \/ unkill_trader(t))
    BY <2>1, <2>4 DEF kill_trader, unkill_trader
  <2> QED BY <2>2, <2>3, <2>4
<1> QED BY <1>1, <1>2 DEF RiskTypeOK, limits, exposure, gate

(* Every step keeps the invariant.                                         *)
LEMMA EngineStep == EngineInv /\ [EngineNext]_engineVars => EngineInv'
<1> SUFFICES ASSUME EngineInv, [EngineNext]_engineVars
             PROVE  EngineInv'
  OBVIOUS
<1>1. MarketInv /\ RiskInv /\ RiskTypeOK /\ StatsTyped /\ CallInv
  BY DEF EngineInv, RiskInv
<1>2. (riskVars' = riskVars) => RiskTypeOK' /\ UNCHANGED <<limits, exposure>>
  BY <1>1 DEF riskVars, limits, exposure, switches, gate, RiskTypeOK
<1>3. UNCHANGED stats => StatsTyped'
  BY <1>1 DEF stats, StatsTyped
<1>4. ASSUME NEW s \in Symbols, NEW junk, add_symbol(s, junk)
      PROVE  EngineInv'
  <2>1. MarketInv'
    BY <1>1, <1>4, SymbolAdded
  <2>2. pc = "idle" /\ UNCHANGED <<stats, call, late, riskVars>>
    BY <1>4 DEF add_symbol
  <2>3. RiskInv'
    BY <1>1, <1>2, <2>2, TrackedStays DEF RiskInv
  <2>4. CallInv'
    BY <1>1, <2>2 DEF CallInv, call, NoPending
  <2> QED BY <1>3, <2>1, <2>2, <2>3, <2>4 DEF EngineInv
<1>5. ASSUME NEW o \in NewOrders, NewUnknownSymbol(o)
      PROVE  EngineInv'
  <2>1. StatsTyped'
    BY <1>1, <1>5 DEF NewUnknownSymbol, StatsTyped
  <2>2. UNCHANGED <<market, call, riskVars>>
    BY <1>5 DEF NewUnknownSymbol
  <2> QED BY <1>2, <2>1, <2>2, QuietStep
<1>6. ASSUME NEW o \in NewOrders, NewCheck(o)
      PROVE  EngineInv'
  BY <1>6, CheckStep
<1>7. CASE NewExecute
  <2>1. Checked(pending)
    BY <1>1, <1>7 DEF NewExecute, CallInv
  <2> QED BY <1>1, <1>7, <2>1, Executed DEF EngineInv
<1>8. ASSUME NEW id, NEW s, Unrouted(id, s)
      PROVE  EngineInv'
  <2>1. UNCHANGED <<market, stats, call, late, riskVars>>
    BY <1>8 DEF Unrouted, engineVars
  <2> QED BY <1>2, <1>3, <2>1, QuietStep
<1>9. ASSUME NEW id, NEW s, process_cancel(id, s)
      PROVE  EngineInv'
  <2>1. MarketInv'
    BY <1>1, <1>9, Cancelled
  <2>2. pc = "idle" /\ UNCHANGED <<orders_processed, trades_generated, rejects, call, late, riskVars>>
        /\ cancels_processed' \in {cancels_processed, cancels_processed + 1}
    BY <1>9 DEF process_cancel
  <2>3. RiskInv'
    BY <1>1, <1>2, <2>2, TrackedStays DEF RiskInv
  <2>4. CallInv'
    BY <1>1, <2>2 DEF CallInv, call, NoPending
  <2>5. StatsTyped'
    BY <1>1, <2>2 DEF StatsTyped
  <2> QED BY <2>1, <2>3, <2>4, <2>5 DEF EngineInv
<1>10. ASSUME NEW id, NEW t \in Traders, NEW s, NEW p \in LimitPrices,
              NEW q \in OrderQuantities, process_replace(id, t, s, p, q)
       PROVE  EngineInv'
  <2>1. MarketInv' /\ StatsTyped'
    BY <1>1, <1>10, Replaced
  <2>2. pc = "idle" /\ UNCHANGED <<call, riskVars>>
    BY <1>10 DEF process_replace
  <2>3. RiskInv'
    BY <1>1, <1>2, <2>2, TrackedStays DEF RiskInv
  <2>4. CallInv'
    BY <1>1, <2>2 DEF CallInv, call, NoPending
  <2> QED BY <2>1, <2>3, <2>4 DEF EngineInv
<1>11. CASE KillAll
  <2>1. UNCHANGED <<market, stats, call>> /\ kill_all
    BY <1>11 DEF KillAll
  <2>2. RiskTypeOK' /\ UNCHANGED <<limits, exposure>>
    BY <1>1, <2>1, SwitchesTyped
  <2> QED BY <1>3, <2>1, <2>2, QuietStep
<1>12. CASE OtherSwitches
  <2>1. PICK t : unkill_all \/ (t \in Traders /\ (kill_trader(t) \/ unkill_trader(t)))
    BY <1>12 DEF OtherSwitches
  <2>2. RiskTypeOK' /\ UNCHANGED <<limits, exposure>>
    BY <1>1, <2>1, SwitchesTyped
  <2>3. UNCHANGED <<market, stats, call>>
    BY <1>12 DEF OtherSwitches
  <2> QED BY <1>3, <2>2, <2>3, QuietStep
<1>13. CASE UNCHANGED engineVars
  <2>1. UNCHANGED <<market, stats, call, late, riskVars>>
    BY <1>13 DEF engineVars
  <2> QED BY <1>2, <1>3, <2>1, QuietStep
<1> QED
  BY <1>4, <1>5, <1>6, <1>7, <1>8, <1>9, <1>10, <1>11, <1>12, <1>13 DEF EngineNext

(* The engine is constructed without symbols.                              *)
LEMMA EngineStart == EngineInit => EngineInv
<1> SUFFICES ASSUME EngineInit PROVE EngineInv
  OBVIOUS
<1>1. MarketInv
  <2>1. DOMAIN books = {} /\ DOMAIN feeds = {} /\ DOMAIN depths = {} /\ DOMAIN order_symbol_index = {}
    BY DEF EngineInit, EmptyMap
  <2>2. tape \in [Symbols -> Seq(TapeEntry)]
    BY EmptySeq DEF EngineInit
  <2>3. reused = {}
    BY DEF EngineInit
  <2> QED BY <2>1, <2>2, <2>3 DEF MarketInv, MarketTyped, BooksSound, Routed
<1>2. RiskTypeOK
  <2>1. <<>> \in Seq(Times)
    BY EmptySeq
  <2>2. DOMAIN trader_limits = {} /\ default_limits = DefaultLimits
    BY DEF EngineInit, RiskInit
  <2>3. order_timestamps \in [Traders -> Seq(Times)] /\ accepted \in [Traders -> Seq(Times)]
    BY <2>1 DEF EngineInit, RiskInit
  <2>4. positions \in [Traders -> [Symbols -> Int]] /\ net_position \in [Traders -> Int]
    BY DEF EngineInit, RiskInit
  <2>5. killed \in [Traders -> BOOLEAN] /\ global_kill \in BOOLEAN
    BY DEF EngineInit, RiskInit
  <2>6. orders_checked \in Nat /\ orders_rejected \in 0 .. orders_checked
    BY DEF EngineInit, RiskInit
  <2> QED BY <2>2, <2>3, <2>4, <2>5, <2>6 DEF RiskTypeOK
<1>3. TrackedWithinLimits
  <2> SUFFICES ASSUME NEW t \in Traders
               PROVE  /\ Abs(net_position[t]) <= get_limits(t).max_net
                      /\ \A s \in Symbols : Abs(positions[t][s]) <= get_limits(t).max_position
    BY DEF TrackedWithinLimits
  <2>1. get_limits(t).max_position \in Nat /\ get_limits(t).max_net \in Nat
    BY <1>2, LimitsOfTypes, LimitsInForce
  <2>2. net_position[t] = 0 /\ \A s \in Symbols : positions[t][s] = 0
    BY DEF EngineInit, RiskInit
  <2> QED BY <2>1, <2>2 DEF Abs
<1>4. StatsTyped /\ CallInv
  BY DEF EngineInit, StatsTyped, CallInv
<1> QED BY <1>1, <1>2, <1>3, <1>4 DEF EngineInv, RiskInv

(* process_cancel with only an order id reaches every resting order whose  *)
(* id was sent for no other symbol while it rested: its entry in           *)
(* order_symbol_index_ names the book it rests in, after any fills,        *)
(* replaces, cancels and other reuses of ids.                              *)
THEOREM CancelsReach == EngineSpec => []Routable
<1>1. EngineInv => Routable
  BY RoutedIsRoutable DEF EngineInv
<1> QED BY <1>1, EngineStart, EngineStep, PTL DEF EngineSpec

(* What process_new_order reports to on_fill never takes a position or the *)
(* net position the risk engine tracks over its limit.                     *)
THEOREM FillsWithin == EngineSpec => []TrackedWithinLimits
<1>1. EngineInv => TrackedWithinLimits
  BY DEF EngineInv, RiskInv
<1> QED BY <1>1, EngineStart, EngineStep, PTL DEF EngineSpec

-------------------------------------------------------------------------------
(* kill_all.                                                               *)

LateTyped ==
  late \in [executed : Nat, replaced : SUBSET (OrderIds \X Symbols),
            open : SUBSET (OrderIds \X Symbols)]

(* Orders are executed after kill_all only while it is in force, and an    *)
(* order that is still to be executed after it would be the first: no      *)
(* order passes the check in between.  Nothing is open that was not open   *)
(* when the switch was set.                                                *)
KillInv ==
  /\ LateTyped
  /\ late.executed \in {0, 1}
  /\ late.executed = 1 => global_kill
  /\ global_kill /\ pc = "checked" => late.executed = 0
  /\ global_kill => late.replaced \cup Open \subseteq late.open

(* An order that passes the check does so while kill_all is not in force.  *)
LEMMA PassesOnlyAlive ==
  ASSUME NEW o, Refusal(o) = "None"
  PROVE  ~global_kill
BY DEF Refusal, check_kill_switch

(* What is open are ids and symbols.                                       *)
LEMMA OpenTyped == EngineInv => Open \subseteq OrderIds \X Symbols
<1> SUFFICES ASSUME EngineInv PROVE Open \subseteq OrderIds \X Symbols
  OBVIOUS
<1>1. ASSUME pc = "checked" PROVE <<pending.id, pending.symbol>> \in OrderIds \X Symbols
  <2>1. pending \in NewOrders
    BY <1>1 DEF EngineInv, CallInv, Checked
  <2> QED BY <2>1 DEF NewOrders
<1> QED BY <1>1 DEF Open

(* If no order comes to rest and none passes the check, nothing new is     *)
(* open.                                                                   *)
LEMMA OpenShrinks ==
  ASSUME NothingNewRests, UNCHANGED call
  PROVE  Open' \subseteq Open
<1>1. pc' = pc /\ pending' = pending
  BY DEF call
<1> QED BY <1>1 DEF NothingNewRests, Open

(* The books stay as they are.                                             *)
LEMMA BooksStay == ASSUME UNCHANGED books PROVE NothingNewRests
BY DEF NothingNewRests, RestsIn

(* A step that counts nothing and opens nothing.                           *)
LEMMA KillStutter ==
  ASSUME KillInv, late' = late, global_kill' = global_kill, pc' = pc, Open' \subseteq Open
  PROVE  KillInv'
BY DEF KillInv, LateTyped

(* Every step keeps the invariant.                                         *)
LEMMA KillStep == EngineInv /\ KillInv /\ [EngineNext]_engineVars => KillInv'
<1> SUFFICES ASSUME EngineInv, KillInv, [EngineNext]_engineVars
             PROVE  KillInv'
  OBVIOUS
<1>1. MarketInv /\ RiskInv /\ StatsTyped /\ CallInv
  BY DEF EngineInv
<1>2. ASSUME UNCHANGED <<call, late>>, global_kill' = global_kill, NothingNewRests
      PROVE  KillInv'
  BY <1>2, OpenShrinks, KillStutter DEF call
<1>3. ASSUME NEW s \in Symbols, NEW junk, add_symbol(s, junk)
      PROVE  KillInv'
  <2>1. NothingNewRests
    BY <1>1, <1>3, SymbolAdded
  <2>2. UNCHANGED <<call, late>> /\ global_kill' = global_kill
    BY <1>3 DEF add_symbol, riskVars, switches
  <2> QED BY <1>2, <2>1, <2>2
<1>4. ASSUME NEW o \in NewOrders, NewUnknownSymbol(o)
      PROVE  KillInv'
  BY <1>2, <1>4, BooksStay DEF NewUnknownSymbol, market, riskVars, switches
<1>5. ASSUME NEW o \in NewOrders, NewCheck(o)
      PROVE  KillInv'
  <2>1. late' = late /\ global_kill' = global_kill /\ UNCHANGED books
    BY <1>5 DEF NewCheck, switches, market
  <2>2. CASE Refusal(o) = "None"
    BY <2>1, <2>2, PassesOnlyAlive DEF KillInv, LateTyped
  <2>3. CASE Refusal(o) # "None"
    <3>1. UNCHANGED call
      BY <1>5, <2>3 DEF NewCheck
    <3> QED BY <1>2, <2>1, <3>1, BooksStay
  <2> QED BY <2>2, <2>3
<1>6. CASE NewExecute
  <2>1. /\ pc = "checked" /\ pc' = "idle"
        /\ late' = IF global_kill THEN [late EXCEPT !.executed = @ + 1] ELSE late
        /\ global_kill' = global_kill
    BY <1>6 DEF NewExecute, switches
  <2>2. Checked(pending)
    BY <1>1, <2>1 DEF CallInv
  <2>3. \A id, x : RestsIn(id, x)' =>
          RestsIn(id, x) \/ (id = pending.id /\ x = pending.symbol)
    BY <1>1, <1>6, <2>2, Executed
  <2>4. Open' \subseteq Open
    BY <2>1, <2>3 DEF Open
  <2>5. CASE global_kill
    <3>1. late.executed = 0 /\ late.replaced \cup Open \subseteq late.open
      BY <2>1, <2>5 DEF KillInv
    <3>2. /\ late' \in [executed : Nat, replaced : SUBSET (OrderIds \X Symbols),
                        open : SUBSET (OrderIds \X Symbols)]
          /\ late'.executed = 1 /\ late'.replaced = late.replaced /\ late'.open = late.open
      BY <2>1, <2>5, <3>1 DEF KillInv, LateTyped
    <3> QED BY <2>1, <2>4, <2>5, <3>1, <3>2 DEF KillInv, LateTyped
  <2>6. CASE ~global_kill
    BY <2>1, <2>6 DEF KillInv, LateTyped
  <2> QED BY <2>5, <2>6
<1>7. ASSUME NEW id, NEW s, Unrouted(id, s)
      PROVE  KillInv'
  BY <1>2, <1>7, BooksStay DEF Unrouted, engineVars, market, riskVars, switches
<1>8. ASSUME NEW id, NEW s, process_cancel(id, s)
      PROVE  KillInv'
  <2>1. NothingNewRests
    BY <1>1, <1>8, Cancelled
  <2>2. UNCHANGED <<call, late>> /\ global_kill' = global_kill
    BY <1>8 DEF process_cancel, riskVars, switches
  <2> QED BY <1>2, <2>1, <2>2
<1>9. ASSUME NEW id \in OrderIds, NEW t \in Traders, NEW s \in Symbols, NEW p \in LimitPrices,
             NEW q \in OrderQuantities, process_replace(id, t, s, p, q)
      PROVE  KillInv'
  <2>1. NothingNewRests
    BY <1>1, <1>9, Replaced
  <2>2. /\ UNCHANGED call /\ global_kill' = global_kill
        /\ late' = IF global_kill /\ RestsIn(id, s)
                   THEN [late EXCEPT !.replaced = @ \cup {<<id, s>>}] ELSE late
    BY <1>9 DEF process_replace, riskVars, switches
  <2>3. Open' \subseteq Open /\ pc' = pc
    BY <2>1, <2>2, OpenShrinks DEF call
  <2>4. CASE global_kill /\ RestsIn(id, s)
    <3>1. <<id, s>> \in Open /\ <<id, s>> \in OrderIds \X Symbols
      BY <2>4 DEF Open
    <3>2. /\ late' \in [executed : Nat, replaced : SUBSET (OrderIds \X Symbols),
                        open : SUBSET (OrderIds \X Symbols)]
          /\ late'.executed = late.executed
          /\ late'.replaced = late.replaced \cup {<<id, s>>} /\ late'.open = late.open
      BY <2>2, <2>4, <3>1 DEF KillInv, LateTyped
    <3> QED BY <2>2, <2>3, <2>4, <3>1, <3>2 DEF KillInv, LateTyped
  <2>5. CASE ~(global_kill /\ RestsIn(id, s))
    BY <2>2, <2>3, <2>5, KillStutter
  <2> QED BY <2>4, <2>5
<1>10. CASE KillAll
  <2>1. /\ global_kill' = TRUE /\ UNCHANGED <<books, call>> /\ pc' = pc
        /\ late' = IF global_kill THEN late ELSE [NoneLate EXCEPT !.open = Open]
    BY <1>10 DEF KillAll, kill_all, market, call
  <2>2. Open' \subseteq Open
    BY <2>1, BooksStay, OpenShrinks
  <2>3. CASE global_kill
    BY <2>1, <2>2, <2>3, KillStutter
  <2>4. CASE ~global_kill
    <3>1. late' = [executed |-> 0, replaced |-> {}, open |-> Open]
      BY <2>1, <2>4 DEF NoneLate
    <3>2. Open \subseteq OrderIds \X Symbols
      BY OpenTyped
    <3> QED BY <2>1, <2>2, <3>1, <3>2 DEF KillInv, LateTyped
  <2> QED BY <2>3, <2>4
<1>11. CASE OtherSwitches
  <2>1. /\ pc = "idle" /\ UNCHANGED <<books, call>> /\ pc' = pc
        /\ late' = IF global_kill' THEN late ELSE NoneLate
    BY <1>11 DEF OtherSwitches, market, call
  <2>2. ~global_kill' \/ global_kill' = global_kill
    BY <1>11 DEF OtherSwitches, unkill_all, kill_trader, unkill_trader
  <2>3. CASE global_kill' /\ global_kill' = global_kill
    BY <1>2, <2>1, <2>3, BooksStay
  <2>4. CASE ~global_kill'
    BY <2>1, <2>4 DEF KillInv, LateTyped, NoneLate
  <2> QED BY <2>2, <2>3, <2>4
<1>12. CASE UNCHANGED engineVars
  BY <1>2, <1>12, BooksStay DEF engineVars, market, riskVars, switches
<1> QED
  BY <1>3, <1>4, <1>5, <1>6, <1>7, <1>8, <1>9, <1>10, <1>11, <1>12 DEF EngineNext

(* The switch is off at first.                                             *)
LEMMA KillStart == EngineInit => KillInv
BY DEF EngineInit, RiskInit, KillInv, LateTyped, NoneLate

(* What the types need of the invariants.                                  *)
LEMMA InvTypes == EngineInv /\ KillInv => EngineTypeOK
BY DEF EngineInv, MarketInv, MarketTyped, RiskInv, StatsTyped, CallInv, Checked, KillInv,
       LateTyped, EngineTypeOK

(* Books, feeds, index, tape, counters and the state of the risk engine    *)
(* keep their types: the index only names symbols that add_symbol added,   *)
(* and an order between check and execution is one that was submitted.     *)
THEOREM EngineTypes == EngineSpec => []EngineTypeOK
BY EngineStart, EngineStep, KillStart, KillStep, InvTypes, PTL DEF EngineSpec

(* After kill_all at most the one order that had passed the check is       *)
(* still executed, process_replace puts in only orders that were open when *)
(* the switch was set, and nothing else comes to rest.                     *)
THEOREM KillAllAdmits == EngineSpec => []KillAllAdmitsNoneNew
<1>1. KillInv => KillAllAdmitsNoneNew
  BY DEF KillInv, KillAllAdmitsNoneNew
<1> QED BY <1>1, EngineStart, EngineStep, KillStart, KillStep, PTL DEF EngineSpec

-------------------------------------------------------------------------------
(* The levels of a snapshot.                                               *)

(* The ranks of the levels of a side are 0, 1, .., each taken once.        *)
LEMMA Ranks ==
  ASSUME NEW b, NEW side \in Sides, IsFiniteSet(Prices(b, side)), Prices(b, side) \subseteq Int
  PROVE  /\ \A p, q \in Prices(b, side) :
              Signed(side, q) > Signed(side, p) =>
                Cardinality(Better(b, side, q)) < Cardinality(Better(b, side, p))
         /\ \A p \in Prices(b, side) :
              Cardinality(Better(b, side, p)) \in 0 .. (Cardinality(Prices(b, side)) - 1)
         /\ \A i \in 1 .. Cardinality(Prices(b, side)) :
              \E p \in Prices(b, side) : Cardinality(Better(b, side, p)) = i - 1
<1> DEFINE S == Prices(b, side)
           B(p) == Better(b, side, p)
           N == Cardinality(S)
           r == [p \in S |-> Cardinality(B(p))]
<1>1. \A p \in S : Signed(side, p) \in Int
  BY SignedInt
<1>2. \A p, q \in S : p # q => Signed(side, p) # Signed(side, q)
  BY DEF Signed
<1>3. \A p \in S : B(p) \subseteq S \ {p} /\ IsFiniteSet(B(p)) /\ Cardinality(B(p)) \in Nat
  <2> TAKE p \in S
  <2>1. B(p) \subseteq S \ {p}
    BY <1>1 DEF Better
  <2>2. IsFiniteSet(B(p))
    BY <2>1, FS_Subset
  <2> QED BY <2>1, <2>2, FS_CardinalityType
<1>4. ASSUME NEW p \in S, NEW q \in S, Signed(side, q) > Signed(side, p)
      PROVE  Cardinality(B(q)) < Cardinality(B(p))
  <2>1. B(q) \subseteq B(p) /\ q \in B(p) /\ q \notin B(q)
    BY <1>1, <1>3, <1>4 DEF Better
  <2>2. B(q) \in SUBSET B(p) /\ B(q) # B(p)
    BY <2>1
  <2>3. Cardinality(B(q)) <= Cardinality(B(p)) /\ Cardinality(B(q)) # Cardinality(B(p))
    <3> HIDE DEF B
    <3> QED BY <1>3, <2>2, FS_Subset
  <2> QED BY <1>3, <2>3
<1>5. N \in Nat
  BY FS_CardinalityType
<1>6. \A p \in S : Cardinality(B(p)) \in 0 .. (N - 1)
  <2> TAKE p \in S
  <2>1. Cardinality(S \ {p}) = N - 1 /\ IsFiniteSet(S \ {p})
    <3>1. IsFiniteSet(S)
      OBVIOUS
    <3> HIDE DEF S
    <3> QED BY <3>1, FS_RemoveElement
  <2>2. Cardinality(B(p)) <= Cardinality(S \ {p})
    <3> HIDE DEF S, B
    <3> QED BY <1>3, <2>1, FS_Subset
  <2> QED BY <1>3, <1>5, <2>1, <2>2
<1> HIDE DEF B
<1>7. r \in Injection(S, 0 .. (N - 1))
  <2>1. r \in [S -> 0 .. (N - 1)]
    BY <1>6
  <2>2. \A p, q \in S : r[p] = r[q] => p = q
    <3> SUFFICES ASSUME NEW p \in S, NEW q \in S, r[p] = r[q], p # q PROVE FALSE
      OBVIOUS
    <3>1. Signed(side, q) > Signed(side, p) \/ Signed(side, p) > Signed(side, q)
      BY <1>1, <1>2
    <3>2. r[p] = Cardinality(B(p)) /\ r[q] = Cardinality(B(q))
          /\ r[p] \in Int /\ r[q] \in Int
      BY <1>3
    <3> QED BY <1>4, <3>1, <3>2
  <2> HIDE DEF r
  <2> QED BY <2>1, <2>2 DEF Injection, IsInjective
<1>8. r \in Surjection(S, 0 .. (N - 1))
  <2>1. IsFiniteSet(0 .. (N - 1)) /\ Cardinality(0 .. (N - 1)) = N
    <3>1. 0 \in Int /\ N - 1 \in Int /\ IF 0 > N - 1 THEN N = 0 ELSE (N - 1) - 0 + 1 = N
      BY <1>5
    <3> HIDE DEF N
    <3> QED BY <3>1, FS_Interval
  <2> HIDE DEF S, N, r
  <2> QED BY <1>7, <2>1, FS_Injection DEF N
<1>9. ASSUME NEW i \in 1 .. N
      PROVE  \E p \in S : Cardinality(B(p)) = i - 1
  <2>1. i - 1 \in 0 .. (N - 1)
    BY <1>5
  <2>2. \E p \in S : r[p] = i - 1
    <3> HIDE DEF r
    <3> QED BY <1>8, <2>1 DEF Surjection
  <2> QED BY <2>2
<1> QED BY <1>4, <1>6, <1>9 DEF B

(* A snapshot shows the best levels of the book it is taken of.            *)
LEMMA DepthShown ==
  ASSUME NEW b, NEW side \in Sides, IsFiniteSet(Prices(b, side)), Prices(b, side) \subseteq Int
  PROVE  Shows(Depth(b, side, L2Depth), b, side)
<1> DEFINE S == Prices(b, side)
           N == Cardinality(S)
           n == Min({L2Depth, N})
           Nth(i) == NthBest(b, side, i)
           levels == Depth(b, side, L2Depth)
<1>1. N \in Nat /\ L2Depth \in Nat
  BY FS_CardinalityType, L2DepthAssumption
<1>2. n \in Nat /\ n <= N
  BY <1>1 DEF Min
<1>3. ASSUME NEW i \in 1 .. N
      PROVE  Nth(i) \in S /\ Cardinality(Better(b, side, Nth(i))) = i - 1
  <2>1. \E p \in S : Cardinality(Better(b, side, p)) = i - 1
    BY Ranks
  <2> QED BY <2>1 DEF NthBest
<1>4. levels = [i \in 1 .. n |-> LevelInfo(b, side, Nth(i))]
  BY DEF Depth
<1> HIDE DEF n, levels, Nth
<1>5. Len(levels) = n /\ DOMAIN levels = 1 .. n
  BY <1>2, <1>4
<1>6. ASSUME NEW i \in 1 .. n
      PROVE  /\ levels[i].price = Nth(i) /\ levels[i] = LevelInfo(b, side, Nth(i))
             /\ Nth(i) \in S /\ i \in 1 .. N
  BY <1>1, <1>2, <1>3, <1>4 DEF LevelInfo
<1>7. ASSUME NEW i \in 1 .. n, NEW p \in S \ {levels[j].price : j \in 1 .. i}
      PROVE  Signed(side, p) < Signed(side, Nth(i))
  <2>1. PICK k \in 1 .. N : Cardinality(Better(b, side, p)) = k - 1
    <3>1. PICK m \in 0 .. (N - 1) : m = Cardinality(Better(b, side, p))
      BY Ranks
    <3>2. m + 1 \in 1 .. N /\ (m + 1) - 1 = m
      BY <1>1
    <3> QED BY <3>1, <3>2
  <2>2. \A x, y \in S : x # y => Signed(side, x) < Signed(side, y) \/ Signed(side, y) < Signed(side, x)
    BY DEF Signed
  <2>3. \A x, y \in S : Signed(side, y) > Signed(side, x) =>
          Cardinality(Better(b, side, y)) < Cardinality(Better(b, side, x))
    BY Ranks
  <2>4. \A x, y \in S : Cardinality(Better(b, side, y)) = Cardinality(Better(b, side, x)) => x = y
    <3> SUFFICES ASSUME NEW x \in S, NEW y \in S, x # y,
                        Cardinality(Better(b, side, y)) = Cardinality(Better(b, side, x))
                 PROVE  FALSE
      OBVIOUS
    <3>1. Cardinality(Better(b, side, x)) \in Int /\ Cardinality(Better(b, side, y)) \in Int
      BY <1>1, Ranks
    <3>2. Signed(side, x) \in Int /\ Signed(side, y) \in Int
      BY SignedInt
    <3> QED BY <2>2, <2>3, <3>1, <3>2
  <2>5. ~(k <= i)
    <3> SUFFICES ASSUME k <= i PROVE FALSE
      OBVIOUS
    <3>1. k \in 1 .. i /\ k \in 1 .. n
      BY <1>2
    <3>2. p = Nth(k)
      BY <1>3, <2>1, <2>4
    <3>3. levels[k].price = Nth(k)
      BY <1>6, <3>1
    <3> QED BY <3>1, <3>2, <3>3
  <2>6. Nth(i) \in S /\ Cardinality(Better(b, side, Nth(i))) = i - 1
    BY <1>3, <1>6
  <2>7. p # Nth(i)
    BY <1>6
  <2>8. Signed(side, p) \in Int /\ Signed(side, Nth(i)) \in Int
    BY <2>6, SignedInt
  <2>9. ~(Signed(side, Nth(i)) < Signed(side, p))
    BY <2>1, <2>3, <2>5, <2>6, <2>8
  <2> QED BY <2>2, <2>6, <2>7, <2>8, <2>9
<1>8. \A i \in 1 .. n : \A p \in S \ {levels[j].price : j \in 1 .. i} :
        Signed(side, p) < Signed(side, levels[i].price)
  BY <1>6, <1>7
<1> QED BY <1>5, <1>6, <1>8 DEF Shows, n, levels

-------------------------------------------------------------------------------
(* The trades a feed records.                                              *)

Record(f, t) == record_trade(f, t.price, t.qty)

(* R lists what recording the first 0, 1, .. trades of ts makes of feed f. *)
Records(R, f, ts) ==
  R[0] = f /\ \A m \in Nat : m < Len(ts) => R[m + 1] = Record(R[m], ts[m + 1])

(* The library folds over a set of places, the greatest one last.          *)
RecordStep(g, f, ts, s) == IF s = {} THEN f ELSE Record(g[s \ {Max(s)}], ts[Max(s)])
IsRecord(g, f, ts, S) == g = [s \in SUBSET S |-> RecordStep(g, f, ts, s)]

(* FeedAfter in these terms.                                               *)
LEMMA FeedAfterIs ==
  ASSUME NEW s, NEW b, NEW ts
  PROVE  FeedAfter(s, b, ts) =
           update((CHOOSE g : IsRecord(g, feeds[s], ts, DOMAIN ts))[DOMAIN ts], b)
BY DEF FeedAfter, FoldLeft, MapThenFoldSet, IsRecord, RecordStep, Record

(* The fold has a solution.                                                *)
LEMMA RecordExists ==
  ASSUME NEW f, NEW ts, NEW S \in SUBSET Int, IsFiniteSet(S)
  PROVE  \E g : IsRecord(g, f, ts, S)
<1> DEFINE Good(g, n) == \A s \in SUBSET S : Cardinality(s) <= n => g[s] = RecordStep(g, f, ts, s)
           P == {n \in Nat : \E g : g = [s \in SUBSET S |-> g[s]] /\ Good(g, n)}
<1>1. 0 \in P
  <2> DEFINE g == [s \in SUBSET S |-> f]
  <2>1. ASSUME NEW s \in SUBSET S, Cardinality(s) <= 0 PROVE s = {}
    <3>1. IsFiniteSet(s) /\ Cardinality(s) \in Nat
      BY FS_Subset, FS_CardinalityType
    <3>2. Cardinality(s) = 0
      BY <2>1, <3>1
    <3> QED BY <3>1, <3>2, FS_EmptySet
  <2>2. Good(g, 0)
    BY <2>1 DEF RecordStep
  <2>3. g = [s \in SUBSET S |-> g[s]]
    OBVIOUS
  <2> HIDE DEF g, Good
  <2> QED BY <2>2, <2>3
<1>2. ASSUME NEW n \in P PROVE n + 1 \in P
  <2>1. PICK h : h = [s \in SUBSET S |-> h[s]] /\ Good(h, n)
    OBVIOUS
  <2> DEFINE g == [s \in SUBSET S |-> IF Cardinality(s) <= n THEN h[s] ELSE RecordStep(h, f, ts, s)]
  <2>2. ASSUME NEW s \in SUBSET S, s # {}
        PROVE  /\ Max(s) \in s
               /\ s \ {Max(s)} \in SUBSET S
               /\ Cardinality(s) \in Nat /\ Cardinality(s \ {Max(s)}) \in Nat
               /\ Cardinality(s \ {Max(s)}) = Cardinality(s) - 1
    <3>1. IsFiniteSet(s) /\ s \in SUBSET Int
      BY FS_Subset
    <3>2. Max(s) \in s
      BY <2>2, <3>1, Extremes
    <3>3. s \ {Max(s)} \in SUBSET S
      OBVIOUS
    <3>4. Cardinality(s) \in Nat /\ Cardinality(s \ {Max(s)}) = Cardinality(s) - 1
      BY <3>1, <3>2, SmallerPart
    <3>5. Cardinality(s \ {Max(s)}) \in Nat
      BY <3>3, FS_Subset, FS_CardinalityType
    <3> QED BY <3>2, <3>3, <3>4, <3>5
  <2>3. ASSUME NEW s \in SUBSET S, Cardinality(s) <= n + 1
        PROVE  g[s] = RecordStep(g, f, ts, s)
    <3>1. RecordStep(g, f, ts, s) = RecordStep(h, f, ts, s)
      <4>1. CASE s = {}
        BY <4>1 DEF RecordStep
      <4>2. CASE s # {}
        <5>1. Cardinality(s \ {Max(s)}) <= n /\ s \ {Max(s)} \in SUBSET S
          BY <4>2, <2>2, <2>3
        <5>2. g[s \ {Max(s)}] = h[s \ {Max(s)}]
          BY <5>1
        <5> HIDE DEF g
        <5> QED BY <5>2 DEF RecordStep
      <4> QED BY <4>1, <4>2
    <3>2. g[s] = RecordStep(h, f, ts, s)
      <4>1. CASE Cardinality(s) <= n
        BY <2>1, <4>1
      <4>2. CASE ~(Cardinality(s) <= n)
        BY <4>2
      <4> QED BY <4>1, <4>2
    <3> HIDE DEF g
    <3> QED BY <3>1, <3>2
  <2>4. g = [s \in SUBSET S |-> g[s]]
    OBVIOUS
  <2> HIDE DEF g
  <2>5. Good(g, n + 1)
    BY <2>3
  <2> HIDE DEF Good
  <2> QED BY <2>4, <2>5
<1>3. P = Nat
  <2>1. P \in SUBSET Nat
    OBVIOUS
  <2> HIDE DEF P
  <2> QED BY <1>1, <1>2, <2>1, SetInduction
<1>4. PICK g : g = [s \in SUBSET S |-> g[s]] /\ Good(g, Cardinality(S))
  BY <1>3, FS_CardinalityType
<1>5. \A s \in SUBSET S : g[s] = RecordStep(g, f, ts, s)
  BY <1>4, FS_Subset
<1>6. g = [s \in SUBSET S |-> RecordStep(g, f, ts, s)]
  BY <1>4, <1>5
<1> QED BY <1>6 DEF IsRecord

(* A call records its trades one by one, then updates the feed.            *)
LEMMA FeedRecords ==
  ASSUME NEW s, NEW b, NEW ts, NEW n \in Nat, DOMAIN ts = 1 .. n, Len(ts) = n
  PROVE  \E R : Records(R, feeds[s], ts) /\ FeedAfter(s, b, ts) = update(R[n], b)
<1> DEFINE f == feeds[s]
           g == CHOOSE g : IsRecord(g, f, ts, 1 .. n)
           R == [m \in 0 .. n |-> g[1 .. m]]
<1>1. IsRecord(g, f, ts, 1 .. n)
  <2>1. IsFiniteSet(1 .. n) /\ 1 .. n \in SUBSET Int
    BY FS_Interval
  <2>2. \E h : IsRecord(h, f, ts, 1 .. n)
    BY <2>1, RecordExists
  <2> QED BY <2>2
<1>2. FeedAfter(s, b, ts) = update(g[1 .. n], b)
  BY FeedAfterIs
<1> HIDE DEF g, f
<1>3. ASSUME NEW m \in 0 .. n
      PROVE  R[m] = RecordStep(g, f, ts, 1 .. m)
  <2>1. 1 .. m \in SUBSET (1 .. n) /\ R[m] = g[1 .. m]
    OBVIOUS
  <2> QED BY <1>1, <2>1 DEF IsRecord
<1>4. R[0] = f
  <2>1. 0 \in 0 .. n /\ 1 .. 0 = {}
    OBVIOUS
  <2> QED BY <1>3, <2>1 DEF RecordStep
<1>5. ASSUME NEW m \in Nat, m < n PROVE R[m + 1] = Record(R[m], ts[m + 1])
  <2> DEFINE S == 1 .. (m + 1)
  <2>1. m + 1 \in 0 .. n /\ m \in 0 .. n /\ S # {} /\ S \in SUBSET Int /\ IsFiniteSet(S)
    <3>1. IsFiniteSet(S)
      BY FS_Interval
    <3>2. m + 1 \in 0 .. n /\ m \in 0 .. n
      BY <1>5
    <3>3. m + 1 \in S
      OBVIOUS
    <3> QED BY <3>1, <3>2, <3>3
  <2>2. Max(S) \in S /\ \A x \in S : x <= Max(S)
    BY <2>1, Extremes
  <2>3. Max(S) = m + 1
    BY <2>2
  <2>4. S \ {Max(S)} = 1 .. m
    BY <2>3
  <2>5. R[m] = g[1 .. m]
    BY <2>1
  <2>6. R[m + 1] = RecordStep(g, f, ts, S)
    BY <1>3, <2>1
  <2> HIDE DEF S, R
  <2> QED BY <2>1, <2>3, <2>4, <2>5, <2>6 DEF RecordStep
<1>6. R[n] = g[1 .. n]
  OBVIOUS
<1> HIDE DEF R
<1>7. Records(R, f, ts)
  BY <1>4, <1>5 DEF Records
<1> QED BY <1>2, <1>6, <1>7 DEF f

-------------------------------------------------------------------------------
(* The feeds.                                                              *)

Recorded == [price : Int, qty : Nat]

IsFeed(f) ==
  /\ f = [last_tob |-> f.last_tob, recent_trades |-> f.recent_trades,
          spread_history |-> f.spread_history]
  /\ f.recent_trades \in Seq(Recorded)

(* r holds the latest of the first n trades of tape w, at most             *)
(* MaxTradeHistory of them.                                                *)
Latest(r, w, n) ==
  LET k == IF n < MaxTradeHistory THEN n ELSE MaxTradeHistory
  IN  /\ Len(r) = k
      /\ \A i \in 1 .. k : r[i] = [price |-> w[n - k + i].price, qty |-> w[n - k + i].qty]

(* One more trade.                                                         *)
LEMMA LatestPushed ==
  ASSUME NEW r \in Seq(Recorded), NEW w, NEW n \in Nat, Latest(r, w, n),
         NEW x \in Recorded, x = [price |-> w[n + 1].price, qty |-> w[n + 1].qty]
  PROVE  /\ PushBounded(r, x, MaxTradeHistory) \in Seq(Recorded)
         /\ Latest(PushBounded(r, x, MaxTradeHistory), w, n + 1)
<1> DEFINE M == MaxTradeHistory
           e(i) == [price |-> w[i].price, qty |-> w[i].qty]
<1>1. M \in Nat \ {0}
  BY HistoryAssumption
<1> HIDE DEF M, e
<1>2. CASE n < M
  <2>1. Len(r) = n /\ \A i \in 1 .. n : r[i] = e(n - n + i)
    BY <1>2 DEF Latest, M, e
  <2>2. PushBounded(r, x, M) = Append(r, x)
    BY <1>1, <1>2, <2>1 DEF PushBounded
  <2>3. /\ Append(r, x) \in Seq(Recorded) /\ Len(Append(r, x)) = n + 1
        /\ \A i \in 1 .. n : Append(r, x)[i] = r[i]
        /\ Append(r, x)[n + 1] = x
    BY <2>1, AppendProperties
  <2>4. ASSUME NEW i \in 1 .. (n + 1) PROVE Append(r, x)[i] = e(i)
    <3>1. CASE i \in 1 .. n
      <4>1. n - n + i = i
        BY <3>1
      <4>2. r[i] = e(n - n + i)
        BY <2>1, <3>1
      <4>3. r[i] = e(i)
        BY ONLY <4>1, <4>2
      <4>4. Append(r, x)[i] = r[i]
        BY ONLY <2>3, <3>1
      <4> QED BY ONLY <4>3, <4>4
    <3>2. CASE i = n + 1
      BY <2>3, <3>2 DEF e
    <3>3. i \in 1 .. n \/ i = n + 1
      BY ONLY n \in Nat, i \in 1 .. (n + 1)
    <3> QED BY ONLY <3>1, <3>2, <3>3
  <2>5. (IF n + 1 < M THEN n + 1 ELSE M) = n + 1
    BY <1>1, <1>2
  <2>6. \A i \in 1 .. (n + 1) : Append(r, x)[i] = e((n + 1) - (n + 1) + i)
    <3>1. \A i \in 1 .. (n + 1) : (n + 1) - (n + 1) + i = i
      OBVIOUS
    <3> QED BY <2>4, <3>1
  <2>7. Latest(Append(r, x), w, n + 1)
    BY <2>3, <2>5, <2>6 DEF Latest, M, e
  <2> QED BY <2>2, <2>3, <2>7 DEF M
<1>3. CASE ~(n < M)
  <2>1. Len(r) = M /\ \A i \in 1 .. M : r[i] = e(n - M + i)
    BY <1>3 DEF Latest, M, e
  <2>2. PushBounded(r, x, M) = Append(Tail(r), x)
    BY <1>1, <2>1 DEF PushBounded
  <2>3. r # <<>>
    BY <1>1, <2>1, EmptySeq
  <2>4. /\ Tail(r) \in Seq(Recorded) /\ Len(Tail(r)) = M - 1
        /\ \A i \in 1 .. M - 1 : Tail(r)[i] = r[i + 1]
    BY <1>1, <2>1, <2>3, HeadTailProperties
  <2>5. /\ Append(Tail(r), x) \in Seq(Recorded) /\ Len(Append(Tail(r), x)) = (M - 1) + 1
        /\ \A i \in 1 .. M - 1 : Append(Tail(r), x)[i] = Tail(r)[i]
        /\ Append(Tail(r), x)[(M - 1) + 1] = x
    BY <2>4, AppendProperties
  <2>6. (M - 1) + 1 = M
    BY <1>1
  <2>7. ASSUME NEW i \in 1 .. M PROVE Append(Tail(r), x)[i] = e((n + 1) - M + i)
    <3>1. CASE i \in 1 .. M - 1
      <4>1. i + 1 \in 1 .. M /\ n - M + (i + 1) = (n + 1) - M + i
        BY <1>1, <3>1
      <4>2. r[i + 1] = e(n - M + (i + 1))
        BY <2>1, <4>1
      <4>3. r[i + 1] = e((n + 1) - M + i)
        BY ONLY <4>1, <4>2
      <4>4. Append(Tail(r), x)[i] = r[i + 1]
        BY ONLY <2>4, <2>5, <3>1
      <4> QED BY ONLY <4>3, <4>4
    <3>2. CASE i = M
      <4>1. (n + 1) - M + M = n + 1
        BY <1>1
      <4> QED BY <2>5, <2>6, <3>2, <4>1 DEF e
    <3>3. i \in 1 .. M - 1 \/ i = M
      BY ONLY <1>1, i \in 1 .. M
    <3> QED BY ONLY <3>1, <3>2, <3>3
  <2>8. (IF n + 1 < M THEN n + 1 ELSE M) = M
    BY <1>1, <1>3
  <2>9. Latest(Append(Tail(r), x), w, n + 1)
    BY <2>5, <2>6, <2>7, <2>8 DEF Latest, M, e
  <2> QED BY <2>2, <2>5, <2>9 DEF M
<1> QED BY <1>2, <1>3

(* update leaves the recorded trades alone.                                *)
LEMMA FeedFields ==
  ASSUME NEW f, IsFeed(f), NEW b
  PROVE  /\ IsFeed(update(f, b))
         /\ update(f, b).last_tob = TopOfBook(b)
         /\ update(f, b).recent_trades = f.recent_trades
<1> DEFINE tob == TopOfBook(b)
           h == IF tob.valid /\ tob.spread > 0
                THEN PushBounded(f.spread_history, tob.spread, MaxSpreadHistory)
                ELSE f.spread_history
<1>1. update(f, b) = [f EXCEPT !.last_tob = tob, !.spread_history = h]
  BY DEF update
<1> HIDE DEF tob, h
<1>2. update(f, b) = [last_tob |-> tob, recent_trades |-> f.recent_trades, spread_history |-> h]
  BY <1>1 DEF IsFeed
<1> QED BY <1>2 DEF IsFeed, tob

(* record_trade leaves the top of book alone.                              *)
LEMMA RecordFields ==
  ASSUME NEW f, IsFeed(f), NEW t
  PROVE  /\ Record(f, t) = [last_tob |-> f.last_tob,
                            recent_trades |-> PushBounded(f.recent_trades,
                                                [price |-> t.price, qty |-> t.qty],
                                                MaxTradeHistory),
                            spread_history |-> f.spread_history]
<1> DEFINE r == PushBounded(f.recent_trades, [price |-> t.price, qty |-> t.qty], MaxTradeHistory)
<1>1. Record(f, t) = [f EXCEPT !.recent_trades = r]
  BY DEF Record, record_trade
<1> HIDE DEF r
<1>2. Record(f, t) = [last_tob |-> f.last_tob, recent_trades |-> r, spread_history |-> f.spread_history]
  BY <1>1 DEF IsFeed
<1> QED BY <1>2 DEF r

(* Tape w holds the m trades ts after its first n.                         *)
Taped(ts, m, w, n) ==
  /\ DOMAIN ts = 1 .. m /\ Len(ts) = m
  /\ \A i \in 1 .. m : ts[i].price \in Int /\ ts[i].qty \in Nat
  /\ \A i \in 1 .. m : w[n + i].price = ts[i].price /\ w[n + i].qty = ts[i].qty

(* Feed f shows book b and the latest of the first n trades of tape w.     *)
FeedShows(f, b, w, n) ==
  IsFeed(f) /\ f.last_tob = TopOfBook(b) /\ Latest(f.recent_trades, w, n)

(* A call that trades ts shows the book it leaves and the latest trades of *)
(* the tape w it leaves.                                                   *)
LEMMA FeedFollows ==
  ASSUME NEW s, IsFeed(feeds[s]), NEW b, NEW w, NEW n \in Nat,
         Latest(feeds[s].recent_trades, w, n),
         NEW ts, NEW m \in Nat, Taped(ts, m, w, n)
  PROVE  FeedShows(FeedAfter(s, b, ts), b, w, n + m)
<1>0. /\ DOMAIN ts = 1 .. m /\ Len(ts) = m
      /\ \A i \in 1 .. m : ts[i].price \in Int /\ ts[i].qty \in Nat
      /\ \A i \in 1 .. m : w[n + i].price = ts[i].price /\ w[n + i].qty = ts[i].qty
  BY DEF Taped
<1>1. PICK R : Records(R, feeds[s], ts) /\ FeedAfter(s, b, ts) = update(R[m], b)
  BY <1>0, FeedRecords
<1> DEFINE P == {k \in Nat : k <= m => IsFeed(R[k]) /\ Latest(R[k].recent_trades, w, n + k)}
<1>2. 0 \in P
  <2>1. R[0] = feeds[s] /\ n + 0 = n
    BY <1>1 DEF Records
  <2> QED BY <2>1
<1>3. ASSUME NEW k \in P PROVE k + 1 \in P
  <2> SUFFICES ASSUME k + 1 <= m
               PROVE  IsFeed(R[k + 1]) /\ Latest(R[k + 1].recent_trades, w, n + (k + 1))
    OBVIOUS
  <2> DEFINE t == ts[k + 1]
             x == [price |-> t.price, qty |-> t.qty]
             r == R[k].recent_trades
             u == PushBounded(r, x, MaxTradeHistory)
  <2>1. k \in Nat /\ k < m /\ IsFeed(R[k]) /\ Latest(r, w, n + k) /\ n + k \in Nat
    OBVIOUS
  <2>2. /\ k + 1 \in 1 .. m /\ n + (k + 1) = (n + k) + 1
    BY <2>1
  <2>3. R[k + 1] = Record(R[k], t)
    BY <1>0, <1>1, <2>1 DEF Records
  <2>4. R[k + 1] = [last_tob |-> R[k].last_tob, recent_trades |-> u,
                    spread_history |-> R[k].spread_history]
    BY <2>1, <2>3, RecordFields
  <2>5. x \in Recorded /\ x = [price |-> w[(n + k) + 1].price, qty |-> w[(n + k) + 1].qty]
    BY <1>0, <2>2 DEF Recorded
  <2>6. r \in Seq(Recorded)
    BY <2>1 DEF IsFeed
  <2> HIDE DEF x, r, u
  <2>7. u \in Seq(Recorded) /\ Latest(u, w, (n + k) + 1)
    BY <2>1, <2>5, <2>6, LatestPushed DEF u
  <2> QED BY <2>2, <2>4, <2>7 DEF IsFeed
<1>4. P \in SUBSET Nat
  OBVIOUS
<1> HIDE DEF P
<1>5. P = Nat
  BY <1>2, <1>3, <1>4, SetInduction
<1>6. IsFeed(R[m]) /\ Latest(R[m].recent_trades, w, n + m)
  BY <1>5 DEF P
<1> QED BY <1>1, <1>6, FeedFields DEF FeedShows

-------------------------------------------------------------------------------
(* What the feeds of every symbol show.                                    *)

(* A feed that has seen every trade of its book.                           *)
Follows(b, f, w) == IsFeed(f) /\ b.trades = Len(w) /\ Latest(f.recent_trades, w, Len(w))

FeedsInv ==
  /\ \A s \in DOMAIN books :
       /\ Follows(books[s], feeds[s], tape[s])
       /\ IF s \in DOMAIN depths
          THEN feeds[s].last_tob = TopOfBook(books[s]) /\ depths[s] = snapshot(books[s])
          ELSE books[s] = EmptyBook /\ ~feeds[s].last_tob.valid
  /\ \A s \in Symbols \ DOMAIN books : tape[s] = <<>>
  /\ trades_generated = TradesSoFar

(* The trades are counted once, in the symbol they are made in.            *)
LEMMA TradesCounted ==
  ASSUME tape \in [Symbols -> Seq(TapeEntry)], NEW s \in Symbols, NEW u \in Seq(TapeEntry),
         NEW n \in Nat, Len(u) = Len(tape[s]) + n, tape' = [tape EXCEPT ![s] = u]
  PROVE  TradesSoFar' = TradesSoFar + n
<1> DEFINE f == [x \in Symbols |-> Len(tape[x])]
           e == [x \in Symbols |-> Len(tape'[x])]
           rest == Symbols \ {s}
<1>1. TradesSoFar = SumFunctionOnSet(f, Symbols) /\ TradesSoFar' = SumFunctionOnSet(e, Symbols)
  BY DEF TradesSoFar
<1>2. /\ \A x \in Symbols : f[x] \in Int
      /\ e[s] = f[s] + n
      /\ \A x \in rest : e[x] = f[x]
  <2>1. \A x \in Symbols : tape[x] \in Seq(TapeEntry) /\ Len(tape[x]) \in Int
    BY LenProperties
  <2> QED BY <2>1
<1>3. IsFiniteSet(Symbols) /\ IsFiniteSet(rest) /\ rest \subseteq Symbols
  BY SymbolsAssumption, FS_Subset
<1> HIDE DEF f, e
<1>4. \A x \in Symbols : e[x] \in Int
  BY <1>2
<1>5. /\ SumFunctionOnSet(f, Symbols) = f[s] + SumFunctionOnSet(f, rest)
      /\ SumFunctionOnSet(e, Symbols) = e[s] + SumFunctionOnSet(e, rest)
  BY <1>2, <1>3, <1>4, SumSplit
<1> HIDE DEF rest
<1>6. SumFunctionOnSet(f, rest) = SumFunctionOnSet(e, rest)
  BY <1>2, <1>3, SumSame
<1>7. SumFunctionOnSet(f, rest) \in Int
  BY <1>2, <1>3, SumRecursion
<1> QED BY <1>1, <1>2, <1>5, <1>6, <1>7

(* Before the first trade there are none.                                  *)
LEMMA NoTradesYet == ASSUME tape = [s \in Symbols |-> <<>>] PROVE TradesSoFar = 0
<1> DEFINE f == [s \in Symbols |-> Len(tape[s])]
           P == {n \in Nat : \A S \in SUBSET Symbols :
                    Cardinality(S) = n => SumFunctionOnSet(f, S) = 0}
<1>1. \A s \in Symbols : f[s] = 0
  BY EmptySeq
<1>2. \A S \in SUBSET Symbols : IsFiniteSet(S) /\ Cardinality(S) \in Nat
  BY SymbolsAssumption, FS_Subset, FS_CardinalityType
<1> HIDE DEF f
<1>3. \A S \in SUBSET Symbols : SumFunctionOnSet(f, S) \in Int
        /\ (S = {} => SumFunctionOnSet(f, S) = 0)
        /\ \A y \in S : SumFunctionOnSet(f, S) = f[y] + SumFunctionOnSet(f, S \ {y})
  <2> TAKE S \in SUBSET Symbols
  <2>1. IsFiniteSet(S) /\ \A x \in S : f[x] \in Int
    BY <1>1, <1>2
  <2>2. SumFunctionOnSet(f, S) \in Int /\ (S = {} => SumFunctionOnSet(f, S) = 0)
    BY <2>1, SumRecursion
  <2>3. \A y \in S : SumFunctionOnSet(f, S) = f[y] + SumFunctionOnSet(f, S \ {y})
    BY <2>1, SumSplit
  <2> QED BY <2>2, <2>3
<1>4. 0 \in P
  BY <1>2, <1>3, FS_EmptySet
<1>5. ASSUME NEW n \in P PROVE n + 1 \in P
  <2> SUFFICES ASSUME NEW S \in SUBSET Symbols, Cardinality(S) = n + 1
               PROVE  SumFunctionOnSet(f, S) = 0
    OBVIOUS
  <2>1. PICK y \in S : TRUE
    BY <1>2, FS_EmptySet
  <2>2. Cardinality(S \ {y}) = n /\ S \ {y} \in SUBSET Symbols
    <3>1. Cardinality(S \ {y}) = Cardinality(S) - 1
      BY <1>2, SmallerPart
    <3> QED BY <3>1
  <2>3. SumFunctionOnSet(f, S \ {y}) = 0
    BY <2>2
  <2>4. SumFunctionOnSet(f, S) = f[y] + SumFunctionOnSet(f, S \ {y}) /\ f[y] = 0
    BY <1>1, <1>3
  <2> QED BY <2>3, <2>4
<1>6. P \in SUBSET Nat
  OBVIOUS
<1> HIDE DEF P
<1>7. P = Nat
  BY <1>4, <1>5, <1>6, SetInduction
<1>8. SumFunctionOnSet(f, Symbols) = 0
  BY <1>2, <1>7 DEF P
<1> QED BY <1>8 DEF TradesSoFar, f

(* What a feed records is not touched by later trades on the tape.         *)
LEMMA LatestKept ==
  ASSUME NEW r, NEW w, NEW v, NEW n \in Nat, Latest(r, w, n), \A i \in 1 .. n : v[i] = w[i]
  PROVE  Latest(r, v, n)
<1> DEFINE k == IF n < MaxTradeHistory THEN n ELSE MaxTradeHistory
<1>1. k \in Nat /\ k <= n
  BY HistoryAssumption
<1>2. \A i \in 1 .. k : n - k + i \in 1 .. n
  BY <1>1
<1>3. Len(r) = k /\ \A i \in 1 .. k : r[i] = [price |-> w[n - k + i].price, qty |-> w[n - k + i].qty]
  BY DEF Latest
<1>4. \A i \in 1 .. k : v[n - k + i] = w[n - k + i]
  BY <1>2
<1> HIDE DEF k
<1>5. \A i \in 1 .. k : r[i] = [price |-> v[n - k + i].price, qty |-> v[n - k + i].qty]
  BY <1>3, <1>4
<1> QED BY <1>3, <1>5 DEF Latest, k

(* The constructor of a feed, whatever it leaves uninitialised.            *)
LEMMA NewFeedFollows ==
  ASSUME NEW junk
  PROVE  Follows(EmptyBook, NewFeed(junk), <<>>) /\ ~NewFeed(junk).last_tob.valid
<1>1. <<>> \in Seq(Recorded) /\ Len(<<>>) = 0
  BY EmptySeq
<1>2. NewFeed(junk).recent_trades = <<>> /\ IsFeed(NewFeed(junk)) /\ ~NewFeed(junk).last_tob.valid
  BY <1>1 DEF NewFeed, IsFeed
<1>3. Latest(<<>>, <<>>, 0)
  BY <1>1, HistoryAssumption DEF Latest
<1>4. EmptyBook.trades = 0
  BY DEF EmptyBook
<1> QED BY <1>1, <1>2, <1>3, <1>4 DEF Follows

(* add_symbol: nothing is published until the first call.                  *)
LEMMA FeedsSymbolAdded ==
  ASSUME MarketInv, FeedsInv, NEW s \in Symbols, NEW junk, add_symbol(s, junk)
  PROVE  FeedsInv'
<1>1. /\ s \notin DOMAIN books
      /\ DOMAIN books' = DOMAIN books \cup {s}
      /\ \A x \in DOMAIN books' : books'[x] = IF x = s THEN EmptyBook ELSE books[x]
      /\ \A x \in DOMAIN books' : feeds'[x] = IF x = s THEN NewFeed(junk) ELSE feeds[x]
      /\ depths' = depths /\ tape' = tape /\ trades_generated' = trades_generated
  BY DEF add_symbol, Put, stats, MarketInv, MarketTyped
<1>2. s \notin DOMAIN depths
  BY <1>1 DEF MarketInv, MarketTyped
<1>3. TradesSoFar' = TradesSoFar
  BY <1>1 DEF TradesSoFar
<1>4. tape[s] = <<>>
  BY <1>1 DEF FeedsInv
<1>5. ASSUME NEW x \in DOMAIN books'
      PROVE  /\ Follows(books'[x], feeds'[x], tape'[x])
             /\ IF x \in DOMAIN depths'
                THEN feeds'[x].last_tob = TopOfBook(books'[x]) /\ depths'[x] = snapshot(books'[x])
                ELSE books'[x] = EmptyBook /\ ~feeds'[x].last_tob.valid
  <2>1. CASE x = s
    <3>1. books'[x] = EmptyBook /\ feeds'[x] = NewFeed(junk) /\ tape'[x] = <<>> /\ x \notin DOMAIN depths'
      BY <1>1, <1>2, <1>4, <2>1
    <3> QED BY <3>1, NewFeedFollows
  <2>2. CASE x # s
    <3>1. books'[x] = books[x] /\ feeds'[x] = feeds[x] /\ x \in DOMAIN books
      BY <1>1, <2>2
    <3> QED BY <1>1, <3>1 DEF FeedsInv
  <2> QED BY <2>1, <2>2
<1>6. trades_generated' = TradesSoFar' /\ \A x \in Symbols \ DOMAIN books' : tape'[x] = <<>>
  BY <1>1, <1>3 DEF FeedsInv
<1> QED BY <1>5, <1>6 DEF FeedsInv

(* One symbol changes, and its feeds are brought up to date.               *)
LEMMA FeedsBroughtUp ==
  ASSUME MarketInv, FeedsInv, NEW s \in DOMAIN books, NEW b, NEW f,
         Follows(b, f, tape'[s]), f.last_tob = TopOfBook(b),
         books' = Put(books, s, b), feeds' = Put(feeds, s, f),
         depths' = Put(depths, s, snapshot(b)),
         \A x \in Symbols \ {s} : tape'[x] = tape[x],
         trades_generated' = TradesSoFar'
  PROVE  FeedsInv'
<1>1. /\ DOMAIN books' = DOMAIN books /\ DOMAIN depths' = DOMAIN depths \cup {s}
      /\ \A x \in DOMAIN books : books'[x] = IF x = s THEN b ELSE books[x]
      /\ \A x \in DOMAIN books : feeds'[x] = IF x = s THEN f ELSE feeds[x]
      /\ \A x \in DOMAIN depths' : depths'[x] = IF x = s THEN snapshot(b) ELSE depths[x]
      /\ DOMAIN books \subseteq Symbols
  BY DEF Put, MarketInv, MarketTyped
<1>2. ASSUME NEW x \in DOMAIN books
      PROVE  /\ Follows(books'[x], feeds'[x], tape'[x])
             /\ IF x \in DOMAIN depths'
                THEN feeds'[x].last_tob = TopOfBook(books'[x]) /\ depths'[x] = snapshot(books'[x])
                ELSE books'[x] = EmptyBook /\ ~feeds'[x].last_tob.valid
  <2>1. CASE x = s
    <3>1. books'[x] = b /\ feeds'[x] = f /\ depths'[x] = snapshot(b) /\ x \in DOMAIN depths'
      BY <1>1, <2>1
    <3> QED BY <2>1, <3>1
  <2>2. CASE x # s
    <3>1. /\ books'[x] = books[x] /\ feeds'[x] = feeds[x] /\ tape'[x] = tape[x]
          /\ x \in DOMAIN depths' <=> x \in DOMAIN depths
          /\ x \in DOMAIN depths => depths'[x] = depths[x]
      BY <1>1, <2>2
    <3> QED BY <3>1 DEF FeedsInv
  <2> QED BY <2>1, <2>2
<1>3. \A x \in Symbols \ DOMAIN books' : tape'[x] = <<>>
  BY <1>1 DEF FeedsInv
<1> QED BY <1>1, <1>2, <1>3 DEF FeedsInv

(* A new order or a replace.                                               *)
LEMMA FeedsPublished ==
  ASSUME MarketInv, FeedsInv, NEW s \in DOMAIN books, NEW trader \in Traders, NEW side, NEW id, NEW r,
         CallSound(books[s], id, r, OrderIds, Traders, LimitPrices),
         Publish(s, trader, side, r)
  PROVE  FeedsInv'
<1> DEFINE ts == r.trades
           u == TapeAfter(s, trader, side, ts)
           f == FeedAfter(s, r.book, ts)
<1>1. /\ s \in Symbols /\ tape \in [Symbols -> Seq(TapeEntry)] /\ tape[s] \in Seq(TapeEntry)
      /\ Follows(books[s], feeds[s], tape[s])
  BY DEF MarketInv, MarketTyped, FeedsInv
<1>2. PICK n \in Nat : n = Len(tape[s])
  BY <1>1, LenProperties
<1>3. ts \in Seq(TradesMade(OrderIds, Traders, LimitPrices)) /\ r.book.trades = books[s].trades + Len(ts)
  BY DEF CallSound
<1>4. PICK m \in Nat : m = Len(ts) /\ DOMAIN ts = 1 .. m
        /\ \A i \in 1 .. m : ts[i] \in TradesMade(OrderIds, Traders, LimitPrices)
  BY <1>3, LenProperties, ElementOfSeq
<1>5. \A i \in 1 .. m : ts[i].price \in Int /\ ts[i].qty \in Nat
  BY <1>4, PricesAssumption DEF TradesMade
<1>6. /\ books' = Put(books, s, r.book) /\ feeds' = Put(feeds, s, f)
      /\ depths' = Put(depths, s, snapshot(r.book))
      /\ tape' = [tape EXCEPT ![s] = u] /\ trades_generated' = trades_generated + m
  BY <1>4 DEF Publish
<1>7. /\ u \in Seq(TapeEntry) /\ Len(u) = n + m
      /\ \A i \in 1 .. n : u[i] = tape[s][i]
      /\ \A i \in 1 .. m : u[n + i].price = ts[i].price /\ u[n + i].qty = ts[i].qty
  BY <1>1, <1>2, <1>3, <1>4, TapeTyped
<1> HIDE DEF ts, u, f
<1>8. Latest(feeds[s].recent_trades, u, n)
  BY <1>1, <1>2, <1>7, LatestKept DEF Follows
<1>9. /\ IsFeed(f) /\ f.last_tob = TopOfBook(r.book) /\ Latest(f.recent_trades, u, n + m)
  <2>1. IsFeed(feeds[s])
    BY <1>1 DEF Follows
  <2>2. Taped(ts, m, u, n)
    BY <1>4, <1>5, <1>7 DEF Taped
  <2>3. FeedShows(f, r.book, u, n + m)
    BY <1>8, <2>1, <2>2, FeedFollows DEF f
  <2> QED BY <2>3 DEF FeedShows
<1>10. Follows(r.book, f, u)
  <2>1. books[s].trades = n
    BY <1>1, <1>2 DEF Follows
  <2>2. r.book.trades = n + m
    BY <1>3, <1>4, <2>1
  <2> QED BY <1>7, <1>9, <2>2 DEF Follows
<1>11. tape'[s] = u /\ \A x \in Symbols \ {s} : tape'[x] = tape[x]
  BY <1>1, <1>6
<1>12. trades_generated' = TradesSoFar'
  <2>1. TradesSoFar' = TradesSoFar + m
    BY <1>1, <1>2, <1>6, <1>7, TradesCounted
  <2> QED BY <1>6, <2>1 DEF FeedsInv
<1> QED BY <1>6, <1>9, <1>10, <1>11, <1>12, FeedsBroughtUp

(* A cancel makes no trade.                                                *)
LEMMA FeedsCancelled ==
  ASSUME MarketInv, FeedsInv, NEW id, NEW z, process_cancel(id, z)
  PROVE  FeedsInv'
<1> DEFINE s == Route(id, z)
           r == cancel_order(books[s], id)
           f == update(feeds[s], r.book)
<1>1. /\ s \in DOMAIN books /\ books' = Put(books, s, r.book) /\ feeds' = Put(feeds, s, f)
      /\ depths' = Put(depths, s, snapshot(r.book))
      /\ tape' = tape /\ trades_generated' = trades_generated
  BY DEF process_cancel
<1>2. r.book.trades = books[s].trades
  BY <1>1, PricesAssumption, CancelOrderSound DEF MarketInv, BooksSound
<1>3. Follows(books[s], feeds[s], tape[s])
  BY <1>1 DEF FeedsInv
<1>4. /\ IsFeed(f) /\ f.last_tob = TopOfBook(r.book) /\ f.recent_trades = feeds[s].recent_trades
  BY <1>3, FeedFields DEF Follows
<1> HIDE DEF s, r, f
<1>5. Follows(r.book, f, tape'[s])
  BY <1>1, <1>2, <1>3, <1>4 DEF Follows
<1>6. trades_generated' = TradesSoFar'
  BY <1>1 DEF TradesSoFar, FeedsInv
<1> QED BY <1>1, <1>4, <1>5, <1>6, FeedsBroughtUp

(* What does not touch the market.                                         *)
LEMMA FeedsStay ==
  ASSUME FeedsInv, UNCHANGED <<market, trades_generated>>
  PROVE  FeedsInv'
BY DEF FeedsInv, market, TradesSoFar

(* Every step keeps the invariant.                                         *)
LEMMA FeedsStep == EngineInv /\ FeedsInv /\ [EngineNext]_engineVars => FeedsInv'
<1> SUFFICES ASSUME EngineInv, FeedsInv, [EngineNext]_engineVars
             PROVE  FeedsInv'
  OBVIOUS
<1>1. MarketInv /\ CallInv /\ LimitPrices \subseteq Int
  BY PricesAssumption DEF EngineInv
<1>2. ASSUME NEW s \in Symbols, NEW junk, add_symbol(s, junk)
      PROVE  FeedsInv'
  BY <1>1, <1>2, FeedsSymbolAdded
<1>3. ASSUME NEW o \in NewOrders, NewUnknownSymbol(o) \/ NewCheck(o)
      PROVE  FeedsInv'
  <2>1. UNCHANGED <<market, trades_generated>>
    BY <1>3 DEF NewUnknownSymbol, NewCheck
  <2> QED BY <2>1, FeedsStay
<1>4. CASE NewExecute
  <2> DEFINE o == pending
             r == add_order(books[o.symbol], o)
  <2>1. Checked(o)
    BY <1>1, <1>4 DEF NewExecute, CallInv
  <2>2. o \in NewOrders /\ o.symbol \in DOMAIN books
    BY <2>1 DEF Checked
  <2>3. Incoming(o, OrderIds, Traders, LimitPrices) /\ o.trader \in Traders
    BY <2>2, NewOrderFields DEF NewOrders
  <2>4. BookSound(books[o.symbol], OrderIds, Traders, LimitPrices)
    BY <1>1, <2>2 DEF MarketInv, BooksSound
  <2>5. CallSound(books[o.symbol], o.id, r, OrderIds, Traders, LimitPrices)
    BY <1>1, <2>3, <2>4, AddOrderSound
  <2>6. Publish(o.symbol, o.trader, o.side, r)
    BY <1>4 DEF NewExecute
  <2> HIDE DEF o, r
  <2> QED BY <1>1, <2>2, <2>3, <2>5, <2>6, FeedsPublished
<1>5. ASSUME NEW id, NEW s, Unrouted(id, s)
      PROVE  FeedsInv'
  <2>1. UNCHANGED <<market, trades_generated>>
    BY <1>5 DEF Unrouted, engineVars, stats
  <2> QED BY <2>1, FeedsStay
<1>6. ASSUME NEW id, NEW s, process_cancel(id, s)
      PROVE  FeedsInv'
  BY <1>1, <1>6, FeedsCancelled
<1>7. ASSUME NEW id, NEW t \in Traders, NEW s, NEW p \in LimitPrices,
             NEW q \in OrderQuantities, process_replace(id, t, s, p, q)
      PROVE  FeedsInv'
  <2> DEFINE side == IF id \in DOMAIN books[s].index THEN books[s].index[id].side ELSE Buy
             r == replace_order(books[s], id, t, p, q)
  <2>1. s \in DOMAIN books /\ Publish(s, t, side, r)
    BY <1>7 DEF process_replace
  <2>2. BookSound(books[s], OrderIds, Traders, LimitPrices) /\ q \in Int
    BY <1>1, <2>1, QuantitiesAssumption DEF MarketInv, BooksSound
  <2>3. CallSound(books[s], id, r, OrderIds, Traders, LimitPrices)
    BY <1>1, <2>2, ReplaceOrderSound
  <2> HIDE DEF side, r
  <2> QED BY <1>1, <2>1, <2>3, FeedsPublished
<1>8. CASE KillAll \/ OtherSwitches \/ UNCHANGED engineVars
  <2>1. UNCHANGED <<market, trades_generated>>
    BY <1>8 DEF KillAll, OtherSwitches, engineVars, stats
  <2> QED BY <2>1, FeedsStay
<1> QED BY <1>2, <1>3, <1>4, <1>5, <1>6, <1>7, <1>8 DEF EngineNext

(* No symbols, no feeds.                                                   *)
LEMMA FeedsStart == EngineInit => FeedsInv
<1> SUFFICES ASSUME EngineInit PROVE FeedsInv
  OBVIOUS
<1>1. DOMAIN books = {} /\ tape = [s \in Symbols |-> <<>>] /\ trades_generated = 0
  BY DEF EngineInit, EmptyMap
<1>2. TradesSoFar = 0
  BY <1>1, NoTradesYet
<1> QED BY <1>1, <1>2 DEF FeedsInv

(* A book that has no orders and a feed that shows nothing are current.    *)
LEMMA FeedsShowBooks == MarketInv /\ FeedsInv => FeedsCurrent
<1> SUFFICES ASSUME MarketInv, FeedsInv PROVE FeedsCurrent
  OBVIOUS
<1>1. \A side \in Sides : Prices(EmptyBook, side) = {}
  BY DEF EmptyBook, EmptyMap, Prices
<1>2. ~TopOfBook(EmptyBook).valid
  BY <1>1 DEF TopOfBook, Sides
<1>3. L1Current
  <2> SUFFICES ASSUME NEW s \in DOMAIN books,
                      feeds[s].last_tob.valid \/ TopOfBook(books[s]).valid
               PROVE  feeds[s].last_tob = TopOfBook(books[s])
    BY DEF L1Current, get_top_of_book
  <2> QED BY <1>2 DEF FeedsInv
<1>4. L2Current
  <2> SUFFICES ASSUME NEW s \in DOMAIN books
               PROVE  IF s \in DOMAIN depths
                      THEN Shows(depths[s].bids, books[s], Buy) /\ Shows(depths[s].asks, books[s], Sell)
                      ELSE \A side \in Sides : Prices(books[s], side) = {}
    BY DEF L2Current
  <2>1. ASSUME NEW side \in Sides PROVE Shows(Depth(books[s], side, L2Depth), books[s], side)
    <3>1. IsFiniteSet(Prices(books[s], side)) /\ Prices(books[s], side) \subseteq LimitPrices
      BY DEF MarketInv, BooksSound, BookSound, BookTyped
    <3>2. Prices(books[s], side) \subseteq Int
      BY <3>1, PricesAssumption
    <3> QED BY <3>1, <3>2, DepthShown
  <2>2. CASE s \in DOMAIN depths
    <3>1. depths[s] = snapshot(books[s])
      BY <2>2 DEF FeedsInv
    <3>2. depths[s].bids = Depth(books[s], Buy, L2Depth) /\ depths[s].asks = Depth(books[s], Sell, L2Depth)
      BY <3>1 DEF snapshot
    <3>3. Buy \in Sides /\ Sell \in Sides
      BY DEF Sides
    <3> QED BY <2>1, <2>2, <3>2, <3>3
  <2>3. CASE s \notin DOMAIN depths
    <3>1. books[s] = EmptyBook
      BY <2>3 DEF FeedsInv
    <3> QED BY <1>1, <2>3, <3>1
  <2> QED BY <2>2, <2>3
<1>5. L1Window
  <2> SUFFICES ASSUME NEW s \in DOMAIN books
               PROVE  LET n == Len(tape[s])
                          k == Len(feeds[s].recent_trades)
                      IN  /\ books[s].trades = n
                          /\ k = IF n < MaxTradeHistory THEN n ELSE MaxTradeHistory
                          /\ \A i \in 1 .. k :
                               LET e == tape[s][n - k + i]
                               IN  feeds[s].recent_trades[i] = [price |-> e.price, qty |-> e.qty]
    BY DEF L1Window, FeedsInv
  <2>1. books[s].trades = Len(tape[s]) /\ Latest(feeds[s].recent_trades, tape[s], Len(tape[s]))
    BY DEF FeedsInv, Follows
  <2> QED BY <2>1 DEF Latest
<1> QED BY <1>3, <1>4, <1>5 DEF FeedsCurrent

(* Between calls get_top_of_book is the top of the book, the snapshot last *)
(* given to the L2 callback is of the book as it is, and the trades the L1 *)
(* feed averages over are the latest of its own symbol.                    *)
THEOREM FeedsFollow == EngineSpec => []FeedsCurrent
<1>1. EngineInit => EngineInv /\ FeedsInv
  BY EngineStart, FeedsStart
<1>2. EngineInv /\ FeedsInv /\ [EngineNext]_engineVars => (EngineInv /\ FeedsInv)'
  BY EngineStep, FeedsStep
<1>3. EngineInv /\ FeedsInv => FeedsCurrent
  BY FeedsShowBooks DEF EngineInv
<1> QED BY <1>1, <1>2, <1>3, PTL DEF EngineSpec
===============================================================================
