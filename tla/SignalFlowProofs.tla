-------------------------- MODULE SignalFlowProofs --------------------------
(***************************************************************************)
(* Proofs about one tick from the market to the order, for any markets,    *)
(* accounts, conditions and parameters: nothing is sent while the kill     *)
(* switch is on, an entry stands alone, and what one signal sends stays    *)
(* within the risk of a trade.                                             *)
(***************************************************************************)
EXTENDS SignalFlow, TLAPS

-----------------------------------------------------------------------------
(* Whole numbers.                                                          *)

LEMMA DivBounds ==
  ASSUME NEW n \in Nat, NEW d \in Nat \ {0}
  PROVE  n \div d \in Nat /\ (n \div d) * d <= n
  OBVIOUS

LEMMA ProductMonotone ==
  ASSUME NEW a \in Nat, NEW b \in Nat, NEW c \in Nat, a <= b
  PROVE  a * c \in Nat /\ a * c <= b * c /\ c * a <= c * b
  OBVIOUS

(* A share of a whole that is sent in that share is no more than the whole *)
LEMMA ShareBounds ==
  ASSUME NEW sum \in Nat, NEW total \in Nat, NEW share \in Nat, NEW whole \in Nat \ {0},
         share <= whole, sum * whole <= total * share
  PROVE  sum <= total
<1>1. total * share <= total * whole
  BY ProductMonotone
<1>2. sum * whole \in Nat /\ total * share \in Nat /\ total * whole \in Nat
  OBVIOUS
<1>3. sum * whole <= total * whole
  BY <1>1, <1>2
<1>4. SUFFICES ASSUME sum >= total + 1 PROVE FALSE
  OBVIOUS
<1>5. (total + 1) * whole <= sum * whole
  BY <1>4, ProductMonotone
<1>6. (total + 1) * whole = total * whole + whole
  OBVIOUS
<1>7. QED
  BY <1>2, <1>3, <1>5, <1>6

-----------------------------------------------------------------------------
(* The size of an entry.                                                   *)

LEMMA RiskCapNat ==
  ASSUME NEW a \in Accounts
  PROVE  RiskCap(a) \in Nat
<1> USE SizingAssumption
<1>1. a.capital \in Nat /\ a.available \in Nat
  BY DEF Accounts
<1>2. (8 * MaxLeverage) \div 10 \in Nat
  BY DivBounds
<1>3. EffectiveAvailable(a) \in Nat
  BY <1>1, <1>2 DEF EffectiveAvailable, Higher
<1>4. CASE a.capital > 0 /\ MaxLossPct > 0 /\ StopPct > 0
  <2>1. (a.capital * MaxLossPct) \div StopPct \in Nat
    BY <1>1, <1>4, DivBounds
  <2>2. QED
    BY <1>3, <1>4, <2>1 DEF RiskCap, Lower
<1>5. QED
  BY <1>3, <1>4 DEF RiskCap

LEMMA LimitsNat ==
  ASSUME NEW a \in Accounts
  PROVE  HardLimit(a) \in Nat /\ TargetNotional(a) \in Nat
<1> USE SizingAssumption
<1>1. a.capital \in Nat /\ a.exposure \in Nat
  BY DEF Accounts
<1>2. a.capital * MaxLeverage \in Nat
  BY <1>1
<1>3. BudgetLimit(a) \in Nat /\ ConcentrationLimit(a) \in Nat
  BY <1>2, DivBounds DEF BudgetLimit, ConcentrationLimit
<1>4. (3 * a.capital * MaxLeverage) \div 10 \in Nat
  BY <1>1, DivBounds
<1>5. StrategyLimit(a) \in Nat
  BY <1>1, <1>4 DEF StrategyLimit, Higher
<1>6. MaxLeverage \div 2 \in Nat
  BY DivBounds
<1>7. Higher(MaxLeverage \div 2, 10) \in Nat
  BY <1>6 DEF Higher
<1>8. 5 * a.capital * Higher(MaxLeverage \div 2, 10) \in Nat
  BY <1>1, <1>7
<1>9. TargetNotional(a) \in Nat
  BY <1>8, DivBounds DEF TargetNotional
<1>10. QED
  BY <1>3, <1>5, <1>9 DEF HardLimit, Lower

LEMMA MultipliersNat ==
  ASSUME NEW a \in Accounts, NEW regime
  PROVE  VolatilityMultiplier(a, regime) \in Nat /\ DrawdownScale(a) \in Nat
<1>1. a.volatility \in Nat /\ a.drawdown \in 0..100 /\ a.win \in 0..100 /\ a.ratio \in Nat
  BY DEF Accounts, Percent
<1>2. DrawdownScale(a) \in Nat
  BY <1>1 DEF DrawdownScale
<1>3. KellyEdge(a) \in Int
  BY <1>1 DEF KellyEdge
<1>4. RegimeMultiplier(regime) \in Nat
  BY DEF RegimeMultiplier
<1>5. VolatilityMultiplier(a, regime) \in Nat
  <2>1. CASE a.volatility = 0
    BY <2>1 DEF VolatilityMultiplier
  <2>2. CASE a.volatility > 0 /\ KellyEdge(a) <= 0
    BY <2>2, <1>1 DEF VolatilityMultiplier
  <2>3. CASE a.volatility > 0 /\ ~(KellyEdge(a) <= 0)
    <3>1. KellyEdge(a) \div 4 \in Nat
      BY <1>3, <2>3, DivBounds
    <3>2. Higher(KellyEdge(a) \div 4, 10) \in Nat
      BY <3>1 DEF Higher
    <3>3. 15 * Higher(KellyEdge(a) \div 4, 10) * RegimeMultiplier(regime) \in Nat
      BY <3>2, <1>4
    <3>4. 100 * a.volatility \in Nat \ {0}
      BY <1>1, <2>3
    <3>5. (15 * Higher(KellyEdge(a) \div 4, 10) * RegimeMultiplier(regime))
            \div (100 * a.volatility) \in Nat
      BY <3>3, <3>4, DivBounds
    <3>6. VolatilityMultiplier(a, regime) =
            Lower(200, Higher(10, (15 * Higher(KellyEdge(a) \div 4, 10) * RegimeMultiplier(regime))
                                    \div (100 * a.volatility)))
      BY <2>3, <1>1 DEF VolatilityMultiplier
    <3>7. QED
      BY <3>5, <3>6 DEF Lower, Higher
  <2>4. QED
    BY <1>1, <1>3, <2>1, <2>2, <2>3
<1>6. QED
  BY <1>2, <1>5

(* The notional before the filters is within the risk of a trade.          *)
LEMMA SizedNotionalBounded ==
  ASSUME NEW x \in Snapshots, NEW a \in Accounts, NEW regime, NEW multiplier \in Nat
  PROVE  /\ SizedNotional(x, a, regime, multiplier) \in Nat
         /\ SizedNotional(x, a, regime, multiplier) <= RiskCap(a)
<1> DEFINE wanted == Lower(Higher(TargetNotional(a), a.hint * x.mid), HardLimit(a))
           vol == VolatilityMultiplier(a, regime)
           scaled == Lower((wanted * multiplier * vol) \div 10000, HardLimit(a))
           down == (scaled * DrawdownScale(a)) \div 100
<1>1. a.hint * x.mid \in Nat /\ x.depth \in Nat
  BY DEF Accounts, Snapshots
<1>2. HardLimit(a) \in Nat /\ TargetNotional(a) \in Nat /\ RiskCap(a) \in Nat
  BY LimitsNat, RiskCapNat
<1>3. wanted \in Nat
  BY <1>1, <1>2 DEF Lower, Higher
<1>4. vol \in Nat /\ DrawdownScale(a) \in Nat
  BY MultipliersNat
<1>5. wanted * multiplier * vol \in Nat
  <2> HIDE DEF wanted, vol
  <2>1. wanted * multiplier \in Nat
    BY <1>3
  <2>2. QED
    BY <2>1, <1>4
<1> HIDE DEF wanted, vol
<1>6. (wanted * multiplier * vol) \div 10000 \in Nat
  BY <1>5, DivBounds
<1>7. scaled \in Nat
  BY <1>2, <1>6 DEF Lower
<1> HIDE DEF scaled
<1>8. scaled * DrawdownScale(a) \in Nat
  BY <1>4, <1>7
<1>9. down \in Nat
  BY <1>8, DivBounds
<1> HIDE DEF down
<1>10. x.depth \div 10 \in Nat
  BY <1>1, DivBounds
<1>11. LiquidityCap(x, down) \in Nat
  BY <1>9, <1>10 DEF LiquidityCap, Lower
<1>12. SizedNotional(x, a, regime, multiplier) = Lower(LiquidityCap(x, down), RiskCap(a))
  BY DEF SizedNotional, down, scaled, wanted, vol
<1>13. QED
  BY <1>2, <1>11, <1>12 DEF Lower

(* Neither rounding down nor raising to a minimum leaves the risk.         *)
LEMMA FiltersBounded ==
  ASSUME NEW n \in Nat, NEW price \in Nat \ {0}, NEW cap \in Nat, n <= cap
  PROVE  /\ ApplyExchangeFilters(n, price, cap) \in Nat
         /\ ApplyExchangeFilters(n, price, cap) * price <= cap
<1> USE SizingAssumption
<1> DEFINE rounded == n \div price
           bumped == IF rounded >= MinQuantity THEN rounded
                     ELSE IF MinQuantity * price <= cap THEN MinQuantity ELSE 0
           capped == IF MaxQuantity > 0 THEN Lower(bumped, MaxQuantity) ELSE bumped
           enough == CeilDiv(MinTradeNotional, price)
<1>1. rounded \in Nat /\ rounded * price <= n
  BY DivBounds
<1>2. rounded * price <= cap
  BY <1>1
<1> HIDE DEF rounded
<1>3. bumped \in Nat /\ bumped * price <= cap
  BY <1>1, <1>2
<1> HIDE DEF bumped
<1>4. capped \in Nat /\ capped <= bumped
  BY <1>3 DEF Lower
<1>5. capped * price <= cap
  BY <1>3, <1>4, ProductMonotone
<1> HIDE DEF capped
<1>6. MinTradeNotional + price - 1 \in Nat
  OBVIOUS
<1>7. enough \in Nat
  BY <1>6, DivBounds DEF CeilDiv
<1> HIDE DEF enough
<1>8. \/ ApplyExchangeFilters(n, price, cap) = 0
      \/ ApplyExchangeFilters(n, price, cap) = capped
      \/ ApplyExchangeFilters(n, price, cap) = enough /\ enough * price <= cap
  BY DEF ApplyExchangeFilters, enough, capped, bumped, rounded
<1>9. QED
  BY <1>4, <1>5, <1>7, <1>8

(* compute_size_v2.                                                        *)
LEMMA ComputeSizeBounded ==
  ASSUME NEW x \in Snapshots, NEW a \in Accounts, NEW regime, NEW multiplier \in Nat
  PROVE  /\ ComputeSize(x, a, regime, multiplier) \in Nat
         /\ ComputeSize(x, a, regime, multiplier) * x.mid <= RiskCap(a)
<1>1. x.mid \in Nat /\ RiskCap(a) \in Nat
  BY RiskCapNat DEF Snapshots
<1>2. CASE ComputeSize(x, a, regime, multiplier) = 0
  BY <1>1, <1>2
<1>3. CASE /\ x.mid # 0
           /\ ComputeSize(x, a, regime, multiplier) =
                ApplyExchangeFilters(SizedNotional(x, a, regime, multiplier), x.mid, RiskCap(a))
  BY <1>1, <1>3, SizedNotionalBounded, FiltersBounded
<1>4. QED
  BY <1>2, <1>3 DEF ComputeSize

-----------------------------------------------------------------------------
(* The slices of a plan. Of n slices with falling weights the first k have *)
(* the share SentShare(n, k) of the whole, in closed form.                 *)

Whole(n) == IF n = 1 THEN 1 ELSE 10 * n * (n - 1)
SentShare(n, k) == IF n = 1 THEN k ELSE 12 * (n - 1) * k - 2 * k * (k - 1)

LEMMA WeightNat ==
  ASSUME NEW n \in Nat \ {0}, NEW i \in 1..n
  PROVE  SliceWeight(n, i) \in Nat /\ Whole(n) \in Nat \ {0}
<1>1. CASE n = 1
  BY <1>1 DEF SliceWeight, Whole
<1>2. CASE n # 1
  <2>1. n - 1 \in Nat \ {0} /\ i - 1 \in Nat /\ i - 1 <= n - 1
    BY <1>2
  <2>2. 12 * (n - 1) - 4 * (i - 1) \in Nat
    BY <2>1
  <2>3. 10 * n \in Nat \ {0}
    OBVIOUS
  <2>4. 10 * n * (n - 1) \in Nat \ {0}
    BY <2>1, <2>3
  <2>5. QED
    BY <1>2, <2>2, <2>4 DEF SliceWeight, Whole
<1>3. QED
  BY <1>1, <1>2

LEMMA ShareGrows ==
  ASSUME NEW n \in Nat \ {0}, NEW k \in 0..(n - 1)
  PROVE  /\ SentShare(n, 0) = 0
         /\ SentShare(n, k) \in Int
         /\ SentShare(n, k + 1) = SentShare(n, k) + SliceWeight(n, k + 1)
<1>1. CASE n = 1
  BY <1>1 DEF SentShare, SliceWeight
<1>2. CASE n # 1
  <2>1. 12 * (n - 1) * (k + 1) = 12 * (n - 1) * k + 12 * (n - 1)
    OBVIOUS
  <2>2. 2 * (k + 1) * ((k + 1) - 1) = 2 * k * (k - 1) + 4 * k
    OBVIOUS
  <2>3. 12 * (n - 1) * k \in Int /\ 2 * k * (k - 1) \in Int
    OBVIOUS
  <2>4. 12 * (n - 1) * 0 - 2 * 0 * (0 - 1) = 0
    OBVIOUS
  <2>5. QED
    BY <1>2, <2>1, <2>2, <2>3, <2>4 DEF SentShare, SliceWeight
<1>3. QED
  BY <1>1, <1>2

LEMMA ShareWithinWhole ==
  ASSUME NEW n \in Nat \ {0}, NEW k \in 0..n
  PROVE  SentShare(n, k) \in Nat /\ SentShare(n, k) <= Whole(n)
<1>1. CASE n = 1
  BY <1>1 DEF SentShare, Whole
<1>2. CASE n # 1
  <2>1. 10 * n * (n - 1) - (12 * (n - 1) * k - 2 * k * (k - 1)) = (n - k) * (10 * (n - 1) - 2 * k)
    OBVIOUS
  <2>2. n - k \in Nat /\ 10 * (n - 1) - 2 * k \in Nat
    BY <1>2
  <2>3. (n - k) * (10 * (n - 1) - 2 * k) \in Nat
    BY <2>2
  <2>4. 12 * (n - 1) * k - 2 * k * (k - 1) = k * (12 * (n - 1) - 2 * (k - 1))
    OBVIOUS
  <2>5. 12 * (n - 1) - 2 * (k - 1) \in Nat
    BY <1>2
  <2>6. 12 * (n - 1) * k - 2 * k * (k - 1) \in Nat
    BY <2>4, <2>5
  <2>7. 10 * n * (n - 1) \in Int
    OBVIOUS
  <2>8. QED
    BY <1>2, <2>1, <2>3, <2>6, <2>7 DEF SentShare, Whole
<1>3. QED
  BY <1>1, <1>2

(* create_twap_plan rounds every slice down.                               *)
LEMMA SliceWithinWeight ==
  ASSUME NEW total \in Nat, NEW n \in Nat \ {0}, NEW i \in 1..n
  PROVE  /\ SliceQty(total, n, i) \in Nat
         /\ SliceQty(total, n, i) * Whole(n) <= total * SliceWeight(n, i)
<1>1. SliceWeight(n, i) \in Nat /\ Whole(n) \in Nat \ {0}
  BY WeightNat
<1>2. total * SliceWeight(n, i) \in Nat
  BY <1>1
<1>3. SliceQty(total, n, i) = (total * SliceWeight(n, i)) \div Whole(n)
  BY DEF SliceQty, Whole
<1>4. QED
  BY <1>1, <1>2, <1>3, DivBounds

LEMMA OneMoreSlice ==
  ASSUME NEW total \in Nat, NEW n \in Nat \ {0}, NEW k \in 0..(n - 1), NEW sum \in Nat,
         sum * Whole(n) <= total * SentShare(n, k)
  PROVE  /\ sum * Whole(n) <= total * SentShare(n, k + 1)
         /\ (sum + SliceQty(total, n, k + 1)) * Whole(n) <= total * SentShare(n, k + 1)
<1> DEFINE qty == SliceQty(total, n, k + 1)
           whole == Whole(n)
           share == SentShare(n, k)
           weight == SliceWeight(n, k + 1)
<1>1. qty \in Nat /\ qty * whole <= total * weight /\ weight \in Nat /\ whole \in Nat
  BY SliceWithinWeight, WeightNat
<1>2. SentShare(n, k + 1) = share + weight /\ share \in Nat
  BY ShareGrows, ShareWithinWhole
<1> HIDE DEF qty, whole, share, weight
<1>3. total * (share + weight) = total * share + total * weight
  BY <1>1, <1>2
<1>4. (sum + qty) * whole = sum * whole + qty * whole
  BY <1>1
<1>5. sum * whole <= total * share
  BY DEF whole, share
<1>6. /\ sum * whole \in Nat /\ qty * whole \in Nat
      /\ total * share \in Nat /\ total * weight \in Nat
  BY <1>1, <1>2
<1>7. /\ sum * whole <= total * (share + weight)
      /\ (sum + qty) * whole <= total * (share + weight)
  BY <1>1, <1>3, <1>4, <1>5, <1>6
<1>8. QED
  BY <1>2, <1>7 DEF qty, whole

(* A plan as create_twap_plan makes it and get_next_slice consumes it.     *)
Plan(p) ==
  /\ DOMAIN p = DOMAIN NoTwap
  /\ p.total \in Nat
  /\ p.slices \in Seq(Nat) /\ Len(p.slices) > 0
  /\ \A i \in 1..Len(p.slices) : p.slices[i] = SliceQty(p.total, Len(p.slices), i)
  /\ p.next \in 1..(Len(p.slices) + 1)

(* What has been sent of it is no more than the share of its first slices. *)
SentOf(p, sum) ==
  sum * Whole(Len(p.slices)) <= p.total * SentShare(Len(p.slices), p.next - 1)

LEMMA SliceCountPositive ==
  ASSUME NEW x \in Snapshots, NEW total \in Nat
  PROVE  SliceCount(x, total) \in Nat \ {0}
<1> USE TwapAssumption
<1>1. x.liquid \in Nat /\ x.mid \in Nat
  BY DEF Snapshots
<1> DEFINE ratio == IF x.liquid = 0 THEN 0
                    ELSE (10 * total * (MaxSlices - MinSlices)) \div x.liquid
           byMarket == Lower(MaxSlices, MinSlices + ratio)
<1>2. ratio \in Nat
  <2>1. MaxSlices - MinSlices \in Nat /\ 10 * total \in Nat
    OBVIOUS
  <2>2. 10 * total * (MaxSlices - MinSlices) \in Nat
    BY <2>1
  <2>3. QED
    BY <1>1, <2>2, DivBounds
<1> HIDE DEF ratio
<1>3. byMarket \in Nat \ {0}
  BY <1>2 DEF Lower
<1> HIDE DEF byMarket
<1>4. total * x.mid \in Nat
  BY <1>1
<1>5. (total * x.mid) \div MinNotional \in Nat
  BY <1>4, DivBounds
<1>6. Lower(byMarket, Higher(1, (total * x.mid) \div MinNotional)) \in Nat \ {0}
  BY <1>3, <1>5 DEF Lower, Higher
<1>7. QED
  BY <1>3, <1>6 DEF SliceCount, byMarket, ratio

LEMMA PlanCreated ==
  ASSUME NEW x \in Snapshots, NEW side, NEW total \in Nat
  PROVE  LET p == CreateTwapPlan(x, side, total)
         IN  Plan(p) /\ p.total = total /\ SentOf(p, 0)
<1> DEFINE n == SliceCount(x, total)
           p == CreateTwapPlan(x, side, total)
           slices == [i \in 1..n |-> SliceQty(total, n, i)]
<1>1. n \in Nat \ {0}
  BY SliceCountPositive
<1>2. p = [NoTwap EXCEPT !.side = side, !.total = total, !.slices = slices]
  BY DEF CreateTwapPlan
<1> HIDE DEF n, p
<1>3. slices \in Seq(Nat) /\ Len(slices) = n
  <2>1. \A i \in 1..n : SliceQty(total, n, i) \in Nat
    BY <1>1, SliceWithinWeight
  <2>2. slices \in [1..n -> Nat]
    BY <2>1
  <2>3. QED
    BY <1>1, <2>2
<1>4. \A i \in 1..n : slices[i] = SliceQty(total, n, i)
  OBVIOUS
<1> HIDE DEF slices
<1>5. /\ DOMAIN p = DOMAIN NoTwap /\ p.total = total /\ p.slices = slices /\ p.next = 1
  BY <1>2 DEF NoTwap
<1>6. Plan(p)
  BY <1>1, <1>3, <1>4, <1>5 DEF Plan
<1>7. Whole(n) \in Nat /\ SentShare(n, 0) = 0
  BY <1>1, WeightNat, ShareGrows
<1>8. SentOf(p, 0)
  BY <1>3, <1>5, <1>7 DEF SentOf
<1>9. QED
  BY <1>5, <1>6, <1>8 DEF p

(* What the steps of a plan do to the fields that matter here.             *)
Advanced(p, q, next) ==
  /\ DOMAIN q = DOMAIN p /\ q.total = p.total /\ q.slices = p.slices /\ q.next = next

LEMMA AdvancedIsPlan ==
  ASSUME NEW p, Plan(p), NEW q, NEW next \in 1..(Len(p.slices) + 1), Advanced(p, q, next)
  PROVE  Plan(q)
  BY DEF Plan, Advanced

LEMMA SliceTaken ==
  ASSUME NEW p, Plan(p), NEW x, ~p.completed
  PROVE  LET s == NextSlice(p, x)
         IN  \/ s.qty = 0 /\ Advanced(p, s.t, p.next)
             \/ /\ p.next <= Len(p.slices)
                /\ s.qty = p.slices[p.next]
                /\ Advanced(p, s.t, p.next + 1)
<1> DEFINE moved == [p EXCEPT !.next = @ + 1, !.sent = @ \cup {p.next},
                              !.due = AdaptiveInterval(x)]
<1>1. CASE p.next > Len(p.slices)
  <2>1. NextSlice(p, x) = [t |-> [p EXCEPT !.completed = TRUE], qty |-> 0]
    BY <1>1 DEF NextSlice
  <2>2. Advanced(p, [p EXCEPT !.completed = TRUE], p.next)
    BY DEF Advanced, Plan, NoTwap
  <2>3. QED
    BY <2>1, <2>2
<1>2. CASE ~(p.next > Len(p.slices)) /\ p.due > 0
  <2>1. NextSlice(p, x) = [t |-> p, qty |-> 0]
    BY <1>2 DEF NextSlice
  <2>2. QED
    BY <2>1 DEF Advanced
<1>3. CASE ~(p.next > Len(p.slices)) /\ ~(p.due > 0)
  <2>1. NextSlice(p, x) = [t |-> moved, qty |-> p.slices[p.next]]
    BY <1>3 DEF NextSlice
  <2>2. Advanced(p, moved, p.next + 1)
    BY DEF Advanced, Plan, NoTwap
  <2>3. p.next <= Len(p.slices)
    BY <1>3 DEF Plan
  <2> HIDE DEF moved
  <2>4. NextSlice(p, x).t = moved /\ NextSlice(p, x).qty = p.slices[p.next]
    BY <2>1
  <2>5. QED
    BY <2>2, <2>3, <2>4
<1>4. QED
  BY <1>1, <1>2, <1>3

(* A slice that is handed out moves the plan on, whether it is sent or     *)
(* lost.                                                                   *)
LEMMA SliceKeepsShare ==
  ASSUME NEW p, Plan(p), NEW x, ~p.completed, NEW sum \in Nat, SentOf(p, sum)
  PROVE  LET s == NextSlice(p, x)
         IN  /\ Plan(s.t) /\ s.t.total = p.total /\ s.qty \in Nat
             /\ SentOf(s.t, sum) /\ SentOf(s.t, sum + s.qty)
<1> DEFINE s == NextSlice(p, x)
           n == Len(p.slices)
<1>1. n \in Nat \ {0} /\ p.total \in Nat /\ p.next \in 1..(n + 1)
  BY DEF Plan
<1>2. CASE s.qty = 0 /\ Advanced(p, s.t, p.next)
  BY <1>1, <1>2, AdvancedIsPlan DEF SentOf, Advanced
<1>3. CASE p.next <= n /\ s.qty = p.slices[p.next] /\ Advanced(p, s.t, p.next + 1)
  <2>1. Plan(s.t)
    BY <1>1, <1>3, AdvancedIsPlan
  <2>2. s.qty = SliceQty(p.total, n, p.next) /\ p.next \in 1..n
    BY <1>1, <1>3 DEF Plan
  <2>3. s.qty \in Nat
    BY <1>1, <2>2, SliceWithinWeight
  <2>4. p.next - 1 \in 0..(n - 1) /\ (p.next - 1) + 1 = p.next /\ (p.next + 1) - 1 = p.next
    BY <1>1, <1>3
  <2>5. sum * Whole(n) <= p.total * SentShare(n, p.next - 1)
    BY DEF SentOf
  <2> HIDE DEF s, n
  <2>6. /\ sum * Whole(n) <= p.total * SentShare(n, p.next)
        /\ (sum + s.qty) * Whole(n) <= p.total * SentShare(n, p.next)
    BY <1>1, <2>2, <2>4, <2>5, OneMoreSlice
  <2>7. s.t.total = p.total /\ s.t.slices = p.slices /\ s.t.next = p.next + 1
    BY <1>3 DEF Advanced
  <2>8. SentOf(s.t, sum) /\ SentOf(s.t, sum + s.qty)
    BY <2>4, <2>6, <2>7 DEF SentOf, n
  <2>9. QED
    BY <2>1, <2>3, <2>7, <2>8 DEF s
<1>4. QED
  BY <1>2, <1>3, SliceTaken

LEMMA FillRecorded ==
  ASSUME NEW p, Plan(p), NEW index, NEW qty, NEW sum, SentOf(p, sum)
  PROVE  LET q == RecordSliceFill(p, index, qty, TRUE)
         IN  Plan(q) /\ q.total = p.total /\ SentOf(q, sum)
<1> DEFINE q == RecordSliceFill(p, index, qty, TRUE)
<1>1. Advanced(p, q, p.next)
  BY DEF RecordSliceFill, Advanced, Plan, NoTwap
<1> HIDE DEF q
<1>2. p.next \in 1..(Len(p.slices) + 1)
  BY DEF Plan
<1>3. Plan(q)
  BY <1>1, <1>2, AdvancedIsPlan
<1>4. QED
  BY <1>1, <1>3 DEF SentOf, Advanced, q

LEMMA PlanElapsed ==
  ASSUME NEW p, Plan(p), NEW sum, SentOf(p, sum)
  PROVE  Plan(TwapElapse(p)) /\ TwapElapse(p).total = p.total /\ SentOf(TwapElapse(p), sum)
<1>1. Advanced(p, TwapElapse(p), p.next)
  BY DEF TwapElapse, Advanced, Plan, NoTwap
<1>2. p.next \in 1..(Len(p.slices) + 1)
  BY DEF Plan
<1>3. QED
  BY <1>1, <1>2, AdvancedIsPlan DEF SentOf, Advanced

(* What a plan has sent in all is no more than its total.                  *)
LEMMA SentWithinTotal ==
  ASSUME NEW p, Plan(p), NEW sum \in Nat, SentOf(p, sum)
  PROVE  sum <= p.total
<1> DEFINE n == Len(p.slices)
<1>1. n \in Nat \ {0} /\ p.total \in Nat /\ p.next - 1 \in 0..n
  BY DEF Plan
<1>2. SentShare(n, p.next - 1) \in Nat /\ SentShare(n, p.next - 1) <= Whole(n)
  BY <1>1, ShareWithinWhole
<1>3. Whole(n) \in Nat \ {0}
  BY <1>1, WeightNat
<1>4. QED
  BY <1>1, <1>2, <1>3, ShareBounds DEF SentOf

-----------------------------------------------------------------------------
(* The risk engine.                                                        *)

RiskShape(r) == "locks" \in DOMAIN r

LEMMA ShapeKept ==
  ASSUME NEW r, RiskShape(r)
  PROVE  /\ \A lock : RiskShape(AddLock(r, lock))
         /\ \A lock : RiskShape(RemoveLock(r, lock))
         /\ RiskShape(ClearExpired(r))
         /\ \A loss : RiskShape(RecordResult(r, loss))
         /\ RiskShape(RecordOrderSent(r))
         /\ \A external : RiskShape(SyncKillSwitch(r, external))
         /\ \A regime : RiskShape(SetCurrentRegime(r, regime))
         /\ \A n, over : RiskShape(RiskElapse(r, n, over))
  BY DEF RiskShape, AddLock, RemoveLock, ClearExpired, RecordResult, RecordOrderSent,
         SyncKillSwitch, SetCurrentRegime, RiskElapse

LEMMA CloseShape ==
  ASSUME NEW r, RiskShape(r), NEW loss
  PROVE  RiskShape(RecordTradeClose(r, loss)) /\ RiskShape(ResetDaily(r))
<1>1. RiskShape([RecordResult(r, loss) EXCEPT !.traded = TRUE])
  BY ShapeKept DEF RiskShape
<1>2. RiskShape([r EXCEPT !.streak = 0, !.scale = "normal"])
  BY DEF RiskShape
<1>3. QED
  BY <1>1, <1>2, ShapeKept DEF RecordTradeClose, ResetDaily

LEMMA EvaluateShape ==
  ASSUME NEW r, RiskShape(r), NEW external, NEW closing, NEW u, NEW facts
  PROVE  RiskShape(EvaluateRisk(r, external, closing, u, facts).r)
  BY ShapeKept DEF EvaluateRisk

(* While the switch is on every opening order is denied: the evaluation    *)
(* takes the switch over before it runs the chain, and a halt does not     *)
(* expire.                                                                 *)
LEMMA KillDenies ==
  ASSUME NEW r, RiskShape(r), NEW u, NEW facts
  PROVE  EvaluateRisk(r, TRUE, FALSE, u, facts).verdict = "Denied"
<1> DEFINE synced == ClearExpired(SyncKillSwitch(r, TRUE))
           c == [r |-> synced, u |-> u, facts |-> facts]
<1>1. "EmergencyHalt" \in SyncKillSwitch(r, TRUE).locks /\ RiskShape(SyncKillSwitch(r, TRUE))
  <2>1. SyncKillSwitch(r, TRUE) = AddLock([r EXCEPT !.kill = TRUE], "EmergencyHalt")
    BY DEF SyncKillSwitch
  <2>2. RiskShape([r EXCEPT !.kill = TRUE])
    BY DEF RiskShape
  <2> DEFINE k == [r EXCEPT !.kill = TRUE]
  <2> HIDE DEF k
  <2>3. "EmergencyHalt" \in AddLock(k, "EmergencyHalt").locks
    BY <2>2 DEF k, AddLock, RiskShape
  <2>4. QED
    BY <2>1, <2>2, <2>3, ShapeKept DEF k
<1>2. "EmergencyHalt" \in synced.locks
  BY <1>1 DEF ClearExpired, Timed, RiskShape
<1> HIDE DEF synced
<1>3. KillSwitchCheck(c) = "deny"
  BY <1>2 DEF KillSwitchCheck, Unless
<1>4. "deny" \in Effects(c)
  BY <1>3 DEF Effects
<1>5. FinalizeDecision(Combine(Effects(c)), facts) = "Denied"
  BY <1>4 DEF FinalizeDecision, Combine
<1> HIDE DEF c
<1>6. CASE "bad_size" \in facts
  BY <1>6 DEF EvaluateRisk
<1>7. CASE "bad_size" \notin facts
  BY <1>5, <1>7 DEF EvaluateRisk, c, synced
<1>8. QED
  BY <1>6, <1>7
-----------------------------------------------------------------------------
(* The inductive invariant.                                                *)

Books == [working : Nat, stray : Nat, position : Nat, closed : BOOLEAN]

SentRecords ==
  [at : {"none", "slice", "entry"}, total : Nat, price : Nat, halted : BOOLEAN,
   joins : SUBSET {"working", "stray", "position"}, stray : BOOLEAN]

TypeOK ==
  /\ env \in Scenarios
  /\ kill \in BOOLEAN
  /\ book \in Books
  /\ sent \in SentRecords
  /\ RiskShape(risk)

(* A tick reads a market and a condition of the scenario; it remembers the *)
(* switch as on only while it is. Past the strategy there is no plan, past *)
(* the sizing the quantity is within the risk of a trade. Past the guards  *)
(* of the leverage nothing works and nothing is held, unless the guards    *)
(* have overlooked a stray.                                                *)
Reading ==
  /\ {"at", "x", "q", "kill"} \subseteq DOMAIN tick
  /\ tick.at \in {"read", "size", "lever", "send"}
  /\ tick.x \in env.markets
  /\ tick.q \in env.conditions
  /\ tick.kill \in BOOLEAN
  /\ tick.kill => kill

Signalled ==
  /\ {"u", "qty", "stray"} \subseteq DOMAIN tick
  /\ tick.stray \in BOOLEAN
  /\ tick.u.size \in Nat
  /\ twap = NoTwap

Sized ==
  /\ ~tick.kill
  /\ tick.qty \in Nat
  /\ tick.qty * tick.x.mid <= RiskCap(env.account)

Beside ==
  book.working > 0 \/ book.position > 0 \/ book.stray > 0 => tick.stray

TickOK ==
  tick # NoTick => /\ Reading
                   /\ tick.at \in {"size", "lever", "send"} => Signalled
                   /\ tick.at \in {"lever", "send"} => Sized
                   /\ tick.at = "send" => Beside

(* What has been sent of the active plan is its share, and the whole plan  *)
(* is within the risk of a trade at the price it was sized with.           *)
PlanOK ==
  twap # NoTwap => /\ Plan(twap)
                   /\ SentOf(twap, sent.total)
                   /\ twap.total * sent.price <= RiskCap(env.account)

FlowInv ==
  TypeOK /\ TickOK /\ PlanOK /\ HaltedSendsNothing /\ EntryJoinsOnlyStrays /\ SizedWithinRisk

(* the fields of a tick that is under way, whatever else it carries *)
LEMMA LevelsHaveSizes ==
  ASSUME NEW u, NEW x, NEW confidence, NEW m
  PROVE  UncertaintySnapshot(Assess(u, x, confidence, m)).size \in Nat
<1> DEFINE score == RawScore(x, confidence, m)
<1>1. LevelAt(score) \in 1..4
  BY DEF LevelAt
<1> HIDE DEF score
<1>2. Level(u.prev, score) \in 1..4
  BY <1>1 DEF Level
<1>3. Assess(u, x, confidence, m).prev = Level(u.prev, score)
  BY DEF Assess, score
<1>4. UncertaintySnapshot(Assess(u, x, confidence, m)).size =
        <<10, 7, 4, 1>>[Level(u.prev, score)]
  BY <1>3 DEF UncertaintySnapshot
<1>5. \A i \in 1..4 : <<10, 7, 4, 1>>[i] \in Nat
  OBVIOUS
<1>6. QED
  BY <1>2, <1>4, <1>5

LEMMA SizeMultiplierNat ==
  ASSUME NEW t, t.u.size \in Nat
  PROVE  SizeMultiplier(t) \in Nat
<1> DEFINE percent == EntrySizePercent(t.u, t.q.reversal, t.q.fundingAgainst)
           correlation == CorrelationMultiplier(t.q.break, FALSE, t.q.decorrelated, t.q.someUndefined)
           taken == IF t.q.reversal > 35 THEN 50 ELSE 100
           paid == IF t.q.fundingAgainst THEN 80 ELSE 100
<1>1. correlation \in Nat
  BY DEF CorrelationMultiplier, Lower
<1>2. percent \in Nat
  <2>1. taken \in Nat /\ paid \in Nat
    OBVIOUS
  <2>2. percent = (((10 * t.u.size * taken) \div 100) * paid) \div 100
    BY DEF EntrySizePercent
  <2> HIDE DEF taken, paid, percent
  <2>3. 10 * t.u.size \in Nat
    OBVIOUS
  <2>4. 10 * t.u.size * taken \in Nat
    BY <2>1, <2>3
  <2>5. (10 * t.u.size * taken) \div 100 \in Nat
    BY <2>4, DivBounds
  <2>6. ((10 * t.u.size * taken) \div 100) * paid \in Nat
    BY <2>1, <2>5
  <2>7. QED
    BY <2>2, <2>6, DivBounds
<1>3. SizeMultiplier(t) = (10 * t.u.size * ((correlation * percent) \div 100)) \div 100
  BY DEF SizeMultiplier
<1> HIDE DEF correlation, percent
<1>4. correlation * percent \in Nat
  BY <1>1, <1>2
<1>5. (correlation * percent) \div 100 \in Nat
  BY <1>4, DivBounds
<1>6. 10 * t.u.size \in Nat
  OBVIOUS
<1>7. 10 * t.u.size * ((correlation * percent) \div 100) \in Nat
  BY <1>5, <1>6
<1>8. QED
  BY <1>3, <1>7, DivBounds

(* The noise only takes away, and never below the minimum of an order.     *)
LEMMA NoiseOnlyTakesAway ==
  ASSUME NEW approved \in Nat, NEW noise \in Nat, NEW price, NEW minimum
  PROVE  /\ NoisyQuantity(approved, noise, price, minimum) \in Nat
         /\ NoisyQuantity(approved, noise, price, minimum) <= approved
  BY DEF NoisyQuantity, Higher, Lower

(* What the scenario guarantees of a tick.                                 *)
LEMMA ScenarioTypes ==
  ASSUME TypeOK
  PROVE  /\ env.account \in Accounts
         /\ RiskCap(env.account) \in Nat
         /\ \A x \in env.markets : x \in Snapshots /\ x.mid \in Nat
         /\ \A q \in env.conditions : q.noise \in Nat
<1>1. env.account \in Accounts /\ env.markets \subseteq Snapshots
  BY ScenariosAssumption DEF TypeOK
<1>2. \A q \in env.conditions : q.noise \in Nat
  BY ScenariosAssumption DEF TypeOK
<1>3. \A x \in Snapshots : x.mid \in Nat
  BY DEF Snapshots
<1>4. QED
  BY <1>1, <1>2, <1>3, RiskCapNat

-----------------------------------------------------------------------------
(* The initial state.                                                      *)

LEMMA InitFlow == Init => FlowInv
<1> SUFFICES ASSUME Init PROVE FlowInv
  OBVIOUS
<1>1. TypeOK
  BY DEF Init, TypeOK, Books, SentRecords, NothingSent, RiskShape, InitRisk
<1>2. TickOK /\ PlanOK
  BY DEF Init, TickOK, PlanOK
<1>3. RiskCap(env.account) \in Nat
  BY <1>1, ScenarioTypes
<1>4. HaltedSendsNothing /\ EntryJoinsOnlyStrays /\ SizedWithinRisk
  BY <1>3 DEF Init, HaltedSendsNothing, EntryJoinsOnlyStrays, SizedWithinRisk, NothingSent
<1>5. QED
  BY <1>1, <1>2, <1>4 DEF FlowInv

-----------------------------------------------------------------------------
(* A step that ends the tick, or has none, and that neither sends nor      *)
(* starts anything.                                                        *)

LEMMA TickEnds ==
  ASSUME FlowInv, tick' = NoTick, sent' = sent, env' = env,
         kill' = kill, book' \in Books,
         RiskShape(risk'), twap' \in {twap, NoTwap}
  PROVE  FlowInv'
<1>1. TypeOK'
  BY DEF FlowInv, TypeOK
<1>2. TickOK'
  BY DEF TickOK
<1>3. PlanOK'
  BY DEF FlowInv, PlanOK
<1>4. (HaltedSendsNothing /\ EntryJoinsOnlyStrays /\ SizedWithinRisk)'
  BY DEF FlowInv, HaltedSendsNothing, EntryJoinsOnlyStrays, SizedWithinRisk
<1>5. QED
  BY <1>1, <1>2, <1>3, <1>4 DEF FlowInv

(* Nothing but the book changes. Between the guards of the leverage and    *)
(* the order it moves only by a stray that they have overlooked.           *)
LEMMA BookMoves ==
  ASSUME FlowInv, book' \in Books,
         book.working > 0 \/ book.position > 0 \/ book.stray > 0,
         UNCHANGED <<tick, twap, sent, env, kill, risk>>
  PROVE  FlowInv'
<1>1. TypeOK'
  BY DEF FlowInv, TypeOK
<1>2. TickOK'
  <2>1. CASE tick = NoTick
    BY <2>1 DEF TickOK
  <2>2. CASE tick # NoTick
    <3>1. tick.at = "send" => Beside'
      BY <2>2 DEF FlowInv, TickOK, TypeOK, Books, Beside
    <3>2. QED
      BY <2>2, <3>1 DEF FlowInv, TickOK, Reading, Signalled, Sized
  <2>3. QED
    BY <2>1, <2>2
<1>3. PlanOK'
  BY DEF FlowInv, PlanOK
<1>4. (HaltedSendsNothing /\ EntryJoinsOnlyStrays /\ SizedWithinRisk)'
  BY DEF FlowInv, HaltedSendsNothing, EntryJoinsOnlyStrays, SizedWithinRisk
<1>5. QED
  BY <1>1, <1>2, <1>3, <1>4 DEF FlowInv

LEMMA BesideTicks ==
  ASSUME FlowInv
  PROVE  /\ Fill => FlowInv'
         /\ \A ok : Cancel(ok) => FlowInv'
         /\ \A to : StrayResolves(to) => FlowInv'
         /\ ExchangeClose => FlowInv'
         /\ \A r : BalanceSync(r) => FlowInv'
<1>1. book \in Books
  BY DEF FlowInv, TypeOK
<1>2. ASSUME Fill PROVE FlowInv'
  <2>1. book.position + book.working \in Nat
    BY <1>1 DEF Books
  <2>2. book' \in Books
    BY <1>1, <1>2, <2>1 DEF Fill, Books
  <2>3. QED
    BY <1>2, <2>2, BookMoves DEF Fill
<1>3. ASSUME NEW ok, Cancel(ok) PROVE FlowInv'
  <2>1. book.stray + book.working \in Nat
    BY <1>1 DEF Books
  <2>2. book' \in Books
    BY <1>1, <1>3, <2>1 DEF Cancel, Books
  <2>3. QED
    BY <1>3, <2>2, BookMoves DEF Cancel
<1>4. ASSUME NEW to, StrayResolves(to) PROVE FlowInv'
  <2>1. book.position + book.stray \in Nat /\ book.working + book.stray \in Nat
    BY <1>1 DEF Books
  <2>2. book' \in Books
    <3>1. CASE to = "position"
      BY <1>1, <1>4, <2>1, <3>1 DEF StrayResolves, Books
    <3>2. CASE to = "working"
      BY <1>1, <1>4, <2>1, <3>2 DEF StrayResolves, Books
    <3>3. CASE to # "position" /\ to # "working"
      BY <1>1, <1>4, <3>3 DEF StrayResolves, Books
    <3>4. QED
      BY <3>1, <3>2, <3>3
  <2>3. QED
    BY <1>4, <2>2, BookMoves DEF StrayResolves
<1>5. ASSUME ExchangeClose PROVE FlowInv'
  <2>1. book' \in Books
    BY <1>1, <1>5 DEF ExchangeClose, Books
  <2>2. QED
    BY <1>5, <2>1, BookMoves DEF ExchangeClose, HasPosition
<1>6. ASSUME NEW r, BalanceSync(r) PROVE FlowInv'
  <2>1. book' \in Books
    BY <1>1, <1>6 DEF BalanceSync, Books
  <2>2. QED
    BY <1>6, <2>1, BookMoves DEF BalanceSync, HasPosition
<1>7. QED
  BY <1>2, <1>3, <1>4, <1>5, <1>6

(* The switch is forgotten by the tick under way, in both directions.      *)
LEMMA SwitchKeeps ==
  ASSUME FlowInv, KillSwitch
  PROVE  FlowInv'
<1>1. TypeOK'
  BY DEF FlowInv, TypeOK, KillSwitch
<1>2. TickOK'
  <2>1. CASE tick = NoTick
    BY <2>1 DEF TickOK, KillSwitch
  <2>2. CASE tick # NoTick
    <3>1. tick' = [tick EXCEPT !.kill = FALSE]
      BY <2>2 DEF KillSwitch
    <3>2. {"at", "x", "q", "kill"} \subseteq DOMAIN tick
      BY <2>2 DEF FlowInv, TickOK, Reading
    <3>3. /\ DOMAIN tick' = DOMAIN tick
          /\ tick'.at = tick.at /\ tick'.x = tick.x /\ tick'.q = tick.q /\ tick'.kill = FALSE
      BY <3>1, <3>2
    <3>4. {"u", "qty", "stray"} \subseteq DOMAIN tick =>
            tick'.u = tick.u /\ tick'.qty = tick.qty /\ tick'.stray = tick.stray
      BY <3>1
    <3>5. UNCHANGED <<twap, book, env>>
      BY DEF KillSwitch
    <3>6. Reading'
      BY <2>2, <3>3, <3>5 DEF FlowInv, TickOK, Reading
    <3>7. Signalled => Signalled'
      BY <3>3, <3>4, <3>5 DEF Signalled
    <3>8. Signalled /\ Sized => Sized'
      BY <3>3, <3>4, <3>5 DEF Signalled, Sized
    <3>9. Signalled /\ Beside => Beside'
      BY <3>4, <3>5 DEF Signalled, Beside
    <3>10. QED
      BY <2>2, <3>3, <3>5, <3>6, <3>7, <3>8, <3>9 DEF FlowInv, TickOK
  <2>3. QED
    BY <2>1, <2>2
<1>3. PlanOK'
  BY DEF FlowInv, PlanOK, KillSwitch
<1>4. (HaltedSendsNothing /\ EntryJoinsOnlyStrays /\ SizedWithinRisk)'
  BY DEF FlowInv, HaltedSendsNothing, EntryJoinsOnlyStrays, SizedWithinRisk, KillSwitch
<1>5. QED
  BY <1>1, <1>2, <1>3, <1>4 DEF FlowInv

LEMMA TimeKeeps ==
  ASSUME FlowInv, NEW n, Passage(n)
  PROVE  FlowInv'
<1>1. TypeOK'
  <2>1. RiskShape(risk')
    BY ShapeKept DEF FlowInv, TypeOK, Passage
  <2>2. QED
    BY <2>1 DEF FlowInv, TypeOK, Passage
<1>2. TickOK'
  BY DEF TickOK, Passage
<1>3. PlanOK'
  <2>1. CASE twap = NoTwap
    <3>1. TwapElapse(NoTwap) = NoTwap
      BY DEF TwapElapse, NoTwap
    <3>2. QED
      BY <2>1, <3>1 DEF Passage, PlanOK
  <2>2. CASE twap # NoTwap
    <3>1. Plan(twap) /\ SentOf(twap, sent.total)
      BY <2>2 DEF FlowInv, PlanOK
    <3>2. Plan(twap') /\ twap'.total = twap.total /\ SentOf(twap', sent.total)
      BY <3>1, PlanElapsed DEF Passage
    <3>3. QED
      BY <2>2, <3>2 DEF Passage, PlanOK, FlowInv
  <2>3. QED
    BY <2>1, <2>2
<1>4. (HaltedSendsNothing /\ EntryJoinsOnlyStrays /\ SizedWithinRisk)'
  BY DEF FlowInv, HaltedSendsNothing, EntryJoinsOnlyStrays, SizedWithinRisk, Passage
<1>5. QED
  BY <1>1, <1>2, <1>3, <1>4 DEF FlowInv

LEMMA NewDayKeeps ==
  ASSUME FlowInv, NewDay
  PROVE  FlowInv'
<1>1. RiskShape(risk')
  BY CloseShape DEF FlowInv, TypeOK, NewDay
<1>2. QED
  BY <1>1, TickEnds DEF NewDay, FlowInv, TypeOK

-----------------------------------------------------------------------------
(* The steps of a tick.                                                    *)

LEMMA IngressKeeps ==
  ASSUME FlowInv, NEW x \in env.markets, NEW q \in env.conditions, Ingress(x, q)
  PROVE  FlowInv'
<1>1. tick' = [at |-> "read", x |-> x, q |-> q,
               imminent |-> Imminent(ml.cascade, Probability(q)), kill |-> kill]
  BY DEF Ingress
<1>2. UNCHANGED <<twap, book, kill, env>>
  BY DEF Ingress
<1>3. sent' = IF twap = NoTwap THEN NothingSent ELSE sent
  BY DEF Ingress
<1>4. TypeOK'
  <2>1. RiskShape(risk')
    BY DEF FlowInv, TypeOK, RiskShape, Ingress
  <2>2. QED
    BY <1>2, <1>3, <2>1 DEF FlowInv, TypeOK, SentRecords, NothingSent
<1>5. TickOK'
  <2>1. /\ DOMAIN tick' = {"at", "x", "q", "imminent", "kill"}
        /\ tick'.at = "read" /\ tick'.x = x /\ tick'.q = q /\ tick'.kill = kill
    BY <1>1
  <2>2. kill \in BOOLEAN
    BY DEF FlowInv, TypeOK
  <2>3. QED
    BY <1>2, <2>1, <2>2 DEF TickOK, Reading
<1>6. PlanOK'
  BY <1>2, <1>3 DEF FlowInv, PlanOK
<1>7. RiskCap(env.account) \in Nat
  BY ScenarioTypes DEF FlowInv
<1>8. (HaltedSendsNothing /\ EntryJoinsOnlyStrays /\ SizedWithinRisk)'
  BY <1>2, <1>3, <1>7
     DEF FlowInv, HaltedSendsNothing, EntryJoinsOnlyStrays, SizedWithinRisk, NothingSent
<1>9. QED
  BY <1>4, <1>5, <1>6, <1>8 DEF FlowInv

LEMMA EarlyReturns ==
  ASSUME FlowInv
  PROVE  /\ \A loss, ok : StopLoss(loss, ok) => FlowInv'
         /\ Phantom => FlowInv'
         /\ Ignored => FlowInv'
         /\ Waits => FlowInv'
         /\ Held => FlowInv'
<1>1. book \in Books /\ RiskShape(risk)
  BY DEF FlowInv, TypeOK
<1>2. ASSUME NEW loss, NEW ok, StopLoss(loss, ok) PROVE FlowInv'
  <2>1. book' \in Books
    BY <1>1, <1>2 DEF StopLoss, Books
  <2>2. RiskShape(RecordTradeClose(RecordOrderSent(risk), loss))
    BY <1>1, ShapeKept, CloseShape
  <2>3. RiskShape(risk')
    BY <1>1, <1>2, <2>2 DEF StopLoss
  <2>4. QED
    BY <1>2, <2>1, <2>3, TickEnds DEF StopLoss
<1>3. ASSUME Phantom PROVE FlowInv'
  <2>1. book' \in Books
    BY <1>1, <1>3 DEF Phantom, Books
  <2>2. QED
    BY <1>1, <1>3, <2>1, TickEnds DEF Phantom
<1>4. ASSUME Ignored PROVE FlowInv'
  BY <1>1, <1>4, TickEnds DEF Ignored
<1>5. ASSUME Waits PROVE FlowInv'
  BY <1>1, <1>5, TickEnds DEF Waits
<1>6. ASSUME Held PROVE FlowInv'
  BY <1>1, <1>6, TickEnds DEF Held
<1>7. QED
  BY <1>2, <1>3, <1>4, <1>5, <1>6

(* A slice that is sent adds to what the plan has sent, and the plan's     *)
(* total is within the risk; while the switch is on it is denied.          *)
LEMMA SliceKeeps ==
  ASSUME FlowInv, NEW facts, NEW ok, Slice(facts, ok)
  PROVE  FlowInv'
<1> DEFINE slice == NextSlice(twap, tick.x)
           judged == EvaluateRisk(risk, kill, FALSE, NeutralUncertainty, facts)
<1>1. /\ tick' = NoTick /\ UNCHANGED <<kill, env>>
      /\ twap # NoTwap /\ ~twap.completed /\ tick.at = "read"
  BY DEF Slice
<1>2. /\ TypeOK /\ TickOK /\ PlanOK /\ HaltedSendsNothing /\ EntryJoinsOnlyStrays
      /\ SizedWithinRisk
  BY DEF FlowInv
<1>3. /\ Plan(twap) /\ SentOf(twap, sent.total)
      /\ twap.total * sent.price <= RiskCap(env.account)
      /\ sent.total \in Nat /\ sent.price \in Nat
  BY <1>1, <1>2 DEF PlanOK, TypeOK, SentRecords
<1>4. /\ Plan(slice.t) /\ slice.t.total = twap.total /\ slice.qty \in Nat
      /\ SentOf(slice.t, sent.total) /\ SentOf(slice.t, sent.total + slice.qty)
  BY <1>1, <1>3, SliceKeepsShare
<1>5. RiskShape(judged.r) /\ RiskShape(RecordOrderSent(judged.r)) /\ RiskShape(risk)
  BY <1>2, EvaluateShape, ShapeKept DEF TypeOK
<1>6. kill => judged.verdict = "Denied"
  BY <1>2, <1>5, KillDenies DEF TypeOK
<1>7. \/ twap' = slice.t /\ UNCHANGED <<risk, book, sent>>
      \/ twap' = NoTwap /\ risk' = judged.r /\ UNCHANGED <<book, sent>>
      \/ twap' = slice.t /\ risk' = judged.r /\ UNCHANGED <<book, sent>>
      \/ /\ judged.verdict # "Denied"
         /\ twap' = RecordSliceFill(slice.t, twap.next, slice.qty, TRUE)
         /\ risk' = RecordOrderSent(judged.r)
         /\ book' = [book EXCEPT !.working = @ + slice.qty]
         /\ sent' = [at |-> "slice", total |-> sent.total + slice.qty,
                     price |-> sent.price, halted |-> kill /\ tick.kill,
                     joins |-> {}, stray |-> FALSE]
  <2> HIDE DEF slice, judged
  <2>1. CASE slice.qty = 0
    BY <2>1 DEF Slice, slice, judged
  <2>2. CASE slice.qty > 0
    BY <2>2 DEF Slice, slice, judged
  <2>3. slice.qty = 0 \/ slice.qty > 0
    BY <1>4
  <2>4. QED
    BY <2>1, <2>2, <2>3
<1> HIDE DEF slice, judged
<1>8. CASE twap' = slice.t /\ risk' \in {risk, judged.r} /\ UNCHANGED <<book, sent>>
  <2>1. TypeOK'
    BY <1>1, <1>2, <1>5, <1>8 DEF TypeOK
  <2>2. TickOK'
    BY <1>1 DEF TickOK
  <2>3. PlanOK'
    BY <1>1, <1>3, <1>4, <1>8 DEF PlanOK
  <2>4. (HaltedSendsNothing /\ EntryJoinsOnlyStrays /\ SizedWithinRisk)'
    BY <1>1, <1>2, <1>8 DEF HaltedSendsNothing, EntryJoinsOnlyStrays, SizedWithinRisk
  <2>5. QED
    BY <2>1, <2>2, <2>3, <2>4 DEF FlowInv
<1>9. CASE twap' = NoTwap /\ risk' = judged.r /\ UNCHANGED <<book, sent>>
  BY <1>1, <1>2, <1>5, <1>9, TickEnds DEF TypeOK
<1>10. CASE /\ judged.verdict # "Denied"
            /\ twap' = RecordSliceFill(slice.t, twap.next, slice.qty, TRUE)
            /\ risk' = RecordOrderSent(judged.r)
            /\ book' = [book EXCEPT !.working = @ + slice.qty]
            /\ sent' = [at |-> "slice", total |-> sent.total + slice.qty,
                        price |-> sent.price, halted |-> kill /\ tick.kill,
                        joins |-> {}, stray |-> FALSE]
  <2>1. ~kill
    BY <1>6, <1>10
  <2>2. /\ sent'.at = "slice" /\ sent'.total = sent.total + slice.qty
        /\ sent'.price = sent.price /\ ~sent'.halted
    BY <1>10, <2>1
  <2>3. TypeOK'
    <3>1. book' \in Books
      <4>1. book \in Books
        BY <1>2 DEF TypeOK
      <4>2. book.working + slice.qty \in Nat
        BY <1>4, <4>1 DEF Books
      <4>3. QED
        BY <1>10, <4>1, <4>2 DEF Books
    <3>2. sent' \in SentRecords
      <4>1. sent.total + slice.qty \in Nat
        BY <1>3, <1>4
      <4>2. (kill /\ tick.kill) \in BOOLEAN
        OBVIOUS
      <4>3. QED
        BY <1>3, <1>10, <4>1, <4>2 DEF SentRecords
    <3>3. QED
      BY <1>1, <1>2, <1>5, <1>10, <3>1, <3>2 DEF TypeOK
  <2>4. TickOK'
    BY <1>1 DEF TickOK
  <2>5. Plan(twap') /\ twap'.total = twap.total /\ SentOf(twap', sent.total + slice.qty)
    BY <1>4, <1>10, FillRecorded
  <2>6. PlanOK'
    BY <1>1, <1>3, <2>2, <2>5 DEF PlanOK
  <2>7. SizedWithinRisk'
    <3>1. sent.total + slice.qty \in Nat /\ twap.total \in Nat
      BY <1>3, <1>4 DEF Plan
    <3>2. sent.total + slice.qty <= twap.total
      BY <2>5, <3>1, SentWithinTotal
    <3>3. /\ (sent.total + slice.qty) * sent.price \in Nat
          /\ (sent.total + slice.qty) * sent.price <= twap.total * sent.price
          /\ twap.total * sent.price \in Nat
      BY <1>3, <3>1, <3>2, ProductMonotone
    <3>4. RiskCap(env.account) \in Nat
      BY <1>2, ScenarioTypes
    <3>5. (sent.total + slice.qty) * sent.price <= RiskCap(env.account)
      BY <1>3, <3>3, <3>4
    <3>6. QED
      BY <1>1, <2>2, <3>5 DEF SizedWithinRisk
  <2>8. (HaltedSendsNothing /\ EntryJoinsOnlyStrays)'
    BY <2>2 DEF HaltedSendsNothing, EntryJoinsOnlyStrays
  <2>9. QED
    BY <2>3, <2>4, <2>6, <2>7, <2>8 DEF FlowInv
<1>11. QED
  BY <1>7, <1>8, <1>9, <1>10

LEMMA SignalKeeps ==
  ASSUME FlowInv, Signal
  PROVE  FlowInv'
<1> DEFINE t == Assessed
<1>1. /\ tick.at = "read" /\ twap' = NoTwap /\ UNCHANGED <<book, kill, sent, env>>
      /\ risk' = SetCurrentRegime(risk, t.h.confirmed)
  BY DEF Signal
<1>2. tick' = NoTick \/ \E c : tick' = [t EXCEPT !.conviction = c]
  BY DEF Signal
<1>3. /\ {"at", "x", "q", "kill", "u", "qty", "stray", "conviction"} \subseteq DOMAIN t
      /\ t.at = "size" /\ t.x = tick.x /\ t.q = tick.q /\ t.kill = tick.kill
      /\ t.stray = FALSE /\ t.u.size \in Nat
  <2>1. t.u.size \in Nat
    BY LevelsHaveSizes DEF Assessed
  <2>2. QED
    BY <2>1 DEF Assessed
<1> HIDE DEF t
<1>4. RiskShape(risk')
  BY <1>1, ShapeKept DEF FlowInv, TypeOK
<1>5. CASE tick' = NoTick
  BY <1>1, <1>4, <1>5, TickEnds DEF FlowInv, TypeOK
<1>6. ASSUME NEW c, tick' = [t EXCEPT !.conviction = c] PROVE FlowInv'
  <2>1. /\ DOMAIN tick' = DOMAIN t
        /\ tick'.at = "size" /\ tick'.x = tick.x /\ tick'.q = tick.q /\ tick'.kill = tick.kill
        /\ tick'.u = t.u /\ tick'.stray = FALSE
    BY <1>3, <1>6
  <2>2. TypeOK'
    BY <1>1, <1>4 DEF FlowInv, TypeOK
  <2>3. tick # NoTick
    BY <1>1 DEF NoTick
  <2>4. Reading'
    BY <1>1, <1>3, <2>1, <2>3 DEF FlowInv, TickOK, Reading
  <2>5. Signalled'
    BY <1>1, <1>3, <2>1 DEF Signalled
  <2>6. TickOK'
    BY <2>1, <2>4, <2>5 DEF TickOK
  <2>7. PlanOK'
    BY <1>1 DEF PlanOK
  <2>8. (HaltedSendsNothing /\ EntryJoinsOnlyStrays /\ SizedWithinRisk)'
    BY <1>1 DEF FlowInv, HaltedSendsNothing, EntryJoinsOnlyStrays, SizedWithinRisk
  <2>9. QED
    BY <2>2, <2>6, <2>7, <2>8 DEF FlowInv
<1>7. QED
  BY <1>2, <1>5, <1>6

(* The sizing: the quantity is within the risk, a halving keeps it there,  *)
(* and while the switch is on the order is denied.                         *)
LEMMA SizeKeeps ==
  ASSUME FlowInv, NEW facts, Size(facts)
  PROVE  FlowInv'
<1> DEFINE qty == ComputeSize(tick.x, env.account, tick.h.confirmed, SizeMultiplier(tick))
           small == IF (qty \div 2) * tick.x.mid < MinTradeNotional THEN {"below_minimum"} ELSE {}
           judged == EvaluateRisk(risk, kill, FALSE, tick.u, facts \cup small)
           approved == IF judged.verdict = "ReduceSize" THEN qty \div 2 ELSE qty
<1>1. tick.at = "size" /\ UNCHANGED <<book, kill, env>>
  BY DEF Size
<1>2. /\ TypeOK /\ TickOK /\ PlanOK /\ HaltedSendsNothing /\ EntryJoinsOnlyStrays
      /\ SizedWithinRisk
  BY DEF FlowInv
<1>3. tick # NoTick
  BY <1>1 DEF NoTick
<1>4. Reading /\ Signalled
  BY <1>1, <1>2, <1>3 DEF TickOK
<1>5. /\ tick.x \in Snapshots /\ tick.x.mid \in Nat /\ env.account \in Accounts
      /\ RiskCap(env.account) \in Nat
  BY <1>2, <1>4, ScenarioTypes DEF Reading
<1>6. SizeMultiplier(tick) \in Nat
  BY <1>4, SizeMultiplierNat DEF Signalled
<1>7. qty \in Nat /\ qty * tick.x.mid <= RiskCap(env.account)
  BY <1>5, <1>6, ComputeSizeBounded
<1> HIDE DEF qty, small, judged
<1>8. approved \in Nat /\ approved * tick.x.mid <= RiskCap(env.account)
  <2>1. qty \div 2 \in Nat /\ qty \div 2 <= qty
    BY <1>7
  <2>2. /\ (qty \div 2) * tick.x.mid \in Nat /\ (qty \div 2) * tick.x.mid <= qty * tick.x.mid
        /\ qty * tick.x.mid \in Nat
    BY <1>5, <1>7, <2>1, ProductMonotone
  <2>3. QED
    BY <1>5, <1>7, <2>1, <2>2
<1> HIDE DEF approved
<1>9. RiskShape(risk) /\ RiskShape(judged.r)
  BY <1>2, EvaluateShape DEF TypeOK, judged
<1>10. kill => judged.verdict = "Denied"
  <2>1. EvaluateRisk(risk, TRUE, FALSE, tick.u, facts \cup small).verdict = "Denied"
    BY <1>9, KillDenies
  <2>2. kill = TRUE \/ kill = FALSE
    BY <1>2 DEF TypeOK
  <2>3. CASE kill = TRUE
    BY <2>1, <2>3 DEF judged
  <2>4. QED
    BY <2>2, <2>3
<1>11. \/ tick' = NoTick /\ risk' \in {risk, judged.r} /\ UNCHANGED <<twap, sent>>
       \/ /\ risk' = judged.r /\ tick' = NoTick
          /\ twap' = CreateTwapPlan(tick.x, env.side, approved)
          /\ sent' = [NothingSent EXCEPT !.price = tick.x.mid]
       \/ /\ risk' = judged.r /\ judged.verdict # "Denied"
          /\ tick' = [tick EXCEPT !.at = "lever", !.qty = approved]
          /\ UNCHANGED <<twap, sent>>
  BY DEF Size, Reject, qty, small, judged, approved
<1>12. CASE tick' = NoTick /\ risk' \in {risk, judged.r} /\ UNCHANGED <<twap, sent>>
  BY <1>1, <1>2, <1>9, <1>12, TickEnds DEF TypeOK
<1>13. CASE /\ risk' = judged.r /\ tick' = NoTick
            /\ twap' = CreateTwapPlan(tick.x, env.side, approved)
            /\ sent' = [NothingSent EXCEPT !.price = tick.x.mid]
  <2>1. Plan(twap') /\ twap'.total = approved /\ SentOf(twap', 0)
    BY <1>5, <1>8, <1>13, PlanCreated
  <2>2. /\ sent' \in SentRecords
        /\ sent'.total = 0 /\ sent'.price = tick.x.mid /\ ~sent'.halted /\ sent'.at = "none"
    BY <1>5, <1>13 DEF NothingSent, SentRecords
  <2>3. TypeOK'
    BY <1>1, <1>2, <1>9, <1>13, <2>2 DEF TypeOK
  <2>4. TickOK'
    BY <1>13 DEF TickOK
  <2>5. PlanOK'
    BY <1>1, <1>8, <2>1, <2>2 DEF PlanOK
  <2>6. (HaltedSendsNothing /\ EntryJoinsOnlyStrays /\ SizedWithinRisk)'
    BY <1>1, <1>5, <2>2 DEF HaltedSendsNothing, EntryJoinsOnlyStrays, SizedWithinRisk
  <2>7. QED
    BY <2>3, <2>4, <2>5, <2>6 DEF FlowInv
<1>14. CASE /\ risk' = judged.r /\ judged.verdict # "Denied"
            /\ tick' = [tick EXCEPT !.at = "lever", !.qty = approved]
            /\ UNCHANGED <<twap, sent>>
  <2>1. ~tick.kill
    BY <1>4, <1>10, <1>14 DEF Reading
  <2>2. {"at", "x", "q", "kill", "u", "qty", "stray"} \subseteq DOMAIN tick
    BY <1>4 DEF Reading, Signalled
  <2>3. /\ DOMAIN tick' = DOMAIN tick
        /\ tick'.at = "lever" /\ tick'.x = tick.x /\ tick'.q = tick.q /\ tick'.kill = tick.kill
        /\ tick'.u = tick.u /\ tick'.qty = approved /\ tick'.stray = tick.stray
    BY <1>14, <2>2
  <2>4. TypeOK'
    BY <1>1, <1>2, <1>9, <1>14 DEF TypeOK
  <2>5. Reading'
    BY <1>1, <1>4, <2>1, <2>3 DEF Reading
  <2>6. Signalled' /\ Sized'
    BY <1>1, <1>4, <1>8, <1>14, <2>1, <2>3 DEF Signalled, Sized
  <2>7. TickOK'
    BY <2>3, <2>5, <2>6 DEF TickOK
  <2>8. PlanOK'
    BY <1>1, <1>2, <1>14 DEF PlanOK
  <2>9. (HaltedSendsNothing /\ EntryJoinsOnlyStrays /\ SizedWithinRisk)'
    BY <1>1, <1>2, <1>14 DEF HaltedSendsNothing, EntryJoinsOnlyStrays, SizedWithinRisk
  <2>10. QED
    BY <2>4, <2>7, <2>8, <2>9 DEF FlowInv
<1>15. QED
  BY <1>11, <1>12, <1>13, <1>14

(* The guards of the leverage let only an entry through that joins at most *)
(* a stray, and the tick knows of that.                                    *)
LEMMA LeverKeeps ==
  ASSUME FlowInv, NEW ok, Lever(ok)
  PROVE  FlowInv'
<1>1. tick.at = "lever" /\ UNCHANGED <<risk, twap, book, kill, sent, env>>
  BY DEF Lever
<1>2. /\ TypeOK /\ TickOK /\ PlanOK /\ HaltedSendsNothing /\ EntryJoinsOnlyStrays
      /\ SizedWithinRisk
  BY DEF FlowInv
<1>3. \/ tick' = NoTick
      \/ tick' = [tick EXCEPT !.at = "send", !.stray = book.stray > 0] /\ ~WouldPyramid
  BY DEF Lever
<1>4. CASE tick' = NoTick
  BY <1>1, <1>2, <1>4, TickEnds DEF TypeOK
<1>5. CASE tick' = [tick EXCEPT !.at = "send", !.stray = book.stray > 0] /\ ~WouldPyramid
  <2>1. tick # NoTick
    BY <1>1 DEF NoTick
  <2>2. Reading /\ Signalled /\ Sized
    BY <1>1, <1>2, <2>1 DEF TickOK
  <2>3. /\ DOMAIN tick' = DOMAIN tick
        /\ tick'.at = "send" /\ tick'.x = tick.x /\ tick'.q = tick.q /\ tick'.kill = tick.kill
        /\ tick'.u = tick.u /\ tick'.qty = tick.qty /\ tick'.stray = (book.stray > 0)
    BY <1>5, <2>2 DEF Reading, Signalled
  <2>4. Beside'
    <3>1. book.working = 0 /\ book.position = 0
      BY <1>2, <1>5 DEF TypeOK, Books, WouldPyramid, HasPosition
    <3>2. book.stray > 0 => tick'.stray
      BY <2>3
    <3>3. ~(book.working > 0) /\ ~(book.position > 0) /\ book' = book
      BY <1>1, <3>1
    <3>4. QED
      BY <3>2, <3>3 DEF Beside
  <2>5. Reading' /\ Signalled' /\ Sized'
    BY <1>1, <2>2, <2>3 DEF Reading, Signalled, Sized
  <2>6. TickOK'
    BY <1>1, <2>3, <2>4, <2>5 DEF TickOK
  <2>7. TypeOK' /\ PlanOK'
    BY <1>1, <1>2 DEF TypeOK, PlanOK
  <2>8. (HaltedSendsNothing /\ EntryJoinsOnlyStrays /\ SizedWithinRisk)'
    BY <1>1, <1>2 DEF HaltedSendsNothing, EntryJoinsOnlyStrays, SizedWithinRisk
  <2>9. QED
    BY <2>6, <2>7, <2>8 DEF FlowInv
<1>6. QED
  BY <1>3, <1>4, <1>5

LEMMA DispatchKeeps ==
  ASSUME FlowInv, NEW result, Dispatch(result)
  PROVE  FlowInv'
<1> DEFINE qty == NoisyQuantity(tick.qty, tick.q.noise, tick.x.mid, MinTradeNotional)
<1>1. tick.at = "send" /\ tick' = NoTick /\ UNCHANGED <<twap, kill, env>>
  BY DEF Dispatch
<1>2. /\ TypeOK /\ TickOK /\ PlanOK /\ HaltedSendsNothing /\ EntryJoinsOnlyStrays
      /\ SizedWithinRisk
  BY DEF FlowInv
<1>3. tick # NoTick
  BY <1>1 DEF NoTick
<1>4. Reading /\ Signalled /\ Sized /\ Beside
  BY <1>1, <1>2, <1>3 DEF TickOK
<1>5. \/ UNCHANGED <<risk, book, sent>>
      \/ /\ risk' = RecordOrderSent(risk)
         /\ book' = [book EXCEPT !.working = @ + qty]
         /\ sent' = [at |-> "entry", total |-> qty, price |-> tick.x.mid,
                     halted |-> kill /\ tick.kill, joins |-> Joined,
                     stray |-> tick.stray]
  BY DEF Dispatch
<1>6. CASE UNCHANGED <<risk, book, sent>>
  BY <1>1, <1>2, <1>6, TickEnds DEF TypeOK
<1>7. CASE /\ risk' = RecordOrderSent(risk)
           /\ book' = [book EXCEPT !.working = @ + qty]
           /\ sent' = [at |-> "entry", total |-> qty, price |-> tick.x.mid,
                       halted |-> kill /\ tick.kill, joins |-> Joined,
                       stray |-> tick.stray]
  <2>1. tick.q.noise \in Nat /\ tick.x.mid \in Nat /\ RiskCap(env.account) \in Nat
    BY <1>2, <1>4, ScenarioTypes DEF Reading
  <2>2. qty \in Nat /\ qty <= tick.qty /\ tick.qty \in Nat
    BY <1>4, <2>1, NoiseOnlyTakesAway DEF Sized
  <2> HIDE DEF qty
  <2>3. qty * tick.x.mid <= RiskCap(env.account)
    <3>1. /\ qty * tick.x.mid \in Nat /\ qty * tick.x.mid <= tick.qty * tick.x.mid
          /\ tick.qty * tick.x.mid \in Nat
      BY <2>1, <2>2, ProductMonotone
    <3>2. QED
      BY <1>4, <2>1, <3>1 DEF Sized
  <2>4. Joined \in SUBSET {"working", "stray", "position"} /\ (Joined # {} => tick.stray)
    BY <1>4 DEF Beside, Joined
  <2>5. book' \in Books
    <3>1. book \in Books
      BY <1>2 DEF TypeOK
    <3>2. book.working + qty \in Nat
      BY <2>2, <3>1 DEF Books
    <3>3. QED
      BY <1>7, <3>1, <3>2 DEF Books
  <2>6. sent' \in SentRecords
    <3>1. (kill /\ tick.kill) \in BOOLEAN /\ tick.stray \in BOOLEAN
      BY <1>4 DEF Signalled
    <3>2. QED
      BY <1>7, <2>1, <2>2, <2>4, <3>1 DEF SentRecords
  <2>7. /\ sent'.total = qty /\ sent'.price = tick.x.mid /\ ~sent'.halted
        /\ sent'.joins = Joined /\ sent'.stray = tick.stray
    BY <1>4, <1>7 DEF Sized
  <2>8. TypeOK'
    BY <1>1, <1>2, <1>7, <2>5, <2>6, ShapeKept DEF TypeOK
  <2>9. TickOK'
    BY <1>1 DEF TickOK
  <2>10. PlanOK'
    BY <1>1, <1>4 DEF PlanOK, Signalled
  <2>11. (HaltedSendsNothing /\ EntryJoinsOnlyStrays /\ SizedWithinRisk)'
    BY <1>1, <2>3, <2>4, <2>7 DEF HaltedSendsNothing, EntryJoinsOnlyStrays, SizedWithinRisk
  <2>12. QED
    BY <2>8, <2>9, <2>10, <2>11 DEF FlowInv
<1>8. QED
  BY <1>5, <1>6, <1>7

-----------------------------------------------------------------------------
LEMMA FlowStep == FlowInv /\ [Next]_vars => FlowInv'
<1> SUFFICES ASSUME FlowInv, [Next]_vars PROVE FlowInv'
  OBVIOUS
<1>1. CASE \E x \in env.markets, q \in env.conditions : Ingress(x, q)
  BY <1>1, IngressKeeps
<1>2. CASE \/ \E loss \in env.losses, ok \in BOOLEAN : StopLoss(loss, ok)
           \/ Phantom \/ Ignored \/ Waits \/ Held
  BY <1>2, EarlyReturns
<1>3. CASE \E f \in env.facts, ok \in BOOLEAN : Slice(f, ok)
  BY <1>3, SliceKeeps
<1>4. CASE Signal
  BY <1>4, SignalKeeps
<1>5. CASE \E f \in env.facts : Size(f)
  BY <1>5, SizeKeeps
<1>6. CASE \E ok \in BOOLEAN : Lever(ok)
  BY <1>6, LeverKeeps
<1>7. CASE \E r \in Results : Dispatch(r)
  BY <1>7, DispatchKeeps
<1>8. CASE \/ Fill \/ ExchangeClose
           \/ \E ok \in env.cancels : Cancel(ok)
           \/ \E to \in {"position", "working", "gone"} : StrayResolves(to)
           \/ \E r \in env.results : BalanceSync(r)
  BY <1>8, BesideTicks
<1>9. CASE KillSwitch
  BY <1>9, SwitchKeeps
<1>10. CASE Clock
  BY <1>10, TimeKeeps DEF Clock
<1>11. CASE NewDay
  BY <1>11, NewDayKeeps
<1>12. CASE UNCHANGED vars
  BY <1>12 DEF vars, FlowInv, TypeOK, TickOK, Reading, Signalled, Sized, Beside,
               PlanOK, HaltedSendsNothing, EntryJoinsOnlyStrays, SizedWithinRisk
<1>13. QED
  BY <1>1, <1>2, <1>3, <1>4, <1>5, <1>6, <1>7, <1>8, <1>9, <1>10, <1>11, <1>12 DEF Next

LEMMA FlowAlways == Spec => []FlowInv
  BY InitFlow, FlowStep, PTL DEF Spec

(* While the supervisor's switch is on no tick sends an entry or a slice:  *)
(* the risk engine takes the switch over before it judges                  *)
(* (risk_engine.cpp evaluate), and every order of the tick that opens      *)
(* passes it, the slices of an older plan too.                             *)
THEOREM NothingSentWhileHalted == Spec => []HaltedSendsNothing
  BY FlowAlways, PTL DEF FlowInv

(* An entry of a signal joins a position or a live order only where the    *)
(* guards EDGE-16 and run86 have overlooked an order whose cancel failed:  *)
(* nothing but the tick itself puts a new order to work after them, for    *)
(* any interleaving of fills, cancellations that succeed or fail, and      *)
(* closes.                                                                 *)
THEOREM EntriesJoinOnlyStrays == Spec => []EntryJoinsOnlyStrays
  BY FlowAlways, PTL DEF FlowInv

(* What one signal sends in all, in one order or in slices, is within the  *)
(* risk of a trade, for any account, market, condition and any limits of   *)
(* the exchange (compute_size_v2, create_twap_plan): the filters raise an  *)
(* order only within the cap, and the falling weights of the slices add up *)
(* to no more than the whole.                                              *)
THEOREM SignalsWithinRisk == Spec => []SizedWithinRisk
  BY FlowAlways, PTL DEF FlowInv
=============================================================================
