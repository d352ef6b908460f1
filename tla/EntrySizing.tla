---------------------------- MODULE EntrySizing -----------------------------
(***************************************************************************)
(* How large an approved entry is and with which leverage: opportunity     *)
(* cost (opportunity_cost/), allocator (portfolio_allocator/) and leverage *)
(* (leverage/). All three are functions of the account and the market; the *)
(* leverage engine also keeps an average of its answers.                   *)
(*                                                                         *)
(* Money is counted in whole units and quantities in steps of the          *)
(* exchange's precision; multipliers are in percent.                       *)
(***************************************************************************)
EXTENDS MarketAssessment

CONSTANTS
  MinQuantity,      \* exchange_rules_.min_quantity
  MaxQuantity,      \* exchange_rules_.max_quantity, 0 when it is not known
  MinTradeNotional, \* exchange_rules_.min_trade_usdt
  MaxLossPct,       \* max_loss_per_trade_pct
  StopPct,          \* price_stop_loss_pct, with the round trip's fees
  MinLeverage, MaxLeverage, ExchangeLeverage,
  LeverageDelta     \* min_leverage_change_delta

ASSUME SizingAssumption ==
  /\ {MinQuantity, MaxQuantity, MinTradeNotional, MaxLossPct, StopPct} \subseteq Nat
  /\ MinTradeNotional > 0
  /\ {MinLeverage, MaxLeverage, ExchangeLeverage, LeverageDelta} \subseteq Nat \ {0}
  /\ MinLeverage <= MaxLeverage /\ MaxLeverage <= ExchangeLeverage

(* `win` in percent, `ratio` in tenths, `volatility` annualised in percent, *)
(* `exposure` what this strategy already holds, `hint` the strategy's size  *)
Accounts ==
  [capital: Nat, available: Nat, exposure: Nat, drawdown: Percent, losses: Nat,
   win: Percent, ratio: Nat, volatility: Nat, hint: Nat]

-----------------------------------------------------------------------------
(* RuleBasedOpportunityCost, in basis points and percent *)

(* effective_conviction_threshold: never more than 20 points stricter *)
OpportunityThreshold(threshold, a) ==
  Lower(95, threshold + Lower(20, a.drawdown + Lower(20, a.losses \div 2)))

(* compute_score: conviction^1.5 of a hundred basis points *)
ExpectedReturn(conviction) ==
  (CHOOSE n \in 0..1000 : n * n <= conviction^3 /\ conviction^3 < (n + 1) * (n + 1)) \div 10

(* determine_action: `gross`, `symbol` and `strategy` are shares of the     *)
(* capital bound as margin, `better` the candidate of rule 7. Upgrade is    *)
(* executed like Execute.                                                   *)
DetermineAction(net, conviction, threshold, share, better) ==
  CASE net < 1 \/ conviction < threshold \/ share.gross > 85 \/ share.symbol > 25 -> "Suppress"
    [] OTHER ->
         IF share.strategy > 35 \/ (share.gross > 70 /\ conviction < 60) THEN "Defer"
         ELSE IF better \/ (net > 3 /\ share.gross < 70) \/ conviction >= 60
              THEN "Execute" ELSE "Defer"

-----------------------------------------------------------------------------
(* HierarchicalAllocator *)

(* compute_effective_available_notional: an account with nothing available  *)
(* is sized on its whole capital                                            *)
EffectiveAvailable(a) ==
  (IF a.available > 0 THEN a.available ELSE a.capital) * Higher((8 * MaxLeverage) \div 10, 1)

BudgetLimit(a) == (a.capital * MaxLeverage) \div 10
ConcentrationLimit(a) == (a.capital * MaxLeverage) \div 5
StrategyLimit(a) == Higher(0, (3 * a.capital * MaxLeverage) \div 10 - a.exposure)

RegimeMultiplier(regime) ==
  CASE regime \in {"StrongUptrend", "StrongDowntrend"} -> 100
    [] regime \in {"WeakUptrend", "WeakDowntrend"} -> 80
    [] regime = "MeanReversion" -> 70
    [] regime = "LowVolCompression" -> 60
    [] regime \in {"VolatilityExpansion", "Undefined"} -> 50
    [] regime = "Chop" -> 30
    [] regime \in {"LiquidityStress", "SpreadInstability"} -> 20
    [] OTHER -> 10

(* the edge of Kelly's formula, in percent *)
KellyEdge(a) == IF a.ratio = 0 THEN 0 ELSE a.win - (10 * (100 - a.win)) \div a.ratio

(* a quarter of Kelly, at least a tenth, on the ratio to the target         *)
(* volatility of 15 percent; without an edge nothing is left                *)
VolatilityMultiplier(a, regime) ==
  CASE a.volatility = 0 -> 100
    [] a.volatility > 0 /\ KellyEdge(a) <= 0 -> 0
    [] OTHER ->
         Lower(200, Higher(10, (15 * Higher(KellyEdge(a) \div 4, 10) * RegimeMultiplier(regime))
                                 \div (100 * a.volatility)))

DrawdownScale(a) ==
  CASE a.drawdown <= 5 -> 100
    [] a.drawdown >= 15 -> 10
    [] OTHER -> 100 - 9 * (a.drawdown - 5)

(* a tenth of the book; the volume of the day is never filled in *)
LiquidityCap(x, n) == IF x.depth > 0 THEN Lower(n, x.depth \div 10) ELSE n

(* the notional whose loss at the stop is the most a trade may lose *)
RiskCap(a) ==
  IF a.capital > 0 /\ MaxLossPct > 0 /\ StopPct > 0
  THEN Lower(EffectiveAvailable(a), (a.capital * MaxLossPct) \div StopPct)
  ELSE EffectiveAvailable(a)

CeilDiv(n, d) == (n + d - 1) \div d

(* apply_exchange_filters: an order under a minimum is raised to it when    *)
(* that is affordable, whatever made it small, and refused otherwise        *)
ApplyExchangeFilters(n, price, affordable) ==
  LET rounded == n \div price
      bumped == IF rounded >= MinQuantity THEN rounded
                ELSE IF MinQuantity * price <= affordable THEN MinQuantity ELSE 0
      capped == IF MaxQuantity > 0 THEN Lower(bumped, MaxQuantity) ELSE bumped
      enough == CeilDiv(MinTradeNotional, price)
  IN  CASE MaxQuantity > 0 /\ MinQuantity > MaxQuantity -> 0
        [] MinQuantity > 0 /\ bumped = 0 -> 0
        [] OTHER ->
             IF capped * price >= MinTradeNotional THEN capped
             ELSE IF enough * price <= affordable /\ (MaxQuantity > 0 => enough <= MaxQuantity)
                  THEN enough ELSE 0

(* 5 percent of the capital as margin, at half of the largest leverage *)
TargetNotional(a) == (5 * a.capital * Higher(MaxLeverage \div 2, 10)) \div 100

HardLimit(a) == Lower(BudgetLimit(a), Lower(ConcentrationLimit(a), StrategyLimit(a)))

(* the loss of the trade is not looked at *)
SizedNotional_NoRiskCap(x, a, regime, multiplier) ==
  LET wanted == Lower(Higher(TargetNotional(a), a.hint * x.mid), HardLimit(a))
      scaled == Lower((wanted * multiplier * VolatilityMultiplier(a, regime)) \div 10000,
                      HardLimit(a))
  IN  LiquidityCap(x, (scaled * DrawdownScale(a)) \div 100)

(* the notional before the exchange's filters *)
SizedNotional(x, a, regime, multiplier) ==
  LET wanted == Lower(Higher(TargetNotional(a), a.hint * x.mid), HardLimit(a))
      scaled == Lower((wanted * multiplier * VolatilityMultiplier(a, regime)) \div 10000,
                      HardLimit(a))
  IN  Lower(LiquidityCap(x, (scaled * DrawdownScale(a)) \div 100), RiskCap(a))

(* compute_size_v2: the approved quantity, zero is a refusal *)
ComputeSize(x, a, regime, multiplier) ==
  IF x.mid = 0 \/ Higher(TargetNotional(a), a.hint * x.mid) = 0 \/ HardLimit(a) = 0
     \/ EffectiveAvailable(a) = 0
  THEN 0
  ELSE ApplyExchangeFilters(SizedNotional(x, a, regime, multiplier), x.mid, RiskCap(a))

-----------------------------------------------------------------------------
(* LeverageEngine *)

(* leverage_trending, leverage_ranging, leverage_volatile, default_leverage *)
BaseLeverage(label) == [Trending |-> 10, Ranging |-> 5, Volatile |-> 3, Unclear |-> 5][label]

(* the atr in per mille of the price: interpolated from 100 down to 10 *)
AtrMultiplier(atr) ==
  CASE atr <= 1 -> 100
    [] atr \in 2..3 -> 100 - 15 * (atr - 1)
    [] atr \in 4..8 -> 70 - 6 * (atr - 3)
    [] atr \in 9..20 -> 40 - (5 * (atr - 8)) \div 3
    [] OTHER -> Higher(10, 20 - (atr - 20) \div 4)

(* the tanh of the drawdown, half way down at its half point of 10 percent *)
DrawdownMultiplier(drawdown) ==
  CASE drawdown <= 10 -> 100 - (9 * drawdown) \div 2
    [] drawdown \in 11..20 -> 55 - (27 * (drawdown - 10)) \div 10
    [] OTHER -> Higher(10, 28 - (drawdown - 20))

ConvictionMultiplier(conviction) ==
  IF conviction <= 70 THEN 40 + (60 * conviction) \div 70 ELSE 100 + (conviction - 70)

(* `funding` in multiples of the threshold, positive when this side pays *)
FundingMultiplier(funding) == IF funding < 2 THEN 100 ELSE Higher(15, 100 \div 2^(funding - 1))

AdversarialMultiplier(severity) == 100 - (85 * severity) \div 100

(* only an extreme level counts here: the size already carries the others *)
UncertaintyMultiplier(level) == IF level = "Extreme" THEN 60 ELSE 100

(* compute_adversarial_severity of the tick: the worst of the signals, and  *)
(* five points more when several agree                                      *)
Severities(x, world) ==
  {CASE world = "ToxicMicrostructure" -> 95
     [] world = "LiquidityVacuum" -> 85
     [] world = "ExhaustionSpike" -> 65
     [] OTHER -> 0,
   CASE ~Has(x, {"spread"}) \/ x.spread < 10 -> 0
     [] Has(x, {"spread"}) /\ x.spread >= 50 -> 85
     [] OTHER -> IF x.spread >= 20 THEN 55 ELSE 25,
   IF Has(x, {"instability"}) THEN Lower(85, Higher(0, ((x.instability - 30) * 17) \div 10)) ELSE 0,
   IF Has(x, {"vpin"}) THEN IF x.toxic THEN 70 ELSE Higher(0, x.vpin - 55) ELSE 0,
   IF Has(x, {"flow"}) THEN Lower(80, Higher(0, 2 * (x.flow - 60))) ELSE 0}

AdversarialSeverity(x, world) ==
  LET raised == {v \in Severities(x, world) : v > 0}
      worst == CHOOSE v \in raised \cup {0} : \A w \in raised : w <= v
  IN  IF Cardinality(raised) > 1 THEN Lower(100, worst + 5) ELSE worst

(* half of Kelly on the largest leverage; without an edge the smallest *)
KellyLeverage(a) ==
  Lower(MaxLeverage, Higher(MinLeverage, (Higher(KellyEdge(a), 0) * MaxLeverage) \div 200))

RawLeverage(x, a, label, level, world, conviction, funding) ==
  LET times(v, percent) == (v * percent) \div 100
      market == times(times(1000 * BaseLeverage(label), AtrMultiplier(x.atr)),
                      AdversarialMultiplier(AdversarialSeverity(x, world)))
      own == times(times(market, DrawdownMultiplier(a.drawdown)), ConvictionMultiplier(conviction))
  IN  Lower(KellyLeverage(a),
            times(times(own, FundingMultiplier(funding)), UncertaintyMultiplier(level)) \div 1000)

(* the average starts again whenever the regime is another one *)
LeverageState == [average: 0..MaxLeverage, regime: {"none", "Trending", "Ranging", "Volatile", "Unclear"}]

InitLeverage == [average |-> 0, regime |-> "none"]

SmoothLeverage(e, label, raw) ==
  [average |-> IF e.regime # label THEN raw ELSE (3 * raw + 7 * e.average) \div 10,
   regime |-> label]

ClampLeverage(average) == Lower(MaxLeverage, Higher(MinLeverage, average))

(* compute_liquidation_price and is_liquidation_safe: the distance to the   *)
(* liquidation in per mille, without maintenance margin and fee             *)
LiquidationSafe(leverage) == 1000 \div leverage - 5 >= 50

(* the tick raises the leverage until the margin is 3 percent of the capital, *)
(* after the check of the liquidation and without repeating it                *)
AutoLeverage(a, notional, leverage) ==
  LET target == (3 * a.capital) \div 100
      required == IF target = 0 THEN 0 ELSE CeilDiv(notional, target)
  IN  Higher(leverage, Lower(required, Lower(MaxLeverage, ExchangeLeverage)))
=============================================================================
