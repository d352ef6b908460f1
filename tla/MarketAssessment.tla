-------------------------- MODULE MarketAssessment --------------------------
(***************************************************************************)
(* What the pipeline thinks of the market before it looks for a trade: the *)
(* regime (regime/), the state of the world (world_model/) and the         *)
(* uncertainty (uncertainty/). All three read the same feature snapshot;   *)
(* the first keeps a hysteresis, the last a level and a cooldown.          *)
(*                                                                         *)
(* A snapshot is a record of readings in whole units: percent, basis       *)
(* points, per mille (bandwidth, atr), tenths (volume). The thresholds are *)
(* the defaults of the three configurations, in the same units.            *)
(***************************************************************************)
EXTENDS Integers, FiniteSets

CONSTANTS
  ConfirmationTicks,   \* transition.confirmation_ticks
  DwellTicks,          \* transition.dwell_time_ticks
  CusumDwellTicks,     \* kCusumMinDwellTicks
  ExtremeForCooldown,  \* consecutive_extreme_for_cooldown
  UncertaintyCooldown  \* cooldown_duration_ns

ASSUME AssessmentAssumption ==
  {ConfirmationTicks, DwellTicks, CusumDwellTicks, ExtremeForCooldown, UncertaintyCooldown}
    \subseteq Nat \ {0}

(* the indicators that classify_immediate counts as valid *)
Indicators ==
  {"ema", "rsi", "adx", "bb", "atr", "obv", "cusum", "vpin", "flow", "spread", "instability",
   "liquidity"}

Percent == 0..100

(* `turning` is a momentum_5 against the side of the RSI; `depth` and       *)
(* `liquid` are the book in units of notional and of quantity, `imbalance`  *)
(* its tilt to the bid.                                                     *)
Snapshots ==
  [valid: SUBSET (Indicators \cup {"momentum"}), ema: {"up", "down", "flat"}, rsi: Percent,
   adx: Percent, bandwidth: Nat, atr: Nat, volume: Nat, cusum: BOOLEAN, toxic: BOOLEAN,
   vpin: Percent, flow: Percent, spread: Nat, instability: Percent, liquidity: Percent,
   trending: BOOLEAN, turning: BOOLEAN, fresh: BOOLEAN, mid: Nat, slippage: Nat,
   volatility: Percent, session: -10..10, imbalance: -100..100, queue: Percent,
   history: Percent, depth: Nat, liquid: Nat]

Regimes ==
  {"StrongUptrend", "WeakUptrend", "StrongDowntrend", "WeakDowntrend", "MeanReversion",
   "VolatilityExpansion", "LowVolCompression", "LiquidityStress", "SpreadInstability",
   "AnomalyEvent", "ToxicFlow", "Chop", "Undefined"}

(* to_simple_label *)
SimpleLabel(regime) ==
  CASE regime \in {"StrongUptrend", "WeakUptrend", "StrongDowntrend", "WeakDowntrend"} -> "Trending"
    [] regime \in {"MeanReversion", "LowVolCompression", "Chop"} -> "Ranging"
    [] regime = "Undefined" -> "Unclear"
    [] OTHER -> "Volatile"

-----------------------------------------------------------------------------
(* RuleBasedRegimeEngine *)

AdxStrong == 30
AdxWeak == 18
RsiBias == 55

Has(x, indicators) == indicators \subseteq x.valid

(* the rules that come before the trend, in their order *)
StressRules(x) ==
  <<[regime |-> "AnomalyEvent",
     holds |-> Has(x, {"rsi", "obv"}) /\ (x.rsi > 85 \/ x.rsi < 15) /\ x.volume > 20],
    [regime |-> "ToxicFlow", holds |-> Has(x, {"vpin"}) /\ x.toxic],
    [regime |-> "ToxicFlow", holds |-> Has(x, {"flow", "spread"}) /\ x.flow > 75 /\ x.spread > 15],
    [regime |-> "SpreadInstability", holds |-> Has(x, {"instability"}) /\ x.instability > 60],
    [regime |-> "LiquidityStress",
     holds |-> Has(x, {"spread", "liquidity"}) /\ x.spread > 30 /\ x.liquidity < 30],
    [regime |-> "VolatilityExpansion",
     holds |-> Has(x, {"bb", "atr"}) /\ x.bandwidth > 60 /\ x.atr > 20],
    [regime |-> "LowVolCompression",
     holds |-> Has(x, {"bb", "adx"}) /\ x.bandwidth < 20 /\ x.adx < 20],
    [regime |-> "MeanReversion",
     holds |-> Has(x, {"rsi", "adx"}) /\ (x.rsi > 70 \/ x.rsi < 30) /\ x.adx < 25]>>

(* the direction from the averages; the strong rule comes first *)
TrendByAverages(x) ==
  LET rsi == "rsi" \in x.valid
  IN  CASE x.ema = "up" /\ x.adx > AdxStrong /\ rsi /\ x.rsi >= RsiBias -> "StrongUptrend"
        [] x.ema = "up" /\ ~(x.adx > AdxStrong /\ rsi /\ x.rsi >= RsiBias)
             /\ x.adx >= AdxWeak /\ (rsi => x.rsi >= 45) -> "WeakUptrend"
        [] x.ema = "down" /\ x.adx > AdxStrong /\ rsi /\ x.rsi < 100 - RsiBias ->
             "StrongDowntrend"
        [] x.ema = "down" /\ ~(x.adx > AdxStrong /\ rsi /\ x.rsi < 100 - RsiBias)
             /\ x.adx >= AdxWeak /\ (rsi => x.rsi <= 55) -> "WeakDowntrend"
        [] OTHER -> "Undefined"

(* without averages the direction is that of a decided RSI, or none *)
TrendByRsi(x) ==
  CASE "rsi" \in x.valid /\ x.rsi >= RsiBias ->
         IF x.adx > AdxStrong THEN "StrongUptrend" ELSE "WeakUptrend"
    [] "rsi" \in x.valid /\ x.rsi < 100 - RsiBias ->
         IF x.adx > AdxStrong THEN "StrongDowntrend" ELSE "WeakDowntrend"
    [] OTHER -> "Undefined"

Quiet(x) == IF "adx" \in x.valid /\ x.adx < 18 THEN "Chop" ELSE "Undefined"

ClassifyImmediate(x) ==
  LET rules == StressRules(x)
      hits == {i \in DOMAIN rules : rules[i].holds}
  IN  CASE x.valid \cap {"ema", "rsi", "adx"} = {} -> "Undefined"
        [] x.valid \cap {"ema", "rsi", "adx"} # {} /\ hits # {} ->
             rules[CHOOSE i \in hits : \A j \in hits : i <= j].regime
        [] OTHER ->
             CASE Has(x, {"ema", "adx"}) ->
                    IF TrendByAverages(x) # "Undefined" THEN TrendByAverages(x) ELSE Quiet(x)
               [] Has(x, {"adx"}) /\ "ema" \notin x.valid /\ x.adx >= AdxWeak -> TrendByRsi(x)
               [] OTHER -> Quiet(x)

Lower(a, b) == IF a < b THEN a ELSE b

Higher(a, b) == IF a < b THEN b ELSE a

(* No limit is compared with a counter beyond this. *)
TickCap == ConfirmationTicks + DwellTicks + CusumDwellTicks

Hysteresis ==
  [confirmed: Regimes, candidate: Regimes, ticks: 0..TickCap, dwell: 0..TickCap]

InitHysteresis == [confirmed |-> "Undefined", candidate |-> "Undefined", ticks |-> 0, dwell |-> 0]

(* dwell counts the ticks that agree with the confirmed regime, not the     *)
(* ticks since it was confirmed.                                            *)
ApplyHysteresis(h, immediate, confidence, cusum) ==
  LET needed == IF cusum THEN Higher(1, ConfirmationTicks - 1) ELSE ConfirmationTicks
      dwell == IF cusum THEN Higher(CusumDwellTicks, DwellTicks) ELSE DwellTicks
      switched == [confirmed |-> immediate, candidate |-> "Undefined", ticks |-> 0, dwell |-> 1]
      again == [h EXCEPT !.ticks = Lower(@ + 1, TickCap)]
  IN  CASE h.confirmed = "Undefined" -> switched
        [] h.confirmed # "Undefined" /\ immediate = h.confirmed ->
             [h EXCEPT !.candidate = "Undefined", !.ticks = 0, !.dwell = Lower(@ + 1, TickCap)]
        [] h.confirmed # "Undefined" /\ immediate # h.confirmed /\ immediate # h.candidate ->
             [h EXCEPT !.candidate = immediate, !.ticks = 1]
        [] OTHER ->
             IF again.ticks >= needed /\ confidence >= 55 /\ h.dwell >= dwell
             THEN switched ELSE again

(* in percent; the bonus of a strong trend may be negative in the code's    *)
(* formula, but a strong trend is never under AdxStrong when it is new      *)
ComputeConfidence(x, regime) ==
  LET quality == 50 + (20 * Cardinality(x.valid \cap Indicators)) \div 12
      over == IF x.adx > AdxStrong THEN x.adx - AdxStrong ELSE 0
      under == IF x.adx < AdxStrong THEN AdxStrong - x.adx ELSE 0
  IN  CASE regime \in {"StrongUptrend", "StrongDowntrend"} ->
             IF "adx" \in x.valid
             THEN quality + Lower(20, (over * 20) \div 50) - (under * 20) \div 50
             ELSE quality
        [] regime = "AnomalyEvent" -> 90
        [] regime \in {"Chop", "Undefined"} -> Higher(20, quality - 10)
        [] OTHER -> quality

Classify(h, x) ==
  LET immediate == ClassifyImmediate(x)
      cusum == "cusum" \in x.valid /\ x.cusum /\ x.valid \cap {"ema", "rsi", "adx"} # {}
  IN  ApplyHysteresis(h, immediate, ComputeConfidence(x, immediate), cusum)

(* generate_hints for "scalp_engine", the one strategy there is: tenths *)
ScalpWeight(regime) ==
  CASE regime \in {"StrongUptrend", "StrongDowntrend"} -> 6
    [] regime \in {"WeakUptrend", "WeakDowntrend"} -> 8
    [] regime = "MeanReversion" -> 7
    [] regime = "VolatilityExpansion" -> 2
    [] regime = "LowVolCompression" -> 10
    [] regime = "Chop" -> 13
    [] regime = "Undefined" -> 5
    [] OTHER -> 1

-----------------------------------------------------------------------------
(* RuleBasedWorldModelEngine: it keeps its last answer and never reads it.  *)

WorldRules(x) ==
  <<[state |-> "LiquidityVacuum", holds |-> Has(x, {"spread"}) /\ x.spread >= 50],
    [state |-> "ToxicMicrostructure", holds |-> Has(x, {"vpin"}) /\ x.toxic],
    [state |-> "ToxicMicrostructure",
     holds |-> Has(x, {"spread"}) /\ x.instability >= 70 /\ x.spread >= 15],
    [state |-> "LiquidityVacuum", holds |-> Has(x, {"liquidity"}) /\ x.liquidity < 30],
    [state |-> "StableTrendContinuation",
     holds |-> Has(x, {"adx", "momentum"}) /\ x.adx >= 25 /\ x.trending],
    [state |-> "ChopNoise", holds |-> Has(x, {"adx"}) /\ x.adx <= 20],
    [state |-> "ExhaustionSpike",
     holds |-> Has(x, {"rsi", "momentum"}) /\ (x.rsi >= 80 \/ x.rsi <= 20) /\ x.turning],
    [state |-> "Unknown", holds |-> TRUE]>>

ClassifyWorld(x) ==
  LET rules == WorldRules(x)
      hits == {i \in DOMAIN rules : rules[i].holds}
  IN  rules[CHOOSE i \in hits : \A j \in hits : i <= j].state

WorldLabel(state) ==
  CASE state = "StableTrendContinuation" -> "Stable"
    [] state = "ChopNoise" -> "Transitioning"
    [] state = "Unknown" -> "Unknown"
    [] OTHER -> "Disrupted"

Fragility(x) ==
  Lower(100, 30 + (IF Has(x, {"spread"}) /\ x.spread > 20 THEN 30 ELSE 0)
                + (IF x.instability > 50 THEN 20 ELSE 0)
                + (IF Has(x, {"vpin"}) /\ x.toxic THEN 20 ELSE 0))

-----------------------------------------------------------------------------
(* RuleBasedUncertaintyEngine *)

Levels == <<"Low", "Moderate", "High", "Extreme">>

(* seven tenths of the worst hard signal, three tenths of the mean of the   *)
(* soft ones; `ml` is [cascade: Percent, break: BOOLEAN]                     *)
RawScore(x, confidence, ml) ==
  LET spread == IF "spread" \in x.valid THEN Lower(100, 4 * x.spread) ELSE 50
      data == IF x.fresh THEN 0 ELSE 80
      vpin == CASE "vpin" \notin x.valid -> 0
                [] "vpin" \in x.valid /\ x.toxic -> 85
                [] OTHER -> IF x.vpin < 40 THEN 0 ELSE Lower(100, ((x.vpin - 40) * 5) \div 2)
      hard == Higher(Higher(spread, data), Higher(vpin, x.instability))
      mlPart == Higher(ml.cascade, IF ml.break THEN 70 ELSE 0)
  IN  (7 * hard + (100 - confidence) \div 2 + Fragility(x) + mlPart) \div 10

(* threshold_low, threshold_moderate, threshold_high *)
LevelAt(score) ==
  CASE score >= 75 -> 4 [] score \in 50..74 -> 3 [] score \in 25..49 -> 2 [] OTHER -> 1

(* hysteresis_down holds the two upper levels for five points more *)
Level(prev, score) ==
  LET new == LevelAt(score)
  IN  CASE new < prev /\ prev = 4 /\ score > 70 -> 4
        [] new < prev /\ prev = 3 /\ score > 45 -> 3
        [] OTHER -> new

Uncertainty == [prev: DOMAIN Levels, extreme: 0..ExtremeForCooldown, cooldown: 0..UncertaintyCooldown]

InitUncertainty == [prev |-> 1, extreme |-> 0, cooldown |-> 0]

(* While the level stays extreme the cooldown starts again at every tick. *)
Assess(u, x, confidence, ml) ==
  LET level == Level(u.prev, RawScore(x, confidence, ml))
      extreme == IF level = 4 THEN Lower(u.extreme + 1, ExtremeForCooldown) ELSE 0
  IN  [prev |-> level, extreme |-> extreme,
       cooldown |-> IF extreme >= ExtremeForCooldown THEN UncertaintyCooldown ELSE u.cooldown]

(* the snapshot of an assessment; size in tenths *)
UncertaintySnapshot(u) ==
  LET stop == u.cooldown > 0 \/ u.prev = 4
  IN  [level |-> Levels[u.prev], cooldown |-> u.cooldown > 0, size |-> <<10, 7, 4, 1>>[u.prev],
       action |-> IF stop THEN "NoTrade"
                  ELSE <<"Normal", "ReducedSize", "HigherThreshold">>[u.prev],
       mode |-> IF stop THEN "HaltNewEntries"
                ELSE <<"Normal", "Conservative", "DefensiveOnly">>[u.prev]]

NeutralUncertainty == UncertaintySnapshot(InitUncertainty)

UncertaintyElapse(u) == [u EXCEPT !.cooldown = IF @ = 0 THEN 0 ELSE @ - 1]
=============================================================================
