----------------------------- MODULE EntryGates -----------------------------
(***************************************************************************)
(* The gates between an approved intent and the order: those of the ML     *)
(* components (ml/), those inside the tick and the two of                  *)
(* pre_trade_gates.cpp. Every gate is a predicate on the intent, the       *)
(* market and, for the ML components, a small state of its own.            *)
(***************************************************************************)
EXTENDS MarketAssessment

CONSTANTS
  MinPulls,         \* ThompsonConfig::min_pulls
  MaxWaits,         \* kMaxConsecutiveWait1
  CascadeCooldown,  \* CascadeConfig::cooldown_ns
  OrderCooldown,    \* order_cooldown_seconds
  StopCooldown,     \* stop_loss_cooldown_seconds
  MaxBackoff        \* kMaxRejectionBackoffNs

ASSUME GatesAssumption ==
  /\ {MinPulls, MaxWaits, CascadeCooldown, OrderCooldown, StopCooldown} \subseteq Nat \ {0}
  /\ MaxBackoff \in Nat /\ OrderCooldown <= MaxBackoff

-----------------------------------------------------------------------------
(* ThompsonSampler. The Beta distributions give every arm a positive        *)
(* density everywhere, so a sampled choice may be any arm.                  *)

Arms == <<"EnterNow", "WaitOnePeriod", "WaitTwoPeriods", "WaitThreePeriods">>

WaitPeriods(arm) == arm - 1

InitSampler == [pulls |-> [a \in DOMAIN Arms |-> 0], rewarded |-> FALSE]

Samplers == [pulls: [DOMAIN Arms -> 0..MinPulls], rewarded: BOOLEAN]

Underexplored(b) ==
  {a \in DOMAIN Arms : b.pulls[a] < MinPulls /\ \A c \in DOMAIN Arms : b.pulls[a] <= b.pulls[c]}

(* select_action: which arms it may return. Until the first reward it is    *)
(* always EnterNow, then the first of the least pulled arms.                *)
Selectable(b) ==
  CASE ~b.rewarded -> {1}
    [] b.rewarded /\ Underexplored(b) # {} ->
         {CHOOSE a \in Underexplored(b) : \A c \in Underexplored(b) : a <= c}
    [] OTHER -> DOMAIN Arms

Pull(b, arm) == IF b.rewarded THEN [b EXCEPT !.pulls[arm] = Lower(@ + 1, MinPulls)] ELSE b

RecordReward(b) == [b EXCEPT !.rewarded = TRUE]

-----------------------------------------------------------------------------
(* LiquidationCascadeDetector: velocity, volume and depth against their     *)
(* thresholds, in percent                                                   *)

CascadeProbability(velocity, volume, depth) == (4 * velocity + 3 * volume + 3 * depth) \div 10

(* A probable cascade is imminent once and then silent for the cooldown. *)
Imminent(left, probability) == probability >= 60 /\ left = 0

(* CorrelationMonitor: the multiplier of the size, in percent. Reference    *)
(* pairs without data that are all of them count as a break, some of them   *)
(* as a reason for care.                                                    *)
CorrelationMultiplier(break, allUndefined, decorrelated, someUndefined) ==
  Lower(IF break \/ allUndefined THEN 50 ELSE IF decorrelated THEN 70 ELSE 100,
        IF someUndefined THEN 80 ELSE 100)

(* MicrostructureFingerprinter: seven tenths win rate and three tenths      *)
(* return, in percent. A good edge needs both, a bad one either.            *)
PredictEdge(samples, winRate, return) ==
  LET blended == (14 * (winRate - 50) + 3 * return) \div 10
  IN  IF /\ samples >= 10
         /\ \/ winRate >= 55 /\ blended > 10
            \/ winRate <= 45
            \/ blended < 0 - 10
      THEN blended ELSE 0

FingerprintBlocks(edge) == edge < 0 - 10

(* BayesianAdapter: nothing moves before twenty observations *)
AdaptedThreshold(observations, base, adapted) ==
  Lower(90, IF observations >= 20 THEN adapted ELSE base)

-----------------------------------------------------------------------------
(* The gates of the tick. *)

RsiExtreme(x, side) ==
  Has(x, {"rsi"}) /\ ((side = "Buy" /\ x.rsi > 92) \/ (side = "Sell" /\ x.rsi < 8))

(* higher time frame: `trend` is -1, 0 or 1, `strong` over one half and     *)
(* `turned` a MACD and an RSI that confirm a reversal                       *)
HtfBlocks(htf, side) ==
  htf.valid /\ htf.strong /\ ~htf.turned /\ htf.trend = (IF side = "Buy" THEN -1 ELSE 1)

(* reward and risk in tenths of the atr, the boost in percent *)
RewardBoost(x, agrees) ==
  LET strong == IF Has(x, {"adx"}) /\ x.adx > 35 THEN 125 ELSE 100
      htf == IF agrees THEN (strong * 12) \div 10 ELSE strong
  IN  Lower(150, IF Has(x, {"adx"}) /\ x.adx < 20 THEN (htf * 9) \div 10 ELSE htf)

RewardRiskOk(x, reward, risk, agrees, minimum) ==
  Has(x, {"atr"}) => (reward * RewardBoost(x, agrees)) \div risk >= minimum

(* evaluate_entry of the market reaction: a veto, or the multiplier of the  *)
(* size, which starts from that of the uncertainty                          *)
EntryVetoed(x, u, shock) == u.action = "NoTrade" \/ ~x.fresh \/ shock > 15

EntrySizePercent(u, reversal, fundingAgainst) ==
  (((10 * u.size * (IF reversal > 35 THEN 50 ELSE 100)) \div 100)
     * (IF fundingAgainst THEN 80 ELSE 100)) \div 100

-----------------------------------------------------------------------------
(* FreshnessGate and NetRRGate; the snapshot of the signal is that of the   *)
(* tick that made it                                                        *)

FreshnessOk(signal, x, side, age, maxAge) ==
  LET drift == ((x.mid - signal.mid) * 10000) \div signal.mid
  IN  \/ signal.mid = 0
      \/ /\ age <= maxAge
         /\ (IF side = "Buy" THEN drift ELSE 0 - drift) <= 8
         /\ Has(x, {"spread"}) /\ signal.spread > 0 =>
              (x.spread - signal.spread) * 100 <= 50 * signal.spread
         /\ Has(x, {"liquidity"}) /\ signal.depth > 0 => 100 * x.depth >= 50 * signal.depth

(* all in basis points: both legs pay a fee and slip, a rebate is not counted *)
NetRewardRiskOk(reward, risk, taker, funding, minimum) ==
  LET cost == 2 * (IF taker THEN 6 ELSE 2) + 2 * 2 + Higher(0, funding)
  IN  reward > 0 /\ risk > 0 /\ (reward - cost) * 100 >= minimum * risk

(* the noise only makes an order smaller, and never smaller than the        *)
(* exchange's minimum                                                       *)
NoisyQuantity(approved, noise, price, minimum) ==
  LET noisy == Higher(0, Lower(approved, approved - noise))
  IN  IF noisy * price < minimum THEN approved ELSE noisy

(* the cooldown after the n-th rejection in a row *)
Backoff(n) == Lower(MaxBackoff, OrderCooldown * 2^Lower(n, 8))
=============================================================================
