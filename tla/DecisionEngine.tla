--------------------------- MODULE DecisionEngine ---------------------------
(***************************************************************************)
(* CommitteeDecisionEngine (decision/): vetoes, the price of the execution *)
(* and the threshold that the conviction of an intent has to reach. With   *)
(* one strategy there is at most one intent, and one allocation. All       *)
(* quantities are in percent.                                              *)
(***************************************************************************)
EXTENDS MarketAssessment

CONSTANTS
  ConvictionThreshold  \* decision.min_conviction_threshold

ASSUME ConvictionAssumption == ConvictionThreshold \in Percent

(* The inline allocation of the tick: the size of the uncertainty, in       *)
(* tenths, and a veto of the regime, which generate_hints never gives to    *)
(* this strategy.                                                           *)
Allocation(u, regime) ==
  [enabled |-> ScalpWeight(regime) > 0 /\ u.size > 0, weight |-> u.size]

(* compute_time_decay: `age` counts half lives; an intent without a time    *)
(* stamp is treated as one half life old                                    *)
AgedConviction(conviction, age) == conviction \div 2^age

ExecutionCost(x) == (IF "spread" \in x.valid THEN x.spread ELSE 0) + x.slippage

VetoedByCost(x) == ExecutionCost(x) > 50

(* execution_cost_conviction_penalty takes 0.3 points per basis point *)
EffectiveConviction(x, conviction, age) ==
  LET aged == AgedConviction(conviction, age)
      penalty == (3 * ExecutionCost(x)) \div 10
  IN  IF penalty > aged THEN 0 ELSE aged - penalty

(* The worst of the severities, never their sum. The four bad states of the *)
(* world have all the probability if one of them is the primary state.      *)
Severity(u, world) ==
  LET byLevel == [Low |-> 0, Moderate |-> 20, High |-> 60, Extreme |-> 100][u.level]
      danger == IF world \in {"ToxicMicrostructure", "LiquidityVacuum", "ExhaustionSpike",
                              "ChopNoise"} THEN 70 ELSE 21
  IN  Higher(byLevel, danger)

(* compute_drawdown_boost, up to drawdown_max_boost *)
DrawdownBoost(drawdown, losses) == Lower(8, (2 * drawdown) \div 5 + losses \div 2)

EffectiveThreshold(x, u, world, boost) ==
  Lower(80, ConvictionThreshold + Lower(25, (30 * Severity(u, world)) \div 100) + boost
            + Lower(20, ExecutionCost(x) \div 2))

GlobalVeto(u, regime) == u.action = "NoTrade" \/ ~Allocation(u, regime).enabled

Aggregate(x, u, regime, world, conviction, age, boost) ==
  /\ ~GlobalVeto(u, regime)
  /\ ~VetoedByCost(x)
  /\ EffectiveConviction(x, conviction, age) >= EffectiveThreshold(x, u, world, boost)
=============================================================================
