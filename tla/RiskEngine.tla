----------------------------- MODULE RiskEngine -----------------------------
(***************************************************************************)
(* ProductionRiskEngine (risk/): the registry of locks, the loss streaks   *)
(* and rates behind it, and the chain of pre-trade checks. Every method    *)
(* that touches the state holds mutex_, so each is an operator on the      *)
(* record `r`. An engine belongs to one pipeline and sees one symbol.      *)
(*                                                                         *)
(* A check that compares a number with a limit is a member of `facts` when *)
(* the number is on the wrong side; the checks that read the engine's own  *)
(* state read it here as well.                                             *)
(***************************************************************************)
EXTENDS Naturals, FiniteSets

CONSTANTS
  SymbolLosses,      \* max_consecutive_losses_per_symbol
  CooldownLosses,    \* cooldown_after_n_losses
  HaltLosses,        \* halt_after_n_losses
  SymbolCooldown,    \* symbol_cooldown_after_stopouts_ns
  LossCooldown,      \* loss_cooldown_ns
  MaxOrders          \* max_orders_per_minute

ASSUME RiskAssumption ==
  /\ {SymbolLosses, CooldownLosses, HaltLosses, MaxOrders} \subseteq Nat \ {0}
  /\ SymbolLosses <= HaltLosses /\ CooldownLosses <= HaltLosses
  /\ {SymbolCooldown, LossCooldown} \subseteq Nat \ {0}

(* The symbol and the strategy locks are never added by the program. *)
LockTypes == {"EmergencyHalt", "DayLock", "SymbolCooldown", "LossCooldown",
              "SymbolLock", "StrategyLock"}

Timed == {"SymbolCooldown", "LossCooldown"}

Duration(lock) == IF lock = "SymbolCooldown" THEN SymbolCooldown ELSE LossCooldown

Scales == {"stress", "chop", "normal", "trending"}

RiskState ==
  [locks: SUBSET LockTypes, left: [Timed -> 0..(SymbolCooldown + LossCooldown)],
   kill: BOOLEAN, streak: 0..HaltLosses, orders: 0..MaxOrders, traded: BOOLEAN,
   scale: Scales, desync: BOOLEAN, ws_down: BOOLEAN]

InitRisk ==
  [locks |-> {}, left |-> [t \in Timed |-> 0], kill |-> FALSE, streak |-> 0, orders |-> 0,
   traded |-> FALSE, scale |-> "normal", desync |-> FALSE, ws_down |-> FALSE]

-----------------------------------------------------------------------------
(* LockRegistry *)

(* A lock that is there keeps its clock, even if it has run out and was not *)
(* cleared yet.                                                             *)
AddLock(r, lock) ==
  IF lock \in r.locks THEN r
  ELSE [r EXCEPT !.locks = @ \cup {lock},
                 !.left = IF lock \in Timed THEN [@ EXCEPT ![lock] = Duration(lock)] ELSE @]

RemoveLock(r, lock) == [r EXCEPT !.locks = @ \ {lock}]

ClearExpired(r) == [r EXCEPT !.locks = {l \in @ : l \in Timed => r.left[l] > 0}]

-----------------------------------------------------------------------------
(* The trackers. With one symbol the account's streak and the symbol's are  *)
(* the same number, capped where every limit has been passed.               *)

RecordResult(r, loss) ==
  [r EXCEPT !.streak = IF ~loss THEN 0 ELSE IF @ = HaltLosses THEN @ ELSE @ + 1]

(* the deque of the last minute, counted up to the limit *)
RecordOrderSent(r) == [r EXCEPT !.orders = IF @ = MaxOrders THEN @ ELSE @ + 1]

(* record_trade_close: the trackers, then the locks their rules ask for. *)
RecordTradeClose(r, loss) ==
  LET counted == [RecordResult(r, loss) EXCEPT !.traded = TRUE]
      n == counted.streak
      symbol == IF n >= SymbolLosses THEN AddLock(counted, "SymbolCooldown") ELSE counted
      global == IF n >= CooldownLosses /\ n < HaltLosses
                THEN AddLock(symbol, "LossCooldown") ELSE symbol
  IN  IF n >= HaltLosses THEN AddLock(global, "DayLock") ELSE global

(* reset_daily of the state and of the engine; an emergency halt stays. *)
ResetDaily(r) ==
  ClearExpired(RemoveLock([r EXCEPT !.streak = 0, !.scale = "normal"], "DayLock"))

(* Time passes: the timed locks run down and the windows of a minute and of *)
(* the trade interval may be over.                                          *)
RiskElapse(r, ordersLeft, tradeOver) ==
  [r EXCEPT !.left = [t \in Timed |-> IF @[t] = 0 THEN 0 ELSE @[t] - 1],
            !.orders = IF ordersLeft < @ THEN ordersLeft ELSE @,
            !.traded = @ /\ ~tradeOver]

SetCurrentRegime(r, regime) ==
  [r EXCEPT !.scale =
     CASE regime \in {"LiquidityStress", "VolatilityExpansion", "AnomalyEvent", "ToxicFlow",
                      "SpreadInstability"} -> "stress"
       [] regime \in {"StrongUptrend", "StrongDowntrend"} -> "trending"
       [] regime \in {"Chop", "LowVolCompression"} -> "chop"
       [] OTHER -> "normal"]

-----------------------------------------------------------------------------
(* The checks. Each one passes, denies, throttles or reduces.               *)

Unless(wrong, effect) == IF wrong THEN effect ELSE "pass"

KillSwitchCheck(c) == Unless("EmergencyHalt" \in c.r.locks, "deny")
DayLockCheck(c) == Unless("DayLock" \in c.r.locks, "deny")
SymbolLockCheck(c) == Unless("SymbolLock" \in c.r.locks, "deny")
StrategyLockCheck(c) == Unless("StrategyLock" \in c.r.locks, "deny")

(* asks for the lock of the symbol: LossCooldown, on the account, is not it *)
SymbolCooldownCheck(c) == Unless("SymbolCooldown" \in c.r.locks, "throttle")

HasCapital(c) == "no_capital" \notin c.facts

DailyLossCheck(c) == Unless(HasCapital(c) /\ "daily_loss" \in c.facts, "deny")
RealizedDailyLossCheck(c) == Unless(HasCapital(c) /\ "realized_loss" \in c.facts, "deny")
MaxDrawdownCheck(c) == Unless(c.facts \cap {"drawdown", "hard_drawdown"} # {}, "deny")
IntradayDrawdownCheck(c) == Unless("intraday_drawdown" \in c.facts, "deny")
DrawdownHardStopCheck(c) == Unless("hard_drawdown" \in c.facts, "deny")
MaxPositionsCheck(c) == Unless("many_positions" \in c.facts, "deny")
SameDirectionCheck(c) == Unless("same_direction" \in c.facts, "deny")
ExposureLimitCheck(c) == Unless(HasCapital(c) /\ "exposure" \in c.facts, "deny")
PerTradeRiskCheck(c) == Unless("over_notional" \in c.facts, "reduce")
MaxLeverageCheck(c) == Unless(HasCapital(c) /\ "leverage" \in c.facts, "deny")
MaxSlippageCheck(c) == Unless("slippage" \in c.facts, "deny")
ConsecutiveLossesCheck(c) == Unless("portfolio_losses" \in c.facts, "deny")
MaxLossPerTradeCheck(c) == Unless(HasCapital(c) /\ "position_losing" \in c.facts, "deny")

PerSymbolRiskCheck(c) ==
  Unless(HasCapital(c) /\ (c.r.streak >= SymbolLosses
                            \/ c.facts \cap {"concentration", "symbol_loss"} # {}), "deny")

PerStrategyRiskCheck(c) == Unless(HasCapital(c) /\ "strategy_budget" \in c.facts, "deny")
OrderRateCheck(c) == Unless(c.r.orders >= MaxOrders, "throttle")
TurnoverRateCheck(c) == Unless("turnover" \in c.facts, "throttle")
TradeIntervalCheck(c) == Unless(c.r.traded, "throttle")
StaleFeedCheck(c) == Unless(c.facts \cap {"stale_feed", "old_data"} # {}, "deny")
BookQualityCheck(c) == Unless("bad_book" \in c.facts, "deny")
SpreadCheck(c) == Unless("wide_spread" \in c.facts, "deny")
LiquidityCheck(c) == Unless("thin_book" \in c.facts, "deny")
UtcCutoffCheck(c) == Unless("after_cutoff" \in c.facts, "deny")

RegimeScaledLimitsCheck(c) ==
  Unless(c.r.scale \in {"stress", "chop"} /\ "over_scaled" \in c.facts, "reduce")

UncertaintyLimitsCheck(c) ==
  Unless(c.u.level \in {"High", "Extreme"} /\ "over_uncertain" \in c.facts, "reduce")

UncertaintyCooldownCheck(c) == Unless(c.u.cooldown, "throttle")
UncertaintyExecutionModeCheck(c) == Unless(c.u.mode = "HaltNewEntries", "deny")
FundingRateCostCheck(c) == Unless("funding" \in c.facts, "deny")
ReconciliationDesyncCheck(c) == Unless(c.r.desync, "deny")
WsDisconnectedCheck(c) == Unless(c.r.ws_down, "deny")

(* VenueHealthCheck and MarginDistanceCheck read contexts that nobody fills *)
(* in: with the defaults both pass.                                         *)
VenueHealthCheck(c) == "pass"
MarginDistanceCheck(c) == "pass"

(* init_checks: the chain. The verdict does not depend on its order. *)
Effects(c) ==
  {KillSwitchCheck(c), DayLockCheck(c), SymbolLockCheck(c), StrategyLockCheck(c),
   SymbolCooldownCheck(c), DailyLossCheck(c), RealizedDailyLossCheck(c), MaxDrawdownCheck(c),
   IntradayDrawdownCheck(c), DrawdownHardStopCheck(c), MaxPositionsCheck(c),
   SameDirectionCheck(c), ExposureLimitCheck(c), PerTradeRiskCheck(c), MaxLeverageCheck(c),
   MaxSlippageCheck(c), ConsecutiveLossesCheck(c), MaxLossPerTradeCheck(c),
   PerSymbolRiskCheck(c), PerStrategyRiskCheck(c), OrderRateCheck(c), TurnoverRateCheck(c),
   TradeIntervalCheck(c), StaleFeedCheck(c), BookQualityCheck(c), SpreadCheck(c),
   LiquidityCheck(c), UtcCutoffCheck(c), RegimeScaledLimitsCheck(c), UncertaintyLimitsCheck(c),
   UncertaintyCooldownCheck(c), UncertaintyExecutionModeCheck(c), FundingRateCostCheck(c),
   VenueHealthCheck(c), MarginDistanceCheck(c), ReconciliationDesyncCheck(c),
   WsDisconnectedCheck(c)}

(* deny overwrites, throttle yields to it, reduce yields to both *)
Combine(effects) ==
  CASE "deny" \in effects -> "Denied"
    [] "deny" \notin effects /\ "throttle" \in effects -> "Throttled"
    [] OTHER -> IF "reduce" \in effects THEN "ReduceSize" ELSE "Approved"

(* finalize_decision: a reduced order under the exchange's minimum is denied *)
FinalizeDecision(verdict, facts) ==
  IF verdict = "ReduceSize" /\ "below_minimum" \in facts THEN "Denied" ELSE verdict

(* a switch that is noted and locks nothing *)
SyncKillSwitch_NoLock(r, external) ==
  CASE external -> [r EXCEPT !.kill = TRUE]
    [] ~external /\ r.kill -> RemoveLock([r EXCEPT !.kill = FALSE], "EmergencyHalt")
    [] OTHER -> r

(* The authoritative switch is the supervisor's: it is read at every        *)
(* evaluation and the local one follows it in both directions.              *)
SyncKillSwitch(r, external) ==
  CASE external -> AddLock([r EXCEPT !.kill = TRUE], "EmergencyHalt")
    [] ~external /\ r.kill -> RemoveLock([r EXCEPT !.kill = FALSE], "EmergencyHalt")
    [] OTHER -> r

(* A closing order is never refused; an opening one runs the whole chain,   *)
(* and a critical drawdown leaves a halt behind.                            *)
EvaluateRisk(r, external, closing, u, facts) ==
  LET synced == ClearExpired(SyncKillSwitch(r, external))
      c == [r |-> synced, u |-> u, facts |-> facts]
  IN  CASE "bad_size" \in facts -> [r |-> synced, verdict |-> "Denied"]
        [] "bad_size" \notin facts /\ closing -> [r |-> synced, verdict |-> "Approved"]
        [] OTHER ->
             [r |-> IF "hard_drawdown" \in facts THEN AddLock(synced, "EmergencyHalt") ELSE synced,
              verdict |-> FinalizeDecision(Combine(Effects(c)), facts)]
=============================================================================
