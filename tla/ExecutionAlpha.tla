--------------------------- MODULE ExecutionAlpha ---------------------------
(***************************************************************************)
(* RuleBasedExecutionAlpha (execution_alpha/): may an approved intent be   *)
(* executed in this market, in which style, and in how many slices. Costs  *)
(* are in tenths of a basis point, scores and probabilities in percent.    *)
(***************************************************************************)
EXTENDS MarketAssessment, FiniteSetsExt

NoExecution == "NoExecution"

MaxSpreadAny == 50
MaxSpreadPassive == 15
TakerFee == 60
MakerFee == 20

ValidFeatures(x) == x.mid > 0 /\ "spread" \in x.valid

(* volatility, momentum, change point and session, then the uncertainty *)
Urgency(x, base, u) ==
  LET vol == Lower(20, 2 * x.volatility)
      momentum == CASE "momentum" \notin x.valid -> 0
                    [] "momentum" \in x.valid /\ x.turning -> 15
                    [] OTHER -> 0 - 10
      cusum == IF "cusum" \in x.valid /\ x.cusum THEN 15 ELSE 0
  IN  (Lower(100, Higher(0, base + vol + momentum + cusum + x.session)) * u.size) \div 10

(* the weighted mean of the toxicities that are known *)
AdverseSelection(x) ==
  LET toxicity == [vpin |-> Lower(100, (100 * x.vpin) \div 65), flow |-> x.flow,
                   instability |-> x.instability,
                   spread |-> Lower(100, (100 * x.spread) \div MaxSpreadAny)]
      known == DOMAIN toxicity \cap x.valid
      weight(k) == IF k = "vpin" THEN 4 ELSE 10
      weighted(k) == weight(k) * toxicity[k]
  IN  IF known = {} THEN 0 ELSE MapThenSumSet(weighted, known) \div MapThenSumSet(weight, known)

(* book_imbalance_5 seen from the side of the order *)
DirectionalImbalance(x, side) == IF side = "Buy" THEN x.imbalance ELSE 0 - x.imbalance

Clamp(v, low, high) == Lower(high, Higher(low, v))

(* `queue` is what depletion and churn take away, `history` the passive     *)
(* fill rate of this bot, zero while there is none                          *)
FillProbability(style, x, imbalance) ==
  CASE style = "Aggressive" -> 95
    [] style = "Hybrid" ->
         Clamp(80 - Clamp((15 * x.spread) \div MaxSpreadAny, 0, 15), 60, 92)
    [] OTHER ->
         LET market == 60 - Clamp((15 * x.spread) \div MaxSpreadPassive, 0, 20)
                       + Clamp(imbalance \div 10, -10, 10) - x.queue
             blended == IF x.history = 0 THEN market ELSE (7 * market + 3 * x.history) \div 10
         IN  Clamp(blended, 25, 75)

TotalCost(style, x, adverse) ==
  IF style \in {"Passive", "PostOnly"}
  THEN 3 * x.spread + MakerFee + (2 * adverse * x.spread) \div 100
  ELSE 5 * x.spread + TakerFee + (IF style = "Hybrid" THEN 4 * x.slippage ELSE 10 * x.slippage)
       + (adverse * x.spread) \div 133

Viable(style, x, adverse) ==
  CASE style = "PostOnly" -> x.spread < 5 /\ adverse < 35
    [] style = "Passive" -> x.spread <= MaxSpreadPassive
    [] OTHER -> TRUE

(* expected implementation shortfall: the cost if it fills, the edge that   *)
(* is lost if it does not                                                   *)
Shortfall(style, x, urgency, adverse, imbalance) ==
  LET fill == FillProbability(style, x, imbalance)
  IN  fill * TotalCost(style, x, adverse) + (100 - fill) * 3 * urgency

(* The candidates in the order in which a tie is decided. *)
Candidates == <<"PostOnly", "Passive", "Hybrid", "Aggressive">>

DetermineStyle(x, side, urgency, adverse) ==
  LET eis(i) == Shortfall(Candidates[i], x, urgency, adverse, DirectionalImbalance(x, side))
      viable == {i \in DOMAIN Candidates : Viable(Candidates[i], x, adverse)}
  IN  CASE x.spread > MaxSpreadAny -> NoExecution
        [] x.spread <= MaxSpreadAny /\ Has(x, {"vpin"}) /\ x.toxic /\ x.vpin > 65 -> "Passive"
        [] OTHER ->
             CASE adverse > 70 -> NoExecution
               [] adverse <= 70 /\ urgency > 80 -> "Aggressive"
               [] OTHER ->
                    Candidates[CHOOSE i \in viable :
                                 \A j \in viable : eis(i) < eis(j) \/ (eis(i) = eis(j) /\ i <= j)]

(* evaluate() of an opening intent. A refusal is a style too: the caller    *)
(* leaves the refusal to the execution engine.                              *)
EvaluateAlpha(x, side, baseUrgency, u) ==
  LET urgency == Urgency(x, baseUrgency, u)
      style == DetermineStyle(x, side, urgency, AdverseSelection(x))
  IN  CASE ~ValidFeatures(x) \/ u.mode \in {"HaltNewEntries", "DefensiveOnly"}
             \/ u.level = "Extreme" -> NoExecution
        [] OTHER -> IF u.level = "High" /\ style = "Aggressive" THEN "Passive" ELSE style

(* compute_slice_plan: zero is no plan. The depth is that of the other side *)
(* of the book; a tenth of it is where slicing starts.                      *)
SlicePlan(x, notional) ==
  IF "liquidity" \notin x.valid \/ x.depth = 0 \/ 10 * notional < x.depth THEN 0
  ELSE Clamp((10 * notional) \div x.depth, 2, 10)
=============================================================================
