---------------------------- MODULE HedgePairManager ----------------------------
(***************************************************************************)
(* pipeline/hedge_pair_manager: the state machine of a position and the    *)
(* opposite leg that hedges it.  The object keeps two fields, modelled as  *)
(* a record [state, count]; its methods are operators from the record to   *)
(* the new one.  evaluate() reads prices, scores and fees that nothing     *)
(* else of the model sees, so it is the SET of the outcomes those inputs   *)
(* can lead to from the given fields.                                      *)
(***************************************************************************)
EXTENDS Naturals

CONSTANT kMaxHedgesPerPosition   \* hedge_pair_manager.hpp: 2

ASSUME HedgeLimitAssumption == kMaxHedgesPerPosition \in Nat

HedgePairState ==
  {"PrimaryOnly", "HedgeSentPending", "PrimaryPlusHedge", "ProfitLockPair",
   "ReverseTransition", "AsymmetricUnwind", "EmergencyFlatten"}

HedgePair == [state : HedgePairState, count : 0 .. kMaxHedgesPerPosition]

\* reset()
FreshPair == [state |-> "PrimaryOnly", count |-> 0]

\* can_hedge()
CanHedge(m) == m.state = "PrimaryOnly" /\ m.count < kMaxHedgesPerPosition

\* notify_hedge_opened(): the order is sent, the leg is not there yet.
NotifyHedgeOpened(m) == [m EXCEPT !.state = "HedgeSentPending"]

\* notify_hedge_failed(), notify_hedge_closed(), notify_both_closed() and
\* notify_reversed() do the same.
NotifyPrimaryOnly(m) == [m EXCEPT !.state = "PrimaryOnly"]

Outcome(m, a) == [mgr |-> m, action |-> a]

\* evaluate_primary_only(): a hedge is asked for if the budget allows it and
\* should_trigger_hedge() finds the market against the position.
EvaluatePrimaryOnly(m) ==
  {Outcome(m, "None")} \cup {Outcome(m, a) : a \in {b \in {"OpenHedge"} : CanHedge(m)}}

\* evaluate_pair_active(): the emergency, the net profit, the unwind of one leg
\* and the escalation, each with the state it stores.
EvaluatePairActive(m, hasHedge) ==
  IF ~hasHedge
    THEN {Outcome([m EXCEPT !.state = "PrimaryOnly"], "None")}
    ELSE {Outcome(m, "None")} \cup
         {Outcome([m EXCEPT !.state = d[1]], d[2]) :
            d \in {<<"EmergencyFlatten", "CloseBoth">>, <<"ProfitLockPair", "CloseBoth">>,
                   <<"AsymmetricUnwind", "CloseHedge">>, <<"ReverseTransition", "ClosePrimary">>}}

\* evaluate_hedge_pending(): only a leg the portfolio shows is counted.
EvaluateHedgePending(m, hasHedge) ==
  IF hasHedge
    THEN EvaluatePairActive([state |-> "PrimaryPlusHedge", count |-> m.count + 1], hasHedge)
    ELSE {Outcome(m, "None")}

\* evaluate()
Evaluate(m, hasHedge) ==
  CASE m.state = "PrimaryOnly"       -> EvaluatePrimaryOnly(m)
    [] m.state = "HedgeSentPending"  -> EvaluateHedgePending(m, hasHedge)
    [] m.state = "ReverseTransition" -> {Outcome(m, "None")}
    [] m.state = "EmergencyFlatten"  -> {Outcome(m, "CloseBoth")}
    [] OTHER                         -> EvaluatePairActive(m, hasHedge)
================================================================================
