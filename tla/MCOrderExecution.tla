-------------------------- MODULE MCOrderExecution --------------------------
(* Scenarios of OrderExecution for TLC.                                    *)
EXTENDS OrderExecution

CONSTANTS o1, o2, i1, i2

OneIntentEach == [o \in Orders |-> IF o = o1 THEN i1 ELSE i2]
AllTrades == Orders \X (1..Qty)

Scenario(orders, market, faults, cancelFailures, reconciling) ==
  [orders |-> orders, market |-> market, faults |-> faults,
   cancelFailures |-> cancelFailures, reconciling |-> reconciling]

(* A market order polled by REST while unreliable fill events arrive; two  *)
(* limit entries, one after the other or at once, with repeated frames.    *)
SafetyScenarios ==
  {Scenario({o1}, {o1}, {"no_price", "reorder", "duplicate"}, 0, TRUE),
   Scenario({o1}, {o1}, {"no_price", "garbled_reply"}, 1, TRUE),
   Scenario({o1}, {}, {"duplicate"}, 0, TRUE),
   Scenario({o1, o2}, {}, {}, 0, FALSE)}

(* A limit order whose submit, cancel and private messages may fail.       *)
UnreliableScenarios ==
  {Scenario({o1}, {}, {"submit_reply_lost", "no_price", "loss", "reorder",
                       "duplicate"}, 1, FALSE)}

MarketScenarios == {Scenario({o1}, {o1}, {}, 0, FALSE)}
=============================================================================
