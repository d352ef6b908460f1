---------------------------- MODULE MCBackground ----------------------------
(* One worker, as in the pipeline, and two callers of the breaker.         *)
EXTENDS Background

CONSTANTS w1, c1, c2

OneWorker == {w1}
PoolTasks == {"reconciliation", "clock_sync", "balance_sync", "oi_update"}
TwoCallers == {c1, c2}
=============================================================================
