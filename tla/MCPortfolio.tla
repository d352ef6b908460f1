---------------------------- MODULE MCPortfolio -----------------------------
(* Instances of Portfolio bounded by the number of operations: every       *)
(* sequence of at most MaxOps operations on a new portfolio.               *)
EXTENDS Portfolio, TLC

CONSTANT MaxOps

VARIABLE ops    \* operations performed so far

PnlRange == {-1, 1}

MCInit == Init /\ ops = 0

MCNext == ops < MaxOps /\ ops' = ops + 1 /\ Next

MCSpec == MCInit /\ [][MCNext]_<<pf, ops>>

Symmetry == Permutations(OrderIds)
=============================================================================
