---------------------------- MODULE TwapExecutor ----------------------------
(***************************************************************************)
(* SmartTwapExecutor (execution/twap_executor.cpp): one active plan, a     *)
(* sequence of slices that are sent one by one. Quantities are whole and   *)
(* a plan divides exactly; the schedule is kept as the time that is left   *)
(* until the next slice is due.                                            *)
(***************************************************************************)
EXTENDS Naturals, Sequences, FiniteSets, MarketAssessment

CONSTANTS
  MinSlices, MaxSlices,  \* min_slices, max_slices
  MinNotional,           \* the exchange's smallest order
  TwapNotional,          \* kMinTwapNotional: smaller orders are not sliced
  SliceInterval          \* base_interval_ms

ASSUME TwapAssumption ==
  /\ {MinSlices, MaxSlices, MinNotional, TwapNotional, SliceInterval} \subseteq Nat \ {0}
  /\ MinSlices <= MaxSlices

(* the order is over a twentieth of the liquidity, or over the participation *)
ShouldUseTwap(x, qty) ==
  /\ x.liquid > 0
  /\ x.mid > 0
  /\ qty * x.mid >= Higher(2 * MinNotional, TwapNotional)
  /\ 20 * qty > x.liquid \/ 10 * qty > x.liquid

SliceCount(x, total) ==
  LET ratio == IF x.liquid = 0 THEN 0 ELSE (10 * total * (MaxSlices - MinSlices)) \div x.liquid
      byMarket == Lower(MaxSlices, MinSlices + ratio)
  IN  IF x.mid = 0 THEN byMarket
      ELSE Lower(byMarket, Higher(1, (total * x.mid) \div MinNotional))

(* front-loaded: from 1.2 times the mean down to 0.8 times *)
SliceWeight(n, i) == IF n = 1 THEN 1 ELSE 12 * (n - 1) - 4 * (i - 1)

SliceQty(total, n, i) ==
  (total * SliceWeight(n, i)) \div (IF n = 1 THEN 1 ELSE 10 * n * (n - 1))

(* a wide spread waits longer, a toxic flow half as long *)
AdaptiveInterval(x) ==
  LET spread == (SliceInterval * (30 + x.spread)) \div 30
  IN  Higher(1, IF Has(x, {"vpin"}) /\ x.toxic THEN spread \div 2 ELSE spread)

NoTwap == [side |-> "none", total |-> 0, slices |-> <<>>, next |-> 1, due |-> 0,
           sent |-> {}, filled |-> {}, filled_qty |-> 0, completed |-> FALSE]

CreateTwapPlan(x, side, total) ==
  LET n == SliceCount(x, total)
  IN  [NoTwap EXCEPT !.side = side, !.total = total,
                     !.slices = [i \in 1..n |-> SliceQty(total, n, i)]]

(* a plan that is complete only when every slice has been filled *)
NextSlice_AllFilled(t, x) ==
  IF t.completed \/ t.next > Len(t.slices) \/ t.due > 0 THEN [t |-> t, qty |-> 0]
  ELSE [t |-> [t EXCEPT !.next = @ + 1, !.sent = @ \cup {t.next}, !.due = AdaptiveInterval(x)],
        qty |-> t.slices[t.next]]

(* get_next_slice: nothing when it is complete or not due *)
NextSlice(t, x) ==
  CASE t.completed -> [t |-> t, qty |-> 0]
    [] ~t.completed /\ t.next > Len(t.slices) ->
         [t |-> [t EXCEPT !.completed = TRUE], qty |-> 0]
    [] OTHER ->
         IF t.due > 0 THEN [t |-> t, qty |-> 0]
         ELSE [t |-> [t EXCEPT !.next = @ + 1, !.sent = @ \cup {t.next},
                               !.due = AdaptiveInterval(x)],
               qty |-> t.slices[t.next]]

(* record_slice_fill: a slice is filled once, at a valid price *)
RecordSliceFill(t, index, qty, priced) ==
  IF index \notin DOMAIN t.slices \/ index \in t.filled \/ ~priced THEN t
  ELSE [t EXCEPT !.filled = @ \cup {index}, !.filled_qty = @ + qty,
                 !.completed = @ \/ t.filled \cup {index} = DOMAIN t.slices]

TwapElapse(t) == [t EXCEPT !.due = IF @ = 0 THEN 0 ELSE @ - 1]
=============================================================================
