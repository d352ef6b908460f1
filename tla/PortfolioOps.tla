---------------------------- MODULE PortfolioOps ----------------------------
(***************************************************************************)
(* The state and the operations of InMemoryPortfolioEngine                 *)
(* (src/portfolio/portfolio_engine.cpp) as functions of a portfolio record *)
(* pf.  Every operation of the engine runs under its mutex, so each one is *)
(* a single function pf -> pf.                                             *)
(*                                                                         *)
(* Money, prices and sizes are integers (the code uses doubles).  The      *)
(* engine of one symbol in hedge mode has two legs, "long" and "short"; a  *)
(* leg that is not in positions_ is a position of size 0.                  *)
(***************************************************************************)
EXTENDS Integers, FiniteSets, FiniteSetsExt

CONSTANT OrderIds      \* identifiers of orders that may hold a reservation

Legs == {"long", "short"}

Opposite(leg) == IF leg = "long" THEN "short" ELSE "long"

NoPosition == [size |-> 0, entry |-> 0, mark |-> 0, funding |-> 0, upl |-> 0]

Position == [size : Nat, entry : Nat, mark : Nat, funding : Int, upl : Int]

(* The members of InMemoryPortfolioEngine; total, available and reserved   *)
(* are cash_ledger_.{total_cash, available_cash, reserved_for_orders}, net *)
(* and gross are cash_ledger_.realized_pnl_{net, gross}, and pending[o] = 0 *)
(* says that o is not a key of pending_orders_.                            *)
Portfolio ==
  [capital : Int, peak : Int, synced : BOOLEAN, realized : Int, trades : Nat,
   losses : Nat, fees : Nat, pos : [Legs -> Position], total : Int,
   available : Int, reserved : Int, gross : Int, net : Int,
   pending : [OrderIds -> Nat]]

NewPortfolio(c) ==
  [capital |-> c, peak |-> c, synced |-> FALSE, realized |-> 0, trades |-> 0,
   losses |-> 0, fees |-> 0, pos |-> [l \in Legs |-> NoPosition], total |-> c,
   available |-> c, reserved |-> 0, gross |-> 0, net |-> 0,
   pending |-> [o \in OrderIds |-> 0]]

-----------------------------------------------------------------------------
Unrealized(pf) == pf.pos["long"].upl + pf.pos["short"].upl

(* total_capital_ + realized_pnl_today_ + the unrealized pnl of both legs  *)
Equity(pf) == pf.capital + pf.realized + Unrealized(pf)

PricePnl(leg, entry, price, size) ==
  IF leg = "long" THEN (price - entry) * size ELSE (entry - price) * size

recalculate_position_pnl(leg, p) ==
  [p EXCEPT !.upl = IF p.entry <= 0 \/ p.size <= 0 THEN 0
                    ELSE PricePnl(leg, p.entry, p.mark, p.size) - p.funding]

(* the block that ends update_price, close_position and reduce_position    *)
RaisePeak(pf) ==
  [pf EXCEPT !.peak = IF Equity(pf) > pf.peak THEN Equity(pf) ELSE pf.peak]

WeightedEntry(p, qty, price) ==
  (p.size * p.entry + qty * price) \div (p.size + qty)

open_position(pf, leg, qty, price) ==
  LET old == pf.pos[leg]
      new == IF old.size > 0
               THEN [old EXCEPT !.entry = WeightedEntry(old, qty, price),
                                !.size = old.size + qty, !.mark = price]
               ELSE [size |-> qty, entry |-> price, mark |-> price,
                     funding |-> 0, upl |-> 0]
  IN  [pf EXCEPT !.pos[leg] = recalculate_position_pnl(leg, new)]

Marked(leg, p, price) ==
  IF p.size = 0 THEN p
  ELSE recalculate_position_pnl(leg,
         [p EXCEPT !.entry = IF p.entry <= 0 THEN price ELSE p.entry,
                   !.mark = price])

update_price(pf, price) ==
  IF \A l \in Legs : pf.pos[l].size = 0 THEN pf
  ELSE RaisePeak([pf EXCEPT !.pos = [l \in Legs |-> Marked(l, pf.pos[l], price)]])

Funded(leg, p, amount) ==
  IF p.size = 0 THEN p
  ELSE recalculate_position_pnl(leg, [p EXCEPT !.funding = p.funding + amount])

record_funding_payment(pf, amount) ==
  LET amt(l) == IF l = "long" THEN amount ELSE -amount
      due(l) == IF pf.pos[l].size = 0 THEN 0 ELSE amt(l)
  IN  [pf EXCEPT !.pos = [l \in Legs |-> Funded(l, pf.pos[l], amt(l))],
                 !.realized = pf.realized - (due("long") + due("short"))]

-----------------------------------------------------------------------------
(* Realized pnl enters the daily counter and the cash ledger together.     *)
AddRealized(pf, pnl) ==
  [pf EXCEPT !.realized = pf.realized + pnl,
             !.gross = pf.gross + pnl, !.net = pf.net + pnl,
             !.total = pf.total + pnl, !.available = pf.available + pnl]

LossStreak(losses, pnl) ==
  CASE pnl < 0 -> losses + 1
    [] pnl > 0 -> 0
    [] OTHER   -> losses

CountTrade(pf, pnl) ==
  [pf EXCEPT !.trades = pf.trades + 1, !.losses = LossStreak(pf.losses, pnl)]

close_leg(pf, leg, pnl) ==
  IF pf.pos[leg].size = 0 THEN pf
  ELSE RaisePeak([CountTrade(AddRealized(pf, pnl), pnl)
                    EXCEPT !.pos[leg] = NoPosition])

(* close_position without a side refuses when both legs are open           *)
close_position(pf, pnl) ==
  IF \A l \in Legs : pf.pos[l].size > 0 THEN pf
  ELSE IF pf.pos["long"].size > 0 THEN close_leg(pf, "long", pnl)
  ELSE close_leg(pf, "short", pnl)

reduce_leg(pf, leg, qty, price, pnl) ==
  LET old  == pf.pos[leg]
      left == IF qty < old.size THEN old.size - qty ELSE 0
      paid == AddRealized(pf, pnl)
  IN  IF old.size = 0 THEN pf
      ELSE RaisePeak(
             IF left = 0
               THEN [CountTrade(paid, pnl) EXCEPT !.pos[leg] = NoPosition]
               ELSE [paid EXCEPT !.pos[leg] = recalculate_position_pnl(leg,
                       [old EXCEPT !.size = left, !.mark = price])])

(* reduce_position without a side takes the long leg if there is one       *)
reduce_position(pf, qty, price, pnl) ==
  reduce_leg(pf, IF pf.pos["long"].size > 0 THEN "long" ELSE "short",
             qty, price, pnl)

add_realized_pnl(pf, amount) == AddRealized(pf, amount)

(* Mutant: the base capital keeps the unrealized pnl.                      *)
reset_daily_KeepsUnrealized(pf) ==
  [pf EXCEPT !.realized = 0, !.trades = 0, !.losses = 0, !.fees = 0,
             !.gross = 0, !.net = 0, !.capital = Equity(pf),
             !.peak = Equity(pf), !.total = Equity(pf),
             !.available = Equity(pf) - pf.reserved]

reset_daily(pf) ==
  LET base == Equity(pf) - Unrealized(pf)
  IN  [pf EXCEPT !.realized = 0, !.trades = 0, !.losses = 0, !.fees = 0,
                 !.gross = 0, !.net = 0, !.capital = base, !.peak = Equity(pf),
                 !.total = base, !.available = base - pf.reserved]

(* Mutant: the peak is overwritten at every sync.                          *)
set_capital_ResetsPeak(pf, equity) ==
  LET base == equity - pf.realized - Unrealized(pf)
  IN  [pf EXCEPT !.capital = base, !.synced = TRUE, !.peak = equity,
                 !.total = base, !.available = base - pf.reserved]

set_capital(pf, equity) ==
  LET base == equity - pf.realized - Unrealized(pf)
  IN  [pf EXCEPT !.capital = base, !.synced = TRUE,
                 !.peak = IF ~pf.synced \/ equity > pf.peak THEN equity
                          ELSE pf.peak,
                 !.total = base, !.available = base - pf.reserved]

(* A leg the portfolio does not have keeps the unrealized pnl the exchange *)
(* reported; a leg it has is recalculated.                                 *)
sync_position_from_exchange(pf, leg, qty, entry, price, upl) ==
  LET old == pf.pos[leg]
      new == [old EXCEPT !.size = qty, !.entry = entry, !.mark = price,
                         !.upl = upl]
  IN  [pf EXCEPT !.pos[leg] = IF old.size > 0
                                THEN recalculate_position_pnl(leg, new)
                                ELSE new]

-----------------------------------------------------------------------------
(* Cash reservations.                                                      *)

CanReserve(pf, amount) == amount <= pf.available

reserve_cash(pf, o, amount) ==
  IF ~CanReserve(pf, amount) THEN pf
  ELSE [pf EXCEPT !.pending[o] = amount,
                  !.available = pf.available - amount,
                  !.reserved = pf.reserved + amount]

(* Mutant: the pending entry is not erased.                                *)
release_cash_NoErase(pf, o) ==
  [pf EXCEPT !.available = pf.available + pf.pending[o],
             !.reserved = pf.reserved - pf.pending[o]]

release_cash(pf, o) ==
  [pf EXCEPT !.pending[o] = 0,
             !.available = pf.available + pf.pending[o],
             !.reserved = pf.reserved - pf.pending[o]]

record_fee(pf, fee) ==
  [pf EXCEPT !.fees = pf.fees + fee, !.net = pf.net - fee,
             !.available = pf.available - fee, !.total = pf.total - fee]

-----------------------------------------------------------------------------
(* Conditions 2 and 3 of check_invariants.                                 *)

ReservedIsPending(pf) ==
  pf.reserved = MapThenSumSet(LAMBDA o : pf.pending[o], OrderIds)

TotalIsAvailablePlusReserved(pf) == pf.total = pf.available + pf.reserved
=============================================================================
