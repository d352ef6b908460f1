----------------------------- MODULE Portfolio ------------------------------
(***************************************************************************)
(* InMemoryPortfolioEngine as a state machine: one action per public       *)
(* operation.  The engine is shared by every pipeline of the process (tick *)
(* threads, private-WebSocket thread, REST workers), and each operation    *)
(* runs under mutex_, so the concurrent behaviour is any sequence of       *)
(* atomic operations with the arguments the callers can supply.            *)
(***************************************************************************)
EXTENDS PortfolioOps

CONSTANTS Quantities,     \* order and position sizes
          Prices,         \* prices and marks
          PnlValues,      \* realized pnl a caller may report
          Amounts,        \* reservations: notional plus estimated fee
          Fees,           \* commissions
          FundingAmounts, \* funding payments of the long side
          Equities,       \* account equity reported by the exchange
          InitialCapital

ASSUME PortfolioAssumption ==
  /\ IsFiniteSet(OrderIds)
  /\ Quantities \subseteq Nat \ {0}
  /\ Prices \subseteq Nat \ {0}
  /\ PnlValues \subseteq Int
  /\ Amounts \subseteq Nat \ {0}
  /\ Fees \subseteq Nat
  /\ FundingAmounts \subseteq Int
  /\ Equities \subseteq Nat \ {0}
  /\ InitialCapital \in Nat

VARIABLE pf

Init == pf = NewPortfolio(InitialCapital)

Open(leg, q, p)          == pf' = open_position(pf, leg, q, p)
UpdatePrice(p)           == pf' = update_price(pf, p)
Funding(a)               == pf' = record_funding_payment(pf, a)
Close(pnl)               == pf' = close_position(pf, pnl)
CloseLeg(leg, pnl)       == pf' = close_leg(pf, leg, pnl)
Reduce(q, p, pnl)        == pf' = reduce_position(pf, q, p, pnl)
ReduceLeg(leg, q, p, pnl) == pf' = reduce_leg(pf, leg, q, p, pnl)
AddRealizedPnl(a)        == pf' = add_realized_pnl(pf, a)
ResetDaily               == pf' = reset_daily(pf)
SetCapital(e)            == pf' = set_capital(pf, e)
SyncPosition(leg, q, e, p, upl) ==
  pf' = sync_position_from_exchange(pf, leg, q, e, p, upl)
(* Execution reserves for an order once: order ids are generated and never *)
(* reused, and a second attempt follows only a refused one.                *)
Reserve(o, a)            == pf.pending[o] = 0 /\ pf' = reserve_cash(pf, o, a)
Release(o)               == pf' = release_cash(pf, o)
RecordFee(f)             == pf' = record_fee(pf, f)

Next ==
  \/ \E leg \in Legs, q \in Quantities, p \in Prices : Open(leg, q, p)
  \/ \E p \in Prices : UpdatePrice(p)
  \/ \E a \in FundingAmounts : Funding(a)
  \/ \E pnl \in PnlValues : Close(pnl)
  \/ \E leg \in Legs, pnl \in PnlValues : CloseLeg(leg, pnl)
  \/ \E q \in Quantities, p \in Prices, pnl \in PnlValues : Reduce(q, p, pnl)
  \/ \E leg \in Legs, q \in Quantities, p \in Prices, pnl \in PnlValues :
       ReduceLeg(leg, q, p, pnl)
  \/ \E a \in PnlValues : AddRealizedPnl(a)
  \/ ResetDaily
  \/ \E e \in Equities : SetCapital(e)
  \/ \E leg \in Legs, q \in Quantities, e, p \in Prices \cup {0},
        upl \in PnlValues : SyncPosition(leg, q, e, p, upl)
  \/ \E o \in OrderIds, a \in Amounts : Reserve(o, a)
  \/ \E o \in OrderIds : Release(o)
  \/ \E f \in Fees : RecordFee(f)

Spec == Init /\ [][Next]_pf

-----------------------------------------------------------------------------
(* The members of the engine keep their types.                             *)
TypeOK == pf \in Portfolio

(* check_invariants, condition 3: whatever fills, closes, fees, resets and *)
(* exchange syncs happened, total_cash is available_cash plus              *)
(* reserved_for_orders.                                                    *)
CashConserved == TotalIsAvailablePlusReserved(pf)

(* check_invariants, condition 2: reserved_for_orders is the sum of the    *)
(* reservations of the pending orders, so releasing every one of them      *)
(* returns all the margin.                                                 *)
ReservedMatchesPending == ReservedIsPending(pf)

(* Conditions 2 and 3 of check_invariants hold, and of condition 1,        *)
(* available_cash >= 0, what is true of the code.  The condition itself is *)
(* not: a loss, a fee, the daily reset or a sync to a lower equity may     *)
(* leave less cash than is reserved, and check_invariants then warns       *)
(* (portfolio_engine.cpp:917).  What reserve_cash promises does hold: a    *)
(* reservation never overdraws the account, so available_cash falls below  *)
(* zero only in a step that lowers total_cash, not by any order of         *)
(* reservations and releases.                                              *)
ReservationsCovered ==
  /\ [](CashConserved /\ ReservedMatchesPending)
  /\ [][pf.available >= 0 /\ pf'.available < 0 => pf'.total < pf.total]_pf

(* cash_ledger_: net realized pnl is gross realized pnl less the day's     *)
(* fees, across closes, fees and the daily reset.                          *)
NetIsGrossMinusFees == pf.net = pf.gross - pf.fees

(* reset_daily moves realized pnl into the base capital: the equity, the   *)
(* open legs and the pending reservations are those of before the reset.   *)
EquityKeptByReset ==
  [][ResetDaily => /\ Equity(pf') = Equity(pf)
                   /\ pf'.pos = pf.pos
                   /\ pf'.pending = pf.pending]_pf

(* set_capital: the equity computed from the new base capital is the       *)
(* equity the exchange reported, with no pnl counted twice.                *)
EquityMatchesExchange ==
  [][\A e \in Equities : SetCapital(e) => Equity(pf') = e]_pf

(* A drawdown is not forgotten: peak_equity_ falls only at the daily reset *)
(* and at the first synchronization with the exchange.                     *)
DrawdownNotErased ==
  [][pf'.peak < pf.peak =>
       \/ ResetDaily
       \/ ~pf.synced /\ \E e \in Equities : SetCapital(e)]_pf

=============================================================================
