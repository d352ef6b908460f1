--------------------------- MODULE PortfolioProofs --------------------------
(***************************************************************************)
(* Proofs about Portfolio, for every set of order ids, sizes, prices and   *)
(* amounts.  Sound is the inductive invariant: the record has its type and *)
(* the two ledger equations hold.  The lemmas show that each operation     *)
(* takes a sound portfolio to a sound one; the theorems follow.  The third *)
(* equation, reserved cash against the pending orders, is about a sum; it  *)
(* comes last, after the lemmas about sums it rests on.                    *)
(***************************************************************************)
EXTENDS Portfolio, FiniteSetTheorems, TLAPS

Sound(x) ==
  /\ x \in Portfolio
  /\ TotalIsAvailablePlusReserved(x)
  /\ x.net = x.gross - x.fees

Balanced == Sound(pf)

-----------------------------------------------------------------------------
(* What the helpers on positions return.                                   *)

LEMMA PricePnlType ==
  ASSUME NEW leg, NEW e \in Int, NEW p \in Int, NEW s \in Int
  PROVE  PricePnl(leg, e, p, s) \in Int
BY DEF PricePnl

LEMMA RecalculateType ==
  ASSUME NEW leg \in Legs, NEW p \in Position
  PROVE  recalculate_position_pnl(leg, p) \in Position
<1> DEFINE u == PricePnl(leg, p.entry, p.mark, p.size)
<1>1. p.entry \in Nat /\ p.mark \in Nat /\ p.size \in Nat /\ p.funding \in Int
  BY DEF Position
<1>2. u \in Int
  BY <1>1, PricePnlType
<1>3. u - p.funding \in Int
  BY <1>1, <1>2
<1> HIDE DEF u
<1> QED
  BY <1>1, <1>3 DEF recalculate_position_pnl, Position, u

LEMMA WeightedEntryType ==
  ASSUME NEW p \in Position, NEW q \in Nat \ {0}, NEW price \in Nat
  PROVE  WeightedEntry(p, q, price) \in Nat
<1>1. p.size \in Nat /\ p.entry \in Nat
  BY DEF Position
<1>2. p.size * p.entry + q * price \in Nat /\ p.size + q \in Nat \ {0}
  BY <1>1
<1>3. ASSUME NEW a \in Nat, NEW b \in Nat \ {0} PROVE a \div b \in Nat
  OBVIOUS
<1> QED
  BY <1>2, <1>3 DEF WeightedEntry

-----------------------------------------------------------------------------
(* Changing the positions, the peak or the day's counters keeps a          *)
(* portfolio sound.                                                        *)

LEMMA SetLegSound ==
  ASSUME NEW x, Sound(x), NEW leg \in Legs, NEW p \in Position
  PROVE  Sound([x EXCEPT !.pos[leg] = p])
BY DEF Sound, Portfolio, TotalIsAvailablePlusReserved

LEMMA SetLegsSound ==
  ASSUME NEW x, Sound(x), NEW f \in [Legs -> Position]
  PROVE  Sound([x EXCEPT !.pos = f])
BY DEF Sound, Portfolio, TotalIsAvailablePlusReserved

LEMMA EquityType ==
  ASSUME NEW x \in Portfolio
  PROVE  Equity(x) \in Int /\ Unrealized(x) \in Int
BY DEF Equity, Unrealized, Portfolio, Position, Legs

LEMMA RaisePeakSound ==
  ASSUME NEW x, Sound(x)
  PROVE  Sound(RaisePeak(x))
<1>1. Equity(x) \in Int
  BY EquityType DEF Sound
<1> QED
  BY <1>1 DEF RaisePeak, Sound, Portfolio, TotalIsAvailablePlusReserved

LEMMA AddRealizedSound ==
  ASSUME NEW x, Sound(x), NEW pnl \in Int
  PROVE  Sound(AddRealized(x, pnl))
<1> DEFINE y == AddRealized(x, pnl)
<1>1. /\ x.realized \in Int /\ x.gross \in Int /\ x.net \in Int /\ x.fees \in Int
      /\ x.total \in Int /\ x.available \in Int /\ x.reserved \in Int
  BY DEF Sound, Portfolio
<1>2. /\ x.realized + pnl \in Int /\ x.gross + pnl \in Int /\ x.net + pnl \in Int
      /\ x.total + pnl \in Int /\ x.available + pnl \in Int
  BY <1>1
<1>3. y \in Portfolio
  BY <1>2 DEF AddRealized, Sound, Portfolio
<1>4. /\ y.net = x.net + pnl /\ y.gross = x.gross + pnl /\ y.fees = x.fees
      /\ y.total = x.total + pnl /\ y.available = x.available + pnl
      /\ y.reserved = x.reserved
  BY DEF AddRealized, Sound, Portfolio
<1>5. x.net = x.gross - x.fees /\ x.total = x.available + x.reserved
  BY DEF Sound, TotalIsAvailablePlusReserved
<1>6. y.net = y.gross - y.fees /\ y.total = y.available + y.reserved
  BY <1>1, <1>4, <1>5
<1> QED
  BY <1>3, <1>6 DEF Sound, TotalIsAvailablePlusReserved

LEMMA CountTradeSound ==
  ASSUME NEW x, Sound(x), NEW pnl \in Int
  PROVE  Sound(CountTrade(x, pnl))
<1>1. x.losses \in Nat /\ x.trades \in Nat
  BY DEF Sound, Portfolio
<1>2. LossStreak(x.losses, pnl) \in Nat
  BY <1>1 DEF LossStreak
<1>3. x.trades + 1 \in Nat
  BY <1>1
<1> QED
  BY <1>2, <1>3 DEF CountTrade, Sound, Portfolio, TotalIsAvailablePlusReserved

LEMMA NoPositionType == NoPosition \in Position
BY DEF NoPosition, Position

-----------------------------------------------------------------------------
(* Each operation takes a sound portfolio to a sound one.                  *)

LEMMA OpenSound ==
  ASSUME NEW x, Sound(x), NEW leg \in Legs, NEW q \in Nat \ {0},
         NEW price \in Nat \ {0}
  PROVE  Sound(open_position(x, leg, q, price))
<1> DEFINE old == x.pos[leg]
           new == IF old.size > 0
                    THEN [old EXCEPT !.entry = WeightedEntry(old, q, price),
                                     !.size = old.size + q, !.mark = price]
                    ELSE [size |-> q, entry |-> price, mark |-> price,
                          funding |-> 0, upl |-> 0]
<1>1. old \in Position
  BY DEF Sound, Portfolio
<1>2. WeightedEntry(old, q, price) \in Nat
  BY <1>1, WeightedEntryType
<1>3. old.size + q \in Nat
  BY <1>1 DEF Position
<1>4. new \in Position
  <2>1. CASE old.size > 0
    BY <1>1, <1>2, <1>3, <2>1 DEF Position
  <2>2. CASE ~(old.size > 0)
    BY <2>2 DEF Position
  <2> QED
    BY <2>1, <2>2
<1>5. recalculate_position_pnl(leg, new) \in Position
  BY <1>4, RecalculateType
<1> HIDE DEF new
<1> QED
  BY <1>5, SetLegSound DEF open_position, new

LEMMA UpdatePriceSound ==
  ASSUME NEW x, Sound(x), NEW price \in Nat \ {0}
  PROVE  Sound(update_price(x, price))
<1> DEFINE f == [l \in Legs |-> Marked(l, x.pos[l], price)]
<1>1. ASSUME NEW l \in Legs PROVE Marked(l, x.pos[l], price) \in Position
  <2> DEFINE p == x.pos[l]
             m == [p EXCEPT !.entry = IF p.entry <= 0 THEN price ELSE p.entry,
                            !.mark = price]
  <2>1. p \in Position
    BY DEF Sound, Portfolio
  <2>2. m \in Position
    BY <2>1 DEF Position
  <2>3. recalculate_position_pnl(l, m) \in Position
    BY <2>2, RecalculateType
  <2> QED
    BY <2>1, <2>3 DEF Marked
<1>2. f \in [Legs -> Position]
  BY <1>1
<1> HIDE DEF f
<1>3. Sound([x EXCEPT !.pos = f])
  BY <1>2, SetLegsSound
<1>4. Sound(RaisePeak([x EXCEPT !.pos = f]))
  BY <1>3, RaisePeakSound
<1> QED
  BY <1>4 DEF update_price, f

LEMMA FundingSound ==
  ASSUME NEW x, Sound(x), NEW a \in Int
  PROVE  Sound(record_funding_payment(x, a))
<1> DEFINE amt(l) == IF l = "long" THEN a ELSE -a
           due(l) == IF x.pos[l].size = 0 THEN 0 ELSE amt(l)
           f == [l \in Legs |-> Funded(l, x.pos[l], amt(l))]
           r == x.realized - (due("long") + due("short"))
<1>1. ASSUME NEW l \in Legs PROVE Funded(l, x.pos[l], amt(l)) \in Position
  <2> DEFINE p == x.pos[l]
             m == [p EXCEPT !.funding = p.funding + amt(l)]
  <2>1. p \in Position /\ p.funding + amt(l) \in Int
    BY DEF Sound, Portfolio, Position
  <2>2. m \in Position
    BY <2>1 DEF Position
  <2>3. recalculate_position_pnl(l, m) \in Position
    BY <2>2, RecalculateType
  <2> QED
    BY <2>1, <2>3 DEF Funded
<1>2. f \in [Legs -> Position]
  BY <1>1
<1>3. r \in Int
  BY DEF Sound, Portfolio
<1> HIDE DEF f, r
<1>4. Sound([x EXCEPT !.pos = f, !.realized = r])
  BY <1>2, <1>3 DEF Sound, Portfolio, TotalIsAvailablePlusReserved
<1> QED
  BY <1>4 DEF record_funding_payment, f, r

LEMMA CloseLegSound ==
  ASSUME NEW x, Sound(x), NEW leg \in Legs, NEW pnl \in Int
  PROVE  Sound(close_leg(x, leg, pnl))
<1> DEFINE y == CountTrade(AddRealized(x, pnl), pnl)
<1>1. Sound(y)
  BY AddRealizedSound, CountTradeSound
<1>2. Sound([y EXCEPT !.pos[leg] = NoPosition])
  BY <1>1, SetLegSound, NoPositionType
<1>3. Sound(RaisePeak([y EXCEPT !.pos[leg] = NoPosition]))
  BY <1>2, RaisePeakSound
<1> QED
  BY <1>3 DEF close_leg

LEMMA CloseSound ==
  ASSUME NEW x, Sound(x), NEW pnl \in Int
  PROVE  Sound(close_position(x, pnl))
BY CloseLegSound DEF close_position, Legs

LEMMA ReduceLegSound ==
  ASSUME NEW x, Sound(x), NEW leg \in Legs, NEW q \in Nat, NEW price \in Nat,
         NEW pnl \in Int
  PROVE  Sound(reduce_leg(x, leg, q, price, pnl))
<1> DEFINE old  == x.pos[leg]
           left == IF q < old.size THEN old.size - q ELSE 0
           paid == AddRealized(x, pnl)
           part == recalculate_position_pnl(leg,
                     [old EXCEPT !.size = left, !.mark = price])
<1>1. old \in Position
  BY DEF Sound, Portfolio
<1>2. left \in Nat
  BY <1>1 DEF Position
<1>3. [old EXCEPT !.size = left, !.mark = price] \in Position
  BY <1>1, <1>2 DEF Position
<1>4. part \in Position
  BY <1>3, RecalculateType
<1>5. Sound(paid) /\ Sound(CountTrade(paid, pnl))
  BY AddRealizedSound, CountTradeSound
<1> HIDE DEF part, paid
<1>6. Sound([CountTrade(paid, pnl) EXCEPT !.pos[leg] = NoPosition])
  BY <1>5, SetLegSound, NoPositionType
<1>7. Sound([paid EXCEPT !.pos[leg] = part])
  BY <1>4, <1>5, SetLegSound
<1>8. /\ Sound(RaisePeak([CountTrade(paid, pnl) EXCEPT !.pos[leg] = NoPosition]))
      /\ Sound(RaisePeak([paid EXCEPT !.pos[leg] = part]))
  BY <1>6, <1>7, RaisePeakSound
<1> QED
  BY <1>8 DEF reduce_leg, part, paid

LEMMA ReduceSound ==
  ASSUME NEW x, Sound(x), NEW q \in Nat, NEW price \in Nat, NEW pnl \in Int
  PROVE  Sound(reduce_position(x, q, price, pnl))
BY ReduceLegSound DEF reduce_position, Legs

LEMMA SetDayCounters ==
  ASSUME NEW x \in Portfolio, NEW r \in Int, NEW t \in Nat, NEW l \in Nat
  PROVE  [x EXCEPT !.realized = r, !.trades = t, !.losses = l] \in Portfolio
BY DEF Portfolio

LEMMA SetDayLedger ==
  ASSUME NEW x \in Portfolio, NEW f \in Nat, NEW g \in Int, NEW n \in Int
  PROVE  [x EXCEPT !.fees = f, !.gross = g, !.net = n] \in Portfolio
BY DEF Portfolio

LEMMA ResetSound ==
  ASSUME NEW x, Sound(x)
  PROVE  Sound(reset_daily(x))
<1> DEFINE base == Equity(x) - Unrealized(x)
<1>1. Equity(x) \in Int /\ Unrealized(x) \in Int /\ x.reserved \in Int
  BY EquityType DEF Sound, Portfolio
<1>2. base \in Int /\ base - x.reserved \in Int
      /\ base = (base - x.reserved) + x.reserved
  BY <1>1
<1> HIDE DEF base
<1>3. reset_daily(x) \in Portfolio
  <2> DEFINE w == [x EXCEPT !.realized = 0, !.trades = 0, !.losses = 0]
             y == [w EXCEPT !.fees = 0, !.gross = 0, !.net = 0]
             c == Equity(x)
             v == base - x.reserved
  <2>1. y \in Portfolio
    <3>1. x \in Portfolio /\ 0 \in Nat /\ 0 \in Int
      BY DEF Sound
    <3>2. w \in Portfolio
      BY <3>1, SetDayCounters, Zenon
    <3> HIDE DEF w
    <3> QED
      BY <3>1, <3>2, SetDayLedger, Zenon
  <2>2. reset_daily(x) = [y EXCEPT !.capital = base, !.peak = c,
                                   !.total = base, !.available = v]
    BY DEF reset_daily, base
  <2>3. base \in Int /\ c \in Int /\ v \in Int
    BY <1>1, <1>2
  <2> HIDE DEF y, c, v
  <2> QED
    BY <2>1, <2>2, <2>3 DEF Portfolio
<1>4. /\ reset_daily(x).total = base
      /\ reset_daily(x).available = base - x.reserved
      /\ reset_daily(x).reserved = x.reserved
      /\ reset_daily(x).net = 0 /\ reset_daily(x).gross = 0
      /\ reset_daily(x).fees = 0
  BY DEF reset_daily, Sound, Portfolio, base
<1> QED
  BY <1>2, <1>3, <1>4 DEF Sound, TotalIsAvailablePlusReserved

LEMMA SetCapitalSound ==
  ASSUME NEW x, Sound(x), NEW e \in Int
  PROVE  Sound(set_capital(x, e))
<1> DEFINE base == e - x.realized - Unrealized(x)
           y == set_capital(x, e)
<1>1. Unrealized(x) \in Int /\ x.reserved \in Int /\ x.realized \in Int
      /\ x.peak \in Int
  BY EquityType DEF Sound, Portfolio
<1>2. base \in Int /\ base - x.reserved \in Int
      /\ base = (base - x.reserved) + x.reserved
  BY <1>1
<1> HIDE DEF base
<1> DEFINE top == IF ~x.synced \/ e > x.peak THEN e ELSE x.peak
<1>3. top \in Int
  BY <1>1
<1> HIDE DEF top
<1>4. y \in Portfolio
  BY <1>2, <1>3 DEF set_capital, Sound, Portfolio, base, top
<1>5. /\ y.total = base /\ y.available = base - x.reserved
      /\ y.reserved = x.reserved /\ y.net = x.net /\ y.gross = x.gross
      /\ y.fees = x.fees
  BY DEF set_capital, Sound, Portfolio, base
<1> QED
  BY <1>2, <1>4, <1>5 DEF Sound, TotalIsAvailablePlusReserved

LEMMA SyncSound ==
  ASSUME NEW x, Sound(x), NEW leg \in Legs, NEW q \in Nat, NEW e \in Nat,
         NEW price \in Nat, NEW u \in Int
  PROVE  Sound(sync_position_from_exchange(x, leg, q, e, price, u))
<1> DEFINE new == [x.pos[leg] EXCEPT !.size = q, !.entry = e, !.mark = price,
                                     !.upl = u]
<1>1. new \in Position
  BY DEF Sound, Portfolio, Position
<1>2. recalculate_position_pnl(leg, new) \in Position
  BY <1>1, RecalculateType
<1> HIDE DEF new
<1> QED
  BY <1>1, <1>2, SetLegSound DEF sync_position_from_exchange, new

LEMMA ReserveSound ==
  ASSUME NEW x, Sound(x), NEW o \in OrderIds, NEW a \in Nat
  PROVE  Sound(reserve_cash(x, o, a))
<1> DEFINE y == [x EXCEPT !.pending[o] = a, !.available = x.available - a,
                          !.reserved = x.reserved + a]
<1>1. /\ x.total \in Int /\ x.available \in Int /\ x.reserved \in Int
      /\ x.available - a \in Int /\ x.reserved + a \in Int
  BY DEF Sound, Portfolio
<1>2. x.total = x.available + x.reserved /\ x.net = x.gross - x.fees
  BY DEF Sound, TotalIsAvailablePlusReserved
<1>3. y \in Portfolio
  BY <1>1 DEF Sound, Portfolio
<1>4. /\ y.total = x.total /\ y.available = x.available - a
      /\ y.reserved = x.reserved + a
      /\ y.net = x.net /\ y.gross = x.gross /\ y.fees = x.fees
  BY DEF Sound, Portfolio
<1> HIDE DEF y
<1>5. Sound(y)
  BY <1>1, <1>2, <1>3, <1>4 DEF Sound, TotalIsAvailablePlusReserved
<1> QED
  BY <1>5 DEF reserve_cash, y

LEMMA ReleaseSound ==
  ASSUME NEW x, Sound(x), NEW o \in OrderIds
  PROVE  Sound(release_cash(x, o))
<1> DEFINE y == release_cash(x, o)
           a == x.pending[o]
<1>1. /\ x.total \in Int /\ x.available \in Int /\ x.reserved \in Int
      /\ a \in Nat /\ x.available + a \in Int /\ x.reserved - a \in Int
  BY DEF Sound, Portfolio
<1>2. x.total = x.available + x.reserved /\ x.net = x.gross - x.fees
  BY DEF Sound, TotalIsAvailablePlusReserved
<1>3. y \in Portfolio
  BY <1>1 DEF release_cash, Sound, Portfolio
<1>4. /\ y.total = x.total /\ y.available = x.available + a
      /\ y.reserved = x.reserved - a
      /\ y.net = x.net /\ y.gross = x.gross /\ y.fees = x.fees
  BY DEF release_cash, Sound, Portfolio
<1> HIDE DEF y, a
<1> QED
  BY <1>1, <1>2, <1>3, <1>4 DEF Sound, TotalIsAvailablePlusReserved, y

LEMMA RecordFeeSound ==
  ASSUME NEW x, Sound(x), NEW fee \in Nat
  PROVE  Sound(record_fee(x, fee))
<1> DEFINE y == record_fee(x, fee)
<1>1. /\ x.total \in Int /\ x.available \in Int /\ x.reserved \in Int
      /\ x.net \in Int /\ x.gross \in Int /\ x.fees \in Nat
  BY DEF Sound, Portfolio
<1>2. /\ x.fees + fee \in Nat /\ x.net - fee \in Int
      /\ x.available - fee \in Int /\ x.total - fee \in Int
  BY <1>1
<1>3. y \in Portfolio
  BY <1>2 DEF record_fee, Sound, Portfolio
<1>4. /\ y.total = x.total - fee /\ y.available = x.available - fee
      /\ y.reserved = x.reserved
      /\ y.net = x.net - fee /\ y.gross = x.gross /\ y.fees = x.fees + fee
  BY DEF record_fee, Sound, Portfolio
<1>5. x.total = x.available + x.reserved /\ x.net = x.gross - x.fees
  BY DEF Sound, TotalIsAvailablePlusReserved
<1>6. y.total = y.available + y.reserved /\ y.net = y.gross - y.fees
  BY <1>1, <1>4, <1>5
<1> QED
  BY <1>3, <1>6 DEF Sound, TotalIsAvailablePlusReserved

-----------------------------------------------------------------------------
LEMMA NewPortfolioSound ==
  ASSUME NEW c \in Int
  PROVE  Sound(NewPortfolio(c))
BY NoPositionType DEF NewPortfolio, Sound, Portfolio, TotalIsAvailablePlusReserved

LEMMA StepKeepsBalance == Balanced /\ [Next]_pf => Balanced'
<1> SUFFICES ASSUME Sound(pf), [Next]_pf
             PROVE  Sound(pf')
  BY DEF Balanced
<1> USE PortfolioAssumption
<1>1. ASSUME NEW leg \in Legs, NEW q \in Quantities, NEW p \in Prices,
             Open(leg, q, p)
      PROVE  Sound(pf')
  BY <1>1, OpenSound DEF Open
<1>2. ASSUME NEW p \in Prices, UpdatePrice(p)
      PROVE  Sound(pf')
  BY <1>2, UpdatePriceSound DEF UpdatePrice
<1>3. ASSUME NEW a \in FundingAmounts, Funding(a)
      PROVE  Sound(pf')
  BY <1>3, FundingSound DEF Funding
<1>4. ASSUME NEW pnl \in PnlValues, Close(pnl)
      PROVE  Sound(pf')
  BY <1>4, CloseSound DEF Close
<1>5. ASSUME NEW leg \in Legs, NEW pnl \in PnlValues, CloseLeg(leg, pnl)
      PROVE  Sound(pf')
  BY <1>5, CloseLegSound DEF CloseLeg
<1>6. ASSUME NEW q \in Quantities, NEW p \in Prices, NEW pnl \in PnlValues,
             Reduce(q, p, pnl)
      PROVE  Sound(pf')
  BY <1>6, ReduceSound DEF Reduce
<1>7. ASSUME NEW leg \in Legs, NEW q \in Quantities, NEW p \in Prices,
             NEW pnl \in PnlValues, ReduceLeg(leg, q, p, pnl)
      PROVE  Sound(pf')
  BY <1>7, ReduceLegSound DEF ReduceLeg
<1>8. ASSUME NEW a \in PnlValues, AddRealizedPnl(a)
      PROVE  Sound(pf')
  BY <1>8, AddRealizedSound DEF AddRealizedPnl, add_realized_pnl
<1>9. ASSUME ResetDaily PROVE Sound(pf')
  BY <1>9, ResetSound DEF ResetDaily
<1>10. ASSUME NEW e \in Equities, SetCapital(e)
       PROVE  Sound(pf')
  BY <1>10, SetCapitalSound DEF SetCapital
<1>11. ASSUME NEW leg \in Legs, NEW q \in Quantities,
              NEW e \in Prices \cup {0}, NEW p \in Prices \cup {0},
              NEW upl \in PnlValues, SyncPosition(leg, q, e, p, upl)
       PROVE  Sound(pf')
  BY <1>11, SyncSound DEF SyncPosition
<1>12. ASSUME NEW o \in OrderIds, NEW a \in Amounts, Reserve(o, a)
       PROVE  Sound(pf')
  BY <1>12, ReserveSound DEF Reserve
<1>13. ASSUME NEW o \in OrderIds, Release(o)
       PROVE  Sound(pf')
  BY <1>13, ReleaseSound DEF Release
<1>14. ASSUME NEW f \in Fees, RecordFee(f)
       PROVE  Sound(pf')
  BY <1>14, RecordFeeSound DEF RecordFee
<1> QED
  BY <1>1, <1>2, <1>3, <1>4, <1>5, <1>6, <1>7, <1>8, <1>9, <1>10, <1>11,
     <1>12, <1>13, <1>14 DEF Next

LEMMA AlwaysBalanced == Spec => []Balanced
<1>1. Init => Balanced
  BY PortfolioAssumption, NewPortfolioSound DEF Init, Balanced
<1> QED
  BY <1>1, StepKeepsBalance, PTL DEF Spec

(* Whatever sequence of operations the callers perform, every member of    *)
(* the portfolio engine keeps its type.                                    *)
THEOREM PortfolioTypeCorrect == Spec => []TypeOK
<1>1. Balanced => TypeOK
  BY DEF Balanced, Sound, TypeOK
<1> QED
  BY <1>1, AlwaysBalanced, PTL

(* Condition 3 of check_invariants can never fail: total_cash is           *)
(* available_cash plus reserved_for_orders after any sequence of fills,    *)
(* closes, fees, reservations, daily resets and exchange syncs.            *)
THEOREM CashIsConserved == Spec => []CashConserved
<1>1. Balanced => CashConserved
  BY DEF Balanced, Sound, CashConserved
<1> QED
  BY <1>1, AlwaysBalanced, PTL

(* The ledger's net realized pnl is its gross pnl less the day's fees.     *)
THEOREM NetPnlIsGrossMinusFees == Spec => []NetIsGrossMinusFees
<1>1. Balanced => NetIsGrossMinusFees
  BY DEF Balanced, Sound, NetIsGrossMinusFees
<1> QED
  BY <1>1, AlwaysBalanced, PTL

(* reset_daily never changes the equity, the open legs or the pending      *)
(* reservations.                                                           *)
THEOREM ResetKeepsEquity == Spec => EquityKeptByReset
<1>1. Balanced /\ [Next]_pf =>
        [ResetDaily => /\ Equity(pf') = Equity(pf)
                       /\ pf'.pos = pf.pos
                       /\ pf'.pending = pf.pending]_pf
  <2> SUFFICES ASSUME Sound(pf), ResetDaily
               PROVE  /\ Equity(pf') = Equity(pf)
                      /\ pf'.pos = pf.pos
                      /\ pf'.pending = pf.pending
    BY DEF Balanced
  <2>1. Equity(pf) \in Int /\ Unrealized(pf) \in Int
    BY EquityType DEF Sound
  <2>2. /\ pf'.capital = Equity(pf) - Unrealized(pf) /\ pf'.realized = 0
        /\ pf'.pos = pf.pos /\ pf'.pending = pf.pending
    BY DEF ResetDaily, reset_daily, Sound, Portfolio
  <2>3. Unrealized(pf') = Unrealized(pf)
    BY <2>2 DEF Unrealized
  <2>4. Equity(pf') = pf'.capital + pf'.realized + Unrealized(pf')
    BY DEF Equity
  <2> QED
    BY <2>1, <2>2, <2>3, <2>4
<1> QED
  BY <1>1, AlwaysBalanced, PTL DEF Spec, EquityKeptByReset

(* After set_capital the computed equity is the one the exchange reported. *)
THEOREM SyncMatchesExchange == Spec => EquityMatchesExchange
<1>1. Balanced /\ [Next]_pf =>
        [\A e \in Equities : SetCapital(e) => Equity(pf') = e]_pf
  <2> SUFFICES ASSUME Sound(pf), NEW e \in Equities, SetCapital(e)
               PROVE  Equity(pf') = e
    BY DEF Balanced
  <2>1. e \in Int /\ pf.realized \in Int /\ Unrealized(pf) \in Int
    BY PortfolioAssumption, EquityType DEF Sound, Portfolio
  <2>2. /\ pf'.capital = e - pf.realized - Unrealized(pf)
        /\ pf'.realized = pf.realized /\ pf'.pos = pf.pos
    BY DEF SetCapital, set_capital, Sound, Portfolio
  <2>3. Unrealized(pf') = Unrealized(pf)
    BY <2>2 DEF Unrealized
  <2>4. Equity(pf') = pf'.capital + pf'.realized + Unrealized(pf')
    BY DEF Equity
  <2> QED
    BY <2>1, <2>2, <2>3, <2>4
<1> QED
  BY <1>1, AlwaysBalanced, PTL DEF Spec, EquityMatchesExchange

-----------------------------------------------------------------------------
(* The peak.  Every operation but the daily reset and the first sync keeps *)
(* or raises it.                                                           *)

LEMMA RaisePeakKeeps ==
  ASSUME NEW x \in Portfolio
  PROVE  RaisePeak(x).peak >= x.peak
<1>1. Equity(x) \in Int
  BY EquityType
<1> QED
  BY <1>1 DEF RaisePeak, Portfolio

LEMMA CloseLegKeepsPeak ==
  ASSUME NEW x, Sound(x), NEW leg \in Legs, NEW pnl \in Int
  PROVE  close_leg(x, leg, pnl).peak >= x.peak
<1> DEFINE y == CountTrade(AddRealized(x, pnl), pnl)
           z == [y EXCEPT !.pos[leg] = NoPosition]
<1>1. Sound(y)
  BY AddRealizedSound, CountTradeSound
<1>2. z \in Portfolio
  BY <1>1, SetLegSound, NoPositionType DEF Sound
<1>3. z.peak = x.peak
  BY DEF CountTrade, AddRealized, Sound, Portfolio
<1>4. RaisePeak(z).peak >= x.peak
  BY <1>2, <1>3, RaisePeakKeeps
<1>5. x.peak >= x.peak
  BY DEF Sound, Portfolio
<1> QED
  BY <1>4, <1>5 DEF close_leg

LEMMA ReduceLegKeepsPeak ==
  ASSUME NEW x, Sound(x), NEW leg \in Legs, NEW q \in Nat \ {0},
         NEW p \in Nat, NEW pnl \in Int
  PROVE  reduce_leg(x, leg, q, p, pnl).peak >= x.peak
<1> DEFINE old  == x.pos[leg]
           left == IF q < old.size THEN old.size - q ELSE 0
           paid == AddRealized(x, pnl)
           some == recalculate_position_pnl(leg, [old EXCEPT !.size = left, !.mark = p])
           gone == [CountTrade(paid, pnl) EXCEPT !.pos[leg] = NoPosition]
           part == [paid EXCEPT !.pos[leg] = some]
<1>1. old \in Position /\ left \in Nat
  BY DEF Sound, Portfolio, Position
<1>2. some \in Position
  <2>1. [old EXCEPT !.size = left, !.mark = p] \in Position
    BY <1>1 DEF Position
  <2> QED
    BY <2>1, RecalculateType
<1>3. Sound(paid) /\ Sound(CountTrade(paid, pnl))
  BY AddRealizedSound, CountTradeSound
<1>4. gone \in Portfolio /\ part \in Portfolio
  BY <1>2, <1>3, SetLegSound, NoPositionType DEF Sound
<1>5. gone.peak = x.peak
  BY DEF CountTrade, AddRealized, Sound, Portfolio
<1>6. part.peak = x.peak
  BY DEF AddRealized, Sound, Portfolio
<1>7. RaisePeak(gone).peak >= x.peak /\ RaisePeak(part).peak >= x.peak
  BY <1>4, <1>5, <1>6, RaisePeakKeeps
<1>8. x.peak >= x.peak
  BY DEF Sound, Portfolio
<1>9. reduce_leg(x, leg, q, p, pnl) \in {x, RaisePeak(gone), RaisePeak(part)}
  BY DEF reduce_leg
<1> QED
  BY <1>7, <1>8, <1>9

LEMMA UpdatePriceKeepsPeak ==
  ASSUME NEW x, Sound(x), NEW p \in Nat
  PROVE  update_price(x, p).peak >= x.peak
<1> DEFINE f == [l \in Legs |-> Marked(l, x.pos[l], p)]
           y == [x EXCEPT !.pos = f]
<1>1. f \in [Legs -> Position]
  <2> SUFFICES ASSUME NEW l \in Legs PROVE Marked(l, x.pos[l], p) \in Position
    OBVIOUS
  <2>1. x.pos[l] \in Position
    BY DEF Sound, Portfolio
  <2>2. [x.pos[l] EXCEPT !.entry = IF x.pos[l].entry <= 0 THEN p ELSE x.pos[l].entry,
                         !.mark = p] \in Position
    BY <2>1 DEF Position
  <2> QED
    BY <2>1, <2>2, RecalculateType DEF Marked
<1>2. y \in Portfolio
  BY <1>1, SetLegsSound DEF Sound
<1>3. y.peak = x.peak
  BY DEF Sound, Portfolio
<1>4. RaisePeak(y).peak >= x.peak
  BY <1>2, <1>3, RaisePeakKeeps
<1>5. x.peak >= x.peak
  BY DEF Sound, Portfolio
<1> QED
  BY <1>4, <1>5 DEF update_price

(* A drawdown is forgotten by the daily reset and by the first sync with   *)
(* the exchange only: no fill, close, price, fee or later sync lowers      *)
(* peak_equity_.                                                           *)
THEOREM PeakIsKept == Spec => DrawdownNotErased
<1>1. ASSUME Sound(pf), Next
      PROVE  \/ pf'.peak >= pf.peak
             \/ ResetDaily
             \/ ~pf.synced /\ \E e \in Equities : SetCapital(e)
  <2> USE PortfolioAssumption
  <2>0. pf.peak \in Int /\ pf \in Portfolio
    BY <1>1 DEF Sound, Portfolio
  <2>1. ASSUME NEW leg \in Legs, NEW q \in Quantities, NEW p \in Prices,
               Open(leg, q, p)
        PROVE  pf'.peak = pf.peak
    BY <2>0, <2>1 DEF Open, open_position, Portfolio
  <2>2. ASSUME NEW p \in Prices, UpdatePrice(p)
        PROVE  pf'.peak >= pf.peak
    BY <1>1, <2>2, UpdatePriceKeepsPeak DEF UpdatePrice
  <2>3. ASSUME NEW a \in FundingAmounts, Funding(a)
        PROVE  pf'.peak = pf.peak
    BY <2>0, <2>3 DEF Funding, record_funding_payment, Portfolio
  <2>4. ASSUME NEW pnl \in PnlValues, Close(pnl)
        PROVE  pf'.peak >= pf.peak
    <3>1. pf' \in {pf, close_leg(pf, "long", pnl), close_leg(pf, "short", pnl)}
      BY <2>4 DEF Close, close_position
    <3>2. /\ close_leg(pf, "long", pnl).peak >= pf.peak
          /\ close_leg(pf, "short", pnl).peak >= pf.peak
      BY <1>1, CloseLegKeepsPeak DEF Legs
    <3>3. pf.peak >= pf.peak
      BY <2>0
    <3> QED
      BY <3>1, <3>2, <3>3
  <2>5. ASSUME NEW leg \in Legs, NEW pnl \in PnlValues, CloseLeg(leg, pnl)
        PROVE  pf'.peak >= pf.peak
    BY <1>1, <2>5, CloseLegKeepsPeak DEF CloseLeg
  <2>6. ASSUME NEW q \in Quantities, NEW p \in Prices, NEW pnl \in PnlValues,
               Reduce(q, p, pnl)
        PROVE  pf'.peak >= pf.peak
    <3>1. PICK leg \in Legs : pf' = reduce_leg(pf, leg, q, p, pnl)
      BY <2>6 DEF Reduce, reduce_position, Legs
    <3> QED
      BY <1>1, <3>1, ReduceLegKeepsPeak
  <2>7. ASSUME NEW leg \in Legs, NEW q \in Quantities, NEW p \in Prices,
               NEW pnl \in PnlValues, ReduceLeg(leg, q, p, pnl)
        PROVE  pf'.peak >= pf.peak
    BY <1>1, <2>7, ReduceLegKeepsPeak DEF ReduceLeg
  <2>8. ASSUME NEW a \in PnlValues, AddRealizedPnl(a)
        PROVE  pf'.peak = pf.peak
    BY <2>0, <2>8 DEF AddRealizedPnl, add_realized_pnl, AddRealized, Portfolio
  <2>9. ASSUME NEW e \in Equities, SetCapital(e), pf.synced
        PROVE  pf'.peak >= pf.peak
    BY <2>0, <2>9 DEF SetCapital, set_capital, Portfolio
  <2>10. ASSUME NEW leg \in Legs, NEW q \in Quantities,
                NEW e \in Prices \cup {0}, NEW p \in Prices \cup {0},
                NEW upl \in PnlValues, SyncPosition(leg, q, e, p, upl)
         PROVE  pf'.peak = pf.peak
    BY <2>0, <2>10 DEF SyncPosition, sync_position_from_exchange, Portfolio
  <2>11. ASSUME NEW o \in OrderIds, NEW a \in Amounts, Reserve(o, a)
         PROVE  pf'.peak = pf.peak
    BY <2>0, <2>11 DEF Reserve, reserve_cash, Portfolio
  <2>12. ASSUME NEW o \in OrderIds, Release(o)
         PROVE  pf'.peak = pf.peak
    BY <2>0, <2>12 DEF Release, release_cash, Portfolio
  <2>13. ASSUME NEW f \in Fees, RecordFee(f)
         PROVE  pf'.peak = pf.peak
    BY <2>0, <2>13 DEF RecordFee, record_fee, Portfolio
  <2>14. pf'.peak = pf.peak => pf'.peak >= pf.peak
    BY <2>0
  <2> QED
    BY <1>1, <2>1, <2>2, <2>3, <2>4, <2>5, <2>6, <2>7, <2>8, <2>9, <2>10,
       <2>11, <2>12, <2>13, <2>14 DEF Next
<1>2. Balanced /\ Balanced' /\ [Next]_pf =>
        [pf'.peak < pf.peak =>
           \/ ResetDaily
           \/ ~pf.synced /\ \E e \in Equities : SetCapital(e)]_pf
  <2> SUFFICES ASSUME Sound(pf), Sound(pf'), Next, pf'.peak < pf.peak
               PROVE  \/ ResetDaily
                      \/ ~pf.synced /\ \E e \in Equities : SetCapital(e)
    BY DEF Balanced
  <2>1. pf.peak \in Int /\ pf'.peak \in Int
    BY DEF Sound, Portfolio
  <2>2. ~(pf'.peak >= pf.peak)
    BY <2>1
  <2> QED
    BY <1>1, <2>2
<1> QED
  BY <1>2, AlwaysBalanced, PTL DEF Spec, DrawdownNotErased

-----------------------------------------------------------------------------
(* Sums over finite sets, as MapThenSumSet computes them.  The induction   *)
(* runs over the subsets: the set of those that have the property is all   *)
(* of them, since strict inclusion is well founded.                        *)

(* Every subset of a finite set has a property that passes from the        *)
(* smaller subsets to the larger ones.                                     *)
LEMMA SubsetInduction ==
  ASSUME NEW S, IsFiniteSet(S), NEW T,
         \A s \in SUBSET S :
           (\A u \in SUBSET s : u # s => u \in T) => s \in T
  PROVE  SUBSET S \subseteq T
<1> DEFINE Bad == (SUBSET S) \ T
<1> SUFFICES ASSUME Bad # {} PROVE FALSE
  OBVIOUS
<1>1. IsWellFoundedOn(StrictSubsetOrdering(S), SUBSET S)
  <2>1. IsWellFoundedOn(StrictSubsetOrdering(S), FiniteSubsetsOf(S))
    BY FS_StrictSubsetOrderingWellFounded
  <2>2. FiniteSubsetsOf(S) = SUBSET S
    BY FS_FiniteSubsetsOfFinite
  <2> QED
    BY <2>1, <2>2
<1>2. PICK s \in Bad : \A u \in Bad : ~ (<<u, s>> \in StrictSubsetOrdering(S))
  <2>1. Bad \subseteq SUBSET S
    OBVIOUS
  <2> HIDE DEF Bad
  <2> QED
    BY <1>1, <2>1, WFMin
<1>3. s \in SUBSET S /\ s \notin T
  OBVIOUS
<1>4. \A u \in SUBSET s : u # s => u \in T
  <2> SUFFICES ASSUME NEW u \in SUBSET s, u # s, u \notin T PROVE FALSE
    OBVIOUS
  <2>1. u \in Bad
    BY <1>3
  <2>2. <<u, s>> \in StrictSubsetOrdering(S)
    BY <1>3 DEF StrictSubsetOrdering
  <2> QED
    BY <1>2, <2>1, <2>2
<1> QED
  BY <1>3, <1>4

(* The running totals of f over the subsets of S.                          *)
Taken(s) == CHOOSE x \in s : TRUE

Totals(f, h, S) ==
  h = [s \in SUBSET S |-> IF s = {} THEN 0 ELSE f[Taken(s)] + h[s \ {Taken(s)}]]

Total(f, S) == MapThenSumSet(LAMBDA x : f[x], S)

LEMMA TotalIsTotals ==
  ASSUME NEW S, NEW f
  PROVE  Total(f, S) = (CHOOSE h : Totals(f, h, S))[S]
BY DEF Total, MapThenSumSet, MapThenFoldSet, Totals, Taken

LEMMA TakenIn ==
  ASSUME NEW s, s # {}
  PROVE  Taken(s) \in s
BY DEF Taken

LEMMA TotalsUnique ==
  ASSUME NEW S, IsFiniteSet(S), NEW f, NEW A \in SUBSET S, NEW B \in SUBSET S,
         NEW g, Totals(f, g, A), NEW h, Totals(f, h, B)
  PROVE  \A s \in SUBSET (A \cap B) : g[s] = h[s]
<1> DEFINE T == {s \in SUBSET S : s \subseteq A \cap B => g[s] = h[s]}
<1>1. ASSUME NEW s \in SUBSET S, \A u \in SUBSET s : u # s => u \in T
      PROVE  s \in T
  <2> SUFFICES ASSUME s \subseteq A \cap B PROVE g[s] = h[s]
    OBVIOUS
  <2> DEFINE x == Taken(s)  u == s \ {x}
  <2>0. s \in SUBSET A /\ s \in SUBSET B
    OBVIOUS
  <2>1. CASE s = {}
    BY <2>0, <2>1 DEF Totals
  <2>2. CASE s # {}
    <3>1. x \in s
      BY <2>2, TakenIn
    <3>2. g[u] = h[u]
      BY <1>1, <3>1
    <3>3. g[s] = f[x] + g[u] /\ h[s] = f[x] + h[u]
      BY <2>0, <2>2 DEF Totals
    <3> QED
      BY <3>2, <3>3
  <2> QED
    BY <2>1, <2>2
<1> HIDE DEF T
<1>2. SUBSET S \subseteq T
  BY <1>1, SubsetInduction
<1> QED
  BY <1>2 DEF T

LEMMA TotalsExist ==
  ASSUME NEW S, IsFiniteSet(S), NEW f
  PROVE  \E h : Totals(f, h, S)
<1> DEFINE T == {s \in SUBSET S : \E h : Totals(f, h, s)}
<1>1. ASSUME NEW s \in SUBSET S, \A u \in SUBSET s : u # s => u \in T
      PROVE  \E h : Totals(f, h, s)
  <2> DEFINE H(u) == CHOOSE h : Totals(f, h, u)
             x == Taken(s)
             v(u) == IF u = {} THEN 0 ELSE f[Taken(u)] + H(u \ {Taken(u)})[u \ {Taken(u)}]
             g == [u \in SUBSET s |-> v(u)]
  <2>1. \A u \in SUBSET s : u # s => Totals(f, H(u), u)
    BY <1>1
  <2> HIDE DEF H
  <2>2. ASSUME NEW u \in SUBSET s, u # s PROVE H(u)[u] = v(u)
    <3>1. Totals(f, H(u), u)
      BY <2>1, <2>2
    <3>2. CASE u = {}
      BY <3>1, <3>2 DEF Totals
    <3>3. CASE u # {}
      <4> DEFINE y == Taken(u)  w == u \ {y}
      <4>1. y \in u
        BY <3>3, TakenIn
      <4>2. w \in SUBSET s /\ w # s /\ w \in SUBSET u
        BY <4>1
      <4>3. Totals(f, H(w), w)
        BY <2>1, <4>2
      <4>4. H(u)[u] = f[y] + H(u)[w]
        BY <3>1, <3>3 DEF Totals
      <4>5. H(u)[w] = H(w)[w]
        <5>1. u \in SUBSET S /\ w \in SUBSET S /\ w \in SUBSET (u \cap w)
          BY <4>2
        <5> HIDE DEF w, y
        <5> QED
          BY <3>1, <4>3, <5>1, TotalsUnique
      <4> QED
        BY <3>3, <4>4, <4>5
    <3> QED
      BY <3>2, <3>3
  <2>3. ASSUME NEW u \in SUBSET s
        PROVE  g[u] = IF u = {} THEN 0 ELSE f[Taken(u)] + g[u \ {Taken(u)}]
    <3>1. CASE u = {}
      BY <3>1
    <3>2. CASE u # {}
      <4>1. Taken(u) \in u
        BY <3>2, TakenIn
      <4>2. u \ {Taken(u)} \in SUBSET s /\ u \ {Taken(u)} # s
        BY <4>1
      <4>3. g[u \ {Taken(u)}] = H(u \ {Taken(u)})[u \ {Taken(u)}]
        BY <2>2, <4>2
      <4> QED
        BY <3>2, <4>3
    <3> QED
      BY <3>1, <3>2
  <2>4. g = [u \in SUBSET s |-> g[u]]
    OBVIOUS
  <2> HIDE DEF g
  <2>5. Totals(f, g, s)
    BY <2>3, <2>4 DEF Totals
  <2> QED
    BY <2>5
<1>2. SUBSET S \subseteq T
  <2>1. \A s \in SUBSET S : (\A u \in SUBSET s : u # s => u \in T) => s \in T
    BY <1>1
  <2> HIDE DEF T
  <2> QED
    BY <2>1, SubsetInduction
<1> QED
  BY <1>2

LEMMA TotalsOf ==
  ASSUME NEW S, IsFiniteSet(S), NEW f
  PROVE  \E h : Totals(f, h, S) /\ Total(f, S) = h[S]
BY TotalsExist, TotalIsTotals

(* A change of one summand changes the sum by as much.                     *)
LEMMA TotalChanged ==
  ASSUME NEW S, IsFiniteSet(S), NEW f \in [S -> Int], NEW x \in S, NEW v \in Int
  PROVE  /\ Total(f, S) \in Int
         /\ Total([f EXCEPT ![x] = v], S) = Total(f, S) + (v - f[x])
<1> DEFINE g == [f EXCEPT ![x] = v]
<1>1. PICK a : Totals(f, a, S) /\ Total(f, S) = a[S]
  BY TotalsOf
<1>2. PICK b : Totals(g, b, S) /\ Total(g, S) = b[S]
  BY TotalsOf
<1>3. g \in [S -> Int] /\ g[x] = v /\ \A y \in S : y # x => g[y] = f[y]
  OBVIOUS
<1> HIDE DEF g
<1> DEFINE T == {s \in SUBSET S : /\ a[s] \in Int
                                  /\ x \in s => b[s] = a[s] + (v - f[x])
                                  /\ x \notin s => b[s] = a[s]}
<1>4. ASSUME NEW s \in SUBSET S, \A u \in SUBSET s : u # s => u \in T
      PROVE  s \in T
  <2> DEFINE y == Taken(s)  u == s \ {y}
  <2>1. CASE s = {}
    BY <1>1, <1>2, <2>1 DEF Totals
  <2>2. CASE s # {}
    <3>1. y \in s /\ y \in S
      BY <2>2, TakenIn
    <3>2. u \in T
      BY <1>4, <3>1
    <3>3. a[s] = f[y] + a[u] /\ b[s] = g[y] + b[u]
      BY <1>1, <1>2, <2>2 DEF Totals
    <3>4. f[y] \in Int /\ f[x] \in Int
      BY <3>1
    <3>5. CASE y = x
      BY <1>3, <3>1, <3>2, <3>3, <3>4, <3>5
    <3>6. CASE y # x
      BY <1>3, <3>1, <3>2, <3>3, <3>4, <3>6
    <3> QED
      BY <3>5, <3>6
  <2> QED
    BY <2>1, <2>2
<1> HIDE DEF T
<1>5. SUBSET S \subseteq T
  BY <1>4, SubsetInduction
<1>6. S \in T
  BY <1>5
<1> QED
  BY <1>1, <1>2, <1>6 DEF T, g

LEMMA TotalOfZeros ==
  ASSUME NEW S, IsFiniteSet(S)
  PROVE  Total([x \in S |-> 0], S) = 0
<1> DEFINE f == [x \in S |-> 0]
<1>1. PICK a : Totals(f, a, S) /\ Total(f, S) = a[S]
  BY TotalsOf
<1> DEFINE T == {s \in SUBSET S : a[s] = 0}
<1>2. ASSUME NEW s \in SUBSET S, \A u \in SUBSET s : u # s => u \in T
      PROVE  s \in T
  <2>1. CASE s = {}
    BY <1>1, <2>1 DEF Totals
  <2>2. CASE s # {}
    <3>1. Taken(s) \in s
      BY <2>2, TakenIn
    <3>2. s \ {Taken(s)} \in T
      BY <1>2, <3>1
    <3>3. f[Taken(s)] = 0
      BY <3>1
    <3> HIDE DEF f
    <3>4. a[s] = f[Taken(s)] + a[s \ {Taken(s)}]
      BY <1>1, <2>2 DEF Totals
    <3> QED
      BY <3>2, <3>3, <3>4
  <2> QED
    BY <2>1, <2>2
<1> HIDE DEF T, f
<1>3. SUBSET S \subseteq T
  BY <1>2, SubsetInduction
<1> QED
  BY <1>1, <1>3 DEF T, f

-----------------------------------------------------------------------------
(* The reservations.                                                       *)

LEMMA ReservedIsTotal ==
  ASSUME NEW x
  PROVE  ReservedIsPending(x) <=> x.reserved = Total(x.pending, OrderIds)
BY DEF ReservedIsPending, Total

(* Only a reservation and its release touch the pending orders.            *)
LEMMA PendingKept ==
  ASSUME Sound(pf), [Next]_pf,
         \A o \in OrderIds : ~Release(o) /\ \A a \in Amounts : ~Reserve(o, a)
  PROVE  pf'.pending = pf.pending /\ pf'.reserved = pf.reserved
<1> pf \in Portfolio
  BY DEF Sound
<1> USE DEF Portfolio
<1>1. ASSUME NEW leg \in Legs, NEW pnl, pf' = close_leg(pf, leg, pnl)
      PROVE  pf'.pending = pf.pending /\ pf'.reserved = pf.reserved
  BY <1>1 DEF close_leg, RaisePeak, CountTrade, AddRealized
<1>2. ASSUME NEW leg \in Legs, NEW q, NEW p, NEW pnl, pf' = reduce_leg(pf, leg, q, p, pnl)
      PROVE  pf'.pending = pf.pending /\ pf'.reserved = pf.reserved
  BY <1>2 DEF reduce_leg, RaisePeak, CountTrade, AddRealized
<1>3. ASSUME \/ \E leg \in Legs, q \in Quantities, p \in Prices : Open(leg, q, p)
             \/ \E p \in Prices : UpdatePrice(p)
             \/ \E a \in FundingAmounts : Funding(a)
             \/ \E leg \in Legs, q \in Quantities, e, p \in Prices \cup {0},
                   upl \in PnlValues : SyncPosition(leg, q, e, p, upl)
      PROVE  pf'.pending = pf.pending /\ pf'.reserved = pf.reserved
  BY <1>3 DEF Open, open_position, UpdatePrice, update_price, RaisePeak, Funding,
              record_funding_payment, SyncPosition, sync_position_from_exchange
<1>4. ASSUME \/ \E a \in PnlValues : AddRealizedPnl(a)
             \/ ResetDaily \/ \E e \in Equities : SetCapital(e)
             \/ \E f \in Fees : RecordFee(f)
             \/ pf' = pf
      PROVE  pf'.pending = pf.pending /\ pf'.reserved = pf.reserved
  BY <1>4 DEF AddRealizedPnl, add_realized_pnl, AddRealized, ResetDaily, reset_daily,
              SetCapital, set_capital, RecordFee, record_fee
<1>5. ASSUME NEW pnl \in PnlValues, Close(pnl)
      PROVE  pf' = pf \/ \E leg \in Legs : pf' = close_leg(pf, leg, pnl)
  BY <1>5 DEF Close, close_position, Legs
<1>6. ASSUME NEW q \in Quantities, NEW p \in Prices, NEW pnl \in PnlValues, Reduce(q, p, pnl)
      PROVE  \E leg \in Legs : pf' = reduce_leg(pf, leg, q, p, pnl)
  BY <1>6 DEF Reduce, reduce_position, Legs
<1> QED
  BY <1>1, <1>2, <1>3, <1>4, <1>5, <1>6 DEF Next, CloseLeg, ReduceLeg

LEMMA ReservedNext ==
  ASSUME Sound(pf), ReservedMatchesPending, [Next]_pf
  PROVE  ReservedMatchesPending'
<1> USE PortfolioAssumption
<1> DEFINE R == Total(pf.pending, OrderIds)
<1>0. /\ pf.pending \in [OrderIds -> Int] /\ pf.reserved = R
      /\ pf.reserved \in Int /\ pf \in Portfolio
  BY ReservedIsTotal DEF Sound, Portfolio, ReservedMatchesPending
<1>1. SUFFICES pf'.reserved = Total(pf'.pending, OrderIds)
  BY ReservedIsTotal DEF ReservedMatchesPending
<1>2. ASSUME NEW o \in OrderIds, NEW a \in Amounts, Reserve(o, a)
      PROVE  pf'.reserved = Total(pf'.pending, OrderIds)
  <2>1. CASE ~CanReserve(pf, a)
    BY <1>0, <1>2, <2>1 DEF Reserve, reserve_cash
  <2>2. CASE CanReserve(pf, a)
    <3>1. /\ pf'.pending = [pf.pending EXCEPT ![o] = a]
          /\ pf'.reserved = pf.reserved + a /\ pf.pending[o] = 0
      BY <1>0, <1>2, <2>2 DEF Reserve, reserve_cash, Portfolio
    <3>2. a \in Int
      OBVIOUS
    <3>3. Total([pf.pending EXCEPT ![o] = a], OrderIds) = R + (a - pf.pending[o])
      BY <1>0, <3>2, TotalChanged
    <3> QED
      BY <1>0, <3>1, <3>2, <3>3
  <2> QED
    BY <2>1, <2>2
<1>3. ASSUME NEW o \in OrderIds, Release(o)
      PROVE  pf'.reserved = Total(pf'.pending, OrderIds)
  <2>1. /\ pf'.pending = [pf.pending EXCEPT ![o] = 0]
        /\ pf'.reserved = pf.reserved - pf.pending[o] /\ pf.pending[o] \in Int
    BY <1>0, <1>3 DEF Release, release_cash, Portfolio
  <2>2. Total([pf.pending EXCEPT ![o] = 0], OrderIds) = R + (0 - pf.pending[o])
    BY <1>0, TotalChanged
  <2> QED
    BY <1>0, <2>1, <2>2
<1>4. CASE \A o \in OrderIds : ~Release(o) /\ \A a \in Amounts : ~Reserve(o, a)
  BY <1>0, <1>4, PendingKept
<1> QED
  BY <1>2, <1>3, <1>4

(* A reservation does not overdraw the account: available_cash goes below  *)
(* zero only where total_cash falls.                                       *)
LEMMA OverdrawnByLossOnly ==
  ASSUME Sound(pf), Sound(pf)', [Next]_pf
  PROVE  [pf.available >= 0 /\ pf'.available < 0 => pf'.total < pf.total]_pf
<1>0. /\ pf \in Portfolio /\ pf.total = pf.available + pf.reserved
      /\ pf'.total = pf'.available + pf'.reserved
      /\ pf.available \in Int /\ pf.reserved \in Int /\ pf.total \in Int
      /\ pf'.available \in Int /\ pf'.reserved \in Int /\ pf'.total \in Int
  BY DEF Sound, Portfolio, TotalIsAvailablePlusReserved
<1>1. SUFFICES ASSUME pf.available >= 0, pf'.available < 0
               PROVE  pf'.total < pf.total
  OBVIOUS
<1>2. ASSUME NEW o \in OrderIds, NEW a \in Amounts, Reserve(o, a)
      PROVE  FALSE
  <2>1. a \in Int
    BY PortfolioAssumption
  <2>2. CASE CanReserve(pf, a)
    BY <1>0, <1>1, <1>2, <2>1, <2>2 DEF Reserve, reserve_cash, CanReserve, Portfolio
  <2>3. CASE ~CanReserve(pf, a)
    BY <1>0, <1>1, <1>2, <2>3 DEF Reserve, reserve_cash
  <2> QED
    BY <2>2, <2>3
<1>3. ASSUME NEW o \in OrderIds, Release(o)
      PROVE  FALSE
  <2>1. pf.pending[o] \in Nat
    BY <1>0 DEF Portfolio
  <2>2. pf'.available = pf.available + pf.pending[o]
    BY <1>0, <1>3 DEF Release, release_cash, Portfolio
  <2> QED
    BY <1>0, <1>1, <2>1, <2>2
<1>4. CASE \A o \in OrderIds : ~Release(o) /\ \A a \in Amounts : ~Reserve(o, a)
  <2>1. pf'.reserved = pf.reserved
    BY <1>4, PendingKept
  <2> QED
    BY <1>0, <1>1, <2>1
<1> QED
  BY <1>2, <1>3, <1>4

(* Conditions 2 and 3 of check_invariants, for any finite set of orders    *)
(* and any sequence of operations: total_cash is available and reserved    *)
(* cash, and reserved_for_orders is the sum of the reservations of the     *)
(* pending orders, so releasing every order returns all the margin.        *)
(* Condition 1, available_cash >= 0, is not a theorem of this code: losses *)
(* and fees break it.  The theorem says that reservations do not.          *)
THEOREM ReservationsAreCovered == Spec => ReservationsCovered
<1>1. Init => ReservedMatchesPending
  BY PortfolioAssumption, TotalOfZeros, ReservedIsTotal
     DEF Init, NewPortfolio, ReservedMatchesPending
<1>2. Balanced /\ ReservedMatchesPending /\ [Next]_pf => ReservedMatchesPending'
  BY ReservedNext DEF Balanced
<1>3. Spec => []ReservedMatchesPending
  BY <1>1, <1>2, AlwaysBalanced, PTL DEF Spec
<1>4. Balanced /\ Balanced' /\ [Next]_pf
        => [pf.available >= 0 /\ pf'.available < 0 => pf'.total < pf.total]_pf
  BY OverdrawnByLossOnly DEF Balanced
<1> QED
  BY <1>3, <1>4, AlwaysBalanced, CashIsConserved, PTL DEF Spec, ReservationsCovered
=============================================================================
