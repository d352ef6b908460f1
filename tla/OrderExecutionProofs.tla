------------------------ MODULE OrderExecutionProofs ------------------------
(***************************************************************************)
(* Proofs about OrderExecution, for any orders, quantity and scenarios:    *)
(*  - its types, that a trade is booked at most once by fill events, and   *)
(*    that the mark fill_applied_ is only left behind with a booking       *)
(*    (OrderInv);                                                          *)
(*  - what the records, the intent index and the threads' copies know of   *)
(*    the life of an order (LifeInv), and from it that records never go    *)
(*    back, that margin is released (ReleaseOK) and that it is held        *)
(*    (HoldOK);                                                            *)
(*  - with a channel in order, that no limit order is booked beyond what   *)
(*    was executed (SequenceOK) and that entries do not overlap (GateOK).  *)
(* From LifeInv on the steps are used as effects: for each action one      *)
(* operator says what it changes, and Effects that every step is one.      *)
(***************************************************************************)
EXTENDS OrderExecution, SequenceTheorems, TLAPS

-----------------------------------------------------------------------------
(* The types.                                                              *)
PCs == {"idle", "reserve", "record", "submit", "accepted", "reject", "rejected",
        "poll", "retry", "unconfirmed", "market_fill", "market_read",
        "market_transition", "market_record", "market_apply", "market_mark",
        "cancel", "cancel_request", "cancel_confirmed", "cancel_release",
        "cancel_failed", "query", "fill", "fill_record", "fill_apply",
        "fill_mark", "filled", "cancelled", "update_release", "update_read",
        "update_check", "update_new", "update_applied", "update_mark",
        "update_apply"}
ThreadState == [pc : PCs, o : Orders \cup {NoId}, rec : OrderRecords, q : Nat]
ExchangeOrder == [status : {"none", "live", "filled", "cancelled"}, filled : Nat]
Message == [kind : {"fill", "filled", "cancelled"}, o : Orders, k : Nat,
            priced : BOOLEAN]

TypeOK ==
  /\ reg \in Registry
  /\ issued \subseteq Orders
  /\ reserved \subseteq Orders
  /\ booked \in [Orders -> Nat]
  /\ tradeBooked \in [Trades -> Nat]
  /\ ex \in [Orders -> ExchangeOrder]
  /\ net \in Seq(Message)
  /\ failures \in Nat
  /\ env \in Scenarios
  /\ th \in [Threads -> ThreadState]

EntrySteps == {"reserve", "record", "submit"}
FillSteps == {"fill", "fill_record", "fill_apply"}

GoodMessage(m) == /\ m.kind = "fill" => m.k \in 1..Qty
                  /\ m.kind = "filled" => m.k > 0

(* The exchange executes an order only while it is live and never beyond   *)
(* its quantity; a message reports what was executed.                      *)
ExchangeOK ==
  /\ \A o \in Orders :
       /\ o \notin issued => ex[o].status = "none"
       /\ ex[o].status = "none" => ex[o].filled = 0
       /\ ex[o].status = "live" => ex[o].filled < Qty
  /\ th["tick"].pc \in EntrySteps =>
       ex[th["tick"].o].status = "none" /\ th["tick"].o \in issued
  /\ \A i \in DOMAIN net : GoodMessage(net[i])

(* A thread between the idle states works on an order, and where it is     *)
(* about to book or to mark a fill, there is something to book or it is    *)
(* booked.                                                                 *)
GoodLocals(local, bookings) ==
  /\ local.pc # "idle" => local.o \in Orders
  /\ local.pc \in {"market_fill", "market_read", "market_transition",
                   "market_record", "market_apply", "filled", "update_read",
                   "update_check"} => local.q > 0
  /\ local.pc \in {"update_new", "update_applied", "update_mark",
                   "update_apply"} => local.rec.filled > 0
  /\ local.pc \in {"market_mark", "fill_mark"} => bookings[local.o] > 0

LocalsOK == \A t \in Threads : GoodLocals(th[t], booked)

(* process_order_fill marks before it books.                               *)
MarksOK ==
  \A o \in reg.applied :
    \/ booked[o] > 0
    \/ th["ws"].pc = "update_apply" /\ th["ws"].o = o

(* A booked trade was seen, and so was the one being booked.               *)
TradesOK ==
  /\ \A t \in Trades : tradeBooked[t] <= 1 /\ (tradeBooked[t] = 1 => t \in reg.seen)
  /\ th["ws"].pc \in FillSteps =>
       /\ <<th["ws"].o, th["ws"].q>> \in reg.seen
       /\ tradeBooked[<<th["ws"].o, th["ws"].q>>] = 0

OrderInv == TypeOK /\ ExchangeOK /\ LocalsOK /\ MarksOK /\ TradesOK

-----------------------------------------------------------------------------
(* What the registry's methods keep.                                       *)

LEMMA TransitionKeeps ==
  ASSUME NEW r \in Registry, NEW o \in Orders, NEW s \in States
  PROVE /\ transition(r, o, s) \in Registry
        /\ transition(r, o, s).seen = r.seen
        /\ transition(r, o, s).applied = r.applied
<1> DEFINE e == [r EXCEPT !.fsm[o] = s, !.orders[o].state = s]
<1>1. e.fsm = [r.fsm EXCEPT ![o] = s] /\ e.orders = [r.orders EXCEPT ![o].state = s]
  BY DEF Registry
<1>2. e.index = r.index /\ e.applied = r.applied /\ e.seen = r.seen
        /\ e.intents = r.intents
  BY DEF Registry
<1>3. [r.orders EXCEPT ![o].state = s] \in [Orders -> OrderRecords]
  BY DEF Registry, OrderRecords
<1>4. e \in Registry
  BY <1>1, <1>2, <1>3 DEF Registry
<1> QED
  BY <1>2, <1>4 DEF transition

LEMMA ForceTransitionKeeps ==
  ASSUME NEW r \in Registry, NEW o \in Orders, NEW s \in States
  PROVE /\ force_transition(r, o, s) \in Registry
        /\ force_transition(r, o, s).seen = r.seen
        /\ force_transition(r, o, s).applied \subseteq r.applied
<1> DEFINE e == [r EXCEPT !.fsm[o] = s, !.orders[o].state = s,
                          !.applied = @ \ {o}]
<1>1. e.fsm = [r.fsm EXCEPT ![o] = s] /\ e.orders = [r.orders EXCEPT ![o].state = s]
  BY DEF Registry
<1>2. e.index = r.index /\ e.applied = r.applied \ {o} /\ e.seen = r.seen
        /\ e.intents = r.intents
  BY DEF Registry
<1>3. [r.orders EXCEPT ![o].state = s] \in [Orders -> OrderRecords]
  BY DEF Registry, OrderRecords
<1>4. e \in Registry
  BY <1>1, <1>2, <1>3 DEF Registry
<1> QED
  BY <1>2, <1>4 DEF force_transition

LEMMA UpdateOrderKeeps ==
  ASSUME NEW r \in Registry, NEW o \in Orders, NEW rec \in OrderRecords
  PROVE /\ update_order(r, o, rec) \in Registry
        /\ update_order(r, o, rec).seen = r.seen
        /\ update_order(r, o, rec).applied = r.applied
BY DEF update_order, Registry, OrderRecords

LEMMA MarkKeeps ==
  ASSUME NEW r \in Registry, NEW o \in Orders
  PROVE /\ mark_fill_applied(r, o) \in Registry
        /\ mark_fill_applied(r, o).seen = r.seen
        /\ mark_fill_applied(r, o).applied = r.applied \cup {o}
BY DEF mark_fill_applied, Registry

LEMMA RegisterKeeps ==
  ASSUME NEW r \in Registry, NEW o \in Orders
  PROVE /\ register_order(r, o) \in Registry
        /\ register_order(r, o).seen = r.seen
        /\ register_order(r, o).applied = r.applied
BY DEF register_order, Registry, OrderRecords, NoRecord, States

LEMMA SeenKeeps ==
  ASSUME NEW r \in Registry, NEW t \in Trades
  PROVE /\ check_and_mark_trade_id_seen(r, t) \in Registry
        /\ check_and_mark_trade_id_seen(r, t).seen = r.seen \cup {t}
        /\ check_and_mark_trade_id_seen(r, t).applied = r.applied
BY DEF check_and_mark_trade_id_seen, Registry

LEMMA IntentsKeep ==
  ASSUME NEW r \in Registry, NEW key \in IntentKeys
  PROVE /\ record_intent(r, key) \in Registry
        /\ record_intent(r, key).seen = r.seen
        /\ record_intent(r, key).applied = r.applied
        /\ cleanup_old_intents(r, key) \in Registry
        /\ cleanup_old_intents(r, key).seen = r.seen
        /\ cleanup_old_intents(r, key).applied = r.applied
BY DEF record_intent, cleanup_old_intents, Registry

LEMMA CleanupKeeps ==
  ASSUME NEW r \in Registry, NEW o \in Orders
  PROVE /\ cleanup_terminal_orders(r, o) \in Registry
        /\ cleanup_terminal_orders(r, o).seen = r.seen
        /\ cleanup_terminal_orders(r, o).applied \subseteq r.applied
BY DEF cleanup_terminal_orders, Registry, OrderRecords, NoRecord

LEMMA NoRecordTyped == NoRecord \in OrderRecords /\ Idle \in ThreadState
<1>1. NoRecord \in OrderRecords
  BY DEF NoRecord, OrderRecords
<1> QED
  BY <1>1 DEF Idle, ThreadState, PCs

(* What the moves of a thread keep.                                        *)
LEMMA GotoKeeps ==
  ASSUME th \in [Threads -> ThreadState], NEW t \in Threads, NEW pc \in PCs,
         Goto(t, pc)
  PROVE /\ th' \in [Threads -> ThreadState]
        /\ th'[t].pc = pc /\ th'[t].o = th[t].o
        /\ th'[t].q = th[t].q /\ th'[t].rec = th[t].rec
        /\ \A u \in Threads \ {t} : th'[u] = th[u]
BY DEF Goto, ThreadState

LEMMA ReturnKeeps ==
  ASSUME th \in [Threads -> ThreadState], NEW t \in Threads, Return(t)
  PROVE /\ th' \in [Threads -> ThreadState]
        /\ th'[t].pc = "idle"
        /\ \A u \in Threads \ {t} : th'[u] = th[u]
BY NoRecordTyped DEF Return, Idle


LEMMA Inv_Init == Init => OrderInv
<1> SUFFICES ASSUME Init PROVE OrderInv
  OBVIOUS
<1>1. reg \in Registry /\ reg.applied = {} /\ reg.seen = {}
  BY NoRecordTyped DEF Init, NewRegistry, Registry
<1>2. TypeOK
  BY <1>1, NoRecordTyped DEF Init, TypeOK, ExchangeOrder
<1>3. ExchangeOK
  BY DEF Init, ExchangeOK, EntrySteps, Threads, Idle
<1>4. LocalsOK /\ MarksOK /\ TradesOK
  BY <1>1
  DEF Init, LocalsOK, GoodLocals, MarksOK, TradesOK, FillSteps, Threads, Idle
<1> QED
  BY <1>2, <1>3, <1>4 DEF OrderInv
(* The entry of an order on the tick thread.                               *)
LEMMA Inv_Execute ==
  ASSUME OrderInv, NEW o \in Orders, Execute(o), UNCHANGED env
  PROVE OrderInv'
<1> USE DEF OrderInv, portfolio, exchange
<1> DEFINE rec == [NoRecord EXCEPT !.state = "PendingAck"]
           new == [Idle EXCEPT !.pc = "reserve", !.o = o, !.rec = rec]
<1>1. rec \in OrderRecords
  BY DEF NoRecord, OrderRecords, States
<1>2. new \in ThreadState /\ new.pc = "reserve" /\ new.o = o
  BY <1>1, NoRecordTyped DEF Idle, ThreadState, PCs
<1> HIDE DEF new
<1>3. th' = [th EXCEPT !["tick"] = new]
  BY DEF Execute, new
<1>4. th' \in [Threads -> ThreadState] /\ th'["tick"] = new
        /\ \A u \in Threads \ {"tick"} : th'[u] = th[u]
  BY <1>2, <1>3 DEF TypeOK, Threads
<1>5. reg' \in Registry /\ reg'.seen = reg.seen /\ reg'.applied = reg.applied
  <2>1. /\ register_order(reg, o) \in Registry
        /\ register_order(reg, o).seen = reg.seen
        /\ register_order(reg, o).applied = reg.applied
    BY RegisterKeeps DEF TypeOK
  <2>2. "PendingAck" \in States
    BY DEF States
  <2> QED
    BY <2>1, <2>2, TransitionKeeps DEF Execute
<1>6. TypeOK'
  BY <1>4, <1>5 DEF Execute, TypeOK
<1>7. ExchangeOK'
  BY <1>2, <1>4 DEF Execute, ExchangeOK, EntrySteps, TypeOK
<1>8. LocalsOK'
  BY <1>2, <1>4 DEF Execute, LocalsOK, GoodLocals
<1>9. MarksOK' /\ TradesOK'
  BY <1>4, <1>5 DEF Execute, MarksOK, TradesOK, Threads
<1> QED
  BY <1>6, <1>7, <1>8, <1>9

(* A step of thread t that does not touch the exchange or the trades.  The *)
(* four parts are what its action has to show.                             *)
Elsewhere == UNCHANGED <<issued, tradeBooked, ex, net, failures, env>>

(* Only thread t moves, to a good local state; the entry and the booking   *)
(* of a fill are entered only by Execute and FillEvent, and update_apply   *)
(* is left only with a booking.                                            *)
Moves(t) ==
  /\ th' \in [Threads -> ThreadState]
  /\ \A u \in Threads \ {t} : th'[u] = th[u]
  /\ th'[t].pc \in EntrySteps =>
       th[t].pc \in EntrySteps /\ th'[t].o = th[t].o
  /\ th'[t].pc \in FillSteps =>
       th[t].pc \in FillSteps /\ th'[t].o = th[t].o /\ th'[t].q = th[t].q
  /\ t = "ws" /\ th[t].pc = "update_apply" => booked'[th[t].o] > 0

RegistryAfter ==
  /\ reg' \in Registry
  /\ reg'.seen = reg.seen
  /\ \A o \in reg'.applied \ reg.applied :
       \/ booked'[o] > 0
       \/ th'["ws"].pc = "update_apply" /\ th'["ws"].o = o

PortfolioAfter ==
  /\ booked' \in [Orders -> Nat]
  /\ \A o \in Orders : booked'[o] >= booked[o]
  /\ reserved' \subseteq Orders

LEMMA ThreadStepKeeps ==
  ASSUME OrderInv, NEW t \in Threads, Elsewhere, Moves(t),
         GoodLocals(th'[t], booked'), RegistryAfter, PortfolioAfter
  PROVE OrderInv'
<1>1. TypeOK'
  BY DEF OrderInv, TypeOK, Elsewhere, Moves, RegistryAfter, PortfolioAfter
<1>2. ExchangeOK'
  BY DEF OrderInv, ExchangeOK, Threads, Elsewhere, Moves
<1>3. LocalsOK'
  <2>1. ASSUME NEW u \in Threads \ {t} PROVE GoodLocals(th[u], booked')
    BY <2>1 DEF OrderInv, LocalsOK, GoodLocals, TypeOK, PortfolioAfter, PCs
  <2> QED
    BY <2>1 DEF LocalsOK, Moves
<1>4. MarksOK'
  <2>1. ASSUME NEW o \in reg'.applied PROVE
          \/ booked'[o] > 0
          \/ th'["ws"].pc = "update_apply" /\ th'["ws"].o = o
    <3>1. CASE o \notin reg.applied
      BY <3>1, <2>1 DEF RegistryAfter
    <3>2. CASE o \in reg.applied /\ booked[o] > 0
      BY <3>2 DEF OrderInv, TypeOK, Registry, PortfolioAfter
    <3>3. CASE th["ws"].pc = "update_apply" /\ th["ws"].o = o
      BY <3>3 DEF Moves, Threads
    <3> QED
      BY <3>1, <3>2, <3>3 DEF OrderInv, MarksOK
  <2> QED
    BY <2>1 DEF MarksOK
<1>5. TradesOK'
  BY DEF OrderInv, TradesOK, Threads, Elsewhere, Moves, RegistryAfter
<1> QED
  BY <1>1, <1>2, <1>3, <1>4, <1>5 DEF OrderInv

(* The common ways to show the parts.                                      *)
LEMMA RegistrySame == ASSUME OrderInv, UNCHANGED reg PROVE RegistryAfter
BY DEF OrderInv, TypeOK, RegistryAfter

LEMMA TransitionAfter ==
  ASSUME OrderInv, NEW o \in Orders, NEW s \in States, reg' = transition(reg, o, s)
  PROVE RegistryAfter
BY TransitionKeeps DEF OrderInv, TypeOK, RegistryAfter

LEMMA UpdateOrderAfter ==
  ASSUME OrderInv, NEW o \in Orders, NEW rec \in OrderRecords,
         reg' = update_order(reg, o, rec)
  PROVE RegistryAfter
BY UpdateOrderKeeps DEF OrderInv, TypeOK, RegistryAfter

LEMMA MarkAfter ==
  ASSUME OrderInv, NEW o \in Orders, reg' = mark_fill_applied(reg, o),
         booked'[o] > 0 \/ (th'["ws"].pc = "update_apply" /\ th'["ws"].o = o)
  PROVE RegistryAfter
BY MarkKeeps DEF OrderInv, TypeOK, RegistryAfter

LEMMA PortfolioSame ==
  ASSUME OrderInv, UNCHANGED booked, reserved' \subseteq Orders
  PROVE PortfolioAfter
BY DEF OrderInv, TypeOK, PortfolioAfter

LEMMA GotoMoves ==
  ASSUME OrderInv, NEW t \in Threads, NEW pc \in PCs, Goto(t, pc),
         pc \in EntrySteps => th[t].pc \in EntrySteps,
         pc \in FillSteps => th[t].pc \in FillSteps,
         t = "ws" => th[t].pc # "update_apply"
  PROVE /\ Moves(t)
        /\ th'[t].pc = pc /\ th'[t].o = th[t].o
        /\ th'[t].q = th[t].q /\ th'[t].rec = th[t].rec
BY GotoKeeps DEF OrderInv, TypeOK, Moves

LEMMA ReturnMoves ==
  ASSUME OrderInv, NEW t \in Threads, Return(t),
         t = "ws" /\ th[t].pc = "update_apply" => booked'[th[t].o] > 0
  PROVE Moves(t) /\ GoodLocals(th'[t], booked')
BY ReturnKeeps DEF OrderInv, TypeOK, Moves, GoodLocals, EntrySteps, FillSteps

LEMMA SetKeeps ==
  ASSUME OrderInv, NEW t \in Threads, NEW new \in ThreadState,
         th' = [th EXCEPT ![t] = new]
  PROVE /\ th' \in [Threads -> ThreadState] /\ th'[t] = new
        /\ \A u \in Threads \ {t} : th'[u] = th[u]
BY DEF OrderInv, TypeOK

(* What thread t works on.                                                 *)
LEMMA Working ==
  ASSUME OrderInv, NEW t \in Threads
  PROVE /\ GoodLocals(th[t], booked)
        /\ th[t].pc # "idle" => th[t].o \in Orders
        /\ th[t].rec \in OrderRecords /\ th[t].q \in Nat
        /\ reserved \subseteq Orders
BY DEF OrderInv, TypeOK, LocalsOK, GoodLocals, ThreadState

(* The rest of execute, but for the submit and the polls.                  *)
LEMMA Inv_Entry ==
  ASSUME OrderInv, UNCHANGED env,
         Reserve \/ Record \/ Reject \/ Rejected \/ Accepted \/ Unconfirmed
  PROVE OrderInv'
<1> DEFINE o == th["tick"].o
<1>1. "tick" \in Threads
  BY DEF Threads
<1>2. /\ th["tick"].pc # "idle" => o \in Orders
      /\ th["tick"].rec \in OrderRecords /\ reserved \subseteq Orders
  BY <1>1, Working
<1> USE DEF At, portfolio, exchange
<1>3. CASE Reserve
  <2>1. Moves("tick") /\ GoodLocals(th'["tick"], booked')
    <3>1. CASE Goto("tick", "record")
      BY <1>1, <1>2, <1>3, <3>1, GotoMoves
      DEF Reserve, GoodLocals, PCs, EntrySteps, FillSteps
    <3>2. CASE Goto("tick", "reject")
      BY <1>1, <1>2, <1>3, <3>2, GotoMoves
      DEF Reserve, GoodLocals, PCs, EntrySteps, FillSteps
    <3> QED
      BY <1>3, <3>1, <3>2 DEF Reserve
  <2>2. Elsewhere /\ RegistryAfter /\ PortfolioAfter
    BY <1>2, <1>3, RegistrySame, PortfolioSame DEF Reserve, Elsewhere
  <2> QED
    BY <1>1, <2>1, <2>2, ThreadStepKeeps
<1>4. CASE Record
  <2>1. Moves("tick") /\ GoodLocals(th'["tick"], booked')
    BY <1>1, <1>2, <1>4, GotoMoves
    DEF Record, GoodLocals, PCs, EntrySteps, FillSteps
  <2>2. Elsewhere /\ RegistryAfter /\ PortfolioAfter
    BY <1>2, <1>4, UpdateOrderAfter, PortfolioSame DEF Record, Elsewhere
  <2> QED
    BY <1>1, <2>1, <2>2, ThreadStepKeeps
<1>5. CASE Reject
  <2>1. Moves("tick") /\ GoodLocals(th'["tick"], booked')
    BY <1>1, <1>2, <1>5, GotoMoves
    DEF Reject, GoodLocals, PCs, EntrySteps, FillSteps
  <2>2. Elsewhere /\ RegistryAfter /\ PortfolioAfter
    BY <1>2, <1>5, TransitionAfter, PortfolioSame DEF Reject, Elsewhere, States
  <2> QED
    BY <1>1, <2>1, <2>2, ThreadStepKeeps
<1>6. CASE Rejected
  <2>1. Moves("tick") /\ GoodLocals(th'["tick"], booked')
    BY <1>1, <1>6, ReturnMoves DEF Rejected
  <2>2. [th["tick"].rec EXCEPT !.state = "Rejected"] \in OrderRecords
    BY <1>2 DEF OrderRecords, States
  <2>3. Elsewhere /\ RegistryAfter /\ PortfolioAfter
    BY <1>2, <1>6, <2>2, UpdateOrderAfter, PortfolioSame DEF Rejected, Elsewhere
  <2> QED
    BY <1>1, <2>1, <2>3, ThreadStepKeeps
<1>7. CASE Accepted
  <2> DEFINE rec == [th["tick"].rec EXCEPT !.exch = TRUE]
             new == IF o \in env.market
                    THEN [th["tick"] EXCEPT !.pc = "poll", !.rec = rec] ELSE Idle
  <2>1. rec \in OrderRecords
    BY <1>2 DEF OrderRecords
  <2>2. new \in ThreadState /\ new.pc \in {"poll", "idle"}
          /\ (new.pc = "poll" => new.o = o)
    BY <1>1, <2>1, NoRecordTyped DEF OrderInv, TypeOK, ThreadState, PCs, Idle
  <2>3. th' = [th EXCEPT !["tick"] = new]
    BY <1>7 DEF Accepted
  <2> HIDE DEF new
  <2>4. Moves("tick") /\ GoodLocals(th'["tick"], booked')
    BY <1>1, <1>2, <1>7, <2>2, <2>3
    DEF Accepted, OrderInv, TypeOK, Moves, GoodLocals, EntrySteps, FillSteps
  <2>5. /\ update_order(reg, o, rec) \in Registry
        /\ update_order(reg, o, rec).seen = reg.seen
        /\ update_order(reg, o, rec).applied = reg.applied
    BY <1>2, <1>7, <2>1, UpdateOrderKeeps DEF Accepted, OrderInv, TypeOK
  <2>6. IntentOf[o] \in IntentKeys
    BY <1>2, <1>7, OrderExecutionAssumption DEF Accepted
  <2>7. RegistryAfter
    BY <1>7, <2>5, <2>6, IntentsKeep DEF Accepted, RegistryAfter
  <2>8. Elsewhere /\ PortfolioAfter
    BY <1>2, <1>7, PortfolioSame DEF Accepted, Elsewhere
  <2> QED
    BY <1>1, <2>4, <2>7, <2>8, ThreadStepKeeps
<1>8. CASE Unconfirmed
  <2>1. Moves("tick") /\ GoodLocals(th'["tick"], booked')
    BY <1>1, <1>8, ReturnMoves DEF Unconfirmed
  <2>2. Elsewhere /\ RegistryAfter /\ PortfolioAfter
    BY <1>2, <1>8, TransitionAfter, PortfolioSame
    DEF Unconfirmed, Elsewhere, States
  <2> QED
    BY <1>1, <2>1, <2>2, ThreadStepKeeps
<1> QED
  BY <1>3, <1>4, <1>5, <1>6, <1>7, <1>8

(* process_market_fill on the tick thread.                                 *)
LEMMA Inv_MarketFill ==
  ASSUME OrderInv, UNCHANGED env,
         \/ MarketFillCheck \/ MarketFillRead \/ MarketFillTransition
         \/ MarketFillRecord \/ MarketFillApply \/ MarketFillMark
  PROVE OrderInv'
<1>1. "tick" \in Threads
  BY DEF Threads
<1>2. /\ GoodLocals(th["tick"], booked)
      /\ th["tick"].pc # "idle" => th["tick"].o \in Orders
      /\ th["tick"].rec \in OrderRecords /\ th["tick"].q \in Nat
      /\ reserved \subseteq Orders
  BY <1>1, Working
<1> USE DEF At, portfolio, exchange
<1>3. CASE MarketFillCheck
  <2>1. Moves("tick") /\ GoodLocals(th'["tick"], booked')
    BY <1>1, <1>2, <1>3, GotoMoves, ReturnMoves
    DEF MarketFillCheck, GoodLocals, PCs, EntrySteps, FillSteps
  <2>2. Elsewhere /\ RegistryAfter /\ PortfolioAfter
    BY <1>1, <1>2, <1>3, <2>1, RegistrySame, PortfolioSame
    DEF MarketFillCheck, Elsewhere
  <2> QED
    BY <1>1, <2>1, <2>2, ThreadStepKeeps
<1>4. CASE MarketFillRead
  <2>1. reg.orders[th["tick"].o] \in OrderRecords
    BY <1>2, <1>4 DEF MarketFillRead, OrderInv, TypeOK, Registry
  <2>2. /\ th' \in [Threads -> ThreadState]
        /\ th'["tick"].pc = "market_transition" /\ th'["tick"].o = th["tick"].o
        /\ th'["tick"].q = th["tick"].q
        /\ \A u \in Threads \ {"tick"} : th'[u] = th[u]
    <3> DEFINE new == [th["tick"] EXCEPT !.pc = "market_transition",
                                         !.rec = reg.orders[th["tick"].o]]
    <3>1. th' = [th EXCEPT !["tick"] = new]
      BY <1>1, <1>4 DEF MarketFillRead, OrderInv, TypeOK
    <3>2. /\ new \in ThreadState /\ new.pc = "market_transition"
          /\ new.o = th["tick"].o /\ new.q = th["tick"].q
      BY <1>1, <2>1 DEF OrderInv, TypeOK, ThreadState, PCs
    <3> QED
      BY <1>1, <3>1, <3>2, SetKeeps
  <2>3. Moves("tick") /\ GoodLocals(th'["tick"], booked')
    BY <1>2, <1>4, <2>2
    DEF MarketFillRead, Moves, GoodLocals, EntrySteps, FillSteps
  <2>4. Elsewhere /\ RegistryAfter /\ PortfolioAfter
    BY <1>2, <1>4, RegistrySame, PortfolioSame DEF MarketFillRead, Elsewhere
  <2> QED
    BY <1>1, <2>3, <2>4, ThreadStepKeeps
<1>5. CASE MarketFillTransition
  <2>1. Moves("tick") /\ GoodLocals(th'["tick"], booked')
    BY <1>1, <1>2, <1>5, GotoMoves, ReturnMoves
    DEF MarketFillTransition, GoodLocals, PCs, EntrySteps, FillSteps
  <2>2. Elsewhere /\ RegistryAfter /\ PortfolioAfter
    BY <1>1, <1>2, <1>5, <2>1, TransitionAfter, PortfolioSame
    DEF MarketFillTransition, Elsewhere, States
  <2> QED
    BY <1>1, <2>1, <2>2, ThreadStepKeeps
<1>6. CASE MarketFillRecord
  <2>1. [state |-> "Filled", filled |-> th["tick"].q, exch |-> TRUE] \in OrderRecords
    BY <1>2 DEF OrderRecords, States
  <2>2. Moves("tick") /\ GoodLocals(th'["tick"], booked')
    BY <1>1, <1>2, <1>6, <2>1, GotoMoves
    DEF MarketFillRecord, GoodLocals, PCs, EntrySteps, FillSteps
  <2>3. Elsewhere /\ RegistryAfter /\ PortfolioAfter
    BY <1>1, <1>2, <1>6, <2>1, <2>2, UpdateOrderAfter, PortfolioSame
    DEF MarketFillRecord, Elsewhere
  <2> QED
    BY <1>1, <2>2, <2>3, ThreadStepKeeps
<1>7. CASE MarketFillApply
  <2>1. PortfolioAfter /\ booked'[th["tick"].o] > 0
    BY <1>2, <1>7
    DEF MarketFillApply, apply_fill, OrderInv, TypeOK, PortfolioAfter, GoodLocals
  <2>2. Moves("tick") /\ GoodLocals(th'["tick"], booked')
    BY <1>1, <1>2, <1>7, <2>1, GotoMoves
    DEF MarketFillApply, GoodLocals, PCs, EntrySteps, FillSteps
  <2>3. Elsewhere /\ RegistryAfter
    BY <1>7, RegistrySame DEF MarketFillApply, Elsewhere
  <2> QED
    BY <1>1, <2>1, <2>2, <2>3, ThreadStepKeeps
<1>8. CASE MarketFillMark
  <2>1. booked'[th["tick"].o] > 0
    BY <1>2, <1>8 DEF MarketFillMark, GoodLocals
  <2>2. Moves("tick") /\ GoodLocals(th'["tick"], booked')
    BY <1>1, <1>8, ReturnMoves DEF MarketFillMark
  <2>3. Elsewhere /\ RegistryAfter /\ PortfolioAfter
    BY <1>2, <1>8, <2>1, MarkAfter, PortfolioSame DEF MarketFillMark, Elsewhere
  <2> QED
    BY <1>1, <2>2, <2>3, ThreadStepKeeps
<1> QED
  BY <1>3, <1>4, <1>5, <1>6, <1>7, <1>8

(* The polls of a market order.                                            *)
LEMMA Inv_Poll ==
  ASSUME OrderInv, UNCHANGED env,
         Poll \/ PollNoFill
  PROVE OrderInv'
<1>1. "tick" \in Threads
  BY DEF Threads
<1>2. /\ GoodLocals(th["tick"], booked)
      /\ th["tick"].pc # "idle" => th["tick"].o \in Orders
      /\ th["tick"].rec \in OrderRecords /\ th["tick"].q \in Nat
      /\ reserved \subseteq Orders
  BY <1>1, Working
<1> USE DEF At, portfolio, exchange
<1>3. CASE Poll
  <2> DEFINE new == th'["tick"]
  <2>1. CASE /\ Confirmed("tick")
             /\ th' = [th EXCEPT !["tick"].pc = "market_fill",
                                 !["tick"].q = ex[th["tick"].o].filled]
             /\ UNCHANGED <<reg, reserved>>
    <3>1. ex[th["tick"].o].filled \in Nat /\ ex[th["tick"].o].filled > 0
      BY <1>2, <1>3, <2>1 DEF Poll, Confirmed, OrderInv, TypeOK, ExchangeOrder
    <3>2. /\ th' \in [Threads -> ThreadState]
          /\ new.pc = "market_fill" /\ new.o = th["tick"].o /\ new.q > 0
          /\ \A u \in Threads \ {"tick"} : th'[u] = th[u]
      <4> DEFINE rec == [th["tick"] EXCEPT !.pc = "market_fill",
                                           !.q = ex[th["tick"].o].filled]
      <4>1. th' = [th EXCEPT !["tick"] = rec]
        BY <1>1, <2>1 DEF OrderInv, TypeOK
      <4>2. /\ rec \in ThreadState /\ rec.pc = "market_fill"
            /\ rec.o = th["tick"].o /\ rec.q > 0
        BY <1>1, <3>1 DEF OrderInv, TypeOK, ThreadState, PCs
      <4> QED
        BY <1>1, <4>1, <4>2, SetKeeps
    <3>3. Moves("tick") /\ GoodLocals(new, booked')
      BY <1>2, <1>3, <3>2 DEF Poll, Moves, GoodLocals, EntrySteps, FillSteps
    <3>4. Elsewhere /\ RegistryAfter /\ PortfolioAfter
      BY <1>2, <1>3, <2>1, RegistrySame, PortfolioSame DEF Poll, Elsewhere
    <3> QED
      BY <1>1, <3>3, <3>4, ThreadStepKeeps
  <2>2. CASE /\ th' = [th EXCEPT !["tick"].pc =
                         IF @ = "poll" THEN "retry" ELSE "unconfirmed"]
             /\ UNCHANGED <<reg, reserved>>
    <3>1. /\ th' \in [Threads -> ThreadState]
          /\ new.pc \in {"retry", "unconfirmed"} /\ new.o = th["tick"].o
          /\ \A u \in Threads \ {"tick"} : th'[u] = th[u]
      <4> DEFINE pc == IF th["tick"].pc = "poll" THEN "retry" ELSE "unconfirmed"
                 rec == [th["tick"] EXCEPT !.pc = pc]
      <4>1. th' = [th EXCEPT !["tick"] = rec]
        BY <1>1, <2>2 DEF OrderInv, TypeOK
      <4>2. pc \in {"retry", "unconfirmed"}
        OBVIOUS
      <4> HIDE DEF pc
      <4>3. rec \in ThreadState /\ rec.pc = pc /\ rec.o = th["tick"].o
        BY <1>1, <4>2 DEF OrderInv, TypeOK, ThreadState, PCs
      <4> HIDE DEF rec
      <4> QED
        BY <1>1, <4>1, <4>2, <4>3, SetKeeps
    <3>2. Moves("tick") /\ GoodLocals(new, booked')
      BY <1>2, <1>3, <3>1 DEF Poll, Moves, GoodLocals, EntrySteps, FillSteps
    <3>3. Elsewhere /\ RegistryAfter /\ PortfolioAfter
      BY <1>2, <1>3, <2>2, RegistrySame, PortfolioSame DEF Poll, Elsewhere
    <3> QED
      BY <1>1, <3>2, <3>3, ThreadStepKeeps
  <2>3. CASE /\ reg' = transition(reg, th["tick"].o, "UnknownRecovery")
             /\ reserved' = IF At("tick", "retry") THEN reserved \ {th["tick"].o}
                                                   ELSE reserved
             /\ Return("tick")
    <3>1. Moves("tick") /\ GoodLocals(th'["tick"], booked')
      BY <1>1, <1>3, <2>3, ReturnMoves DEF Poll
    <3>2. Elsewhere /\ RegistryAfter /\ PortfolioAfter
      BY <1>2, <1>3, <2>3, TransitionAfter, PortfolioSame
      DEF Poll, Elsewhere, States
    <3> QED
      BY <1>1, <3>1, <3>2, ThreadStepKeeps
  <2> QED
    BY <1>3, <2>1, <2>2, <2>3 DEF Poll
<1>4. CASE PollNoFill
  <2>1. Moves("tick") /\ GoodLocals(th'["tick"], booked')
    BY <1>1, <1>4, ReturnMoves DEF PollNoFill
  <2>2. Elsewhere /\ RegistryAfter /\ PortfolioAfter
    BY <1>1, <1>2, <1>4, <2>1, TransitionAfter, PortfolioSame
    DEF PollNoFill, Elsewhere, States
  <2> QED
    BY <1>1, <2>1, <2>2, ThreadStepKeeps
<1> QED
  BY <1>3, <1>4

(* on_order_update and process_order_fill, after the message is taken.     *)
LEMMA Inv_OrderUpdate ==
  ASSUME OrderInv, UNCHANGED env,
         \/ UpdateFilled \/ UpdateCancelled \/ UpdateRelease \/ UpdateRead
         \/ UpdateCheck \/ UpdateRecord \/ UpdateMark \/ UpdateApply
  PROVE OrderInv'
<1>1. "ws" \in Threads
  BY DEF Threads
<1>2. /\ GoodLocals(th["ws"], booked)
      /\ th["ws"].pc # "idle" => th["ws"].o \in Orders
      /\ th["ws"].rec \in OrderRecords /\ th["ws"].q \in Nat
      /\ reserved \subseteq Orders
  BY <1>1, Working
<1> USE DEF At, portfolio, exchange
<1>3. CASE UpdateFilled
  <2>1. Moves("ws") /\ GoodLocals(th'["ws"], booked')
    BY <1>1, <1>2, <1>3, GotoMoves, ReturnMoves
    DEF UpdateFilled, GoodLocals, PCs, EntrySteps, FillSteps
  <2>2. Elsewhere /\ RegistryAfter /\ PortfolioAfter
    BY <1>1, <1>2, <1>3, <2>1, TransitionAfter, PortfolioSame
    DEF UpdateFilled, Elsewhere, States
  <2> QED
    BY <1>1, <2>1, <2>2, ThreadStepKeeps
<1>4. CASE UpdateCancelled
  <2>1. Moves("ws") /\ GoodLocals(th'["ws"], booked')
    BY <1>1, <1>2, <1>4, GotoMoves, ReturnMoves
    DEF UpdateCancelled, GoodLocals, PCs, EntrySteps, FillSteps
  <2>2. Elsewhere /\ RegistryAfter /\ PortfolioAfter
    BY <1>1, <1>2, <1>4, <2>1, TransitionAfter, PortfolioSame
    DEF UpdateCancelled, Elsewhere, States
  <2> QED
    BY <1>1, <2>1, <2>2, ThreadStepKeeps
<1>5. CASE UpdateRelease
  <2>1. Moves("ws") /\ GoodLocals(th'["ws"], booked')
    BY <1>1, <1>2, <1>5, GotoMoves, ReturnMoves
    DEF UpdateRelease, GoodLocals, PCs, EntrySteps, FillSteps
  <2>2. Elsewhere /\ RegistryAfter /\ PortfolioAfter
    BY <1>1, <1>2, <1>5, <2>1, RegistrySame, PortfolioSame
    DEF UpdateRelease, Elsewhere
  <2> QED
    BY <1>1, <2>1, <2>2, ThreadStepKeeps
<1>6. CASE UpdateRead
  <2>1. reg.orders[th["ws"].o] \in OrderRecords
    BY <1>2, <1>6 DEF UpdateRead, OrderInv, TypeOK, Registry
  <2>2. /\ th' \in [Threads -> ThreadState]
        /\ th'["ws"].pc = "update_check" /\ th'["ws"].o = th["ws"].o
        /\ th'["ws"].q = th["ws"].q
        /\ \A u \in Threads \ {"ws"} : th'[u] = th[u]
    <3> DEFINE new == [th["ws"] EXCEPT !.pc = "update_check",
                                       !.rec = reg.orders[th["ws"].o]]
    <3>1. th' = [th EXCEPT !["ws"] = new]
      BY <1>1, <1>6 DEF UpdateRead, OrderInv, TypeOK
    <3>2. /\ new \in ThreadState /\ new.pc = "update_check"
          /\ new.o = th["ws"].o /\ new.q = th["ws"].q
      BY <1>1, <2>1 DEF OrderInv, TypeOK, ThreadState, PCs
    <3> QED
      BY <1>1, <3>1, <3>2, SetKeeps
  <2>3. Moves("ws") /\ GoodLocals(th'["ws"], booked')
    BY <1>2, <1>6, <2>2 DEF UpdateRead, Moves, GoodLocals, EntrySteps, FillSteps
  <2>4. Elsewhere /\ RegistryAfter /\ PortfolioAfter
    BY <1>2, <1>6, RegistrySame, PortfolioSame DEF UpdateRead, Elsewhere
  <2> QED
    BY <1>1, <2>3, <2>4, ThreadStepKeeps
<1>7. CASE UpdateCheck
  <2> DEFINE q == th["ws"].q
             f == th["ws"].rec.filled
             m == IF q > f THEN q ELSE f
             pc == IF th["ws"].o \in reg.applied THEN "update_applied" ELSE "update_new"
  <2>1. f \in Nat /\ q > 0
    BY <1>2, <1>7 DEF UpdateCheck, GoodLocals, OrderRecords
  <2>2. m \in Nat /\ m > 0 /\ pc \in {"update_applied", "update_new"}
    BY <1>2, <2>1
  <2>3. th' = [th EXCEPT !["ws"].pc = pc, !["ws"].rec.filled = m]
    BY <1>7 DEF UpdateCheck
  <2> HIDE DEF m, pc
  <2>4. /\ th' \in [Threads -> ThreadState]
        /\ th'["ws"].pc = pc /\ th'["ws"].o = th["ws"].o
        /\ th'["ws"].rec.filled = m
        /\ \A u \in Threads \ {"ws"} : th'[u] = th[u]
    <3> DEFINE rec == [th["ws"].rec EXCEPT !.filled = m]
               new == [th["ws"] EXCEPT !.pc = pc, !.rec = rec]
    <3>1. th' = [th EXCEPT !["ws"] = new]
      BY <1>1, <2>3 DEF OrderInv, TypeOK, ThreadState
    <3>2. rec \in OrderRecords /\ rec.filled = m
      BY <1>2, <2>2 DEF OrderRecords
    <3> HIDE DEF rec
    <3>3. /\ new \in ThreadState /\ new.pc = pc
          /\ new.o = th["ws"].o /\ new.rec = rec
      BY <1>1, <2>2, <3>2 DEF OrderInv, TypeOK, ThreadState, PCs
    <3> HIDE DEF new
    <3> QED
      BY <1>1, <3>1, <3>2, <3>3, SetKeeps
  <2>5. Moves("ws") /\ GoodLocals(th'["ws"], booked')
    BY <1>2, <1>7, <2>2, <2>4
    DEF UpdateCheck, Moves, GoodLocals, EntrySteps, FillSteps
  <2>6. Elsewhere /\ RegistryAfter /\ PortfolioAfter
    BY <1>2, <1>7, RegistrySame, PortfolioSame DEF UpdateCheck, Elsewhere
  <2> QED
    BY <1>1, <2>5, <2>6, ThreadStepKeeps
<1>8. CASE UpdateRecord
  <2>1. Moves("ws") /\ GoodLocals(th'["ws"], booked')
    BY <1>1, <1>2, <1>8, GotoMoves, ReturnMoves
    DEF UpdateRecord, GoodLocals, PCs, EntrySteps, FillSteps
  <2>2. Elsewhere /\ RegistryAfter /\ PortfolioAfter
    BY <1>1, <1>2, <1>8, <2>1, UpdateOrderAfter, PortfolioSame
    DEF UpdateRecord, Elsewhere
  <2> QED
    BY <1>1, <2>1, <2>2, ThreadStepKeeps
<1>9. CASE UpdateMark
  <2>1. /\ Moves("ws") /\ GoodLocals(th'["ws"], booked')
        /\ th'["ws"].pc = "update_apply" /\ th'["ws"].o = th["ws"].o
    BY <1>1, <1>2, <1>9, GotoMoves
    DEF UpdateMark, GoodLocals, PCs, EntrySteps, FillSteps
  <2>2. Elsewhere /\ RegistryAfter /\ PortfolioAfter
    BY <1>2, <1>9, <2>1, MarkAfter, PortfolioSame DEF UpdateMark, Elsewhere
  <2> QED
    BY <1>1, <2>1, <2>2, ThreadStepKeeps
<1>10. CASE UpdateApply
  <2>1. th["ws"].rec.filled \in Nat /\ th["ws"].rec.filled > 0
    BY <1>2, <1>10 DEF UpdateApply, GoodLocals, OrderRecords
  <2>2. PortfolioAfter /\ booked'[th["ws"].o] > 0
    BY <1>2, <1>10, <2>1
    DEF UpdateApply, apply_fill, OrderInv, TypeOK, PortfolioAfter
  <2>3. Moves("ws") /\ GoodLocals(th'["ws"], booked')
    BY <1>1, <1>10, <2>2, ReturnMoves DEF UpdateApply
  <2>4. Elsewhere /\ RegistryAfter
    BY <1>10, RegistrySame DEF UpdateApply, Elsewhere
  <2> QED
    BY <1>1, <2>2, <2>3, <2>4, ThreadStepKeeps
<1> QED
  BY <1>3, <1>4, <1>5, <1>6, <1>7, <1>8, <1>9, <1>10

-----------------------------------------------------------------------------
(* Steps of the exchange and the network.                                  *)
ExchangeAfter ==
  /\ ex' \in [Orders -> ExchangeOrder]
  /\ net' \in Seq(Message)
  /\ failures' \in Nat
  /\ \A o \in Orders :
       /\ o \notin issued => ex'[o].status = "none"
       /\ ex'[o].status = "none" => ex'[o].filled = 0
       /\ ex'[o].status = "live" => ex'[o].filled < Qty
       /\ th'["tick"].pc \in EntrySteps /\ ex[o].status = "none" =>
            ex'[o].status = "none"
  /\ \A i \in DOMAIN net' : GoodMessage(net'[i])

LEMMA ExchangeStepKeeps ==
  ASSUME OrderInv, NEW t \in Threads, Moves(t), GoodLocals(th'[t], booked),
         UNCHANGED <<reg, issued, reserved, booked, tradeBooked, env>>,
         ExchangeAfter
  PROVE OrderInv'
<1>1. TypeOK'
  BY DEF OrderInv, TypeOK, ExchangeAfter, Moves
<1>2. ExchangeOK'
  <2>1. th'["tick"].pc \in EntrySteps =>
          th["tick"].pc \in EntrySteps /\ th'["tick"].o = th["tick"].o
    BY DEF Moves, Threads
  <2>2. th["tick"].pc \in EntrySteps => th["tick"].o \in Orders
    BY Working DEF Threads, EntrySteps
  <2> QED
    BY <2>1, <2>2 DEF OrderInv, ExchangeOK, ExchangeAfter
<1>3. LocalsOK'
  BY DEF OrderInv, LocalsOK, Moves
<1>4. MarksOK'
  <2>1. t = "ws" => th[t].pc # "update_apply" \/ booked[th[t].o] > 0
    BY DEF Moves
  <2>2. t # "ws" => th'["ws"] = th["ws"]
    BY DEF Moves, Threads
  <2> QED
    BY <2>1, <2>2 DEF OrderInv, MarksOK
<1>5. TradesOK'
  BY DEF OrderInv, TradesOK, Moves, Threads
<1> QED
  BY <1>1, <1>2, <1>3, <1>4, <1>5 DEF OrderInv

LEMMA ThreadsStay ==
  ASSUME OrderInv, UNCHANGED th
  PROVE Moves("tick") /\ GoodLocals(th'["tick"], booked)
BY DEF OrderInv, TypeOK, LocalsOK, Moves, Threads

(* Taking a message out leaves messages that were there.                   *)
LEMMA RemoveAtKeeps ==
  ASSUME OrderInv, NEW i \in DOMAIN net, net' = RemoveAt(net, i)
  PROVE net' \in Seq(Message) /\ \A j \in DOMAIN net' : GoodMessage(net'[j])
<1>1. net \in Seq(Message) /\ i \in 1..Len(net)
  BY DEF OrderInv, TypeOK
<1> DEFINE a == SubSeq(net, 1, i - 1)
           b == SubSeq(net, i + 1, Len(net))
<1>2. /\ a \in Seq(Message) /\ b \in Seq(Message)
      /\ \A j \in DOMAIN a : GoodMessage(a[j])
      /\ \A j \in DOMAIN b : GoodMessage(b[j])
  BY <1>1 DEF OrderInv, ExchangeOK
<1> HIDE DEF a, b
<1>3. a \o b \in Seq(Message) /\ \A j \in DOMAIN (a \o b) : GoodMessage((a \o b)[j])
  BY <1>2
<1> QED
  BY <1>3 DEF RemoveAt, a, b

LEMMA AppendKeeps ==
  ASSUME OrderInv, NEW m \in Message, GoodMessage(m)
  PROVE /\ Append(net, m) \in Seq(Message)
        /\ \A j \in DOMAIN Append(net, m) : GoodMessage(Append(net, m)[j])
BY DEF OrderInv, TypeOK, ExchangeOK

LEMMA CancelAtExchangeAfter ==
  ASSUME OrderInv, NEW o \in Orders, ex[o].status = "live", CancelAtExchange(o),
         failures' \in Nat
  PROVE ExchangeAfter
<1>1. StatusMessage(o, "cancelled", ex[o].filled) \in Message
  BY DEF OrderInv, TypeOK, ExchangeOrder, StatusMessage, Message
<1>2. GoodMessage(StatusMessage(o, "cancelled", ex[o].filled))
  BY DEF GoodMessage, StatusMessage
<1>3. net' \in Seq(Message) /\ \A j \in DOMAIN net' : GoodMessage(net'[j])
  BY <1>1, <1>2, AppendKeeps DEF CancelAtExchange
<1>4. ex' \in [Orders -> ExchangeOrder] /\ ex'[o].status = "cancelled"
        /\ \A p \in Orders \ {o} : ex'[p] = ex[p]
  BY DEF CancelAtExchange, OrderInv, TypeOK, ExchangeOrder
<1> QED
  BY <1>3, <1>4 DEF OrderInv, ExchangeOK, ExchangeAfter

LEMMA ExchangeSame ==
  ASSUME OrderInv, UNCHANGED ex, failures' \in Nat, net' \in Seq(Message),
         \A j \in DOMAIN net' : GoodMessage(net'[j])
  PROVE ExchangeAfter
BY DEF OrderInv, TypeOK, ExchangeOK, ExchangeAfter

LEMMA Inv_Exchange ==
  ASSUME OrderInv, UNCHANGED env, NEW o \in Orders,
         ExchangeFill(o) \/ ExchangeCancel(o)
  PROVE OrderInv'
<1>1. "tick" \in Threads /\ ex[o].status = "live" /\ failures \in Nat
  BY DEF Threads, ExchangeFill, ExchangeCancel, OrderInv, TypeOK
<1>2. UNCHANGED <<reg, issued, reserved, booked, tradeBooked, env, failures>>
  BY DEF ExchangeFill, ExchangeCancel, portfolio
<1>3. Moves("tick") /\ GoodLocals(th'["tick"], booked)
  BY ThreadsStay DEF ExchangeFill, ExchangeCancel
<1>4. CASE ExchangeCancel(o)
  BY <1>1, <1>2, <1>3, <1>4, CancelAtExchangeAfter, ExchangeStepKeeps
  DEF ExchangeCancel
<1>5. CASE ExchangeFill(o)
  <2> DEFINE k == ex[o].filled + 1
             status == IF k = Qty THEN "filled" ELSE "live"
  <2>1. k \in Nat /\ k \in 1..Qty
    BY <1>1, OrderExecutionAssumption
    DEF OrderInv, TypeOK, ExchangeOK, ExchangeOrder
  <2>2. /\ ex' \in [Orders -> ExchangeOrder]
        /\ ex'[o].status = status /\ ex'[o].filled = k
        /\ \A p \in Orders \ {o} : ex'[p] = ex[p]
    BY <1>5, <2>1 DEF ExchangeFill, OrderInv, TypeOK, ExchangeOrder
  <2>3. /\ o \in issued
        /\ status = "live" => k < Qty
    BY <1>1, <2>1, OrderExecutionAssumption DEF OrderInv, ExchangeOK
  <2>4. PICK m \in FillMessage(o, k) :
          net' = net \o (IF k = Qty THEN <<m, StatusMessage(o, "filled", k)>> ELSE <<m>>)
    BY <1>5 DEF ExchangeFill
  <2>5. m \in Message /\ GoodMessage(m)
    BY <2>1, <2>4 DEF FillMessage, Message, GoodMessage
  <2>6. /\ StatusMessage(o, "filled", k) \in Message
        /\ GoodMessage(StatusMessage(o, "filled", k))
    BY <2>1 DEF StatusMessage, Message, GoodMessage
  <2>7. net \in Seq(Message) /\ \A j \in DOMAIN net : GoodMessage(net[j])
    BY DEF OrderInv, TypeOK, ExchangeOK
  <2>8. net' \in Seq(Message) /\ \A j \in DOMAIN net' : GoodMessage(net'[j])
    BY <2>4, <2>5, <2>6, <2>7
  <2>9. ExchangeAfter
    BY <1>1, <1>2, <2>2, <2>3, <2>8 DEF OrderInv, ExchangeOK, ExchangeAfter
  <2> QED
    BY <1>1, <1>2, <1>3, <2>9, ExchangeStepKeeps
<1> QED
  BY <1>4, <1>5

LEMMA Inv_LoseMessage ==
  ASSUME OrderInv, UNCHANGED env, NEW i \in DOMAIN net, LoseMessage(i)
  PROVE OrderInv'
<1>1. "tick" \in Threads /\ failures' \in Nat /\ UNCHANGED ex
  BY DEF Threads, LoseMessage, OrderInv, TypeOK
<1>2. ExchangeAfter
  BY <1>1, RemoveAtKeeps, ExchangeSame DEF LoseMessage
<1>3. Moves("tick") /\ GoodLocals(th'["tick"], booked)
  BY ThreadsStay DEF LoseMessage
<1> QED
  BY <1>1, <1>2, <1>3, ExchangeStepKeeps DEF LoseMessage, portfolio

LEMMA Inv_Submit ==
  ASSUME OrderInv, UNCHANGED env, Submit
  PROVE OrderInv'
<1> DEFINE o == th["tick"].o
<1> USE DEF At
<1>1. "tick" \in Threads
  BY DEF Threads
<1>2. o \in Orders
  BY <1>1, Working DEF Submit
<1>3. o \in issued /\ ex[o].status = "none" /\ ex[o].filled = 0
  BY <1>2 DEF Submit, OrderInv, ExchangeOK, EntrySteps
<1>4. Goto("tick", "accepted") \/ Goto("tick", "reject")
  BY DEF Submit
<1>5. Moves("tick") /\ GoodLocals(th'["tick"], booked)
        /\ th'["tick"].pc \notin EntrySteps
  <2>1. CASE Goto("tick", "accepted")
    BY <1>1, <1>2, <2>1, GotoMoves
    DEF Submit, GoodLocals, PCs, EntrySteps, FillSteps
  <2>2. CASE Goto("tick", "reject")
    BY <1>1, <1>2, <2>2, GotoMoves
    DEF Submit, GoodLocals, PCs, EntrySteps, FillSteps
  <2> QED
    BY <1>4, <2>1, <2>2
<1>6. \/ ex' = ex
      \/ /\ ex' \in [Orders -> ExchangeOrder]
         /\ ex'[o].status = "live" /\ ex'[o].filled = 0
         /\ \A p \in Orders \ {o} : ex'[p] = ex[p]
  <2>1. ex' = ex \/ ex' = [ex EXCEPT ![o].status = "live"]
    BY DEF Submit
  <2>2. CASE ex' = [ex EXCEPT ![o].status = "live"]
    BY <1>2, <1>3, <2>2 DEF OrderInv, TypeOK, ExchangeOrder
  <2> QED
    BY <2>1, <2>2
<1>7. UNCHANGED <<reg, issued, reserved, booked, tradeBooked, env, net, failures>>
  BY DEF Submit, portfolio
<1>8. ExchangeAfter
  <2>1. 0 < Qty
    BY OrderExecutionAssumption
  <2>2. ex' \in [Orders -> ExchangeOrder] /\ failures' \in Nat
    BY <1>6, <1>7 DEF OrderInv, TypeOK
  <2>3. net' \in Seq(Message) /\ \A j \in DOMAIN net' : GoodMessage(net'[j])
    BY <1>7 DEF OrderInv, TypeOK, ExchangeOK
  <2>4. ASSUME NEW p \in Orders
        PROVE /\ p \notin issued => ex'[p].status = "none"
              /\ ex'[p].status = "none" => ex'[p].filled = 0
              /\ ex'[p].status = "live" => ex'[p].filled < Qty
    BY <1>2, <1>3, <1>6, <2>1, <2>4 DEF OrderInv, ExchangeOK
  <2> QED
    BY <1>5, <2>2, <2>3, <2>4 DEF ExchangeAfter
<1> QED
  BY <1>1, <1>5, <1>7, <1>8, ExchangeStepKeeps

(* do_cancel on the thread that calls it.                                   *)
LEMMA Inv_Cancel ==
  ASSUME OrderInv, UNCHANGED env, NEW t \in {"tick", "rest"},
         \/ BeginCancel(t) \/ CancelRequest(t) \/ CancelConfirmed(t)
         \/ CancelRelease(t) \/ CancelFailed(t)
  PROVE OrderInv'
<1>1. t \in Threads
  BY DEF Threads
<1>2. /\ GoodLocals(th[t], booked)
      /\ th[t].pc # "idle" => th[t].o \in Orders
      /\ th[t].rec \in OrderRecords /\ th[t].q \in Nat
      /\ reserved \subseteq Orders
  BY <1>1, Working
<1> USE DEF At, portfolio, exchange
<1>3. CASE BeginCancel(t)
  <2> DEFINE o == th[t].o
             go == [th[t] EXCEPT !.pc = "cancel_request", !.rec = reg.orders[o]]
             new == IF CanTransition(reg, o, "CancelPending") THEN go ELSE Idle
  <2>1. o \in Orders /\ reg.orders[o] \in OrderRecords
    BY <1>2, <1>3 DEF BeginCancel, OrderInv, TypeOK, Registry
  <2>2. go \in ThreadState /\ go.pc = "cancel_request" /\ go.o = o
    BY <1>1, <2>1 DEF OrderInv, TypeOK, ThreadState, PCs
  <2>3. th' = [th EXCEPT ![t] = new]
    BY <1>3 DEF BeginCancel
  <2> HIDE DEF go
  <2>4. /\ new \in ThreadState /\ new.pc \in {"cancel_request", "idle"}
        /\ new.pc = "cancel_request" => new.o = o
    BY <2>2, NoRecordTyped DEF Idle
  <2> HIDE DEF new
  <2>5. /\ th' \in [Threads -> ThreadState] /\ th'[t] = new
        /\ \A u \in Threads \ {t} : th'[u] = th[u]
    BY <1>1, <2>3, <2>4, SetKeeps
  <2>6. Moves(t) /\ GoodLocals(th'[t], booked')
    BY <1>3, <2>1, <2>4, <2>5
    DEF BeginCancel, Moves, GoodLocals, EntrySteps, FillSteps
  <2>7. Elsewhere /\ RegistryAfter /\ PortfolioAfter
    BY <1>2, <1>3, <2>1, TransitionAfter, PortfolioSame
    DEF BeginCancel, Elsewhere, States
  <2> QED
    BY <1>1, <2>6, <2>7, ThreadStepKeeps
<1>4. CASE CancelRequest(t)
  <2> DEFINE o == th[t].o
  <2>1. o \in Orders /\ failures \in Nat
    BY <1>2, <1>4 DEF CancelRequest, OrderInv, TypeOK
  <2>2. /\ Goto(t, "cancel_confirmed") \/ Goto(t, "cancel_failed")
        /\ failures' = failures \/ failures' = failures + 1
        /\ (ex[o].status = "live" /\ CancelAtExchange(o)) \/ UNCHANGED <<ex, net>>
        /\ UNCHANGED <<reg, issued, reserved, booked, tradeBooked>>
    BY <1>4 DEF CancelRequest
  <2>3. Moves(t) /\ GoodLocals(th'[t], booked)
    <3>1. CASE Goto(t, "cancel_confirmed")
      BY <1>1, <1>4, <2>1, <3>1, GotoMoves
      DEF CancelRequest, GoodLocals, PCs, EntrySteps, FillSteps
    <3>2. CASE Goto(t, "cancel_failed")
      BY <1>1, <1>4, <2>1, <3>2, GotoMoves
      DEF CancelRequest, GoodLocals, PCs, EntrySteps, FillSteps
    <3> QED
      BY <2>2, <3>1, <3>2
  <2>4. failures' \in Nat
    BY <2>1, <2>2
  <2>5. ExchangeAfter
    <3>1. CASE ex[o].status = "live" /\ CancelAtExchange(o)
      BY <2>1, <2>4, <3>1, CancelAtExchangeAfter
    <3>2. CASE UNCHANGED <<ex, net>>
      BY <2>4, <3>2, ExchangeSame DEF OrderInv, TypeOK, ExchangeOK
    <3> QED
      BY <2>2, <3>1, <3>2
  <2> QED
    BY <1>1, <2>2, <2>3, <2>5, ExchangeStepKeeps
<1>5. CASE CancelConfirmed(t)
  <2>1. Moves(t) /\ GoodLocals(th'[t], booked')
    BY <1>1, <1>2, <1>5, GotoMoves
    DEF CancelConfirmed, GoodLocals, PCs, EntrySteps, FillSteps
  <2>2. Elsewhere /\ RegistryAfter /\ PortfolioAfter
    BY <1>1, <1>2, <1>5, <2>1, TransitionAfter, PortfolioSame
    DEF CancelConfirmed, Elsewhere, States
  <2> QED
    BY <1>1, <2>1, <2>2, ThreadStepKeeps
<1>6. CASE CancelRelease(t)
  <2>1. Moves(t) /\ GoodLocals(th'[t], booked')
    BY <1>1, <1>6, ReturnMoves DEF CancelRelease
  <2>2. Elsewhere /\ RegistryAfter /\ PortfolioAfter
    BY <1>1, <1>2, <1>6, <2>1, RegistrySame, PortfolioSame
    DEF CancelRelease, Elsewhere
  <2> QED
    BY <1>1, <2>1, <2>2, ThreadStepKeeps
<1>7. CASE CancelFailed(t)
  <2>1. Moves(t) /\ GoodLocals(th'[t], booked')
    BY <1>1, <1>7, ReturnMoves DEF CancelFailed
  <2>2. RegistryAfter
    BY <1>2, <1>7, ForceTransitionKeeps
    DEF CancelFailed, OrderInv, TypeOK, RegistryAfter, States
  <2>3. Elsewhere /\ PortfolioAfter
    BY <1>2, <1>7, PortfolioSame DEF CancelFailed, Elsewhere
  <2> QED
    BY <1>1, <2>1, <2>2, <2>3, ThreadStepKeeps
<1> QED
  BY <1>3, <1>4, <1>5, <1>6, <1>7

(* The watchdog, the reconciliation's snapshot and the cleanup.            *)
LEMMA Inv_Periodic ==
  ASSUME OrderInv, UNCHANGED env, NEW o \in Orders,
         Watchdog(o) \/ ReconcileSnapshot(o) \/ Cleanup(o)
  PROVE OrderInv'
<1>1. "tick" \in Threads /\ "rest" \in Threads /\ reserved \subseteq Orders
  BY DEF Threads, OrderInv, TypeOK
<1> DEFINE new(pc) == [Idle EXCEPT !.pc = pc, !.o = o]
<1>2. ASSUME NEW pc \in {"cancel", "query"}, NEW t \in {"tick", "rest"},
             th' = [th EXCEPT ![t] = new(pc)], UNCHANGED booked
      PROVE Moves(t) /\ GoodLocals(th'[t], booked')
  <2>1. new(pc) \in ThreadState /\ new(pc).pc = pc /\ new(pc).o = o
    BY <1>2, NoRecordTyped DEF Idle, ThreadState, PCs
  <2>2. /\ th' \in [Threads -> ThreadState] /\ th'[t] = new(pc)
        /\ \A u \in Threads \ {t} : th'[u] = th[u]
    BY <1>1, <1>2, <2>1, SetKeeps
  <2> HIDE DEF new
  <2> QED
    BY <1>2, <2>1, <2>2 DEF Moves, GoodLocals, EntrySteps, FillSteps
<1> USE DEF portfolio, exchange
<1>3. CASE Watchdog(o)
  <2>1. Moves("tick") /\ GoodLocals(th'["tick"], booked')
    BY <1>2, <1>3 DEF Watchdog
  <2>2. Elsewhere /\ RegistryAfter /\ PortfolioAfter
    BY <1>1, <1>3, RegistrySame, PortfolioSame DEF Watchdog, Elsewhere
  <2> QED
    BY <1>1, <2>1, <2>2, ThreadStepKeeps
<1>4. CASE ReconcileSnapshot(o)
  <2>1. Moves("rest") /\ GoodLocals(th'["rest"], booked')
    BY <1>2, <1>4 DEF ReconcileSnapshot
  <2>2. Elsewhere /\ RegistryAfter /\ PortfolioAfter
    BY <1>1, <1>4, RegistrySame, PortfolioSame DEF ReconcileSnapshot, Elsewhere
  <2> QED
    BY <1>1, <2>1, <2>2, ThreadStepKeeps
<1>5. CASE Cleanup(o)
  <2>1. Moves("tick") /\ GoodLocals(th'["tick"], booked')
    BY <1>5, ThreadsStay DEF Cleanup
  <2>2. RegistryAfter
    BY <1>5, CleanupKeeps DEF Cleanup, OrderInv, TypeOK, RegistryAfter
  <2>3. Elsewhere /\ PortfolioAfter
    BY <1>1, <1>5, PortfolioSame DEF Cleanup, Elsewhere
  <2> QED
    BY <1>1, <2>1, <2>2, <2>3, ThreadStepKeeps
<1> QED
  BY <1>3, <1>4, <1>5

LEMMA Inv_ForgetIntent ==
  ASSUME OrderInv, UNCHANGED env, NEW key \in IntentKeys, ForgetIntent(key)
  PROVE OrderInv'
<1>1. "tick" \in Threads /\ reserved \subseteq Orders
  BY DEF Threads, OrderInv, TypeOK
<1>2. Moves("tick") /\ GoodLocals(th'["tick"], booked')
  BY ThreadsStay DEF ForgetIntent, portfolio
<1>3. RegistryAfter
  BY IntentsKeep DEF ForgetIntent, OrderInv, TypeOK, RegistryAfter
<1>4. Elsewhere /\ PortfolioAfter
  BY <1>1, PortfolioSame DEF ForgetIntent, Elsewhere, portfolio, exchange
<1> QED
  BY <1>1, <1>2, <1>3, <1>4, ThreadStepKeeps

(* The answer of the exchange to the reconciliation.                       *)
LEMMA Inv_ReconcileQuery ==
  ASSUME OrderInv, UNCHANGED env,
         ReconcileQuery
  PROVE OrderInv'
<1>1. "rest" \in Threads
  BY DEF Threads
<1>2. /\ GoodLocals(th["rest"], booked)
      /\ th["rest"].pc # "idle" => th["rest"].o \in Orders
      /\ th["rest"].rec \in OrderRecords /\ th["rest"].q \in Nat
      /\ reserved \subseteq Orders
  BY <1>1, Working
<1> USE DEF At, portfolio, exchange
<1>3. CASE ReconcileQuery
  <2>1. Moves("rest") /\ GoodLocals(th'["rest"], booked')
    BY <1>1, <1>2, <1>3, GotoMoves, ReturnMoves
    DEF ReconcileQuery, GoodLocals, PCs, EntrySteps, FillSteps
  <2>2. Elsewhere /\ RegistryAfter /\ PortfolioAfter
    BY <1>1, <1>2, <1>3, <2>1, RegistrySame, PortfolioSame
    DEF ReconcileQuery, Elsewhere
  <2> QED
    BY <1>1, <2>1, <2>2, ThreadStepKeeps
<1> QED
  BY <1>3

-----------------------------------------------------------------------------
(* The private channel.                                                    *)
LEMMA ReceiveKeeps ==
  ASSUME OrderInv, NEW i \in DOMAIN net, Receive(i)
  PROVE /\ net' \in Seq(Message) /\ \A j \in DOMAIN net' : GoodMessage(net'[j])
        /\ net[i] \in Message /\ GoodMessage(net[i])
        /\ th["ws"].pc = "idle"
<1>1. net \in Seq(Message) /\ \A j \in DOMAIN net : GoodMessage(net[j])
  BY DEF OrderInv, TypeOK, ExchangeOK
<1>2. net' = RemoveAt(net, i) \/ net' = net
  BY DEF Receive
<1> QED
  BY <1>1, <1>2, RemoveAtKeeps DEF Receive, At

(* A message of the "orders" channel is taken.                             *)
LEMMA Inv_OrderMessage ==
  ASSUME OrderInv, UNCHANGED env, NEW i \in DOMAIN net, OrderUpdate(i)
  PROVE OrderInv'
<1> DEFINE go == [Idle EXCEPT !.pc = net[i].kind, !.o = net[i].o, !.q = net[i].k]
           new == IF net[i].o \in reg.index THEN go ELSE Idle
<1>1. /\ net' \in Seq(Message) /\ \A j \in DOMAIN net' : GoodMessage(net'[j])
      /\ net[i] \in Message /\ GoodMessage(net[i])
      /\ th["ws"].pc = "idle"
      /\ net[i].kind \in {"filled", "cancelled"}
  BY ReceiveKeeps DEF OrderUpdate
<1>2. go \in ThreadState /\ go.pc = net[i].kind /\ go.o = net[i].o /\ go.q = net[i].k
  BY <1>1, NoRecordTyped DEF Message, Idle, ThreadState, PCs
<1>3. th' = [th EXCEPT !["ws"] = new]
  BY DEF OrderUpdate
<1>4. go.o \in Orders /\ (go.pc = "filled" => go.q > 0) /\ go.pc \in {"filled", "cancelled"}
  BY <1>1, <1>2 DEF Message, GoodMessage
<1> HIDE DEF go
<1>5. new \in ThreadState /\ GoodLocals(new, booked) /\ new.pc \in {"filled", "cancelled", "idle"}
  BY <1>2, <1>4, NoRecordTyped DEF GoodLocals, Idle
<1> HIDE DEF new
<1>6. "ws" \in Threads
  BY DEF Threads
<1>7. /\ th' \in [Threads -> ThreadState] /\ th'["ws"] = new
      /\ \A u \in Threads \ {"ws"} : th'[u] = th[u]
  BY <1>3, <1>5, <1>6, SetKeeps
<1>8. Moves("ws") /\ GoodLocals(th'["ws"], booked)
  BY <1>1, <1>5, <1>7 DEF Moves, EntrySteps, FillSteps
<1>9. ExchangeAfter
  BY <1>1, ExchangeSame DEF OrderUpdate, OrderInv, TypeOK
<1> QED
  BY <1>6, <1>8, <1>9, ExchangeStepKeeps DEF OrderUpdate, portfolio

(* The one step that lets the thread book a trade finds it unseen, hence   *)
(* not booked, and marks it.                                               *)
LEMMA Inv_FillEvent ==
  ASSUME OrderInv, UNCHANGED env, NEW i \in DOMAIN net, FillEvent(i)
  PROVE OrderInv'
<1> DEFINE m == net[i]
           tr == <<m.o, m.k>>
           go == [pc |-> "fill", o |-> m.o, q |-> m.k, rec |-> reg.orders[m.o]]
           new == IF tr \notin reg.seen /\ m.o \in reg.index /\ m.priced THEN go ELSE Idle
<1>1. /\ net' \in Seq(Message) /\ \A j \in DOMAIN net' : GoodMessage(net'[j])
      /\ m \in Message /\ GoodMessage(m)
      /\ th["ws"].pc = "idle" /\ m.kind = "fill"
  BY ReceiveKeeps DEF FillEvent
<1>2. m.o \in Orders /\ m.k \in Nat /\ m.k \in 1..Qty
  BY <1>1 DEF Message, GoodMessage
<1>3. tr \in Trades
  BY <1>2, OrderExecutionAssumption
<1>4. go \in ThreadState
  BY <1>2 DEF OrderInv, TypeOK, Registry, ThreadState, PCs
<1>5. /\ reg' \in Registry /\ reg'.seen = reg.seen \cup {tr}
      /\ reg'.applied = reg.applied
  BY <1>3, SeenKeeps DEF FillEvent, OrderInv, TypeOK
<1>6. th' = [th EXCEPT !["ws"] = new]
  BY DEF FillEvent
<1>7. \/ new = Idle
      \/ /\ new.pc = "fill" /\ new.o = m.o /\ new.q = m.k
         /\ tr \notin reg.seen
  OBVIOUS
<1>8. new \in ThreadState
  BY <1>4, NoRecordTyped
<1> HIDE DEF new
<1>9. "ws" \in Threads /\ "tick" \in Threads \ {"ws"}
  BY DEF Threads
<1>10. /\ th' \in [Threads -> ThreadState] /\ th'["ws"] = new
       /\ \A u \in Threads \ {"ws"} : th'[u] = th[u]
  BY <1>6, <1>8, <1>9, SetKeeps
<1>11. UNCHANGED <<issued, reserved, booked, tradeBooked, ex, failures, env>>
  BY DEF FillEvent, portfolio
<1>12. TypeOK'
  BY <1>1, <1>5, <1>10, <1>11 DEF OrderInv, TypeOK
<1>13. ExchangeOK'
  BY <1>1, <1>9, <1>10, <1>11 DEF OrderInv, ExchangeOK
<1>14. LocalsOK'
  <2>1. GoodLocals(new, booked)
    BY <1>2, <1>7 DEF GoodLocals, Idle
  <2> QED
    BY <2>1, <1>10, <1>11 DEF OrderInv, LocalsOK
<1>15. MarksOK'
  BY <1>1, <1>5, <1>11 DEF OrderInv, MarksOK
<1>16. TradesOK'
  <2>1. tr \notin reg.seen => tradeBooked[tr] = 0
    BY <1>3 DEF OrderInv, TradesOK, TypeOK
  <2>2. \A t \in Trades : tradeBooked[t] <= 1 /\ (tradeBooked[t] = 1 => t \in reg'.seen)
    BY <1>5 DEF OrderInv, TradesOK
  <2>3. CASE new = Idle
    BY <2>2, <2>3, <1>10, <1>11 DEF TradesOK, Idle, FillSteps
  <2>4. CASE new.pc = "fill" /\ new.o = m.o /\ new.q = m.k /\ tr \notin reg.seen
    BY <2>1, <2>2, <2>4, <1>5, <1>10, <1>11 DEF TradesOK
  <2> QED
    BY <1>7, <2>3, <2>4
<1> QED
  BY <1>12, <1>13, <1>14, <1>15, <1>16 DEF OrderInv

(* process_fill_event up to the portfolio, and the mark after it.           *)
LEMMA Inv_Fill ==
  ASSUME OrderInv, UNCHANGED env,
         FillTransition \/ FillRecord \/ FillMark
  PROVE OrderInv'
<1>1. "ws" \in Threads
  BY DEF Threads
<1>2. /\ GoodLocals(th["ws"], booked)
      /\ th["ws"].pc # "idle" => th["ws"].o \in Orders
      /\ th["ws"].rec \in OrderRecords /\ th["ws"].q \in Nat
      /\ reserved \subseteq Orders
  BY <1>1, Working
<1> USE DEF At, portfolio, exchange
<1>3. CASE FillTransition
  <2> DEFINE filled == th["ws"].rec.filled + 1
             s == IF filled >= Qty THEN "Filled" ELSE "PartiallyFilled"
             rec == [th["ws"].rec EXCEPT !.state = s, !.filled = filled]
             new == [th["ws"] EXCEPT !.pc = "fill_record", !.rec = rec]
  <2>1. s \in States
    BY DEF States
  <2>2. reg' = transition(reg, th["ws"].o, s) /\ th["ws"].o \in Orders
    BY <1>2, <1>3 DEF FillTransition
  <2>3. th' = [th EXCEPT !["ws"].pc = "fill_record", !["ws"].rec = rec]
    BY <1>3 DEF FillTransition
  <2>4. rec \in OrderRecords
    <3>1. filled \in Nat
      BY <1>2 DEF OrderRecords
    <3> HIDE DEF s, filled
    <3> QED
      BY <1>2, <2>1, <3>1 DEF OrderRecords
  <2> HIDE DEF rec
  <2>5. th' = [th EXCEPT !["ws"] = new]
    BY <1>1, <2>3 DEF OrderInv, TypeOK
  <2>6. /\ new \in ThreadState /\ new.pc = "fill_record"
        /\ new.o = th["ws"].o /\ new.q = th["ws"].q
    BY <1>1, <2>4 DEF OrderInv, TypeOK, ThreadState, PCs
  <2> HIDE DEF new
  <2>7. /\ th' \in [Threads -> ThreadState] /\ th'["ws"] = new
        /\ \A u \in Threads \ {"ws"} : th'[u] = th[u]
    BY <1>1, <2>5, <2>6, SetKeeps
  <2>8. Moves("ws") /\ GoodLocals(th'["ws"], booked')
    BY <1>3, <2>2, <2>6, <2>7
    DEF FillTransition, Moves, GoodLocals, EntrySteps, FillSteps
  <2>9. Elsewhere /\ RegistryAfter /\ PortfolioAfter
    BY <1>2, <1>3, <2>1, <2>2, TransitionAfter, PortfolioSame
    DEF FillTransition, Elsewhere
  <2> QED
    BY <1>1, <2>8, <2>9, ThreadStepKeeps
<1>4. CASE FillRecord
  <2>1. Moves("ws") /\ GoodLocals(th'["ws"], booked')
    BY <1>1, <1>2, <1>4, GotoMoves
    DEF FillRecord, GoodLocals, PCs, EntrySteps, FillSteps
  <2>2. Elsewhere /\ RegistryAfter /\ PortfolioAfter
    BY <1>1, <1>2, <1>4, <2>1, UpdateOrderAfter, PortfolioSame
    DEF FillRecord, Elsewhere
  <2> QED
    BY <1>1, <2>1, <2>2, ThreadStepKeeps
<1>5. CASE FillMark
  <2>1. booked'[th["ws"].o] > 0
    BY <1>2, <1>5 DEF FillMark, GoodLocals
  <2>2. Moves("ws") /\ GoodLocals(th'["ws"], booked')
    BY <1>1, <1>5, ReturnMoves DEF FillMark
  <2>3. Elsewhere /\ RegistryAfter /\ PortfolioAfter
    BY <1>2, <1>5, <2>1, MarkAfter, PortfolioSame DEF FillMark, Elsewhere
  <2> QED
    BY <1>1, <2>2, <2>3, ThreadStepKeeps
<1> QED
  BY <1>3, <1>4, <1>5

(* The booking of a trade.                                                 *)
LEMMA Inv_FillApply ==
  ASSUME OrderInv, UNCHANGED env, FillApply
  PROVE OrderInv'
<1> DEFINE o == th["ws"].o
           tr == <<o, th["ws"].q>>
<1>1. "ws" \in Threads /\ "tick" \in Threads \ {"ws"}
  BY DEF Threads
<1>2. o \in Orders
  BY <1>1, Working DEF FillApply, At
<1>3. tr \in reg.seen /\ tradeBooked[tr] = 0
  BY DEF FillApply, At, OrderInv, TradesOK, FillSteps
<1>4. tr \in Trades
  BY <1>3 DEF OrderInv, TypeOK, Registry
<1>5. UNCHANGED <<reg, issued, ex, net, failures, env>>
  BY DEF FillApply, exchange
<1>6. /\ booked' \in [Orders -> Nat] /\ booked'[o] > 0 /\ reserved' \subseteq Orders
      /\ \A p \in Orders : booked'[p] >= booked[p]
  BY <1>2 DEF FillApply, apply_fill, OrderInv, TypeOK
<1>7. /\ Moves("ws") /\ th'["ws"].pc = "fill_mark" /\ th'["ws"].o = o
  BY <1>1, GotoMoves DEF FillApply, At, PCs, EntrySteps, FillSteps
<1>8. /\ tradeBooked' \in [Trades -> Nat] /\ tradeBooked'[tr] = 1
      /\ \A t \in Trades \ {tr} : tradeBooked'[t] = tradeBooked[t]
  <2>1. tradeBooked' = [tradeBooked EXCEPT ![tr] = @ + 1]
    BY DEF FillApply
  <2> HIDE DEF tr
  <2> QED
    BY <1>3, <1>4, <2>1 DEF OrderInv, TypeOK
<1>9. TypeOK'
  BY <1>5, <1>6, <1>7, <1>8 DEF OrderInv, TypeOK, Moves
<1>10. ExchangeOK'
  BY <1>1, <1>5, <1>7 DEF OrderInv, ExchangeOK, Moves
<1>11. LocalsOK'
  <2>1. ASSUME NEW u \in Threads \ {"ws"} PROVE GoodLocals(th[u], booked')
    BY <1>6, <2>1 DEF OrderInv, LocalsOK, GoodLocals, TypeOK
  <2>2. GoodLocals(th'["ws"], booked')
    BY <1>2, <1>6, <1>7 DEF GoodLocals
  <2> QED
    BY <2>1, <2>2, <1>7 DEF LocalsOK, Moves
<1>12. MarksOK'
  <2>1. \A p \in reg.applied : p \in Orders /\ booked[p] > 0
    BY DEF FillApply, At, OrderInv, MarksOK, TypeOK, Registry
  <2>2. \A p \in reg.applied : booked'[p] > 0
    BY <1>6, <2>1 DEF OrderInv, TypeOK
  <2> QED
    BY <1>5, <2>2 DEF MarksOK
<1>13. TradesOK'
  <2>1. th'["ws"].pc \notin FillSteps
    BY <1>7 DEF FillSteps
  <2>2. ASSUME NEW t \in Trades
        PROVE tradeBooked'[t] <= 1 /\ (tradeBooked'[t] = 1 => t \in reg'.seen)
    <3>1. CASE t = tr
      BY <1>3, <1>5, <1>8, <3>1
    <3>2. CASE t # tr
      BY <1>5, <1>8, <3>2 DEF OrderInv, TradesOK
    <3> QED
      BY <3>1, <3>2
  <2> QED
    BY <2>1, <2>2 DEF TradesOK
<1> QED
  BY <1>9, <1>10, <1>11, <1>12, <1>13 DEF OrderInv

-----------------------------------------------------------------------------
LEMMA Inv_Next == OrderInv /\ [Next]_<<vars, env>> => OrderInv'
<1> SUFFICES ASSUME OrderInv, [Next]_<<vars, env>> PROVE OrderInv'
  OBVIOUS
<1>1. CASE UNCHANGED <<vars, env>>
  <2>1. UNCHANGED <<reg, issued, reserved, booked, tradeBooked, ex, net,
                    failures, env, th>>
    BY <1>1 DEF vars
  <2>2. TypeOK' /\ ExchangeOK'
    BY <2>1 DEF OrderInv, TypeOK, ExchangeOK
  <2>3. LocalsOK' /\ MarksOK' /\ TradesOK'
    BY <2>1 DEF OrderInv, LocalsOK, MarksOK, TradesOK
  <2> QED
    BY <2>2, <2>3 DEF OrderInv
<1>2. CASE Step /\ UNCHANGED env
  <2>1. ASSUME NEW o \in Orders,
               \/ Execute(o) \/ Watchdog(o) \/ Cleanup(o) \/ ReconcileSnapshot(o)
               \/ ExchangeFill(o) \/ ExchangeCancel(o)
        PROVE OrderInv'
    BY <1>2, <2>1, Inv_Execute, Inv_Periodic, Inv_Exchange
  <2>2. ASSUME NEW key \in IntentKeys, ForgetIntent(key) PROVE OrderInv'
    BY <1>2, <2>2, Inv_ForgetIntent
  <2>3. ASSUME NEW i \in DOMAIN net, Deliver(i) \/ LoseMessage(i) PROVE OrderInv'
    BY <1>2, <2>3, Inv_FillEvent, Inv_OrderMessage, Inv_LoseMessage DEF Deliver
  <2>4. CASE TickSteps
    BY <1>2, <2>4, Inv_Entry, Inv_Submit, Inv_Poll, Inv_MarketFill, Inv_Cancel
    DEF TickSteps, CancelSteps
  <2>5. CASE RestSteps
    BY <1>2, <2>5, Inv_ReconcileQuery, Inv_Cancel DEF RestSteps, CancelSteps
  <2>6. CASE WsSteps
    BY <1>2, <2>6, Inv_Fill, Inv_FillApply, Inv_OrderUpdate DEF WsSteps
  <2> QED
    BY <1>2, <2>1, <2>2, <2>3, <2>4, <2>5, <2>6 DEF Step
<1> QED
  BY <1>1, <1>2 DEF Next

(* Every reachable state of the order path has its type, the exchange      *)
(* never executes an order beyond its quantity, and a thread that books or *)
(* marks a fill has one.                                                   *)
THEOREM OrdersTypeCorrect == Spec => [](TypeOK /\ ExchangeOK /\ LocalsOK)
<1>1. OrderInv => TypeOK /\ ExchangeOK /\ LocalsOK
  BY DEF OrderInv
<1> QED
  BY <1>1, Inv_Init, Inv_Next, PTL DEF Spec

(* check_and_mark_trade_id_seen: for any number of orders and trades, and  *)
(* whatever the channel repeats, reorders or loses, a trade changes the    *)
(* portfolio at most once through fill events.                             *)
THEOREM TradesAreBookedOnce == Spec => []TradeBookedOnce
<1>1. OrderInv => TradeBookedOnce
  BY DEF OrderInv, TradesOK, TradeBookedOnce
<1> QED
  BY <1>1, Inv_Init, Inv_Next, PTL DEF Spec

(* mark_fill_applied: an order left with the mark has been booked, so the  *)
(* callers that skip it on the mark do not lose a fill - whichever of the  *)
(* poll, the fill events and the order update came first.                  *)
THEOREM MarkedIsBooked == Spec => []AppliedIsBooked
<1>1. OrderInv => AppliedIsBooked
  <2> SUFFICES ASSUME OrderInv, NEW o \in reg.applied, Quiet(o) PROVE booked[o] > 0
    BY DEF AppliedIsBooked
  <2>1. th["ws"].o # o
    BY DEF Quiet, Threads
  <2> QED
    BY <2>1 DEF OrderInv, MarksOK
<1> QED
  BY <1>1, Inv_Init, Inv_Next, PTL DEF Spec

-----------------------------------------------------------------------------
(* The life of a record.  The pc's of the threads by what they are about.  *)
Entering == {"reserve", "record", "submit", "accepted", "reject", "rejected"}
Polling == {"poll", "retry", "unconfirmed", "market_fill", "market_read",
            "market_transition", "market_record", "market_apply", "market_mark"}
Copied == {"fill", "fill_record", "fill_apply", "update_check", "update_new",
           "update_applied"}

FirstCopy == [NoRecord EXCEPT !.state = "PendingAck"]
RejectedCopy == [FirstCopy EXCEPT !.state = "Rejected"]
AcceptedCopy == [FirstCopy EXCEPT !.exch = TRUE]

(* A record has a state machine that has left New; an order that can be    *)
(* found by exchange id has a record that knows the id, and no other has   *)
(* filled anything; what is booked holds no margin; and a thread works on  *)
(* an order that has a record.                                             *)
RecordsOK ==
  /\ \A o \in Orders : reg.orders[o].state # "none" =>
       reg.fsm[o] \notin {"none", "New"} /\ o \in issued
  /\ \A o \in reg.index : reg.orders[o].state # "none" /\ reg.orders[o].exch
  /\ \A o \in Orders \ reg.index : ~reg.orders[o].exch /\ reg.orders[o].filled = 0
  /\ \A o \in Orders : booked[o] > 0 => o \in issued /\ o \notin reserved
  /\ \A t \in Threads : th[t].pc # "idle" => reg.orders[th[t].o].state # "none"

(* An order that is being sent cannot be found by exchange id yet, and the *)
(* feed works only on orders that can be.                                  *)
CopiesOK ==
  /\ th["tick"].pc \in Entering =>
       /\ th["tick"].o \notin reg.index /\ booked[th["tick"].o] = 0
       /\ th["tick"].rec = FirstCopy
  /\ th["tick"].pc \in Polling => th["tick"].o \in env.market
  /\ th["ws"].pc # "idle" => th["ws"].o \in reg.index
  /\ th["ws"].pc \in Copied => th["ws"].rec.exch /\ th["ws"].rec.state # "none"
  /\ th["ws"].pc = "update_applied" => booked[th["ws"].o] > 0

(* The copy of a limit order's record that the feed holds is not behind.   *)
Current(local, filled) ==
  /\ local.pc \in {"fill", "update_check"} => local.rec.filled = filled
  /\ local.pc = "fill_record" => local.rec.filled = filled + 1
  /\ local.pc \in {"update_new", "update_applied"} => local.rec.filled >= filled

CurrentOK ==
  th["ws"].pc # "idle" /\ th["ws"].o \notin env.market =>
    Current(th["ws"], reg.orders[th["ws"].o].filled)

LifeInv == OrderInv /\ RecordsOK /\ CopiesOK /\ CurrentOK

-----------------------------------------------------------------------------
(* Without the reconciliation: the thread that ends an order also releases *)
(* its margin.                                                             *)
Releasing(o) ==
  \/ /\ th["tick"].o = o
     /\ th["tick"].pc \in {"rejected", "cancel_release", "market_record", "market_apply"}
  \/ /\ th["ws"].o = o
     /\ \/ th["ws"].pc \in {"fill_record", "fill_apply", "update_release", "update_mark",
                            "update_apply"}
        \/ th["ws"].pc = "update_read" /\ reg.orders[o].state = "Filled"
        \/ th["ws"].pc \in {"update_check", "update_new"} /\ th["ws"].rec.state = "Filled"

ReleaseOK ==
  ~env.reconciling =>
    /\ th["rest"].pc = "idle"
    /\ th["tick"].pc \in Entering \ {"rejected"} => reg.fsm[th["tick"].o] = "PendingAck"
    /\ \A o \in Orders : is_terminal(reg.fsm[o]) /\ o \in reserved => Releasing(o)

-----------------------------------------------------------------------------
(* With answered requests: an order that is live, or about to be, holds    *)
(* its margin until it ends or something of it is booked.                  *)
Sending(o) == th["tick"].o = o /\ th["tick"].pc \in {"record", "submit"}

HoldOK ==
  Orderly =>
    /\ \A t \in Threads : th[t].pc # "cancel_failed"
    /\ \A t \in Threads : th[t].pc \in {"cancel_release", "update_release"} =>
         is_terminal(reg.fsm[th[t].o])
    /\ \A o \in Orders : reg.fsm[o] # "UnknownRecovery"
    /\ th["tick"].pc \in {"reject", "rejected"} => ex[th["tick"].o].status = "none"
    /\ \A o \in Orders \ env.market :
         (Live(o) \/ Sending(o)) /\ booked[o] = 0 /\ is_active(reg.fsm[o]) => o \in reserved

-----------------------------------------------------------------------------
(* With a channel that only repeats: the messages of an order are in       *)
(* order, the last one is its end, and neither the record nor the booking  *)
(* has reached a fill that was not seen.                                   *)
Filling == {"fill", "fill_record", "fill_apply", "fill_mark"}
Ending == {"filled", "cancelled", "update_release", "update_read", "update_check",
           "update_new", "update_applied", "update_mark", "update_apply"}

Ended(o) == ex[o].status \in {"filled", "cancelled"}

ChannelOK ==
  /\ \A i \in DOMAIN net :
       /\ net[i].k <= ex[net[i].o].filled
       /\ net[i].kind # "fill" => Ended(net[i].o)
  /\ \A i, j \in DOMAIN net : i < j /\ net[i].o = net[j].o =>
       net[i].kind = "fill" /\ (net[j].kind = "fill" => net[i].k < net[j].k)

UnseenOK ==
  \A i \in DOMAIN net :
    /\ net[i].kind = "fill" /\ net[i].o \notin env.market
    /\ <<net[i].o, net[i].k>> \notin reg.seen
    => reg.orders[net[i].o].filled < net[i].k /\ booked[net[i].o] < net[i].k

BookingsOK ==
  \A o \in Orders \ env.market :
    /\ reg.orders[o].filled <= ex[o].filled
    /\ booked[o] <= ex[o].filled
    /\ o \in reg.index /\ booked[o] > 0 =>
         o \in reg.applied \/ (th["ws"].pc = "fill_mark" /\ th["ws"].o = o)

FeedOK ==
  LET w == th["ws"]
      o == w.o
  IN  /\ w.pc \in Filling =>
           /\ w.q <= ex[o].filled
           /\ <<o, w.q>> \in reg.seen
           /\ \A j \in DOMAIN net : net[j].kind = "fill" /\ net[j].o = o => net[j].k >= w.q
           /\ o \notin env.market =>
                /\ w.pc = "fill" => w.rec.filled < w.q
                /\ w.pc \in {"fill_record", "fill_apply"} => w.rec.filled <= w.q
                /\ w.pc # "fill_mark" => booked[o] < w.q
                /\ reg.orders[o].filled <= w.q /\ booked[o] <= w.q
      /\ w.pc \in Ending =>
           /\ Ended(o) /\ w.q <= ex[o].filled
           /\ \A j \in DOMAIN net : net[j].o = o => net[j].kind # "fill"
           /\ o \notin env.market =>
                /\ w.pc \in {"update_new", "update_applied", "update_mark", "update_apply"} =>
                     w.rec.filled <= ex[o].filled
                /\ w.pc \in {"update_new", "update_mark", "update_apply"} => booked[o] = 0
                /\ w.pc = "update_apply" => o \in reg.applied

SequenceOK == Orderly => ChannelOK /\ UnseenOK /\ BookingsOK /\ FeedOK

-----------------------------------------------------------------------------
(* What the calls of the registry and the moves of the threads do, field   *)
(* by field.                                                               *)
Transits(o, s) ==
  LET can == CanTransition(reg, o, s)
  IN  /\ reg' \in Registry
      /\ UNCHANGED <<reg.index, reg.applied, reg.seen>>
      /\ \A p \in Orders : reg'.fsm[p] = IF can /\ p = o THEN s ELSE reg.fsm[p]
      /\ \A p \in Orders :
           /\ reg'.orders[p].state = IF can /\ p = o THEN s ELSE reg.orders[p].state
           /\ reg'.orders[p].filled = reg.orders[p].filled
           /\ reg'.orders[p].exch = reg.orders[p].exch

Writes(o, rec) ==
  /\ reg' \in Registry
  /\ UNCHANGED <<reg.fsm, reg.applied, reg.seen>>
  /\ reg'.index = IF rec.exch THEN reg.index \cup {o} ELSE reg.index
  /\ reg'.orders[o] = rec
  /\ \A p \in Orders \ {o} : reg'.orders[p] = reg.orders[p]

Marks(o) ==
  /\ reg' \in Registry
  /\ UNCHANGED <<reg.fsm, reg.orders, reg.index, reg.seen>>
  /\ reg'.applied = reg.applied \cup {o}

Others(t) == \A u \in Threads \ {t} : th'[u] = th[u]

Jumps(t, pc) ==
  /\ th'[t].pc = pc /\ th'[t].o = th[t].o /\ th'[t].rec = th[t].rec /\ th'[t].q = th[t].q
  /\ Others(t)

Stops(t) == th'[t] = Idle /\ Others(t)

LEMMA Transiting ==
  ASSUME reg \in Registry, NEW o \in Orders, NEW s \in States, reg' = transition(reg, o, s)
  PROVE Transits(o, s)
<1> DEFINE e == [reg EXCEPT !.fsm[o] = s, !.orders[o].state = s]
<1>1. reg' \in Registry
  BY TransitionKeeps
<1>2. CASE ~CanTransition(reg, o, s)
  BY <1>1, <1>2 DEF transition, Transits
<1>3. CASE CanTransition(reg, o, s)
  <2>1. reg' = e
    BY <1>3 DEF transition
  <2>2. e.fsm = [reg.fsm EXCEPT ![o] = s] /\ e.orders = [reg.orders EXCEPT ![o].state = s]
    BY DEF Registry
  <2>3. e.index = reg.index /\ e.applied = reg.applied /\ e.seen = reg.seen
    BY DEF Registry
  <2> HIDE DEF e
  <2>4. reg.fsm \in [Orders -> States \cup {"none"}] /\ reg.orders \in [Orders -> OrderRecords]
    BY DEF Registry
  <2>5. \A p \in Orders : reg'.fsm[p] = IF p = o THEN s ELSE reg.fsm[p]
    BY <2>1, <2>2, <2>4
  <2>6. \A p \in Orders :
          /\ reg'.orders[p].state = IF p = o THEN s ELSE reg.orders[p].state
          /\ reg'.orders[p].filled = reg.orders[p].filled
          /\ reg'.orders[p].exch = reg.orders[p].exch
    BY <2>1, <2>2, <2>4 DEF OrderRecords
  <2> QED
    BY <1>1, <1>3, <2>1, <2>3, <2>5, <2>6 DEF Transits
<1> QED
  BY <1>2, <1>3

LEMMA Writing ==
  ASSUME reg \in Registry, NEW o \in Orders, NEW rec \in OrderRecords,
         reg.orders[o].state # "none", reg' = update_order(reg, o, rec)
  PROVE Writes(o, rec)
<1>1. reg' \in Registry
  BY UpdateOrderKeeps
<1>2. reg' = [reg EXCEPT !.orders[o] = rec,
                         !.index = IF rec.exch THEN @ \cup {o} ELSE @]
  BY DEF update_order
<1>3. /\ reg'.orders = [reg.orders EXCEPT ![o] = rec]
      /\ reg'.index = IF rec.exch THEN reg.index \cup {o} ELSE reg.index
      /\ reg'.fsm = reg.fsm /\ reg'.applied = reg.applied /\ reg'.seen = reg.seen
  BY <1>2 DEF Registry
<1> QED
  BY <1>1, <1>3 DEF Writes, Registry

LEMMA Marking ==
  ASSUME reg \in Registry, NEW o \in Orders, reg' = mark_fill_applied(reg, o)
  PROVE Marks(o)
BY MarkKeeps DEF mark_fill_applied, Marks, Registry

LEMMA Jumping ==
  ASSUME th \in [Threads -> ThreadState], NEW t \in Threads, NEW pc, Goto(t, pc)
  PROVE Jumps(t, pc)
BY DEF Goto, ThreadState, Jumps, Others

LEMMA Stopping ==
  ASSUME th \in [Threads -> ThreadState], NEW t \in Threads, Return(t)
  PROVE Stops(t)
BY DEF Return, Stops, Others

(* The thread's order, its record and the types, for the lemmas below.     *)
LEMMA WorksOn ==
  ASSUME LifeInv, NEW t \in Threads, th[t].pc # "idle"
  PROVE /\ th[t].o \in Orders /\ reg.orders[th[t].o].state # "none"
        /\ th[t].rec \in OrderRecords /\ th[t].q \in Nat
        /\ th[t].o \in issued /\ reg.fsm[th[t].o] \in States \ {"New"}
        /\ reg.orders[th[t].o] \in OrderRecords
<1>1. th[t].o \in Orders /\ th[t].rec \in OrderRecords /\ th[t].q \in Nat
  BY Working DEF LifeInv
<1>2. reg.orders[th[t].o].state # "none"
  BY DEF LifeInv, RecordsOK
<1>3. reg.fsm[th[t].o] \in States \cup {"none"} /\ reg.orders[th[t].o] \in OrderRecords
  BY <1>1 DEF LifeInv, OrderInv, TypeOK, Registry
<1> QED
  BY <1>1, <1>2, <1>3 DEF LifeInv, RecordsOK

LEMMA LifeTypes ==
  ASSUME LifeInv
  PROVE /\ reg \in Registry /\ th \in [Threads -> ThreadState]
        /\ booked \in [Orders -> Nat] /\ reserved \subseteq Orders /\ issued \subseteq Orders
        /\ reg.fsm \in [Orders -> States \cup {"none"}]
        /\ reg.orders \in [Orders -> OrderRecords]
        /\ reg.index \subseteq Orders /\ reg.applied \subseteq Orders
        /\ "tick" \in Threads /\ "ws" \in Threads /\ "rest" \in Threads
BY DEF LifeInv, OrderInv, TypeOK, Registry, Threads

-----------------------------------------------------------------------------
(* What each action does, in these terms.                                  *)
ExecuteEffect(o) ==
  /\ th["tick"].pc = "idle" /\ o \notin issued /\ issued' = issued \cup {o}
  /\ \A p \in Orders : ~is_active(reg.orders[p].state)
  /\ reg' \in Registry
  /\ UNCHANGED <<reg.index, reg.applied, reg.seen>>
  /\ reg'.fsm[o] = "PendingAck" /\ reg'.orders[o] = FirstCopy
  /\ \A p \in Orders \ {o} : reg'.fsm[p] = reg.fsm[p] /\ reg'.orders[p] = reg.orders[p]
  /\ th'["tick"].pc = "reserve" /\ th'["tick"].o = o /\ th'["tick"].rec = FirstCopy
  /\ Others("tick")
  /\ UNCHANGED <<reserved, booked, ex, net, env>>

Local == UNCHANGED <<issued, ex, net, env>>

ReserveEffect ==
  /\ th["tick"].pc = "reserve"
  /\ \/ Jumps("tick", "record") /\ reserved' = reserved \cup {th["tick"].o}
     \/ Jumps("tick", "reject") /\ reserved' = reserved
  /\ UNCHANGED <<reg, booked>> /\ Local

RecordEffect ==
  /\ th["tick"].pc = "record"
  /\ Writes(th["tick"].o, FirstCopy)
  /\ Jumps("tick", "submit")
  /\ UNCHANGED <<reserved, booked>> /\ Local

SubmitEffect ==
  /\ th["tick"].pc = "submit"
  /\ \/ /\ ex'[th["tick"].o].status = "live"
        /\ ex'[th["tick"].o].filled = ex[th["tick"].o].filled
        /\ \A p \in Orders \ {th["tick"].o} : ex'[p] = ex[p]
        /\ \/ Jumps("tick", "accepted")
           \/ Jumps("tick", "reject") /\ "submit_reply_lost" \in env.faults
     \/ ex' = ex /\ Jumps("tick", "reject")
  /\ UNCHANGED <<reg, issued, reserved, booked, net, env>>

RejectEffect ==
  /\ th["tick"].pc = "reject"
  /\ Transits(th["tick"].o, "Rejected")
  /\ Jumps("tick", "rejected")
  /\ UNCHANGED <<reserved, booked>> /\ Local

RejectedEffect ==
  /\ th["tick"].pc = "rejected"
  /\ Writes(th["tick"].o, RejectedCopy)
  /\ reserved' = reserved \ {th["tick"].o}
  /\ Stops("tick")
  /\ UNCHANGED booked /\ Local

AcceptedEffect ==
  /\ th["tick"].pc = "accepted"
  /\ Writes(th["tick"].o, AcceptedCopy)
  /\ \/ /\ th["tick"].o \in env.market
        /\ th'["tick"].pc = "poll" /\ th'["tick"].o = th["tick"].o
        /\ Others("tick")
     \/ th["tick"].o \notin env.market /\ Stops("tick")
  /\ UNCHANGED <<reserved, booked>> /\ Local

LEMMA Effect_Execute ==
  ASSUME LifeInv, UNCHANGED env, NEW o \in Orders, Execute(o)
  PROVE ExecuteEffect(o)
<1>1. /\ reg \in Registry /\ th \in [Threads -> ThreadState] /\ "tick" \in Threads
      /\ reg.fsm \in [Orders -> States \cup {"none"}]
      /\ reg.orders \in [Orders -> OrderRecords]
  BY LifeTypes
<1> DEFINE r == register_order(reg, o)
<1>2. r \in Registry
  BY <1>1, RegisterKeeps
<1>3. r = [reg EXCEPT !.orders[o] = [NoRecord EXCEPT !.state = "New"], !.fsm[o] = "New"]
  BY DEF register_order
<1>4. /\ r.orders = [reg.orders EXCEPT ![o] = [NoRecord EXCEPT !.state = "New"]]
      /\ r.fsm = [reg.fsm EXCEPT ![o] = "New"]
      /\ r.index = reg.index /\ r.applied = reg.applied /\ r.seen = reg.seen
  BY <1>1, <1>3 DEF Registry
<1>5. /\ r.orders[o] = [NoRecord EXCEPT !.state = "New"] /\ r.fsm[o] = "New"
      /\ \A p \in Orders \ {o} : r.fsm[p] = reg.fsm[p] /\ r.orders[p] = reg.orders[p]
  BY <1>1, <1>4
<1>6. reg' = transition(r, o, "PendingAck")
  BY DEF Execute
<1> HIDE DEF r
<1>7. CanTransition(r, o, "PendingAck")
  BY <1>5 DEF CanTransition, is_valid_transition, is_terminal, Successors
<1>8. reg' = [r EXCEPT !.fsm[o] = "PendingAck", !.orders[o].state = "PendingAck"]
  BY <1>6, <1>7 DEF transition
<1>9. /\ reg'.fsm = [r.fsm EXCEPT ![o] = "PendingAck"]
      /\ reg'.orders = [r.orders EXCEPT ![o].state = "PendingAck"]
      /\ reg'.index = r.index /\ reg'.applied = r.applied /\ reg'.seen = r.seen
  BY <1>2, <1>8 DEF Registry
<1>10. /\ reg'.fsm[o] = "PendingAck" /\ reg'.orders[o] = FirstCopy
       /\ \A p \in Orders \ {o} : reg'.fsm[p] = r.fsm[p] /\ reg'.orders[p] = r.orders[p]
  <2>1. r.fsm \in [Orders -> States \cup {"none"}] /\ r.orders \in [Orders -> OrderRecords]
    BY <1>2 DEF Registry
  <2>2. [r.orders[o] EXCEPT !.state = "PendingAck"] = FirstCopy
    BY <1>5 DEF FirstCopy, NoRecord
  <2> QED
    BY <1>9, <2>1, <2>2
<1>11. reg' \in Registry
  BY <1>2, <1>6, TransitionKeeps DEF States
<1> DEFINE new == [Idle EXCEPT !.pc = "reserve", !.o = o, !.rec = FirstCopy]
<1>12. th' = [th EXCEPT !["tick"] = new] /\ new.pc = "reserve" /\ new.o = o /\ new.rec = FirstCopy
  BY DEF Execute, FirstCopy, Idle
<1> HIDE DEF new
<1>13. /\ th'["tick"].pc = "reserve" /\ th'["tick"].o = o /\ th'["tick"].rec = FirstCopy
       /\ Others("tick")
  BY <1>1, <1>12 DEF Others
<1>14. \A p \in Orders : ~is_active(reg.orders[p].state)
  BY DEF Execute, ActiveOrders
<1> QED
  BY <1>4, <1>5, <1>9, <1>10, <1>11, <1>13, <1>14
  DEF ExecuteEffect, Execute, At, portfolio, exchange

(* The copies of the record that execute() writes.                         *)
LEMMA EntryCopies ==
  /\ FirstCopy \in OrderRecords /\ RejectedCopy \in OrderRecords /\ AcceptedCopy \in OrderRecords
  /\ FirstCopy.state = "PendingAck" /\ FirstCopy.filled = 0 /\ FirstCopy.exch = FALSE
  /\ RejectedCopy.state = "Rejected" /\ RejectedCopy.filled = 0 /\ RejectedCopy.exch = FALSE
  /\ AcceptedCopy.state = "PendingAck" /\ AcceptedCopy.filled = 0 /\ AcceptedCopy.exch = TRUE
<1>1. /\ FirstCopy \in OrderRecords
      /\ FirstCopy.state = "PendingAck" /\ FirstCopy.filled = 0 /\ FirstCopy.exch = FALSE
  BY DEF FirstCopy, NoRecord, OrderRecords, States
<1>2. /\ RejectedCopy \in OrderRecords
      /\ RejectedCopy.state = "Rejected" /\ RejectedCopy.filled = 0 /\ RejectedCopy.exch = FALSE
  BY <1>1 DEF RejectedCopy, OrderRecords, States
<1>3. /\ AcceptedCopy \in OrderRecords
      /\ AcceptedCopy.state = "PendingAck" /\ AcceptedCopy.filled = 0 /\ AcceptedCopy.exch = TRUE
  BY <1>1 DEF AcceptedCopy, OrderRecords
<1> QED
  BY <1>1, <1>2, <1>3

LEMMA Effect_Entry ==
  ASSUME LifeInv, UNCHANGED env
  PROVE /\ Reserve => ReserveEffect
        /\ Record => RecordEffect
        /\ Submit => SubmitEffect
        /\ Reject => RejectEffect
        /\ Rejected => RejectedEffect
        /\ Accepted => AcceptedEffect
<1> DEFINE o == th["tick"].o
<1>1. /\ reg \in Registry /\ th \in [Threads -> ThreadState] /\ "tick" \in Threads
      /\ th["tick"].pc # "idle" => o \in Orders /\ reg.orders[o].state # "none"
      /\ th["tick"].pc \in Entering => th["tick"].rec = FirstCopy
  BY LifeTypes, WorksOn DEF LifeInv, CopiesOK
<1>2. FirstCopy \in OrderRecords /\ RejectedCopy \in OrderRecords /\ AcceptedCopy \in OrderRecords
  BY EntryCopies
<1>3. {"Rejected"} \subseteq States
  BY DEF States
<1> USE DEF At, portfolio, exchange, Entering, Local
<1>4. ASSUME Reserve PROVE ReserveEffect
  <2>1. CASE Goto("tick", "record") /\ reserved' = reserved \cup {o}
    BY <1>1, <1>4, <2>1, Jumping DEF Reserve, ReserveEffect
  <2>2. CASE Goto("tick", "reject") /\ reserved' = reserved
    BY <1>1, <1>4, <2>2, Jumping DEF Reserve, ReserveEffect
  <2> QED
    BY <1>4, <2>1, <2>2 DEF Reserve
<1>5. ASSUME Record PROVE RecordEffect
  BY <1>1, <1>2, <1>5, Jumping, Writing DEF Record, RecordEffect
<1>6. ASSUME Submit PROVE SubmitEffect
  <2>1. ex \in [Orders -> ExchangeOrder] /\ o \in Orders
    BY <1>1, <1>6 DEF Submit, LifeInv, OrderInv, TypeOK
  <2>2. ASSUME ex' = [ex EXCEPT ![o].status = "live"]
        PROVE /\ ex'[o].status = "live" /\ ex'[o].filled = ex[o].filled
              /\ \A p \in Orders \ {o} : ex'[p] = ex[p]
    BY <2>1, <2>2 DEF ExchangeOrder
  <2>3. \A pc : Goto("tick", pc) => Jumps("tick", pc)
    BY <1>1, Jumping
  <2>4. \/ /\ ex' = [ex EXCEPT ![o].status = "live"]
           /\ \/ Goto("tick", "accepted")
              \/ "submit_reply_lost" \in env.faults /\ Goto("tick", "reject")
        \/ ex' = ex /\ Goto("tick", "reject")
    BY <1>6 DEF Submit
  <2>5. th["tick"].pc = "submit" /\ UNCHANGED <<reg, issued, reserved, booked, net, env>>
    BY <1>6 DEF Submit
  <2> QED
    BY <2>2, <2>3, <2>4, <2>5 DEF SubmitEffect
<1>7. ASSUME Reject PROVE RejectEffect
  BY <1>1, <1>3, <1>7, Jumping, Transiting DEF Reject, RejectEffect
<1>8. ASSUME Rejected PROVE RejectedEffect
  BY <1>1, <1>2, <1>8, Stopping, Writing DEF Rejected, RejectedEffect, RejectedCopy
<1>9. ASSUME Accepted PROVE AcceptedEffect
  <2> DEFINE rec == AcceptedCopy
             u == update_order(reg, o, rec)
  <2>1. reg' = record_intent(u, IntentOf[o]) /\ o \in Orders
    BY <1>1, <1>9 DEF Accepted, AcceptedCopy
  <2>2. u \in Registry /\ IntentOf[o] \in IntentKeys
    BY <1>1, <1>2, <2>1, UpdateOrderKeeps, OrderExecutionAssumption
  <2>3. u = [reg EXCEPT !.orders[o] = rec, !.index = @ \cup {o}]
    BY <1>1, <1>9, EntryCopies DEF update_order, Accepted
  <2>4. /\ u.orders = [reg.orders EXCEPT ![o] = rec] /\ u.index = reg.index \cup {o}
        /\ u.fsm = reg.fsm /\ u.applied = reg.applied /\ u.seen = reg.seen
    BY <1>1, <2>3 DEF Registry
  <2> HIDE DEF u
  <2>5. /\ reg' \in Registry /\ reg'.orders = u.orders /\ reg'.index = u.index
        /\ reg'.fsm = u.fsm /\ reg'.applied = u.applied /\ reg'.seen = u.seen
    BY <2>1, <2>2, IntentsKeep DEF record_intent, Registry
  <2>6. rec.exch = TRUE
    BY EntryCopies
  <2>7. Writes(o, rec)
    BY <1>1, <2>1, <2>4, <2>5, <2>6 DEF Writes, Registry
  <2> DEFINE new == IF o \in env.market
                    THEN [th["tick"] EXCEPT !.pc = "poll", !.rec = rec] ELSE Idle
  <2>8. th' = [th EXCEPT !["tick"] = new]
    BY <1>1, <1>9 DEF Accepted, AcceptedCopy
  <2>9. /\ o \in env.market => new.pc = "poll" /\ new.o = o
        /\ o \notin env.market => new = Idle
    BY <1>1 DEF ThreadState
  <2> HIDE DEF new
  <2>10. th'["tick"] = new /\ Others("tick")
    BY <1>1, <2>8 DEF Others
  <2> QED
    BY <1>9, <2>7, <2>9, <2>10 DEF Accepted, AcceptedEffect, Stops
<1> QED
  BY <1>4, <1>5, <1>6, <1>7, <1>8, <1>9

(* The polls: another attempt or a confirmed quantity; or the order is     *)
(* given up, as unknown, not executed or open.                             *)
PollEffect ==
  /\ th["tick"].pc \in {"poll", "retry"}
  /\ th'["tick"].pc \in {"retry", "unconfirmed", "market_fill"}
  /\ th'["tick"].o = th["tick"].o /\ Others("tick")
  /\ UNCHANGED <<reg, reserved, booked>> /\ Local

GiveUpEffect ==
  /\ th["tick"].pc \in {"poll", "retry", "unconfirmed"}
  /\ \/ /\ Transits(th["tick"].o, "UnknownRecovery") /\ "garbled_reply" \in env.faults
        /\ reserved' = reserved \/ reserved' = reserved \ {th["tick"].o}
     \/ /\ Transits(th["tick"].o, "Cancelled") /\ "garbled_reply" \in env.faults
        /\ reserved' = reserved \ {th["tick"].o}
     \/ Transits(th["tick"].o, "Open") /\ reserved' = reserved
  /\ Stops("tick")
  /\ UNCHANGED booked /\ Local

(* process_market_fill.                                                    *)
MarketReadEffect ==
  /\ th["tick"].pc \in {"market_fill", "market_read"}
  /\ \/ /\ th'["tick"].pc \in {"market_read", "market_transition"}
        /\ th'["tick"].o = th["tick"].o /\ Others("tick")
     \/ Stops("tick")
  /\ UNCHANGED <<reg, reserved, booked>> /\ Local

MarketTransitionEffect ==
  /\ th["tick"].pc = "market_transition"
  /\ Transits(th["tick"].o, "Filled")
  /\ IF CanTransition(reg, th["tick"].o, "Filled") THEN Jumps("tick", "market_record")
                                                   ELSE Stops("tick")
  /\ UNCHANGED <<reserved, booked>> /\ Local

MarketRecordEffect ==
  /\ th["tick"].pc = "market_record"
  /\ Writes(th["tick"].o, [state |-> "Filled", filled |-> th["tick"].q, exch |-> TRUE])
  /\ Jumps("tick", "market_apply")
  /\ UNCHANGED <<reserved, booked>> /\ Local

Books(o, q) ==
  /\ booked'[o] = booked[o] + q
  /\ \A p \in Orders \ {o} : booked'[p] = booked[p]
  /\ reserved' = reserved \ {o}

MarketApplyEffect ==
  /\ th["tick"].pc = "market_apply"
  /\ Books(th["tick"].o, th["tick"].q)
  /\ Jumps("tick", "market_mark")
  /\ UNCHANGED reg /\ Local

MarketMarkEffect ==
  /\ th["tick"].pc = "market_mark"
  /\ Marks(th["tick"].o)
  /\ Stops("tick")
  /\ UNCHANGED <<reserved, booked>> /\ Local

LEMMA Booking ==
  ASSUME LifeInv, NEW o \in Orders, NEW q \in Nat, apply_fill(o, q)
  PROVE Books(o, q)
BY LifeTypes DEF apply_fill, Books

LEMMA Effect_Market ==
  ASSUME LifeInv, UNCHANGED env
  PROVE /\ Poll => PollEffect \/ GiveUpEffect
        /\ PollNoFill \/ Unconfirmed => GiveUpEffect
        /\ MarketFillCheck \/ MarketFillRead => MarketReadEffect
        /\ MarketFillTransition => MarketTransitionEffect
        /\ MarketFillRecord => MarketRecordEffect
        /\ MarketFillApply => MarketApplyEffect
        /\ MarketFillMark => MarketMarkEffect
<1> DEFINE o == th["tick"].o
<1>1. /\ reg \in Registry /\ th \in [Threads -> ThreadState] /\ "tick" \in Threads
      /\ th["tick"].pc # "idle" =>
           o \in Orders /\ reg.orders[o].state # "none" /\ th["tick"].q \in Nat
  BY LifeTypes, WorksOn
<1>2. {"UnknownRecovery", "Cancelled", "Open", "Filled"} \subseteq States
  BY DEF States
<1> USE DEF At, portfolio, exchange, Local
<1>3. ASSUME Poll PROVE PollEffect \/ GiveUpEffect
  <2>1. th["tick"].pc \in {"poll", "retry"} /\ UNCHANGED <<booked, issued, ex, net, env>>
    BY <1>3 DEF Poll
  <2>2. CASE /\ th' = [th EXCEPT !["tick"].pc = "market_fill",
                                 !["tick"].q = ex[th["tick"].o].filled]
             /\ UNCHANGED <<reg, reserved>>
    <3>1. th'["tick"].pc = "market_fill" /\ th'["tick"].o = o /\ Others("tick")
      BY <1>1, <2>2 DEF ThreadState, Others
    <3> QED
      BY <2>1, <2>2, <3>1 DEF PollEffect
  <2>3. CASE /\ th' = [th EXCEPT !["tick"].pc =
                         IF @ = "poll" THEN "retry" ELSE "unconfirmed"]
             /\ UNCHANGED <<reg, reserved>>
    <3> DEFINE pc == IF th["tick"].pc = "poll" THEN "retry" ELSE "unconfirmed"
    <3>1. th' = [th EXCEPT !["tick"].pc = pc] /\ pc \in {"retry", "unconfirmed"}
      BY <1>1, <2>3
    <3> HIDE DEF pc
    <3>2. th'["tick"].pc = pc /\ th'["tick"].o = o /\ Others("tick")
      BY <1>1, <3>1 DEF ThreadState, Others
    <3> QED
      BY <2>1, <2>3, <3>1, <3>2 DEF PollEffect
  <2>4. CASE /\ "garbled_reply" \in env.faults
             /\ reg' = transition(reg, o, "UnknownRecovery")
             /\ reserved' = IF th["tick"].pc = "retry" THEN reserved \ {o} ELSE reserved
             /\ Return("tick")
    <3>1. Stops("tick") /\ Transits(o, "UnknownRecovery")
      BY <1>1, <1>2, <2>1, <2>4, Stopping, Transiting
    <3>2. reserved' = reserved \/ reserved' = reserved \ {o}
      BY <2>4
    <3> QED
      BY <2>1, <2>4, <3>1, <3>2 DEF GiveUpEffect
  <2> QED
    BY <1>3, <2>2, <2>3, <2>4 DEF Poll
<1>4. ASSUME PollNoFill \/ Unconfirmed PROVE GiveUpEffect
  <2>1. CASE PollNoFill
    BY <1>1, <1>2, <2>1, Stopping, Transiting DEF PollNoFill, GiveUpEffect
  <2>2. CASE Unconfirmed
    BY <1>1, <1>2, <2>2, Stopping, Transiting DEF Unconfirmed, GiveUpEffect
  <2> QED
    BY <1>4, <2>1, <2>2
<1>5. ASSUME MarketFillCheck \/ MarketFillRead PROVE MarketReadEffect
  <2>1. CASE MarketFillCheck
    <3>1. Stops("tick") \/ Jumps("tick", "market_read")
      BY <1>1, <2>1, Stopping, Jumping DEF MarketFillCheck
    <3> QED
      BY <2>1, <3>1 DEF MarketFillCheck, MarketReadEffect, Jumps
  <2>2. CASE MarketFillRead
    <3>1. th'["tick"].pc = "market_transition" /\ th'["tick"].o = o /\ Others("tick")
      BY <1>1, <2>2 DEF MarketFillRead, ThreadState, Others
    <3> QED
      BY <2>2, <3>1 DEF MarketFillRead, MarketReadEffect
  <2> QED
    BY <1>5, <2>1, <2>2
<1>6. ASSUME MarketFillTransition PROVE MarketTransitionEffect
  <2>1. Transits(o, "Filled")
    BY <1>1, <1>2, <1>6, Transiting DEF MarketFillTransition
  <2>2. IF CanTransition(reg, o, "Filled") THEN Jumps("tick", "market_record")
                                           ELSE Stops("tick")
    BY <1>1, <1>6, Stopping, Jumping DEF MarketFillTransition
  <2> QED
    BY <1>6, <2>1, <2>2 DEF MarketFillTransition, MarketTransitionEffect
<1>7. ASSUME MarketFillRecord PROVE MarketRecordEffect
  <2> DEFINE rec == [state |-> "Filled", filled |-> th["tick"].q, exch |-> TRUE]
  <2>1. rec \in OrderRecords
    BY <1>1, <1>2, <1>7 DEF MarketFillRecord, OrderRecords
  <2>2. Writes(o, rec) /\ Jumps("tick", "market_apply")
    BY <1>1, <1>7, <2>1, Writing, Jumping DEF MarketFillRecord
  <2> QED
    BY <1>7, <2>2 DEF MarketFillRecord, MarketRecordEffect
<1>8. ASSUME MarketFillApply PROVE MarketApplyEffect
  <2>1. Books(o, th["tick"].q) /\ Jumps("tick", "market_mark")
    BY <1>1, <1>8, Booking, Jumping DEF MarketFillApply
  <2> QED
    BY <1>8, <2>1 DEF MarketFillApply, MarketApplyEffect
<1>9. ASSUME MarketFillMark PROVE MarketMarkEffect
  BY <1>1, <1>9, Marking, Stopping DEF MarketFillMark, MarketMarkEffect
<1> QED
  BY <1>3, <1>4, <1>5, <1>6, <1>7, <1>8, <1>9

(* do_cancel, and the periodic tasks that call it.                         *)
Cancels(o) ==
  /\ ex'[o].status = "cancelled" /\ ex'[o].filled = ex[o].filled
  /\ \A p \in Orders \ {o} : ex'[p] = ex[p]
  /\ net' = Append(net, StatusMessage(o, "cancelled", ex[o].filled))

BeginCancelEffect(t) ==
  /\ th[t].pc = "cancel"
  /\ Transits(th[t].o, "CancelPending")
  /\ IF CanTransition(reg, th[t].o, "CancelPending")
     THEN /\ th'[t].pc = "cancel_request" /\ th'[t].o = th[t].o
          /\ th'[t].rec = reg.orders[th[t].o]
          /\ Others(t)
     ELSE Stops(t)
  /\ UNCHANGED <<reserved, booked>> /\ Local

CancelRequestEffect(t) ==
  LET live == th[t].rec.exch /\ ex[th[t].o].status = "live"
  IN  /\ th[t].pc = "cancel_request"
      /\ \/ live /\ Cancels(th[t].o)
         \/ UNCHANGED <<ex, net>> /\ (live => env.cancelFailures # 0)
      /\ \/ Jumps(t, "cancel_confirmed")
         \/ Jumps(t, "cancel_failed") /\ env.cancelFailures # 0
      /\ UNCHANGED <<reg, issued, reserved, booked, env>>

CancelConfirmedEffect(t) ==
  /\ th[t].pc = "cancel_confirmed"
  /\ Transits(th[t].o, "Cancelled")
  /\ Jumps(t, "cancel_release")
  /\ UNCHANGED <<reserved, booked>> /\ Local

CancelReleaseEffect(t) ==
  /\ th[t].pc = "cancel_release"
  /\ reserved' = reserved \ {th[t].o}
  /\ Stops(t)
  /\ UNCHANGED <<reg, booked>> /\ Local

CancelFailedEffect(t) ==
  LET o == th[t].o
  IN  /\ th[t].pc = "cancel_failed"
      /\ reg' \in Registry
      /\ UNCHANGED <<reg.index, reg.seen>> /\ reg'.applied = reg.applied \ {o}
      /\ reg'.fsm[o] = "UnknownRecovery" /\ reg'.orders[o].state = "UnknownRecovery"
      /\ reg'.orders[o].filled = reg.orders[o].filled
      /\ reg'.orders[o].exch = reg.orders[o].exch
      /\ \A p \in Orders \ {o} : reg'.fsm[p] = reg.fsm[p] /\ reg'.orders[p] = reg.orders[p]
      /\ Stops(t)
      /\ UNCHANGED <<reserved, booked>> /\ Local

FindEffect(t, o) ==
  /\ th[t].pc = "idle"
  /\ is_active(reg.orders[o].state)
  /\ \/ t = "tick" /\ th'[t].pc = "cancel"
     \/ t = "rest" /\ th'[t].pc = "query" /\ env.reconciling
  /\ th'[t].o = o /\ Others(t)
  /\ UNCHANGED <<reg, reserved, booked>> /\ Local

QueryEffect ==
  /\ th["rest"].pc = "query"
  /\ Jumps("rest", "cancel") \/ Stops("rest")
  /\ UNCHANGED <<reg, reserved, booked>> /\ Local

CleanupEffect(o) ==
  /\ th["tick"].pc = "idle"
  /\ is_terminal(reg.orders[o].state)
  /\ \A i \in DOMAIN net : net[i].o # o
  /\ \A t \in Threads : th[t].o # o
  /\ ex[o].status # "live"
  /\ reg' \in Registry
  /\ UNCHANGED <<reg.seen>>
  /\ reg'.applied = reg.applied \ {o} /\ reg'.index = reg.index \ {o}
  /\ reg'.fsm[o] = "none" /\ reg'.orders[o] = NoRecord
  /\ \A p \in Orders \ {o} : reg'.fsm[p] = reg.fsm[p] /\ reg'.orders[p] = reg.orders[p]
  /\ UNCHANGED <<reserved, booked, th>> /\ Local

ForgetEffect ==
  /\ reg' \in Registry
  /\ UNCHANGED <<reg.orders, reg.fsm, reg.index, reg.applied, reg.seen>>
  /\ UNCHANGED <<reserved, booked, th>> /\ Local

LEMMA Effect_Cancel ==
  ASSUME LifeInv, UNCHANGED env, NEW t \in {"tick", "rest"}
  PROVE /\ BeginCancel(t) => BeginCancelEffect(t)
        /\ CancelRequest(t) => CancelRequestEffect(t)
        /\ CancelConfirmed(t) => CancelConfirmedEffect(t)
        /\ CancelRelease(t) => CancelReleaseEffect(t)
        /\ CancelFailed(t) => CancelFailedEffect(t)
<1> DEFINE o == th[t].o
<1>1. /\ reg \in Registry /\ th \in [Threads -> ThreadState] /\ t \in Threads
      /\ th[t].pc # "idle" =>
           /\ o \in Orders /\ reg.orders[o].state # "none"
           /\ reg.fsm[o] \in States \ {"New"}
           /\ reg.orders[o] \in OrderRecords
  BY LifeTypes, WorksOn
<1>2. {"CancelPending", "Cancelled", "UnknownRecovery"} \subseteq States
  BY DEF States
<1> USE DEF At, portfolio, exchange, Local
<1>3. ASSUME BeginCancel(t) PROVE BeginCancelEffect(t)
  <2> DEFINE go == [th[t] EXCEPT !.pc = "cancel_request", !.rec = reg.orders[o]]
             new == IF CanTransition(reg, o, "CancelPending") THEN go ELSE Idle
  <2>1. Transits(o, "CancelPending")
    BY <1>1, <1>2, <1>3, Transiting DEF BeginCancel
  <2>2. th' = [th EXCEPT ![t] = new]
    BY <1>3 DEF BeginCancel
  <2>3. go.pc = "cancel_request" /\ go.o = o /\ go.rec = reg.orders[o]
    BY <1>1 DEF ThreadState
  <2> HIDE DEF go
  <2>4. th'[t] = new /\ Others(t)
    BY <1>1, <2>2 DEF Others
  <2>5. IF CanTransition(reg, o, "CancelPending")
        THEN /\ th'[t].pc = "cancel_request" /\ th'[t].o = o
             /\ th'[t].rec = reg.orders[o]
             /\ Others(t)
        ELSE Stops(t)
    BY <2>3, <2>4 DEF Stops
  <2> QED
    BY <1>3, <2>1, <2>5 DEF BeginCancel, BeginCancelEffect
<1>4. ASSUME CancelRequest(t) PROVE CancelRequestEffect(t)
  <2> DEFINE live == th[t].rec.exch /\ ex[o].status = "live"
  <2>1. ex \in [Orders -> ExchangeOrder] /\ o \in Orders
    BY <1>1, <1>4 DEF CancelRequest, LifeInv, OrderInv, TypeOK
  <2>2. ASSUME CancelAtExchange(o) PROVE Cancels(o)
    BY <2>1, <2>2 DEF CancelAtExchange, Cancels, ExchangeOrder
  <2>3. \A pc : Goto(t, pc) => Jumps(t, pc)
    BY <1>1, Jumping
  <2>4. failures < env.cancelFailures => env.cancelFailures # 0
    BY OrderExecutionAssumption DEF LifeInv, OrderInv, TypeOK, ScenarioKinds
  <2>5. \/ /\ IF live THEN CancelAtExchange(o) ELSE UNCHANGED <<ex, net>>
           /\ Goto(t, "cancel_confirmed")
        \/ /\ failures < env.cancelFailures
           /\ (live /\ CancelAtExchange(o)) \/ UNCHANGED <<ex, net>>
           /\ Goto(t, "cancel_failed")
    BY <1>4 DEF CancelRequest
  <2>6. th[t].pc = "cancel_request" /\ UNCHANGED <<reg, issued, reserved, booked, env>>
    BY <1>4 DEF CancelRequest
  <2> HIDE DEF live
  <2>7. /\ (live /\ Cancels(o)) \/ (UNCHANGED <<ex, net>> /\ (live => env.cancelFailures # 0))
        /\ Jumps(t, "cancel_confirmed") \/ (Jumps(t, "cancel_failed") /\ env.cancelFailures # 0)
    BY <2>2, <2>3, <2>4, <2>5
  <2> QED
    BY <2>6, <2>7 DEF CancelRequestEffect, live
<1>5. ASSUME CancelConfirmed(t) PROVE CancelConfirmedEffect(t)
  BY <1>1, <1>2, <1>5, Jumping, Transiting DEF CancelConfirmed, CancelConfirmedEffect
<1>6. ASSUME CancelRelease(t) PROVE CancelReleaseEffect(t)
  BY <1>1, <1>6, Stopping DEF CancelRelease, CancelReleaseEffect
<1>7. ASSUME CancelFailed(t) PROVE CancelFailedEffect(t)
  <2>1. o \in Orders /\ reg.fsm[o] # "none" /\ Stops(t)
    BY <1>1, <1>7, Stopping DEF CancelFailed, States
  <2>2. reg' = [reg EXCEPT !.fsm[o] = "UnknownRecovery", !.orders[o].state = "UnknownRecovery",
                           !.applied = @ \ {o}]
    BY <1>7, <2>1 DEF CancelFailed, force_transition
  <2>3. reg' \in Registry
    BY <1>1, <1>2, <1>7, <2>1, ForceTransitionKeeps DEF CancelFailed
  <2>4. /\ reg'.fsm = [reg.fsm EXCEPT ![o] = "UnknownRecovery"]
        /\ reg'.orders = [reg.orders EXCEPT ![o].state = "UnknownRecovery"]
        /\ reg'.index = reg.index /\ reg'.applied = reg.applied \ {o} /\ reg'.seen = reg.seen
    BY <1>1, <2>2 DEF Registry
  <2>5. reg.fsm \in [Orders -> States \cup {"none"}] /\ reg.orders \in [Orders -> OrderRecords]
    BY <1>1 DEF Registry
  <2>6. /\ reg'.fsm[o] = "UnknownRecovery" /\ reg'.orders[o].state = "UnknownRecovery"
        /\ reg'.orders[o].filled = reg.orders[o].filled
        /\ reg'.orders[o].exch = reg.orders[o].exch
        /\ \A p \in Orders \ {o} : reg'.fsm[p] = reg.fsm[p] /\ reg'.orders[p] = reg.orders[p]
    BY <2>1, <2>4, <2>5 DEF OrderRecords
  <2> QED
    BY <1>7, <2>1, <2>3, <2>4, <2>6 DEF CancelFailed, CancelFailedEffect
<1> QED
  BY <1>3, <1>4, <1>5, <1>6, <1>7

LEMMA Effect_Periodic ==
  ASSUME LifeInv, UNCHANGED env, NEW o \in Orders
  PROVE /\ Watchdog(o) => FindEffect("tick", o)
        /\ ReconcileSnapshot(o) => FindEffect("rest", o)
        /\ ReconcileQuery => QueryEffect
        /\ Cleanup(o) => CleanupEffect(o)
<1>1. /\ reg \in Registry /\ th \in [Threads -> ThreadState]
      /\ "tick" \in Threads /\ "rest" \in Threads
  BY LifeTypes
<1> USE DEF At, portfolio, exchange, Local
<1>2. ASSUME Watchdog(o) PROVE FindEffect("tick", o)
  BY <1>1, <1>2 DEF Watchdog, FindEffect, ActiveOrders, Idle, Others
<1>3. ASSUME ReconcileSnapshot(o) PROVE FindEffect("rest", o)
  BY <1>1, <1>3 DEF ReconcileSnapshot, FindEffect, ActiveOrders, Idle, Others
<1>4. ASSUME ReconcileQuery PROVE QueryEffect
  <2>1. Jumps("rest", "cancel") \/ Stops("rest")
    BY <1>1, <1>4, Jumping, Stopping DEF ReconcileQuery
  <2> QED
    BY <1>4, <2>1 DEF ReconcileQuery, QueryEffect
<1>5. ASSUME Cleanup(o) PROVE CleanupEffect(o)
  <2>1. reg' = cleanup_terminal_orders(reg, o)
    BY <1>5 DEF Cleanup
  <2>2. reg' \in Registry /\ reg'.seen = reg.seen
    BY <1>1, <2>1, CleanupKeeps
  <2>3. /\ reg'.orders = [reg.orders EXCEPT ![o] = NoRecord]
        /\ reg'.fsm = [reg.fsm EXCEPT ![o] = "none"]
        /\ reg'.index = IF reg.orders[o].exch THEN reg.index \ {o} ELSE reg.index
        /\ reg'.applied = reg.applied \ {o}
    BY <1>1, <2>1 DEF cleanup_terminal_orders, Registry
  <2>4. reg'.index = reg.index \ {o}
    BY <2>3 DEF LifeInv, RecordsOK
  <2>5. /\ reg'.fsm[o] = "none" /\ reg'.orders[o] = NoRecord
        /\ \A p \in Orders \ {o} : reg'.fsm[p] = reg.fsm[p] /\ reg'.orders[p] = reg.orders[p]
    BY <1>1, <2>3 DEF Registry
  <2> QED
    BY <1>5, <2>2, <2>3, <2>4, <2>5 DEF Cleanup, CleanupEffect
<1> QED
  BY <1>2, <1>3, <1>4, <1>5

LEMMA Effect_Forget ==
  ASSUME LifeInv, UNCHANGED env, NEW key \in IntentKeys, ForgetIntent(key)
  PROVE ForgetEffect
BY LifeTypes, IntentsKeep
DEF ForgetIntent, ForgetEffect, cleanup_old_intents, Registry, Local, portfolio, exchange

(* The private channel and the exchange.                                   *)
Shifted == /\ net' \in Seq(Message) /\ Len(net') = Len(net) - 1
           /\ \A j \in 1..Len(net') : net'[j] = net[j + 1]

Takes(i) == env.faults \subseteq {"duplicate"} => i = 1 /\ (net' = net \/ Shifted)

FillEventEffect(i) ==
  /\ th["ws"].pc = "idle" /\ net[i].kind = "fill" /\ Takes(i)
  /\ reg' \in Registry
  /\ UNCHANGED <<reg.orders, reg.fsm, reg.index, reg.applied>>
  /\ reg'.seen = reg.seen \cup {<<net[i].o, net[i].k>>}
  /\ \/ Stops("ws")
     \/ /\ <<net[i].o, net[i].k>> \notin reg.seen /\ net[i].o \in reg.index
        /\ th'["ws"].pc = "fill" /\ th'["ws"].o = net[i].o /\ th'["ws"].q = net[i].k
        /\ th'["ws"].rec = reg.orders[net[i].o]
        /\ Others("ws")
  /\ UNCHANGED <<issued, reserved, booked, ex, env>>

OrderMessageEffect(i) ==
  /\ th["ws"].pc = "idle" /\ net[i].kind \in {"filled", "cancelled"} /\ Takes(i)
  /\ \/ Stops("ws")
     \/ /\ net[i].o \in reg.index
        /\ th'["ws"].pc = net[i].kind /\ th'["ws"].o = net[i].o /\ th'["ws"].q = net[i].k
        /\ Others("ws")
  /\ UNCHANGED <<reg, issued, reserved, booked, ex, env>>

ExchangeFillEffect(o) ==
  LET n == Len(net)
      k == ex[o].filled + 1
  IN  /\ ex[o].status = "live"
      /\ ex'[o].filled = k /\ ex'[o].status = IF k = Qty THEN "filled" ELSE "live"
      /\ \A p \in Orders \ {o} : ex'[p] = ex[p]
      /\ net' \in Seq(Message) /\ Len(net') = IF k = Qty THEN n + 2 ELSE n + 1
      /\ \A j \in 1..n : net'[j] = net[j]
      /\ net'[n + 1].kind = "fill" /\ net'[n + 1].o = o /\ net'[n + 1].k = k
      /\ k = Qty =>
           net'[n + 2].kind = "filled" /\ net'[n + 2].o = o /\ net'[n + 2].k = k
      /\ UNCHANGED <<reg, issued, reserved, booked, th, env>>

ExchangeCancelEffect(o) ==
  /\ ex[o].status = "live"
  /\ Cancels(o)
  /\ UNCHANGED <<reg, issued, reserved, booked, th, env>>

LoseEffect ==
  /\ "loss" \in env.faults
  /\ UNCHANGED <<reg, issued, reserved, booked, ex, th, env>>

LEMMA Taking ==
  ASSUME LifeInv, NEW i \in DOMAIN net, Receive(i)
  PROVE th["ws"].pc = "idle" /\ Takes(i)
<1>1. net \in Seq(Message) /\ i \in 1..Len(net)
  BY DEF LifeInv, OrderInv, TypeOK
<1>2. ASSUME net' = RemoveAt(net, 1), i = 1 PROVE Shifted
  <2>1. SubSeq(net, 1, 0) = <<>>
    BY <1>1
  <2> DEFINE b == SubSeq(net, 2, Len(net))
  <2>2. b \in Seq(Message) /\ Len(b) = Len(net) - 1 /\ \A j \in 1..Len(b) : b[j] = net[j + 1]
    <3>1. Len(net) \in Nat /\ Len(net) >= 1
      BY <1>1, <1>2
    <3>2. \A j \in 2..Len(net) : net[j] \in Message
      BY <1>1, <3>1
    <3>3. /\ b \in Seq(Message)
          /\ Len(b) = IF 2 <= Len(net) THEN Len(net) - 2 + 1 ELSE 0
          /\ \A j \in 1..(Len(net) - 2 + 1) : b[j] = net[2 + j - 1]
      BY <3>1, <3>2, SubSeqProperties
    <3> HIDE DEF b
    <3>4. Len(b) = Len(net) - 1
      <4>1. CASE Len(net) = 1
        BY <3>3, <4>1
      <4>2. CASE Len(net) >= 2
        BY <3>1, <3>3, <4>2
      <4> QED
        BY <3>1, <4>1, <4>2
    <3>5. ASSUME NEW j \in 1..Len(b) PROVE b[j] = net[j + 1]
      <4>1. j \in 1..(Len(net) - 2 + 1) /\ 2 + j - 1 = j + 1
        BY <3>1, <3>4, <3>5
      <4> QED
        BY <3>3, <4>1
    <3> QED
      BY <3>3, <3>4, <3>5
  <2> HIDE DEF b
  <2>3. net' = <<>> \o b
    BY <1>2, <2>1 DEF RemoveAt, b
  <2>4. net' = b
    BY <2>2, <2>3
  <2> QED
    BY <2>2, <2>4 DEF Shifted
<1> QED
  BY <1>2 DEF Receive, At, Takes

LEMMA Effect_Deliver ==
  ASSUME LifeInv, UNCHANGED env, NEW i \in DOMAIN net
  PROVE /\ FillEvent(i) => FillEventEffect(i)
        /\ OrderUpdate(i) => OrderMessageEffect(i)
        /\ LoseMessage(i) => LoseEffect
<1> DEFINE m == net[i]
           tr == <<m.o, m.k>>
<1>1. /\ reg \in Registry /\ th \in [Threads -> ThreadState] /\ "ws" \in Threads
      /\ m \in Message /\ GoodMessage(m)
  BY LifeTypes DEF LifeInv, OrderInv, TypeOK, ExchangeOK
<1> USE DEF portfolio
<1>2. ASSUME FillEvent(i) PROVE FillEventEffect(i)
  <2> DEFINE go == [pc |-> "fill", o |-> m.o, q |-> m.k, rec |-> reg.orders[m.o]]
             new == IF tr \notin reg.seen /\ m.o \in reg.index /\ m.priced THEN go ELSE Idle
  <2>1. th["ws"].pc = "idle" /\ Takes(i) /\ m.kind = "fill"
    BY <1>2, Taking DEF FillEvent
  <2>2. tr \in Trades
    BY <1>1, <2>1, OrderExecutionAssumption DEF Message, GoodMessage
  <2>3. reg' = check_and_mark_trade_id_seen(reg, tr) /\ th' = [th EXCEPT !["ws"] = new]
    BY <1>2 DEF FillEvent
  <2>4. /\ reg' \in Registry /\ reg'.seen = reg.seen \cup {tr}
        /\ UNCHANGED <<reg.orders, reg.fsm, reg.index, reg.applied>>
    BY <1>1, <2>2, <2>3, SeenKeeps DEF check_and_mark_trade_id_seen, Registry
  <2>5. \/ new = Idle
        \/ /\ new.pc = "fill" /\ new.o = m.o /\ new.q = m.k /\ new.rec = reg.orders[m.o]
           /\ tr \notin reg.seen /\ m.o \in reg.index
    OBVIOUS
  <2> HIDE DEF new
  <2>6. th'["ws"] = new /\ Others("ws")
    BY <1>1, <2>3 DEF Others
  <2> QED
    BY <1>2, <2>1, <2>4, <2>5, <2>6 DEF FillEvent, FillEventEffect, Stops
<1>3. ASSUME OrderUpdate(i) PROVE OrderMessageEffect(i)
  <2> DEFINE go == [Idle EXCEPT !.pc = m.kind, !.o = m.o, !.q = m.k]
             new == IF m.o \in reg.index THEN go ELSE Idle
  <2>1. th["ws"].pc = "idle" /\ Takes(i) /\ m.kind \in {"filled", "cancelled"}
    BY <1>3, Taking DEF OrderUpdate
  <2>2. th' = [th EXCEPT !["ws"] = new]
    BY <1>3 DEF OrderUpdate
  <2>3. go.pc = m.kind /\ go.o = m.o /\ go.q = m.k
    BY DEF Idle
  <2> HIDE DEF go
  <2>4. th'["ws"] = new /\ Others("ws")
    BY <1>1, <2>2 DEF Others
  <2> QED
    BY <1>3, <2>1, <2>3, <2>4 DEF OrderUpdate, OrderMessageEffect, Stops
<1>4. ASSUME LoseMessage(i) PROVE LoseEffect
  BY <1>4 DEF LoseMessage, LoseEffect
<1> QED
  BY <1>2, <1>3, <1>4

LEMMA Effect_Exchange ==
  ASSUME LifeInv, UNCHANGED env, NEW o \in Orders
  PROVE /\ ExchangeFill(o) => ExchangeFillEffect(o)
        /\ ExchangeCancel(o) => ExchangeCancelEffect(o)
<1>1. ex \in [Orders -> ExchangeOrder] /\ net \in Seq(Message)
  BY DEF LifeInv, OrderInv, TypeOK
<1> USE DEF portfolio
<1>2. ASSUME ExchangeFill(o) PROVE ExchangeFillEffect(o)
  <2> DEFINE k == ex[o].filled + 1
             status == IF k = Qty THEN "filled" ELSE "live"
             last == StatusMessage(o, "filled", k)
  <2>1. k \in Nat
    BY <1>1 DEF ExchangeOrder
  <2>2. ex' = [ex EXCEPT ![o] = [status |-> status, filled |-> k]]
    BY <1>2 DEF ExchangeFill
  <2>3. /\ ex'[o].status = status /\ ex'[o].filled = k
        /\ \A p \in Orders \ {o} : ex'[p] = ex[p]
    BY <1>1, <2>2
  <2>4. PICK m \in FillMessage(o, k) :
          net' = net \o (IF k = Qty THEN <<m, last>> ELSE <<m>>)
    BY <1>2 DEF ExchangeFill
  <2>5. m \in Message /\ m.kind = "fill" /\ m.o = o /\ m.k = k
    BY <2>1, <2>4 DEF FillMessage, Message
  <2>6. last \in Message /\ last.kind = "filled" /\ last.o = o /\ last.k = k
    BY <2>1 DEF StatusMessage, Message
  <2> HIDE DEF last
  <2>7. CASE k = Qty
    <3>1. net' = net \o <<m, last>>
      BY <2>4, <2>7
    <3>2. /\ net' \in Seq(Message) /\ Len(net') = Len(net) + 2
          /\ \A j \in 1..Len(net) : net'[j] = net[j]
          /\ net'[Len(net) + 1] = m /\ net'[Len(net) + 2] = last
      BY <1>1, <2>5, <2>6, <3>1
    <3> QED
      BY <1>2, <2>3, <2>5, <2>6, <2>7, <3>2 DEF ExchangeFill, ExchangeFillEffect
  <2>8. CASE k # Qty
    <3>1. net' = net \o <<m>>
      BY <2>4, <2>8
    <3>2. /\ net' \in Seq(Message) /\ Len(net') = Len(net) + 1
          /\ \A j \in 1..Len(net) : net'[j] = net[j]
          /\ net'[Len(net) + 1] = m
      BY <1>1, <2>5, <3>1
    <3> QED
      BY <1>2, <2>3, <2>5, <2>8, <3>2 DEF ExchangeFill, ExchangeFillEffect
  <2> QED
    BY <2>7, <2>8
<1>3. ASSUME ExchangeCancel(o) PROVE ExchangeCancelEffect(o)
  BY <1>1, <1>3 DEF ExchangeCancel, ExchangeCancelEffect, CancelAtExchange, Cancels, ExchangeOrder
<1> QED
  BY <1>2, <1>3

(* process_fill_event and on_order_update after the message is taken.      *)
FillState(rec) == IF rec.filled + 1 >= Qty THEN "Filled" ELSE "PartiallyFilled"

FillTransitionEffect ==
  LET w == th["ws"]
  IN  /\ w.pc = "fill"
      /\ Transits(w.o, FillState(w.rec))
      /\ th'["ws"].pc = "fill_record" /\ th'["ws"].o = w.o /\ th'["ws"].q = w.q
      /\ th'["ws"].rec.state = FillState(w.rec)
      /\ th'["ws"].rec.filled = w.rec.filled + 1 /\ th'["ws"].rec.exch = w.rec.exch
      /\ Others("ws")
      /\ UNCHANGED <<reserved, booked>> /\ Local

FillRecordEffect ==
  /\ th["ws"].pc = "fill_record"
  /\ Writes(th["ws"].o, th["ws"].rec)
  /\ Jumps("ws", "fill_apply")
  /\ UNCHANGED <<reserved, booked>> /\ Local

FillApplyEffect ==
  /\ th["ws"].pc = "fill_apply"
  /\ Books(th["ws"].o, 1)
  /\ Jumps("ws", "fill_mark")
  /\ UNCHANGED reg /\ Local

FillMarkEffect ==
  /\ th["ws"].pc = "fill_mark"
  /\ Marks(th["ws"].o)
  /\ Stops("ws")
  /\ UNCHANGED <<reserved, booked>> /\ Local

UpdateFilledEffect ==
  /\ th["ws"].pc = "filled"
  /\ Transits(th["ws"].o, "Filled")
  /\ IF CanTransition(reg, th["ws"].o, "Filled") THEN Jumps("ws", "update_read")
                                                 ELSE Stops("ws")
  /\ UNCHANGED <<reserved, booked>> /\ Local

UpdateCancelledEffect ==
  /\ th["ws"].pc = "cancelled"
  /\ Transits(th["ws"].o, "Cancelled")
  /\ IF CanTransition(reg, th["ws"].o, "Cancelled") THEN Jumps("ws", "update_release")
                                                    ELSE Stops("ws")
  /\ UNCHANGED <<reserved, booked>> /\ Local

UpdateReleaseEffect ==
  /\ th["ws"].pc = "update_release"
  /\ reserved' = reserved \ {th["ws"].o}
  /\ Jumps("ws", "update_read") \/ Stops("ws")
  /\ UNCHANGED <<reg, booked>> /\ Local

UpdateReadEffect ==
  /\ th["ws"].pc = "update_read"
  /\ th'["ws"].pc = "update_check" /\ th'["ws"].o = th["ws"].o /\ th'["ws"].q = th["ws"].q
  /\ th'["ws"].rec = reg.orders[th["ws"].o]
  /\ Others("ws")
  /\ UNCHANGED <<reg, reserved, booked>> /\ Local

UpdateCheckEffect ==
  LET w == th["ws"]
  IN  /\ w.pc = "update_check"
      /\ th'["ws"].pc = IF w.o \in reg.applied THEN "update_applied" ELSE "update_new"
      /\ th'["ws"].o = w.o /\ th'["ws"].q = w.q
      /\ th'["ws"].rec.state = w.rec.state /\ th'["ws"].rec.exch = w.rec.exch
      /\ th'["ws"].rec.filled = IF w.q > w.rec.filled THEN w.q ELSE w.rec.filled
      /\ Others("ws")
      /\ UNCHANGED <<reg, reserved, booked>> /\ Local

UpdateRecordEffect ==
  /\ th["ws"].pc \in {"update_new", "update_applied"}
  /\ Writes(th["ws"].o, th["ws"].rec)
  /\ IF th["ws"].pc = "update_new" /\ th["ws"].rec.state = "Filled"
     THEN Jumps("ws", "update_mark") ELSE Stops("ws")
  /\ UNCHANGED <<reserved, booked>> /\ Local

UpdateMarkEffect ==
  /\ th["ws"].pc = "update_mark"
  /\ Marks(th["ws"].o)
  /\ Jumps("ws", "update_apply")
  /\ UNCHANGED <<reserved, booked>> /\ Local

UpdateApplyEffect ==
  /\ th["ws"].pc = "update_apply"
  /\ Books(th["ws"].o, th["ws"].rec.filled)
  /\ Stops("ws")
  /\ UNCHANGED reg /\ Local

LEMMA Effect_Feed ==
  ASSUME LifeInv, UNCHANGED env
  PROVE /\ FillTransition => FillTransitionEffect
        /\ FillRecord => FillRecordEffect
        /\ FillApply => FillApplyEffect
        /\ FillMark => FillMarkEffect
        /\ UpdateFilled => UpdateFilledEffect
        /\ UpdateCancelled => UpdateCancelledEffect
        /\ UpdateRelease => UpdateReleaseEffect
        /\ UpdateRead => UpdateReadEffect
        /\ UpdateCheck => UpdateCheckEffect
        /\ UpdateRecord => UpdateRecordEffect
        /\ UpdateMark => UpdateMarkEffect
        /\ UpdateApply => UpdateApplyEffect
<1> DEFINE w == th["ws"]
           o == w.o
<1>1. /\ reg \in Registry /\ th \in [Threads -> ThreadState] /\ "ws" \in Threads
      /\ w.pc # "idle" => o \in Orders /\ reg.orders[o].state # "none"
      /\ w.pc # "idle" => w.rec \in OrderRecords /\ w.q \in Nat
  BY LifeTypes, WorksOn
<1>2. {"Cancelled", "Filled", "PartiallyFilled"} \subseteq States
  BY DEF States
<1> USE DEF At, portfolio, exchange, Local
<1>3. ASSUME FillTransition PROVE FillTransitionEffect
  <2> DEFINE filled == w.rec.filled + 1
             s == FillState(w.rec)
             rec == [w.rec EXCEPT !.state = s, !.filled = filled]
             new == [w EXCEPT !.pc = "fill_record", !.rec = rec]
  <2>1. s \in States
    BY <1>2 DEF FillState
  <2>2. /\ reg' = transition(reg, o, s)
        /\ th' = [th EXCEPT !["ws"].pc = "fill_record", !["ws"].rec = rec]
    BY <1>1, <1>3 DEF FillTransition, FillState
  <2>3. rec.state = s /\ rec.filled = filled /\ rec.exch = w.rec.exch
    <3>1. w.rec \in OrderRecords
      BY <1>1, <1>3 DEF FillTransition
    <3> HIDE DEF s, filled
    <3> QED
      BY <3>1 DEF OrderRecords
  <2> HIDE DEF rec
  <2>4. th' = [th EXCEPT !["ws"] = new]
    BY <1>1, <2>2
  <2>5. new.pc = "fill_record" /\ new.o = o /\ new.q = w.q /\ new.rec = rec
    BY <1>1 DEF ThreadState
  <2> HIDE DEF new, s
  <2>6. th'["ws"] = new /\ Others("ws")
    BY <1>1, <2>4 DEF Others
  <2>7. Transits(o, s)
    BY <1>1, <1>3, <2>1, <2>2, Transiting DEF FillTransition
  <2> QED
    BY <1>3, <2>3, <2>5, <2>6, <2>7 DEF FillTransition, FillTransitionEffect, s
<1>4. ASSUME FillRecord PROVE FillRecordEffect
  BY <1>1, <1>4, Writing, Jumping DEF FillRecord, FillRecordEffect
<1>5. ASSUME FillApply PROVE FillApplyEffect
  <2>1. Books(o, 1) /\ Jumps("ws", "fill_mark")
    BY <1>1, <1>5, Booking, Jumping DEF FillApply
  <2> QED
    BY <1>5, <2>1 DEF FillApply, FillApplyEffect
<1>6. ASSUME FillMark PROVE FillMarkEffect
  BY <1>1, <1>6, Marking, Stopping DEF FillMark, FillMarkEffect
<1>7. ASSUME UpdateFilled PROVE UpdateFilledEffect
  <2>1. Transits(o, "Filled")
    BY <1>1, <1>2, <1>7, Transiting DEF UpdateFilled
  <2>2. IF CanTransition(reg, o, "Filled") THEN Jumps("ws", "update_read") ELSE Stops("ws")
    BY <1>1, <1>7, Jumping, Stopping DEF UpdateFilled
  <2> QED
    BY <1>7, <2>1, <2>2 DEF UpdateFilled, UpdateFilledEffect
<1>8. ASSUME UpdateCancelled PROVE UpdateCancelledEffect
  <2>1. Transits(o, "Cancelled")
    BY <1>1, <1>2, <1>8, Transiting DEF UpdateCancelled
  <2>2. IF CanTransition(reg, o, "Cancelled") THEN Jumps("ws", "update_release") ELSE Stops("ws")
    BY <1>1, <1>8, Jumping, Stopping DEF UpdateCancelled
  <2> QED
    BY <1>8, <2>1, <2>2 DEF UpdateCancelled, UpdateCancelledEffect
<1>9. ASSUME UpdateRelease PROVE UpdateReleaseEffect
  <2>1. Jumps("ws", "update_read") \/ Stops("ws")
    BY <1>1, <1>9, Jumping, Stopping DEF UpdateRelease
  <2> QED
    BY <1>9, <2>1 DEF UpdateRelease, UpdateReleaseEffect
<1>10. ASSUME UpdateRead PROVE UpdateReadEffect
  <2>1. /\ th'["ws"].pc = "update_check" /\ th'["ws"].o = o /\ th'["ws"].q = w.q
        /\ th'["ws"].rec = reg.orders[o] /\ Others("ws")
    BY <1>1, <1>10 DEF UpdateRead, ThreadState, Others
  <2> QED
    BY <1>10, <2>1 DEF UpdateRead, UpdateReadEffect
<1>11. ASSUME UpdateCheck PROVE UpdateCheckEffect
  <2> DEFINE m == IF w.q > w.rec.filled THEN w.q ELSE w.rec.filled
             pc == IF o \in reg.applied THEN "update_applied" ELSE "update_new"
             rec == [w.rec EXCEPT !.filled = m]
             new == [w EXCEPT !.pc = pc, !.rec = rec]
  <2>1. th' = [th EXCEPT !["ws"].pc = pc, !["ws"].rec.filled = m]
    BY <1>11 DEF UpdateCheck
  <2> HIDE DEF m, pc
  <2>2. rec.state = w.rec.state /\ rec.exch = w.rec.exch /\ rec.filled = m
    BY <1>1, <1>11 DEF UpdateCheck, OrderRecords
  <2>3. th' = [th EXCEPT !["ws"] = new]
    BY <1>1, <2>1 DEF ThreadState
  <2> HIDE DEF rec
  <2>4. new.pc = pc /\ new.o = o /\ new.q = w.q /\ new.rec = rec
    BY <1>1 DEF ThreadState
  <2> HIDE DEF new
  <2>5. th'["ws"] = new /\ Others("ws")
    BY <1>1, <2>3 DEF Others
  <2> QED
    BY <1>11, <2>2, <2>4, <2>5 DEF UpdateCheck, UpdateCheckEffect, m, pc
<1>12. ASSUME UpdateRecord PROVE UpdateRecordEffect
  <2>1. Writes(o, w.rec)
    BY <1>1, <1>12, Writing DEF UpdateRecord
  <2>2. IF w.pc = "update_new" /\ w.rec.state = "Filled"
        THEN Jumps("ws", "update_mark") ELSE Stops("ws")
    BY <1>1, <1>12, Jumping, Stopping DEF UpdateRecord
  <2> QED
    BY <1>12, <2>1, <2>2 DEF UpdateRecord, UpdateRecordEffect
<1>13. ASSUME UpdateMark PROVE UpdateMarkEffect
  BY <1>1, <1>13, Marking, Jumping DEF UpdateMark, UpdateMarkEffect
<1>14. ASSUME UpdateApply PROVE UpdateApplyEffect
  <2>1. w.rec.filled \in Nat
    BY <1>1, <1>14 DEF UpdateApply, OrderRecords
  <2>2. Books(o, w.rec.filled) /\ Stops("ws")
    BY <1>1, <1>14, <2>1, Booking, Stopping DEF UpdateApply
  <2> QED
    BY <1>14, <2>2 DEF UpdateApply, UpdateApplyEffect
<1> QED
  BY <1>3, <1>4, <1>5, <1>6, <1>7, <1>8, <1>9, <1>10, <1>11, <1>12, <1>13, <1>14

-----------------------------------------------------------------------------
(* Every step of the system is one of these.                               *)
EntryEffects ==
  \/ \E o \in Orders : ExecuteEffect(o)
  \/ ReserveEffect \/ RecordEffect \/ SubmitEffect \/ RejectEffect
  \/ RejectedEffect \/ AcceptedEffect

MarketEffects ==
  \/ PollEffect \/ GiveUpEffect \/ MarketReadEffect \/ MarketTransitionEffect
  \/ MarketRecordEffect \/ MarketApplyEffect \/ MarketMarkEffect

CancelEffects ==
  \E t \in {"tick", "rest"} :
    \/ BeginCancelEffect(t) \/ CancelRequestEffect(t) \/ CancelConfirmedEffect(t)
    \/ CancelReleaseEffect(t) \/ CancelFailedEffect(t)

PeriodicEffects ==
  \/ \E o \in Orders : FindEffect("tick", o) \/ FindEffect("rest", o) \/ CleanupEffect(o)
  \/ QueryEffect \/ ForgetEffect

FeedEffects ==
  \/ \E i \in DOMAIN net : FillEventEffect(i) \/ OrderMessageEffect(i)
  \/ FillTransitionEffect \/ FillRecordEffect \/ FillApplyEffect \/ FillMarkEffect
  \/ UpdateFilledEffect \/ UpdateCancelledEffect \/ UpdateReleaseEffect \/ UpdateReadEffect
  \/ UpdateCheckEffect \/ UpdateRecordEffect \/ UpdateMarkEffect \/ UpdateApplyEffect

ExchangeEffects ==
  \/ \E o \in Orders : ExchangeFillEffect(o) \/ ExchangeCancelEffect(o)
  \/ LoseEffect

LEMMA Effects ==
  ASSUME LifeInv, Next
  PROVE \/ EntryEffects \/ MarketEffects \/ CancelEffects
        \/ PeriodicEffects \/ FeedEffects \/ ExchangeEffects
<1>1. UNCHANGED env /\ Step
  BY DEF Next
<1>2. ASSUME NEW o \in Orders,
             \/ Execute(o) \/ Watchdog(o) \/ Cleanup(o) \/ ReconcileSnapshot(o)
             \/ ExchangeFill(o) \/ ExchangeCancel(o)
      PROVE EntryEffects \/ PeriodicEffects \/ ExchangeEffects
  <2>1. CASE Execute(o)
    BY <1>1, <2>1, Effect_Execute DEF EntryEffects
  <2>2. CASE Watchdog(o) \/ Cleanup(o) \/ ReconcileSnapshot(o)
    BY <1>1, <2>2, Effect_Periodic DEF PeriodicEffects
  <2>3. CASE ExchangeFill(o) \/ ExchangeCancel(o)
    BY <1>1, <2>3, Effect_Exchange DEF ExchangeEffects
  <2> QED
    BY <1>2, <2>1, <2>2, <2>3
<1>3. ASSUME NEW key \in IntentKeys, ForgetIntent(key) PROVE PeriodicEffects
  BY <1>1, <1>3, Effect_Forget DEF PeriodicEffects
<1>4. ASSUME NEW i \in DOMAIN net, Deliver(i) \/ LoseMessage(i)
      PROVE FeedEffects \/ ExchangeEffects
  BY <1>1, <1>4, Effect_Deliver DEF Deliver, FeedEffects, ExchangeEffects
<1>5. CASE TickSteps
  <2>1. ASSUME CancelSteps("tick") PROVE CancelEffects
    BY <1>1, <2>1, Effect_Cancel DEF CancelSteps, CancelEffects
  <2>2. ASSUME Reserve \/ Record \/ Submit \/ Reject \/ Rejected \/ Accepted
        PROVE EntryEffects
    BY <1>1, <2>2, Effect_Entry DEF EntryEffects
  <2>3. ASSUME \/ Poll \/ PollNoFill \/ Unconfirmed \/ MarketFillCheck \/ MarketFillRead
               \/ MarketFillTransition \/ MarketFillRecord \/ MarketFillApply \/ MarketFillMark
        PROVE MarketEffects
    BY <1>1, <2>3, Effect_Market DEF MarketEffects
  <2> QED
    BY <1>5, <2>1, <2>2, <2>3 DEF TickSteps
<1>6. CASE RestSteps
  <2>1. ASSUME CancelSteps("rest") PROVE CancelEffects
    BY <1>1, <2>1, Effect_Cancel DEF CancelSteps, CancelEffects
  <2>2. ASSUME ReconcileQuery PROVE PeriodicEffects
    <3>1. th["rest"].o \in Orders
      BY <2>2, LifeTypes, WorksOn DEF ReconcileQuery, At
    <3> QED
      BY <1>1, <2>2, <3>1, Effect_Periodic DEF PeriodicEffects
  <2> QED
    BY <1>6, <2>1, <2>2 DEF RestSteps
<1>7. CASE WsSteps
  BY <1>1, <1>7, Effect_Feed DEF WsSteps, FeedEffects
<1> QED
  BY <1>1, <1>2, <1>3, <1>4, <1>5, <1>6, <1>7 DEF Step

-----------------------------------------------------------------------------
(* The invariant LifeInv, one step per effect.                             *)
LifeKept == RecordsOK' /\ CopiesOK' /\ CurrentOK'

(* What the steps below use of it.                                         *)
LEMMA LifeContext ==
  ASSUME LifeInv
  PROVE /\ reg \in Registry /\ th \in [Threads -> ThreadState]
        /\ booked \in [Orders -> Nat] /\ issued \subseteq Orders
        /\ reg.index \subseteq Orders
        /\ "tick" \in Threads /\ "ws" \in Threads /\ "rest" \in Threads
        /\ \A t \in Threads : /\ th[t].pc # "idle" => th[t].o \in Orders
                              /\ th[t].q \in Nat /\ th[t].rec.filled \in Nat
        /\ \A o \in Orders : reg.orders[o].filled \in Nat
        /\ RecordsOK /\ CopiesOK /\ CurrentOK
<1>1. /\ reg \in Registry /\ th \in [Threads -> ThreadState]
      /\ booked \in [Orders -> Nat] /\ issued \subseteq Orders
      /\ reg.index \subseteq Orders
      /\ "tick" \in Threads /\ "ws" \in Threads /\ "rest" \in Threads
      /\ \A t \in Threads : th[t].pc # "idle" => th[t].o \in Orders
  BY LifeTypes, WorksOn
<1>2. \A t \in Threads : th[t].q \in Nat /\ th[t].rec.filled \in Nat
  BY <1>1 DEF ThreadState, OrderRecords
<1>3. \A o \in Orders : reg.orders[o].filled \in Nat
  BY <1>1 DEF OrderRecords, Registry
<1> QED
  BY <1>1, <1>2, <1>3 DEF LifeInv

LEMMA Life_Entry ==
  ASSUME LifeInv, EntryEffects
  PROVE LifeKept
<1> USE DEF LifeKept, RecordsOK, CopiesOK, CurrentOK, Current, Others, Local, Idle,
            Entering, Polling, Copied
<1>1. ASSUME NEW o \in Orders, ExecuteEffect(o) PROVE LifeKept
  BY LifeContext, <1>1, EntryCopies DEF ExecuteEffect
<1>2. CASE ReserveEffect
  BY LifeContext, <1>2 DEF ReserveEffect, Jumps
<1>3. CASE RecordEffect
  BY LifeContext, <1>3, EntryCopies DEF RecordEffect, Jumps, Writes
<1>4. CASE SubmitEffect
  BY LifeContext, <1>4 DEF SubmitEffect, Jumps
<1>5. CASE RejectEffect
  BY LifeContext, <1>5 DEF RejectEffect, Jumps, Transits
<1>6. CASE RejectedEffect
  BY LifeContext, <1>6, EntryCopies DEF RejectedEffect, Stops, Writes
<1>7. CASE AcceptedEffect
  BY LifeContext, <1>7, EntryCopies DEF AcceptedEffect, Stops, Writes
<1> QED
  BY <1>1, <1>2, <1>3, <1>4, <1>5, <1>6, <1>7 DEF EntryEffects

LEMMA Life_Market ==
  ASSUME LifeInv, MarketEffects
  PROVE LifeKept
<1> USE DEF LifeKept, RecordsOK, CopiesOK, CurrentOK, Current, Others, Local, Idle,
            Entering, Polling, Copied
<1>1. CASE PollEffect
  BY LifeContext, <1>1 DEF PollEffect
<1>2. CASE GiveUpEffect
  BY LifeContext, <1>2 DEF GiveUpEffect, Stops, Transits
<1>3. CASE MarketReadEffect
  BY LifeContext, <1>3 DEF MarketReadEffect, Stops
<1>4. CASE MarketTransitionEffect
  BY LifeContext, <1>4 DEF MarketTransitionEffect, Stops, Jumps, Transits
<1>5. CASE MarketRecordEffect
  BY LifeContext, <1>5 DEF MarketRecordEffect, Jumps, Writes
<1>6. CASE MarketApplyEffect
  BY LifeContext, <1>6 DEF MarketApplyEffect, Jumps, Books
<1>7. CASE MarketMarkEffect
  BY LifeContext, <1>7 DEF MarketMarkEffect, Stops, Marks
<1> QED
  BY <1>1, <1>2, <1>3, <1>4, <1>5, <1>6, <1>7 DEF MarketEffects

LEMMA Life_Cancel ==
  ASSUME LifeInv, CancelEffects
  PROVE LifeKept
<1> USE DEF LifeKept, RecordsOK, CopiesOK, CurrentOK, Current, Others, Local, Idle,
            Entering, Polling, Copied
<1>1. ASSUME NEW t \in {"tick", "rest"},
             \/ BeginCancelEffect(t) \/ CancelRequestEffect(t) \/ CancelConfirmedEffect(t)
             \/ CancelReleaseEffect(t) \/ CancelFailedEffect(t)
      PROVE LifeKept
  <2>1. CASE BeginCancelEffect(t)
    BY LifeContext, <1>1, <2>1 DEF BeginCancelEffect, Stops, Transits
  <2>2. CASE CancelRequestEffect(t)
    BY LifeContext, <1>1, <2>2 DEF CancelRequestEffect, Jumps
  <2>3. CASE CancelConfirmedEffect(t)
    BY LifeContext, <1>1, <2>3 DEF CancelConfirmedEffect, Jumps, Transits
  <2>4. CASE CancelReleaseEffect(t)
    BY LifeContext, <1>1, <2>4 DEF CancelReleaseEffect, Stops
  <2>5. CASE CancelFailedEffect(t)
    BY LifeContext, <1>1, <2>5 DEF CancelFailedEffect, Stops
  <2> QED
    BY <1>1, <2>1, <2>2, <2>3, <2>4, <2>5
<1> QED
  BY <1>1 DEF CancelEffects

LEMMA Life_Periodic ==
  ASSUME LifeInv, PeriodicEffects
  PROVE LifeKept
<1> USE DEF LifeKept, RecordsOK, CopiesOK, CurrentOK, Current, Others, Local, Idle,
            Entering, Polling, Copied
<1>1. ASSUME NEW o \in Orders, NEW t \in {"tick", "rest"}, FindEffect(t, o) PROVE LifeKept
  BY LifeContext, <1>1 DEF FindEffect, is_active
<1>2. ASSUME NEW o \in Orders, CleanupEffect(o) PROVE LifeKept
  BY LifeContext, <1>2 DEF CleanupEffect, NoRecord
<1>3. CASE QueryEffect
  BY LifeContext, <1>3 DEF QueryEffect, Jumps, Stops
<1>4. CASE ForgetEffect
  BY LifeContext, <1>4 DEF ForgetEffect
<1> QED
  BY <1>1, <1>2, <1>3, <1>4 DEF PeriodicEffects

LEMMA Life_Feed ==
  ASSUME LifeInv, FeedEffects
  PROVE LifeKept
<1> USE DEF LifeKept, RecordsOK, CopiesOK, CurrentOK, Current, Others, Local, Idle,
            Entering, Polling, Copied
<1>1. ASSUME NEW i \in DOMAIN net, FillEventEffect(i) PROVE LifeKept
  BY LifeContext, <1>1 DEF FillEventEffect, Stops
<1>2. ASSUME NEW i \in DOMAIN net, OrderMessageEffect(i) PROVE LifeKept
  BY LifeContext, <1>2 DEF OrderMessageEffect, Stops
<1>3. CASE FillTransitionEffect
  BY LifeContext, <1>3 DEF FillTransitionEffect, Transits, FillState
<1>4. CASE FillRecordEffect
  BY LifeContext, <1>4 DEF FillRecordEffect, Writes, Jumps
<1>5. CASE FillApplyEffect
  BY LifeContext, <1>5 DEF FillApplyEffect, Books, Jumps
<1>6. CASE FillMarkEffect
  BY LifeContext, <1>6 DEF FillMarkEffect, Marks, Stops
<1>7. CASE UpdateFilledEffect
  BY LifeContext, <1>7 DEF UpdateFilledEffect, Transits, Jumps, Stops
<1>8. CASE UpdateCancelledEffect
  BY LifeContext, <1>8 DEF UpdateCancelledEffect, Transits, Jumps, Stops
<1>9. CASE UpdateReleaseEffect
  BY LifeContext, <1>9 DEF UpdateReleaseEffect, Jumps, Stops
<1>10. CASE UpdateReadEffect
  BY LifeContext, <1>10 DEF UpdateReadEffect
<1>11. CASE UpdateCheckEffect
  BY LifeContext, <1>11 DEF UpdateCheckEffect, LifeInv, OrderInv, MarksOK
<1>12. CASE UpdateRecordEffect
  BY LifeContext, <1>12 DEF UpdateRecordEffect, Writes, Jumps, Stops
<1>13. CASE UpdateMarkEffect
  BY LifeContext, <1>13 DEF UpdateMarkEffect, Marks, Jumps
<1>14. CASE UpdateApplyEffect
  BY LifeContext, <1>14 DEF UpdateApplyEffect, Books, Stops
<1> QED
  BY <1>1, <1>2, <1>3, <1>4, <1>5, <1>6, <1>7, <1>8, <1>9, <1>10, <1>11, <1>12,
     <1>13, <1>14 DEF FeedEffects

LEMMA Life_Exchange ==
  ASSUME LifeInv, ExchangeEffects
  PROVE LifeKept
BY DEF ExchangeEffects, ExchangeFillEffect, ExchangeCancelEffect, LoseEffect,
       LifeInv, LifeKept, RecordsOK, CopiesOK, CurrentOK

LEMMA Life_Init == Init => LifeInv
<1> SUFFICES ASSUME Init PROVE RecordsOK /\ CopiesOK /\ CurrentOK
  BY Inv_Init DEF LifeInv
<1>1. /\ reg.orders = [o \in Orders |-> NoRecord] /\ reg.index = {}
      /\ booked = [o \in Orders |-> 0]
      /\ \A t \in Threads : th[t].pc = "idle"
  BY DEF Init, NewRegistry, Idle
<1>2. \A o \in Orders : /\ reg.orders[o].state = "none" /\ reg.orders[o].filled = 0
                         /\ ~reg.orders[o].exch
  BY <1>1 DEF NoRecord
<1> QED
  BY <1>1, <1>2
  DEF RecordsOK, CopiesOK, CurrentOK, Threads, Entering, Polling, Copied

LEMMA Life_Next == LifeInv /\ [Next]_<<vars, env>> => LifeInv'
<1> SUFFICES ASSUME LifeInv, [Next]_<<vars, env>> PROVE LifeInv'
  OBVIOUS
<1>1. OrderInv'
  BY Inv_Next DEF LifeInv
<1>2. CASE UNCHANGED <<vars, env>>
  <2>1. UNCHANGED <<reg, issued, reserved, booked, th, env>>
    BY <1>2 DEF vars
  <2> QED
    BY <1>1, <2>1 DEF LifeInv, RecordsOK, CopiesOK, CurrentOK
<1>3. CASE Next
  <2>1. LifeKept
    BY <1>3, Effects, Life_Entry, Life_Market, Life_Cancel, Life_Periodic, Life_Feed,
       Life_Exchange
  <2> QED
    BY <1>1, <2>1 DEF LifeInv, LifeKept
<1> QED
  BY <1>2, <1>3

-----------------------------------------------------------------------------
(* The record of a limit order never goes back.                            *)
Forward ==
  \A o \in Orders \ env.market : reg'.fsm[o] # "none" =>
    /\ reg.orders[o].filled <= reg'.orders[o].filled
    /\ reg.orders[o].exch => reg'.orders[o].exch

LEMMA Records_Forward ==
  ASSUME LifeInv, Next
  PROVE Forward
<1> USE DEF Forward, Others, Local, Idle, Entering, Polling, Copied
<1>1. CASE UNCHANGED reg.orders \/ UNCHANGED reg
  BY LifeContext, <1>1
<1>2. ASSUME NEW o \in Orders, NEW s, Transits(o, s) PROVE Forward
  BY LifeContext, <1>2 DEF Transits
<1>3. ASSUME NEW t \in Threads, CancelFailedEffect(t) PROVE Forward
  BY LifeContext, <1>3 DEF CancelFailedEffect
<1>4. ASSUME NEW o \in Orders, CleanupEffect(o) PROVE Forward
  BY LifeContext, <1>4 DEF CleanupEffect
<1>5. CASE EntryEffects
  <2>1. ASSUME NEW o \in Orders, ExecuteEffect(o) PROVE Forward
    BY LifeContext, <2>1, EntryCopies DEF ExecuteEffect, RecordsOK
  <2>2. ASSUME NEW rec \in {FirstCopy, RejectedCopy, AcceptedCopy}, Writes(th["tick"].o, rec),
               th["tick"].pc \in Entering
        PROVE Forward
    BY LifeContext, <2>2, EntryCopies DEF RecordsOK, CopiesOK, Writes
  <2>3. CASE RecordEffect \/ RejectedEffect \/ AcceptedEffect
    BY <2>2, <2>3 DEF RecordEffect, RejectedEffect, AcceptedEffect
  <2>4. CASE ReserveEffect \/ SubmitEffect
    BY <1>1, <2>4 DEF ReserveEffect, SubmitEffect
  <2>5. CASE RejectEffect
    BY LifeContext, <1>2, <2>5 DEF RejectEffect
  <2> QED
    BY <1>5, <2>1, <2>3, <2>4, <2>5 DEF EntryEffects
<1>6. CASE MarketEffects
  <2>1. CASE PollEffect \/ MarketReadEffect \/ MarketApplyEffect \/ MarketMarkEffect
    BY <1>1, <2>1 DEF PollEffect, MarketReadEffect, MarketApplyEffect, MarketMarkEffect, Marks
  <2>2. CASE GiveUpEffect \/ MarketTransitionEffect
    BY LifeContext, <1>2, <2>2 DEF GiveUpEffect, MarketTransitionEffect
  <2>3. CASE MarketRecordEffect
    BY LifeContext, <2>3 DEF MarketRecordEffect, Writes, CopiesOK
  <2> QED
    BY <1>6, <2>1, <2>2, <2>3 DEF MarketEffects
<1>7. CASE CancelEffects
  <2> SUFFICES ASSUME NEW t \in {"tick", "rest"},
                      \/ BeginCancelEffect(t) \/ CancelRequestEffect(t)
                      \/ CancelConfirmedEffect(t) \/ CancelReleaseEffect(t)
                      \/ CancelFailedEffect(t)
               PROVE Forward
    BY <1>7 DEF CancelEffects
  <2>1. t \in Threads
    BY DEF Threads
  <2>2. CASE BeginCancelEffect(t) \/ CancelConfirmedEffect(t)
    BY LifeContext, <1>2, <2>1, <2>2 DEF BeginCancelEffect, CancelConfirmedEffect
  <2>3. CASE CancelRequestEffect(t) \/ CancelReleaseEffect(t)
    BY <1>1, <2>3 DEF CancelRequestEffect, CancelReleaseEffect
  <2> QED
    BY <1>3, <2>1, <2>2, <2>3
<1>8. CASE PeriodicEffects
  BY <1>1, <1>4, <1>8 DEF PeriodicEffects, FindEffect, QueryEffect, ForgetEffect
<1>9. CASE FeedEffects
  <2>1. CASE \E i \in DOMAIN net : FillEventEffect(i) \/ OrderMessageEffect(i)
    BY <1>1, <2>1 DEF FillEventEffect, OrderMessageEffect
  <2>2. CASE \/ FillApplyEffect \/ FillMarkEffect \/ UpdateReleaseEffect \/ UpdateReadEffect
             \/ UpdateCheckEffect \/ UpdateMarkEffect \/ UpdateApplyEffect
    BY <1>1, <2>2
    DEF FillApplyEffect, FillMarkEffect, UpdateReleaseEffect, UpdateReadEffect,
        UpdateCheckEffect, UpdateMarkEffect, UpdateApplyEffect, Marks
  <2>3. CASE FillTransitionEffect \/ UpdateFilledEffect \/ UpdateCancelledEffect
    BY LifeContext, <1>2, <2>3
    DEF FillTransitionEffect, UpdateFilledEffect, UpdateCancelledEffect
  <2>4. CASE FillRecordEffect
    BY LifeContext, <2>4 DEF FillRecordEffect, Writes, CopiesOK, CurrentOK, Current
  <2>5. CASE UpdateRecordEffect
    BY LifeContext, <2>5 DEF UpdateRecordEffect, Writes, CopiesOK, CurrentOK, Current
  <2> QED
    BY <1>9, <2>1, <2>2, <2>3, <2>4, <2>5 DEF FeedEffects
<1>10. CASE ExchangeEffects
  BY <1>1, <1>10 DEF ExchangeEffects, ExchangeFillEffect, ExchangeCancelEffect, LoseEffect
<1> QED
  BY <1>5, <1>6, <1>7, <1>8, <1>9, <1>10, Effects

(* update_order: whichever threads write the record of a limit order from  *)
(* whatever copies, and however messages are repeated, lost or reordered,  *)
(* its filled quantity never decreases and a known exchange id is kept.    *)
THEOREM RecordsNeverGoBack == Spec => RecordNeverGoesBack
<1>1. LifeInv /\ [Next]_<<vars, env>> => [Forward]_vars
  BY Records_Forward DEF vars
<1> QED
  BY <1>1, Life_Init, Life_Next, PTL DEF Spec, RecordNeverGoesBack, Forward

-----------------------------------------------------------------------------
(* The margin of an order that ended is released.                          *)
LEMMA Release_Entry ==
  ASSUME LifeInv, ReleaseOK, EntryEffects
  PROVE ReleaseOK'
<1> USE DEF ReleaseOK, Releasing, RecordsOK, CopiesOK, Others, Local, Idle, Entering, is_terminal
<1>1. ASSUME NEW o \in Orders, ExecuteEffect(o) PROVE ReleaseOK'
  BY LifeContext, <1>1 DEF ExecuteEffect
<1>2. CASE ReserveEffect
  BY LifeContext, <1>2 DEF ReserveEffect, Jumps
<1>3. CASE RecordEffect
  BY LifeContext, <1>3 DEF RecordEffect, Jumps, Writes
<1>4. CASE SubmitEffect
  BY LifeContext, <1>4 DEF SubmitEffect, Jumps
<1>5. CASE RejectEffect
  BY LifeContext, <1>5
  DEF RejectEffect, Jumps, Transits, CanTransition, is_valid_transition, Successors
<1>6. CASE RejectedEffect
  BY LifeContext, <1>6 DEF RejectedEffect, Stops, Writes
<1>7. CASE AcceptedEffect
  BY LifeContext, <1>7 DEF AcceptedEffect, Stops, Writes
<1> QED
  BY <1>1, <1>2, <1>3, <1>4, <1>5, <1>6, <1>7 DEF EntryEffects

LEMMA Release_Market ==
  ASSUME LifeInv, ReleaseOK, MarketEffects
  PROVE ReleaseOK'
<1> USE DEF ReleaseOK, Releasing, RecordsOK, Others, Local, Idle, Entering, is_terminal
<1>1. CASE PollEffect
  BY LifeContext, <1>1 DEF PollEffect
<1>2. CASE GiveUpEffect
  BY LifeContext, <1>2 DEF GiveUpEffect, Stops, Transits
<1>3. CASE MarketReadEffect
  BY LifeContext, <1>3 DEF MarketReadEffect, Stops
<1>4. CASE MarketTransitionEffect
  BY LifeContext, <1>4 DEF MarketTransitionEffect, Stops, Jumps, Transits
<1>5. CASE MarketRecordEffect
  BY LifeContext, <1>5 DEF MarketRecordEffect, Jumps, Writes
<1>6. CASE MarketApplyEffect
  BY LifeContext, <1>6 DEF MarketApplyEffect, Jumps, Books
<1>7. CASE MarketMarkEffect
  BY LifeContext, <1>7 DEF MarketMarkEffect, Stops, Marks
<1> QED
  BY <1>1, <1>2, <1>3, <1>4, <1>5, <1>6, <1>7 DEF MarketEffects

LEMMA Release_Cancel ==
  ASSUME LifeInv, ReleaseOK, CancelEffects
  PROVE ReleaseOK'
<1> USE DEF ReleaseOK, Releasing, RecordsOK, Others, Local, Idle, Entering, is_terminal
<1>1. ASSUME NEW t \in {"tick", "rest"},
             \/ BeginCancelEffect(t) \/ CancelRequestEffect(t) \/ CancelConfirmedEffect(t)
             \/ CancelReleaseEffect(t) \/ CancelFailedEffect(t)
      PROVE ReleaseOK'
  <2>1. CASE BeginCancelEffect(t)
    BY LifeContext, <1>1, <2>1 DEF BeginCancelEffect, Stops, Transits
  <2>2. CASE CancelRequestEffect(t)
    BY LifeContext, <1>1, <2>2 DEF CancelRequestEffect, Jumps
  <2>3. CASE CancelConfirmedEffect(t)
    BY LifeContext, <1>1, <2>3 DEF CancelConfirmedEffect, Jumps, Transits
  <2>4. CASE CancelReleaseEffect(t)
    BY LifeContext, <1>1, <2>4 DEF CancelReleaseEffect, Stops
  <2>5. CASE CancelFailedEffect(t)
    BY LifeContext, <1>1, <2>5 DEF CancelFailedEffect, Stops
  <2> QED
    BY <1>1, <2>1, <2>2, <2>3, <2>4, <2>5
<1> QED
  BY <1>1 DEF CancelEffects

LEMMA Release_Periodic ==
  ASSUME LifeInv, ReleaseOK, PeriodicEffects
  PROVE ReleaseOK'
<1> USE DEF ReleaseOK, Releasing, RecordsOK, Others, Local, Idle, Entering, is_terminal
<1>1. ASSUME NEW o \in Orders, NEW t \in {"tick", "rest"}, FindEffect(t, o) PROVE ReleaseOK'
  BY LifeContext, <1>1 DEF FindEffect
<1>2. ASSUME NEW o \in Orders, CleanupEffect(o) PROVE ReleaseOK'
  BY LifeContext, <1>2 DEF CleanupEffect
<1>3. CASE QueryEffect
  BY LifeContext, <1>3 DEF QueryEffect, Jumps, Stops
<1>4. CASE ForgetEffect
  BY LifeContext, <1>4 DEF ForgetEffect
<1> QED
  BY <1>1, <1>2, <1>3, <1>4 DEF PeriodicEffects

LEMMA Release_Feed ==
  ASSUME LifeInv, ReleaseOK, FeedEffects
  PROVE ReleaseOK'
<1> USE DEF ReleaseOK, Releasing, RecordsOK, CopiesOK, Others, Local, Idle, Entering, is_terminal
<1>1. ASSUME NEW i \in DOMAIN net, FillEventEffect(i) PROVE ReleaseOK'
  BY LifeContext, <1>1 DEF FillEventEffect, Stops
<1>2. ASSUME NEW i \in DOMAIN net, OrderMessageEffect(i) PROVE ReleaseOK'
  BY LifeContext, <1>2 DEF OrderMessageEffect, Stops
<1>3. CASE FillTransitionEffect
  BY LifeContext, <1>3 DEF FillTransitionEffect, Transits, FillState
<1>4. CASE FillRecordEffect
  BY LifeContext, <1>4 DEF FillRecordEffect, Writes, Jumps
<1>5. CASE FillApplyEffect
  BY LifeContext, <1>5 DEF FillApplyEffect, Books, Jumps
<1>6. CASE FillMarkEffect
  BY LifeContext, <1>6 DEF FillMarkEffect, Marks, Stops
<1>7. CASE UpdateFilledEffect
  BY LifeContext, <1>7 DEF UpdateFilledEffect, Transits, Jumps, Stops
<1>8. CASE UpdateCancelledEffect
  BY LifeContext, <1>8 DEF UpdateCancelledEffect, Transits, Jumps, Stops
<1>9. CASE UpdateReleaseEffect
  BY LifeContext, <1>9 DEF UpdateReleaseEffect, Jumps, Stops
<1>10. CASE UpdateReadEffect
  BY LifeContext, <1>10 DEF UpdateReadEffect
<1>11. CASE UpdateCheckEffect
  BY LifeContext, <1>11 DEF UpdateCheckEffect, LifeInv, OrderInv, MarksOK
<1>12. CASE UpdateRecordEffect
  BY LifeContext, <1>12 DEF UpdateRecordEffect, Writes, Jumps, Stops, Copied
<1>13. CASE UpdateMarkEffect
  BY LifeContext, <1>13 DEF UpdateMarkEffect, Marks, Jumps
<1>14. CASE UpdateApplyEffect
  BY LifeContext, <1>14 DEF UpdateApplyEffect, Books, Stops
<1> QED
  BY <1>1, <1>2, <1>3, <1>4, <1>5, <1>6, <1>7, <1>8, <1>9, <1>10, <1>11, <1>12, <1>13,
     <1>14 DEF FeedEffects

LEMMA Release_Next == LifeInv /\ ReleaseOK /\ [Next]_<<vars, env>> => ReleaseOK'
<1> SUFFICES ASSUME LifeInv, ReleaseOK, [Next]_<<vars, env>> PROVE ReleaseOK'
  OBVIOUS
<1>1. CASE UNCHANGED <<vars, env>>
  BY <1>1 DEF vars, ReleaseOK, Releasing
<1>2. CASE ExchangeEffects
  BY <1>2 DEF ExchangeEffects, ExchangeFillEffect, ExchangeCancelEffect, LoseEffect,
     ReleaseOK, Releasing
<1> QED
  BY <1>1, <1>2, Effects, Release_Entry, Release_Market, Release_Cancel, Release_Periodic,
     Release_Feed

(* The reservation of an order that has ended is released, for any orders, *)
(* faults and failed requests, once no thread works on it: the one that    *)
(* ended it has released it (CashReservationGuard, do_cancel,              *)
(* on_order_update or the first booking).                                  *)
THEOREM MarginNeverLeaks == Spec => []NoMarginLeak
<1>1. Init => ReleaseOK
  BY Life_Init DEF Init, NewRegistry, ReleaseOK, Entering, Threads, Idle
<1>2. ReleaseOK => NoMarginLeak
  BY DEF ReleaseOK, NoMarginLeak, Releasing, Quiet, Threads
<1> QED
  BY <1>1, <1>2, Life_Init, Life_Next, Release_Next, PTL DEF Spec

-----------------------------------------------------------------------------
(* The margin of an order that works is held.                              *)

(* With answered requests only an active order changes its state, and a    *)
(* confirmed cancel leaves it in a terminal one.                           *)
LEMMA HoldContext ==
  ASSUME LifeInv, HoldOK, Orderly
  PROVE /\ \A t \in Threads : th[t].pc # "idle" =>
             /\ reg.fsm[th[t].o] \in States \ {"New", "UnknownRecovery"}
             /\ \A s : CanTransition(reg, th[t].o, s) => is_active(reg.fsm[th[t].o])
             /\ is_active(reg.fsm[th[t].o]) => CanTransition(reg, th[t].o, "Cancelled")
             /\ is_active(reg.fsm[th[t].o]) \/ is_terminal(reg.fsm[th[t].o])
        /\ \A o \in Orders : o \notin issued => ex[o].status = "none"
        /\ "garbled_reply" \notin env.faults /\ "submit_reply_lost" \notin env.faults
        /\ env.cancelFailures = 0
        /\ th["tick"].pc \in {"reserve", "record", "submit"} => ex[th["tick"].o].status = "none"
<1>1. ASSUME NEW t \in Threads, th[t].pc # "idle"
      PROVE reg.fsm[th[t].o] \in States \ {"New", "UnknownRecovery"}
  BY <1>1, WorksOn DEF HoldOK
<1>2. ASSUME NEW t \in Threads, th[t].pc # "idle"
      PROVE /\ \A s : CanTransition(reg, th[t].o, s) => is_active(reg.fsm[th[t].o])
            /\ is_active(reg.fsm[th[t].o]) => CanTransition(reg, th[t].o, "Cancelled")
            /\ is_active(reg.fsm[th[t].o]) \/ is_terminal(reg.fsm[th[t].o])
  <2> DEFINE f == reg.fsm[th[t].o]
  <2>1. f \in States \ {"New", "UnknownRecovery"}
    BY <1>1, <1>2
  <2>2. is_active(f) => "Cancelled" \in Successors(f) /\ ~is_terminal(f) /\ f # "none"
    BY <2>1 DEF is_active, is_terminal, Successors
  <2>3. is_active(f) \/ is_terminal(f)
    BY <2>1 DEF is_active, is_terminal, States
  <2> QED
    BY <2>2, <2>3 DEF CanTransition, is_valid_transition
<1>3. "garbled_reply" \notin env.faults /\ "submit_reply_lost" \notin env.faults
        /\ env.cancelFailures = 0
  BY DEF Orderly
<1> QED
  BY <1>1, <1>2, <1>3 DEF LifeInv, OrderInv, ExchangeOK, EntrySteps

LEMMA HoldTransits ==
  ASSUME LifeInv, HoldOK, Orderly, NEW t \in Threads, th[t].pc # "idle",
         NEW s \in States \ {"UnknownRecovery"}, Transits(th[t].o, s)
  PROVE \A o \in Orders :
          /\ reg'.fsm[o] # "UnknownRecovery"
          /\ is_terminal(reg.fsm[o]) => is_terminal(reg'.fsm[o])
          /\ is_active(reg'.fsm[o]) => is_active(reg.fsm[o])
<1>1. CanTransition(reg, th[t].o, s) => is_active(reg.fsm[th[t].o])
  BY HoldContext
<1>2. \A o \in Orders : is_active(reg.fsm[o]) => ~is_terminal(reg.fsm[o])
  BY DEF is_active, is_terminal
<1> QED
  BY <1>1, <1>2 DEF Transits, HoldOK

LEMMA Hold_Entry ==
  ASSUME LifeInv, HoldOK, EntryEffects
  PROVE HoldOK'
<1> SUFFICES ASSUME Orderly, Orderly' PROVE HoldOK'
  <2>1. UNCHANGED env
    BY DEF EntryEffects, ExecuteEffect, ReserveEffect, RecordEffect, SubmitEffect, RejectEffect,
           RejectedEffect, AcceptedEffect, Local
  <2> QED
    BY <2>1 DEF HoldOK, Orderly
<1> USE DEF HoldOK, Live, Sending, RecordsOK, CopiesOK, Others, Local, Idle, Entering,
            is_terminal, is_active
<1>1. ASSUME NEW o \in Orders, ExecuteEffect(o) PROVE HoldOK'
  BY LifeContext, HoldContext, <1>1 DEF ExecuteEffect
<1>2. CASE ReserveEffect
  BY LifeContext, HoldContext, <1>2 DEF ReserveEffect, Jumps
<1>3. CASE RecordEffect
  BY LifeContext, HoldContext, <1>3 DEF RecordEffect, Jumps, Writes
<1>4. CASE SubmitEffect
  BY LifeContext, HoldContext, <1>4 DEF SubmitEffect, Jumps
<1>5. CASE RejectEffect
  BY LifeContext, HoldContext, <1>5 DEF RejectEffect, Jumps, Transits
<1>6. CASE RejectedEffect
  BY LifeContext, HoldContext, <1>6 DEF RejectedEffect, Stops, Writes
<1>7. CASE AcceptedEffect
  BY LifeContext, HoldContext, <1>7 DEF AcceptedEffect, Stops, Writes
<1> QED
  BY <1>1, <1>2, <1>3, <1>4, <1>5, <1>6, <1>7 DEF EntryEffects

LEMMA Hold_Market ==
  ASSUME LifeInv, HoldOK, MarketEffects
  PROVE HoldOK'
<1> SUFFICES ASSUME Orderly, Orderly' PROVE HoldOK'
  <2>1. UNCHANGED env
    BY DEF MarketEffects, PollEffect, GiveUpEffect, MarketReadEffect, MarketTransitionEffect,
           MarketRecordEffect, MarketApplyEffect, MarketMarkEffect, Local
  <2> QED
    BY <2>1 DEF HoldOK, Orderly
<1> USE DEF HoldOK, Live, Sending, RecordsOK, CopiesOK, Others, Local, Idle, Polling,
            is_terminal, is_active
<1>1. CASE PollEffect
  BY LifeContext, <1>1 DEF PollEffect
<1>2. CASE GiveUpEffect
  <2>1. \A o \in Orders :
          /\ reg'.fsm[o] # "UnknownRecovery"
          /\ is_terminal(reg.fsm[o]) => is_terminal(reg'.fsm[o])
          /\ is_active(reg'.fsm[o]) => is_active(reg.fsm[o])
    BY LifeContext, HoldContext, HoldTransits, <1>2 DEF GiveUpEffect, States
  <2> QED
    BY LifeContext, <1>2, <2>1 DEF GiveUpEffect, Stops
<1>3. CASE MarketReadEffect
  BY LifeContext, <1>3 DEF MarketReadEffect, Stops
<1>4. CASE MarketTransitionEffect
  BY LifeContext, HoldContext, <1>4 DEF MarketTransitionEffect, Stops, Jumps, Transits
<1>5. CASE MarketRecordEffect
  BY LifeContext, <1>5 DEF MarketRecordEffect, Jumps, Writes
<1>6. CASE MarketApplyEffect
  BY LifeContext, <1>6 DEF MarketApplyEffect, Jumps, Books
<1>7. CASE MarketMarkEffect
  BY LifeContext, <1>7 DEF MarketMarkEffect, Stops, Marks
<1> QED
  BY <1>1, <1>2, <1>3, <1>4, <1>5, <1>6, <1>7 DEF MarketEffects

LEMMA Hold_Cancel ==
  ASSUME LifeInv, HoldOK, CancelEffects
  PROVE HoldOK'
<1> USE DEF HoldOK, Live, Sending, RecordsOK, Others, Local, Idle,
            is_terminal, is_active
<1>1. ASSUME NEW t \in {"tick", "rest"}, Orderly, Orderly',
             \/ BeginCancelEffect(t) \/ CancelRequestEffect(t) \/ CancelConfirmedEffect(t)
             \/ CancelReleaseEffect(t) \/ CancelFailedEffect(t)
      PROVE HoldOK'
  <2>1. CASE BeginCancelEffect(t)
    <3>1. \A o \in Orders :
            /\ reg'.fsm[o] # "UnknownRecovery"
            /\ is_terminal(reg.fsm[o]) => is_terminal(reg'.fsm[o])
            /\ is_active(reg'.fsm[o]) => is_active(reg.fsm[o])
      BY LifeContext, HoldTransits, <1>1, <2>1 DEF BeginCancelEffect, States
    <3> QED
      BY LifeContext, <1>1, <2>1, <3>1 DEF BeginCancelEffect, Stops
  <2>2. CASE CancelRequestEffect(t)
    <3>1. Jumps(t, "cancel_confirmed") /\ UNCHANGED <<reg, reserved, booked, env>>
      BY HoldContext, <1>1, <2>2 DEF CancelRequestEffect
    <3>2. \A o \in Orders : /\ ex'[o].status = "live" => ex[o].status = "live"
                            /\ ex[o].status = "none" => ex'[o].status = "none"
      BY <2>2 DEF CancelRequestEffect, Cancels
    <3> QED
      BY LifeContext, <1>1, <2>2, <3>1, <3>2 DEF CancelRequestEffect, Jumps
  <2>3. CASE CancelConfirmedEffect(t)
    BY LifeContext, HoldContext, <1>1, <2>3 DEF CancelConfirmedEffect, Jumps, Transits
  <2>4. CASE CancelReleaseEffect(t)
    BY LifeContext, HoldContext, <1>1, <2>4 DEF CancelReleaseEffect, Stops
  <2>5. CASE CancelFailedEffect(t)
    BY LifeContext, <1>1, <2>5 DEF CancelFailedEffect
  <2> QED
    BY <1>1, <2>1, <2>2, <2>3, <2>4, <2>5
<1>2. UNCHANGED env
  BY DEF CancelEffects, BeginCancelEffect, CancelRequestEffect, CancelConfirmedEffect,
         CancelReleaseEffect, CancelFailedEffect
<1> QED
  BY <1>1, <1>2 DEF CancelEffects, Orderly

LEMMA Hold_Periodic ==
  ASSUME LifeInv, HoldOK, PeriodicEffects
  PROVE HoldOK'
<1> USE DEF HoldOK, Orderly, Live, Sending, RecordsOK, Others, Local, Idle, is_terminal, is_active
<1>1. ASSUME NEW o \in Orders, NEW t \in {"tick", "rest"}, FindEffect(t, o) PROVE HoldOK'
  BY LifeContext, <1>1 DEF FindEffect
<1>2. ASSUME NEW o \in Orders, CleanupEffect(o) PROVE HoldOK'
  BY LifeContext, <1>2 DEF CleanupEffect
<1>3. CASE QueryEffect
  BY LifeContext, <1>3 DEF QueryEffect, Jumps, Stops
<1>4. CASE ForgetEffect
  BY LifeContext, <1>4 DEF ForgetEffect
<1> QED
  BY <1>1, <1>2, <1>3, <1>4 DEF PeriodicEffects

LEMMA Hold_Feed ==
  ASSUME LifeInv, HoldOK, FeedEffects
  PROVE HoldOK'
<1> SUFFICES ASSUME Orderly, Orderly' PROVE HoldOK'
  <2>1. UNCHANGED env
    BY DEF FeedEffects, FillEventEffect, OrderMessageEffect, FillTransitionEffect,
           FillRecordEffect, FillApplyEffect, FillMarkEffect, UpdateFilledEffect,
           UpdateCancelledEffect, UpdateReleaseEffect, UpdateReadEffect, UpdateCheckEffect,
           UpdateRecordEffect, UpdateMarkEffect, UpdateApplyEffect, Local
  <2> QED
    BY <2>1 DEF HoldOK, Orderly
<1> USE DEF HoldOK, Live, Sending, RecordsOK, CopiesOK, Others, Local, Idle,
            is_terminal, is_active
<1>1. ASSUME NEW i \in DOMAIN net, FillEventEffect(i) PROVE HoldOK'
  BY LifeContext, <1>1 DEF FillEventEffect, Stops
<1>2. ASSUME NEW i \in DOMAIN net, OrderMessageEffect(i) PROVE HoldOK'
  BY LifeContext, <1>2 DEF OrderMessageEffect, Stops
<1>3. CASE FillTransitionEffect
  <2>1. FillState(th["ws"].rec) \in States \ {"UnknownRecovery"}
    BY DEF FillState, States
  <2>2. \A o \in Orders :
          /\ reg'.fsm[o] # "UnknownRecovery"
          /\ is_terminal(reg.fsm[o]) => is_terminal(reg'.fsm[o])
          /\ is_active(reg'.fsm[o]) => is_active(reg.fsm[o])
    BY LifeContext, HoldTransits, <1>3, <2>1 DEF FillTransitionEffect
  <2> QED
    BY LifeContext, <1>3, <2>2 DEF FillTransitionEffect
<1>4. CASE FillRecordEffect
  BY LifeContext, <1>4 DEF FillRecordEffect, Writes, Jumps
<1>5. CASE FillApplyEffect
  BY LifeContext, <1>5 DEF FillApplyEffect, Books, Jumps
<1>6. CASE FillMarkEffect
  BY LifeContext, <1>6 DEF FillMarkEffect, Marks, Stops
<1>7. CASE UpdateFilledEffect
  BY LifeContext, HoldContext, <1>7 DEF UpdateFilledEffect, Transits, Jumps, Stops
<1>8. CASE UpdateCancelledEffect
  BY LifeContext, HoldContext, <1>8 DEF UpdateCancelledEffect, Transits, Jumps, Stops
<1>9. CASE UpdateReleaseEffect
  BY LifeContext, HoldContext, <1>9 DEF UpdateReleaseEffect, Jumps, Stops
<1>10. CASE UpdateReadEffect
  BY LifeContext, <1>10 DEF UpdateReadEffect
<1>11. CASE UpdateCheckEffect
  BY LifeContext, <1>11 DEF UpdateCheckEffect
<1>12. CASE UpdateRecordEffect
  BY LifeContext, <1>12 DEF UpdateRecordEffect, Writes, Jumps, Stops
<1>13. CASE UpdateMarkEffect
  BY LifeContext, <1>13 DEF UpdateMarkEffect, Marks, Jumps
<1>14. CASE UpdateApplyEffect
  <2>1. th["ws"].rec.filled > 0
    BY <1>14 DEF UpdateApplyEffect, LifeInv, OrderInv, LocalsOK, GoodLocals, Threads
  <2> QED
    BY LifeContext, <1>14, <2>1 DEF UpdateApplyEffect, Books, Stops
<1> QED
  BY <1>1, <1>2, <1>3, <1>4, <1>5, <1>6, <1>7, <1>8, <1>9, <1>10, <1>11, <1>12, <1>13,
     <1>14 DEF FeedEffects

LEMMA Hold_Exchange ==
  ASSUME LifeInv, HoldOK, ExchangeEffects
  PROVE HoldOK'
<1> USE DEF HoldOK, Orderly, Live, Sending
<1>1. ASSUME NEW o \in Orders, ExchangeFillEffect(o) PROVE HoldOK'
  BY LifeContext, <1>1 DEF ExchangeFillEffect
<1>2. ASSUME NEW o \in Orders, ExchangeCancelEffect(o) PROVE HoldOK'
  BY LifeContext, <1>2 DEF ExchangeCancelEffect, Cancels
<1>3. CASE LoseEffect
  BY <1>3 DEF LoseEffect
<1> QED
  BY <1>1, <1>2, <1>3 DEF ExchangeEffects

LEMMA Hold_Next == LifeInv /\ HoldOK /\ [Next]_<<vars, env>> => HoldOK'
<1> SUFFICES ASSUME LifeInv, HoldOK, [Next]_<<vars, env>> PROVE HoldOK'
  OBVIOUS
<1>1. CASE UNCHANGED <<vars, env>>
  BY <1>1 DEF vars, HoldOK, Orderly, Live, Sending
<1> QED
  BY <1>1, Effects, Hold_Entry, Hold_Market, Hold_Cancel, Hold_Periodic, Hold_Feed,
     Hold_Exchange

(* While the requests are answered, the margin of a limit order that is    *)
(* live at the exchange and not booked yet stays reserved, whichever of    *)
(* the watchdog, the reconciliation and the order updates works on it.     *)
THEOREM MarginIsHeld == Spec => []MarginHeldWhileWorking
<1>1. Init => HoldOK
  BY DEF Init, NewRegistry, HoldOK, Threads, Idle, Live, Sending
<1>2. HoldOK => MarginHeldWhileWorking
  BY DEF HoldOK, MarginHeldWhileWorking, Live, is_active
<1> QED
  BY <1>1, <1>2, Life_Init, Life_Next, Hold_Next, PTL DEF Spec

-----------------------------------------------------------------------------
(* The messages of a channel that only repeats are in order.               *)
InSequence == ChannelOK /\ UnseenOK /\ BookingsOK /\ FeedOK
SequenceKept == ChannelOK' /\ UnseenOK' /\ BookingsOK' /\ FeedOK'

LEMMA SequenceContext ==
  ASSUME LifeInv, HoldOK, Orderly
  PROVE /\ net \in Seq(Message) /\ DOMAIN net = 1..Len(net) /\ Len(net) \in Nat
        /\ \A i \in DOMAIN net : /\ net[i].o \in Orders /\ net[i].k \in Nat
                                 /\ net[i].kind = "fill" => net[i].k > 0
        /\ \A o \in Orders : ex[o].filled \in Nat /\ booked[o] \in Nat
        /\ \A o \in Orders : reg.orders[o].filled \in Nat
        /\ \A o \in Orders : ex[o].status \in {"none", "live"} => ~Ended(o)
        /\ \A t \in Threads : th[t].pc # "cancel_failed"
        /\ th["tick"].pc = "submit" => ex[th["tick"].o].status = "none"
<1>1. net \in Seq(Message) /\ ex \in [Orders -> ExchangeOrder] /\ booked \in [Orders -> Nat]
  BY DEF LifeInv, OrderInv, TypeOK
<1>2. DOMAIN net = 1..Len(net) /\ Len(net) \in Nat
  BY <1>1
<1>3. \A i \in DOMAIN net : net[i] \in Message
  BY <1>1
<1>4. \A i \in DOMAIN net : net[i].o \in Orders /\ net[i].k \in Nat
  BY <1>3 DEF Message
<1>5. \A i \in DOMAIN net : net[i].kind = "fill" => net[i].k \in 1..Qty
  BY DEF LifeInv, OrderInv, ExchangeOK, GoodMessage
<1>6. \A i \in DOMAIN net : net[i].kind = "fill" => net[i].k > 0
  BY <1>5, OrderExecutionAssumption
<1>7. \A o \in Orders : ex[o].filled \in Nat /\ booked[o] \in Nat
  BY <1>1 DEF ExchangeOrder
<1>8. \A t \in Threads : th[t].pc # "cancel_failed"
  BY DEF HoldOK
<1>9. th["tick"].pc = "submit" => ex[th["tick"].o].status = "none"
  BY DEF LifeInv, OrderInv, ExchangeOK, EntrySteps
<1>10. \A o \in Orders : reg.orders[o].filled \in Nat
  BY LifeContext
<1>11. \A o \in Orders : ex[o].status \in {"none", "live"} => ~Ended(o)
  BY DEF Ended
<1> QED
  BY <1>1, <1>2, <1>4, <1>6, <1>7, <1>8, <1>9, <1>10, <1>11

(* A step of another thread: it leaves the channel and the feed alone, no  *)
(* record or booking of a limit order grows, and what it indexes is not    *)
(* booked yet.                                                             *)
Aside ==
  /\ UNCHANGED <<net, env, reg.seen>> /\ th'["ws"] = th["ws"]
  /\ reg' \in Registry /\ \A o \in Orders : booked'[o] \in Nat
  /\ \A o \in Orders : ex'[o].filled = ex[o].filled /\ (Ended(o) => Ended(o)')
  /\ \A o \in Orders \ env.market :
       reg'.orders[o].filled <= reg.orders[o].filled /\ booked'[o] <= booked[o]
  /\ \A o \in Orders \ env.market :
       o \in reg'.index /\ booked'[o] > 0 => o \in reg.index
  /\ \A o \in reg.applied \ reg'.applied : o \notin reg'.index /\ th["ws"].o # o

LEMMA SequenceAside ==
  ASSUME LifeInv, HoldOK, Orderly, InSequence, Aside
  PROVE SequenceKept
<1> USE DEF InSequence, Aside
<1>1. \A o \in Orders : reg'.orders[o].filled \in Nat /\ booked'[o] \in Nat
  BY DEF Registry, OrderRecords
<1>2. ChannelOK'
  BY SequenceContext DEF ChannelOK
<1>3. UnseenOK'
  <2> SUFFICES ASSUME NEW i \in DOMAIN net, net[i].kind = "fill", net[i].o \notin env.market,
                      <<net[i].o, net[i].k>> \notin reg.seen
               PROVE reg'.orders[net[i].o].filled < net[i].k /\ booked'[net[i].o] < net[i].k
    BY DEF UnseenOK
  <2>1. net[i].o \in Orders /\ net[i].k \in Nat
    BY SequenceContext
  <2>2. reg.orders[net[i].o].filled < net[i].k /\ booked[net[i].o] < net[i].k
    BY DEF UnseenOK
  <2> QED
    BY <1>1, <2>1, <2>2, SequenceContext
<1>4. BookingsOK'
  <2> SUFFICES ASSUME NEW o \in Orders \ env.market
               PROVE /\ reg'.orders[o].filled <= ex'[o].filled /\ booked'[o] <= ex'[o].filled
                     /\ o \in reg'.index /\ booked'[o] > 0 =>
                          o \in reg'.applied \/ (th["ws"].pc = "fill_mark" /\ th["ws"].o = o)
    BY DEF BookingsOK
  <2>1. reg.orders[o].filled <= ex[o].filled /\ booked[o] <= ex[o].filled
    BY DEF BookingsOK
  <2>2. reg'.orders[o].filled <= ex'[o].filled /\ booked'[o] <= ex'[o].filled
    BY <1>1, <2>1, SequenceContext
  <2>3. o \in reg'.index /\ booked'[o] > 0 => o \in reg.index /\ booked[o] > 0
    BY <1>1, SequenceContext
  <2> QED
    BY <2>2, <2>3 DEF BookingsOK
<1>5. FeedOK'
  <2> DEFINE w == th["ws"]
  <2>1. w.pc # "idle" => w.o \in Orders /\ w.q \in Nat /\ w.rec.filled \in Nat
    BY LifeContext
  <2>2. ASSUME w.pc \in Filling
        PROVE /\ w.q <= ex'[w.o].filled
              /\ <<w.o, w.q>> \in reg'.seen
              /\ \A j \in DOMAIN net : net[j].kind = "fill" /\ net[j].o = w.o => net[j].k >= w.q
              /\ w.o \notin env.market =>
                   /\ w.pc = "fill" => w.rec.filled < w.q
                   /\ w.pc \in {"fill_record", "fill_apply"} => w.rec.filled <= w.q
                   /\ w.pc # "fill_mark" => booked'[w.o] < w.q
                   /\ reg'.orders[w.o].filled <= w.q /\ booked'[w.o] <= w.q
    BY <1>1, <2>1, <2>2, SequenceContext DEF FeedOK, Filling
  <2>3. ASSUME w.pc \in Ending
        PROVE /\ Ended(w.o)' /\ w.q <= ex'[w.o].filled
              /\ \A j \in DOMAIN net : net[j].o = w.o => net[j].kind # "fill"
              /\ w.o \notin env.market =>
                   /\ w.pc \in {"update_new", "update_applied", "update_mark", "update_apply"} =>
                        w.rec.filled <= ex'[w.o].filled
                   /\ w.pc \in {"update_new", "update_mark", "update_apply"} => booked'[w.o] = 0
                   /\ w.pc = "update_apply" => w.o \in reg'.applied
    BY <1>1, <2>1, <2>3, SequenceContext DEF FeedOK, Ending
  <2> QED
    BY <2>2, <2>3 DEF FeedOK
<1> QED
  BY <1>2, <1>3, <1>4, <1>5 DEF SequenceKept

LEMMA Sequence_Entry ==
  ASSUME LifeInv, HoldOK, Orderly, InSequence, EntryEffects
  PROVE SequenceKept
<1> USE DEF Aside, Local, Others
<1>0. /\ th["tick"].pc \in Entering => booked[th["tick"].o] = 0 /\ th["tick"].o \in Orders
      /\ \A o \in Orders : reg.orders[o].filled >= 0
      /\ reg \in Registry /\ booked \in [Orders -> Nat]
  BY LifeContext DEF CopiesOK, Entering
<1> USE DEF Entering
<1>1. ASSUME NEW o \in Orders, ExecuteEffect(o) PROVE Aside
  BY LifeContext, SequenceContext, EntryCopies, <1>0, <1>1 DEF ExecuteEffect, Ended
<1>2. ASSUME ReserveEffect PROVE Aside
  BY LifeContext, SequenceContext, <1>0, <1>2 DEF ReserveEffect, Jumps, Ended
<1>3. ASSUME RecordEffect PROVE Aside
  BY LifeContext, SequenceContext, EntryCopies, <1>0, <1>3 DEF RecordEffect, Jumps, Writes, Ended
<1>4. ASSUME SubmitEffect PROVE Aside
  BY LifeContext, SequenceContext, <1>0, <1>4 DEF SubmitEffect, Jumps, Ended
<1>5. ASSUME RejectEffect PROVE Aside
  BY LifeContext, SequenceContext, <1>0, <1>5 DEF RejectEffect, Jumps, Transits, Ended
<1>6. ASSUME RejectedEffect PROVE Aside
  BY LifeContext, SequenceContext, EntryCopies, <1>0, <1>6 DEF RejectedEffect, Stops, Writes, Ended
<1>7. ASSUME AcceptedEffect PROVE Aside
  <2> DEFINE o == th["tick"].o
  <2>1. /\ o \in Orders /\ booked[o] = 0 /\ Writes(o, AcceptedCopy) /\ booked' = booked
        /\ th'["ws"] = th["ws"] /\ UNCHANGED <<net, env, ex>>
    BY LifeContext, <1>0, <1>7 DEF AcceptedEffect, Stops
  <2>2. \A p \in Orders : reg'.orders[p].filled <= reg.orders[p].filled
    BY LifeContext, EntryCopies, <2>1 DEF Writes
  <2>3. \A p \in Orders : p \in reg'.index /\ booked'[p] > 0 => p \in reg.index
    BY <2>1 DEF Writes
  <2>4. reg' \in Registry /\ reg'.applied = reg.applied /\ reg'.seen = reg.seen
    BY <2>1 DEF Writes
  <2> HIDE DEF o
  <2> QED
    BY <1>0, <2>1, <2>2, <2>3, <2>4 DEF Ended
<1> QED
  BY SequenceAside, <1>1, <1>2, <1>3, <1>4, <1>5, <1>6, <1>7 DEF EntryEffects

LEMMA Sequence_Market ==
  ASSUME LifeInv, HoldOK, Orderly, InSequence, MarketEffects
  PROVE SequenceKept
<1> USE DEF Aside, Local, Others, Ended
<1>0. /\ th["tick"].pc \in Polling => th["tick"].o \in env.market /\ th["tick"].o \in Orders
      /\ \A o \in Orders : reg.orders[o].filled >= 0
      /\ reg \in Registry /\ booked \in [Orders -> Nat]
  BY LifeContext DEF CopiesOK, Polling
<1> USE DEF Polling
<1>1. ASSUME PollEffect PROVE Aside
  BY LifeContext, SequenceContext, <1>0, <1>1 DEF PollEffect
<1>2. ASSUME GiveUpEffect PROVE Aside
  BY LifeContext, SequenceContext, <1>0, <1>2 DEF GiveUpEffect, Stops, Transits
<1>3. ASSUME MarketReadEffect PROVE Aside
  BY LifeContext, SequenceContext, <1>0, <1>3 DEF MarketReadEffect, Stops
<1>4. ASSUME MarketTransitionEffect PROVE Aside
  BY LifeContext, SequenceContext, <1>0, <1>4 DEF MarketTransitionEffect, Stops, Jumps, Transits
<1>5. ASSUME MarketRecordEffect PROVE Aside
  <2> DEFINE o == th["tick"].o
             rec == [state |-> "Filled", filled |-> th["tick"].q, exch |-> TRUE]
  <2>1. /\ o \in Orders /\ o \in env.market /\ Writes(o, rec) /\ UNCHANGED booked
        /\ th'["ws"] = th["ws"] /\ UNCHANGED <<net, env, ex>>
    BY LifeContext, <1>0, <1>5 DEF MarketRecordEffect, Jumps
  <2> HIDE DEF o, rec
  <2>2. /\ reg' \in Registry /\ reg'.applied = reg.applied /\ reg'.seen = reg.seen
        /\ reg'.index \subseteq reg.index \cup {o}
        /\ \A p \in Orders \ env.market : reg'.orders[p] = reg.orders[p]
    BY <2>1 DEF Writes
  <2> QED
    BY LifeContext, <1>0, <2>1, <2>2
<1>6. ASSUME MarketApplyEffect PROVE Aside
  <2>1. /\ th["tick"].o \in env.market /\ th["tick"].o \in Orders
        /\ Books(th["tick"].o, th["tick"].q) /\ th["tick"].q \in Nat
        /\ th'["ws"] = th["ws"] /\ UNCHANGED <<net, env, ex, reg>>
    BY LifeContext, <1>0, <1>6 DEF MarketApplyEffect, Jumps
  <2> QED
    BY LifeContext, <1>0, <2>1 DEF Books
<1>7. ASSUME MarketMarkEffect PROVE Aside
  BY LifeContext, SequenceContext, <1>0, <1>7 DEF MarketMarkEffect, Stops, Marks
<1> QED
  BY SequenceAside, <1>1, <1>2, <1>3, <1>4, <1>5, <1>6, <1>7 DEF MarketEffects

(* A step of the exchange: a live order ends or a unit of it trades, which *)
(* the messages it appends report.                                         *)
Reports(o) ==
  /\ UNCHANGED <<reg, booked, env>> /\ th'["ws"] = th["ws"]
  /\ ex[o].status = "live"
  /\ ex'[o].filled \in Nat /\ ex[o].filled <= ex'[o].filled
  /\ \A p \in Orders \ {o} : ex'[p] = ex[p]
  /\ DOMAIN net' = 1..Len(net') /\ Len(net') \in Nat /\ Len(net) <= Len(net')
  /\ \A j \in 1..Len(net) : net'[j] = net[j]
  /\ \A j \in (Len(net) + 1)..Len(net') :
       /\ net'[j].o = o /\ net'[j].k \in Nat /\ net'[j].k <= ex'[o].filled
       /\ net'[j].kind = "fill" => ex[o].filled < net'[j].k
       /\ net'[j].kind # "fill" => Ended(o)'
  /\ \A i, j \in (Len(net) + 1)..Len(net') :
       i < j => net'[i].kind = "fill" /\ net'[j].kind # "fill"

LEMMA SequenceReports ==
  ASSUME LifeInv, HoldOK, Orderly, InSequence, NEW o \in Orders, Reports(o)
  PROVE SequenceKept
<1> DEFINE n == Len(net)
           w == th["ws"]
           Done == {"filled", "cancelled"}
<1> USE DEF InSequence, Reports
<1>1. /\ ~Ended(o) /\ \A p \in Orders : ex[p].filled \in Nat /\ ex[p].filled <= ex'[p].filled
      /\ \A p \in Orders : Ended(p) => p # o /\ Ended(p)'
      /\ \A p \in Orders : ex'[p].filled \in Nat
  BY SequenceContext DEF Ended
<1>2. /\ n \in Nat /\ DOMAIN net = 1..n
      /\ \A i \in 1..n : net[i].o \in Orders /\ net[i].k \in Nat
  BY SequenceContext
<1>3. \A j \in DOMAIN net' : j \in 1..n \/ j \in (n + 1)..Len(net')
  BY <1>2
<1>4. ASSUME NEW i \in 1..n
      PROVE /\ net[i].k <= ex'[net[i].o].filled
            /\ net[i].kind # "fill" => net[i].o # o /\ ex'[net[i].o].status \in Done
            /\ net[i].o = o => net[i].k <= ex[o].filled
  <2>1. net[i].k <= ex[net[i].o].filled /\ (net[i].kind # "fill" => Ended(net[i].o))
    BY <1>2 DEF ChannelOK
  <2> QED
    BY <1>1, <1>2, <2>1 DEF Ended
<1>5. ChannelOK'
  <2>1. ASSUME NEW i \in DOMAIN net'
        PROVE /\ net'[i].k <= ex'[net'[i].o].filled
              /\ net'[i].kind # "fill" => ex'[net'[i].o].status \in Done
    <3>1. CASE i \in 1..n
      BY <1>4, <3>1
    <3>2. CASE i \in (n + 1)..Len(net')
      BY <3>2 DEF Ended
    <3> QED
      BY <1>3, <3>1, <3>2
  <2>2. ASSUME NEW i \in DOMAIN net', NEW j \in DOMAIN net', i < j, net'[i].o = net'[j].o
        PROVE net'[i].kind = "fill" /\ (net'[j].kind = "fill" => net'[i].k < net'[j].k)
    <3>1. CASE i \in 1..n /\ j \in 1..n
      BY <1>2, <2>2, <3>1 DEF ChannelOK
    <3>2. CASE i \in 1..n /\ j \in (n + 1)..Len(net')
      <4>1. net'[i] = net[i] /\ net[i].o = o
        BY <2>2, <3>2
      <4>2. net[i].kind = "fill" /\ net[i].k <= ex[o].filled /\ net[i].k \in Nat
        BY <1>2, <1>4, <3>2, <4>1
      <4>3. net'[j].kind = "fill" => ex[o].filled < net'[j].k /\ net'[j].k \in Nat
        BY <3>2
      <4> QED
        BY <1>1, <4>1, <4>2, <4>3
    <3>3. CASE i \in (n + 1)..Len(net') /\ j \in (n + 1)..Len(net')
      BY <2>2, <3>3
    <3> QED
      BY <1>2, <1>3, <2>2, <3>1, <3>2, <3>3
  <2> QED
    BY <2>1, <2>2 DEF ChannelOK, Ended
<1>6. BookingsOK'
  <2> SUFFICES ASSUME NEW p \in Orders \ env.market
               PROVE reg.orders[p].filled <= ex'[p].filled /\ booked[p] <= ex'[p].filled
    BY DEF BookingsOK
  <2> QED
    BY <1>1, SequenceContext DEF BookingsOK
<1>7. UnseenOK'
  <2> SUFFICES ASSUME NEW i \in DOMAIN net', net'[i].kind = "fill", net'[i].o \notin env.market,
                      <<net'[i].o, net'[i].k>> \notin reg.seen
               PROVE reg.orders[net'[i].o].filled < net'[i].k /\ booked[net'[i].o] < net'[i].k
    BY DEF UnseenOK
  <2>1. CASE i \in 1..n
    BY <1>2, <2>1 DEF UnseenOK
  <2>2. CASE i \in (n + 1)..Len(net')
    <3>1. net'[i].o = o /\ ex[o].filled < net'[i].k /\ net'[i].k \in Nat
      BY <2>2
    <3>2. reg.orders[o].filled <= ex[o].filled /\ booked[o] <= ex[o].filled
      BY <3>1 DEF BookingsOK
    <3> QED
      BY <3>1, <3>2, SequenceContext
  <2> QED
    BY <1>3, <2>1, <2>2
<1>8. FeedOK'
  <2>1. w.pc # "idle" => w.o \in Orders /\ w.q \in Nat /\ w.rec.filled \in Nat
    BY LifeContext
  <2>2. ASSUME w.pc \in Filling
        PROVE /\ w.q <= ex'[w.o].filled
              /\ \A j \in DOMAIN net' : net'[j].kind = "fill" /\ net'[j].o = w.o =>
                   net'[j].k >= w.q
    <3>1. w.q <= ex[w.o].filled /\ w.o \in Orders /\ w.q \in Nat
      BY <2>1, <2>2 DEF FeedOK, Filling
    <3>2. ASSUME NEW j \in 1..n, net[j].kind = "fill" /\ net[j].o = w.o PROVE net[j].k >= w.q
      BY <1>2, <2>2, <3>2 DEF FeedOK
    <3>3. ASSUME NEW j \in (n + 1)..Len(net'), net'[j].kind = "fill", net'[j].o = w.o
          PROVE net'[j].k >= w.q
      <4>1. ex[o].filled < net'[j].k /\ net'[j].k \in Nat /\ w.o = o
        BY <3>3
      <4> QED
        BY <1>1, <3>1, <4>1
    <3> QED
      BY <1>1, <1>3, <3>1, <3>2, <3>3
  <2>3. ASSUME w.pc \in Ending
        PROVE /\ Ended(w.o)' /\ w.q <= ex'[w.o].filled
              /\ \A j \in DOMAIN net' : net'[j].o = w.o => net'[j].kind # "fill"
              /\ w.o # o
    <3>1. Ended(w.o) /\ w.q <= ex[w.o].filled /\ w.o \in Orders /\ w.q \in Nat
      BY <2>1, <2>3 DEF FeedOK, Ending
    <3>2. w.o # o /\ Ended(w.o)'
      BY <1>1, <3>1
    <3>3. \A j \in 1..n : net[j].o = w.o => net[j].kind # "fill"
      BY <1>2, <2>3 DEF FeedOK
    <3> QED
      BY <1>1, <1>3, <3>1, <3>2, <3>3
  <2>4. w.pc \in Filling \cup Ending => w.pc # "idle"
    BY DEF Filling, Ending
  <2>5. \A p \in Orders : p # o => ex'[p].filled = ex[p].filled
    OBVIOUS
  <2> QED
    BY <2>1, <2>2, <2>3, <2>4, <2>5 DEF FeedOK
<1> QED
  BY <1>5, <1>6, <1>7, <1>8 DEF SequenceKept

LEMMA CancelReports ==
  ASSUME LifeInv, HoldOK, Orderly, InSequence, NEW o \in Orders, ex[o].status = "live",
         Cancels(o), UNCHANGED <<reg, booked, env>>, th'["ws"] = th["ws"]
  PROVE Reports(o)
<1> DEFINE m == StatusMessage(o, "cancelled", ex[o].filled)
           n == Len(net)
<1>1. net \in Seq(Message) /\ n \in Nat /\ ex[o].filled \in Nat
  BY SequenceContext
<1>2. m \in Message /\ m.o = o /\ m.k = ex[o].filled /\ m.kind = "cancelled"
  BY <1>1 DEF Message, StatusMessage
<1> HIDE DEF m
<1>3. net' = Append(net, m)
  BY DEF Cancels, m
<1>4. /\ Len(net') = n + 1 /\ DOMAIN net' = 1..Len(net') /\ net'[n + 1] = m
      /\ \A j \in 1..n : net'[j] = net[j]
  BY <1>1, <1>2, <1>3
<1>5. \A j \in (n + 1)..Len(net') : j = n + 1
  BY <1>1, <1>4
<1>6. Ended(o)' /\ ex'[o].filled = ex[o].filled /\ \A p \in Orders \ {o} : ex'[p] = ex[p]
  BY DEF Cancels, Ended
<1> QED
  BY <1>1, <1>2, <1>4, <1>5, <1>6 DEF Reports

LEMMA Sequence_Exchange ==
  ASSUME LifeInv, HoldOK, Orderly, InSequence, ExchangeEffects
  PROVE SequenceKept
<1>1. ASSUME NEW o \in Orders, ExchangeFillEffect(o) PROVE SequenceKept
  <2> DEFINE n == Len(net)
             k == ex[o].filled + 1
  <2>1. n \in Nat /\ k \in Nat /\ ex[o].filled < k
    BY SequenceContext
  <2>2. /\ ex[o].status = "live" /\ ex'[o].filled = k
        /\ \A p \in Orders \ {o} : ex'[p] = ex[p]
        /\ \A j \in 1..n : net'[j] = net[j]
        /\ net'[n + 1].kind = "fill" /\ net'[n + 1].o = o /\ net'[n + 1].k = k
        /\ UNCHANGED <<reg, booked, env>> /\ th'["ws"] = th["ws"]
        /\ net' \in Seq(Message)
    BY <1>1 DEF ExchangeFillEffect
  <2>3. DOMAIN net' = 1..Len(net') /\ Len(net') \in Nat
    BY <2>2
  <2>6. ex[o].filled <= k /\ k <= k
    BY <2>1, SequenceContext
  <2>4. CASE k # Qty
    <3>1. Len(net') = n + 1
      BY <1>1, <2>4 DEF ExchangeFillEffect
    <3>2. \A j \in (n + 1)..Len(net') : j = n + 1
      BY <2>1, <3>1
    <3>3. \A j \in (n + 1)..Len(net') :
            net'[j].kind = "fill" /\ net'[j].o = o /\ net'[j].k = k
      BY <2>2, <3>2
    <3>4. \A i, j \in (n + 1)..Len(net') : ~(i < j)
      BY <2>1, <3>2
    <3> HIDE DEF k
    <3>5. Reports(o)
      BY <2>1, <2>2, <2>3, <2>6, <3>1, <3>3, <3>4 DEF Reports
    <3> QED
      BY <3>5, SequenceReports
  <2>5. CASE k = Qty
    <3>1. /\ Len(net') = n + 2 /\ Ended(o)'
          /\ net'[n + 2].kind = "filled" /\ net'[n + 2].o = o /\ net'[n + 2].k = k
      BY <1>1, <2>5 DEF ExchangeFillEffect, Ended
    <3>2. \A j \in (n + 1)..Len(net') : j = n + 1 \/ j = n + 2
      BY <2>1, <3>1
    <3>3. \A i, j \in (n + 1)..Len(net') : i < j => i = n + 1 /\ j = n + 2
      BY <2>1, <3>2
    <3>4. \A j \in (n + 1)..Len(net') :
            /\ net'[j].o = o /\ net'[j].k = k
            /\ net'[j].kind = IF j = n + 1 THEN "fill" ELSE "filled"
      BY <2>1, <2>2, <3>1, <3>2
    <3>5. n + 1 # n + 2
      BY <2>1
    <3> HIDE DEF k
    <3>6. Reports(o)
      BY <2>1, <2>2, <2>3, <2>6, <3>1, <3>3, <3>4, <3>5 DEF Reports
    <3> QED
      BY <3>6, SequenceReports
  <2> QED
    BY <2>4, <2>5
<1>2. ASSUME NEW o \in Orders, ExchangeCancelEffect(o) PROVE SequenceKept
  <2>1. Reports(o)
    BY <1>2, CancelReports DEF ExchangeCancelEffect
  <2> QED
    BY <2>1, SequenceReports
<1>3. ~LoseEffect
  BY DEF LoseEffect, Orderly
<1> QED
  BY <1>1, <1>2, <1>3 DEF ExchangeEffects

LEMMA Sequence_Cancel ==
  ASSUME LifeInv, HoldOK, Orderly, InSequence, CancelEffects
  PROVE SequenceKept
<1> SUFFICES ASSUME NEW t \in {"tick", "rest"},
                    \/ BeginCancelEffect(t) \/ CancelRequestEffect(t) \/ CancelConfirmedEffect(t)
                    \/ CancelReleaseEffect(t) \/ CancelFailedEffect(t)
             PROVE SequenceKept
  BY DEF CancelEffects
<1>0. /\ \A o \in Orders : reg.orders[o].filled \in Nat /\ booked[o] \in Nat
      /\ reg \in Registry /\ t \in Threads /\ "ws" \in Threads \ {t}
      /\ th[t].pc # "cancel_failed" /\ (th[t].pc # "idle" => th[t].o \in Orders)
  BY LifeContext, SequenceContext
<1>1. ASSUME BeginCancelEffect(t) PROVE Aside
  BY <1>0, <1>1 DEF BeginCancelEffect, Transits, Stops, Others, Local, Aside, Ended
<1>2. ASSUME CancelRequestEffect(t) PROVE SequenceKept
  <2>1. /\ th[t].o \in Orders /\ th'["ws"] = th["ws"] /\ UNCHANGED <<reg, booked, env>>
    BY <1>0, <1>2 DEF CancelRequestEffect, Jumps, Others
  <2>2. CASE UNCHANGED <<ex, net>>
    <3>1. Aside
      BY <1>0, <2>1, <2>2 DEF Aside, Ended
    <3> QED
      BY <3>1, SequenceAside
  <2>3. CASE ex[th[t].o].status = "live" /\ Cancels(th[t].o)
    <3>1. Reports(th[t].o)
      BY <2>1, <2>3, CancelReports
    <3> QED
      BY <2>1, <3>1, SequenceReports
  <2> QED
    BY <1>2, <2>2, <2>3 DEF CancelRequestEffect
<1>3. ASSUME CancelConfirmedEffect(t) PROVE Aside
  BY <1>0, <1>3 DEF CancelConfirmedEffect, Transits, Jumps, Others, Local, Aside, Ended
<1>4. ASSUME CancelReleaseEffect(t) PROVE Aside
  BY <1>0, <1>4 DEF CancelReleaseEffect, Stops, Others, Local, Aside, Ended
<1>5. ~CancelFailedEffect(t)
  BY <1>0 DEF CancelFailedEffect
<1> QED
  BY SequenceAside, <1>1, <1>2, <1>3, <1>4, <1>5

LEMMA Sequence_Periodic ==
  ASSUME LifeInv, HoldOK, Orderly, InSequence, PeriodicEffects
  PROVE SequenceKept
<1>0. /\ \A o \in Orders : reg.orders[o].filled \in Nat /\ booked[o] \in Nat
      /\ reg \in Registry /\ reg.index \subseteq Orders
      /\ "tick" \in Threads /\ "rest" \in Threads /\ "ws" \in Threads
  BY LifeContext, SequenceContext
<1> USE DEF Aside, Local, Others, Ended
<1>1. ASSUME NEW o \in Orders, FindEffect("tick", o) \/ FindEffect("rest", o) PROVE Aside
  BY <1>0, <1>1 DEF FindEffect
<1>2. ASSUME NEW o \in Orders, CleanupEffect(o) PROVE Aside
  BY <1>0, <1>2 DEF CleanupEffect, NoRecord
<1>3. ASSUME QueryEffect PROVE Aside
  BY <1>0, <1>3 DEF QueryEffect, Jumps, Stops
<1>4. ASSUME ForgetEffect PROVE Aside
  BY <1>0, <1>4 DEF ForgetEffect
<1> QED
  BY SequenceAside, <1>1, <1>2, <1>3, <1>4 DEF PeriodicEffects

(* The feed takes the oldest message, which may be delivered again.        *)
LEMMA SequenceTakes ==
  ASSUME LifeInv, HoldOK, Orderly, InSequence, NEW i \in DOMAIN net, Takes(i), UNCHANGED <<ex, env>>
  PROVE /\ i = 1
        /\ \A j \in DOMAIN net' : \E u \in DOMAIN net : net'[j] = net[u]
        /\ ChannelOK'
<1>1. i = 1 /\ (net' = net \/ Shifted)
  BY DEF Takes, Orderly
<1>2. net \in Seq(Message) /\ DOMAIN net = 1..Len(net) /\ Len(net) \in Nat
  BY SequenceContext
<1>3. CASE net' = net
  BY <1>1, <1>3 DEF InSequence, ChannelOK, Ended
<1>4. CASE Shifted
  <2>1. DOMAIN net' = 1..Len(net') /\ Len(net') = Len(net) - 1 /\ Len(net') \in Nat
    BY <1>4 DEF Shifted
  <2>2. \A j \in DOMAIN net' : j + 1 \in DOMAIN net /\ net'[j] = net[j + 1]
    BY <1>2, <1>4, <2>1 DEF Shifted
  <2>3. \A j, u \in DOMAIN net' : j < u => j + 1 < u + 1
    BY <2>1
  <2>4. ChannelOK'
    BY <2>2, <2>3 DEF InSequence, ChannelOK, Ended
  <2> QED
    BY <1>1, <2>2, <2>4
<1> QED
  BY <1>1, <1>3, <1>4

LEMMA Sequence_Deliver ==
  ASSUME LifeInv, HoldOK, Orderly, InSequence, NEW i \in DOMAIN net,
         FillEventEffect(i) \/ OrderMessageEffect(i)
  PROVE SequenceKept
<1> DEFINE m == net[1]
           w == th'["ws"]
<1> USE DEF InSequence
<1>1. /\ UNCHANGED <<reg.orders, reg.index, reg.applied, booked, ex, env>>
      /\ reg.seen \subseteq reg'.seen
      /\ th["ws"].pc = "idle" /\ Takes(i)
  BY DEF FillEventEffect, OrderMessageEffect
<1>2. /\ i = 1 /\ 1 \in DOMAIN net
      /\ \A j \in DOMAIN net' : \E u \in DOMAIN net : net'[j] = net[u]
      /\ ChannelOK'
  BY <1>1, SequenceTakes
<1>3. UnseenOK'
  BY <1>1, <1>2 DEF UnseenOK
<1>4. BookingsOK'
  BY <1>1 DEF BookingsOK
<1>5. m.o \in Orders /\ m.k \in Nat /\ m.k <= ex[m.o].filled
  BY <1>2, SequenceContext DEF ChannelOK
<1>6. ASSUME Stops("ws") PROVE FeedOK'
  BY <1>6 DEF FeedOK, Stops, Idle, Filling, Ending
<1>7. ASSUME FillEventEffect(i), ~Stops("ws") PROVE FeedOK'
  <2>1. /\ m.kind = "fill" /\ <<m.o, m.k>> \notin reg.seen /\ m.o \in reg.index
        /\ w.pc = "fill" /\ w.o = m.o /\ w.q = m.k /\ w.rec = reg.orders[m.o]
        /\ <<m.o, m.k>> \in reg'.seen
    BY <1>2, <1>7 DEF FillEventEffect
  <2>2. \A u \in DOMAIN net : net[u].kind = "fill" /\ net[u].o = m.o => net[u].k >= m.k
    <3> SUFFICES ASSUME NEW u \in DOMAIN net, net[u].kind = "fill", net[u].o = m.o
                 PROVE net[u].k >= m.k
      OBVIOUS
    <3>1. u \in Nat /\ u >= 1 /\ net[u].k \in Nat
      BY SequenceContext
    <3>2. CASE u = 1
      BY <1>5, <3>2
    <3>3. CASE 1 < u
      BY <1>2, <1>5, <3>1, <3>3 DEF ChannelOK
    <3> QED
      BY <3>1, <3>2, <3>3
  <2>3. \A j \in DOMAIN net' : net'[j].kind = "fill" /\ net'[j].o = m.o => net'[j].k >= m.k
    BY <1>2, <2>2
  <2>4. m.o \notin env.market => reg.orders[m.o].filled < m.k /\ booked[m.o] < m.k
    BY <1>2, <2>1 DEF UnseenOK
  <2>5. booked[m.o] \in Nat /\ reg.orders[m.o].filled \in Nat
    BY <1>5, SequenceContext
  <2>6. w.pc \in Filling /\ w.pc \notin Ending
    BY <2>1 DEF Filling, Ending
  <2> QED
    BY <1>1, <1>5, <2>1, <2>3, <2>4, <2>5, <2>6 DEF FeedOK
<1>8. ASSUME OrderMessageEffect(i), ~Stops("ws") PROVE FeedOK'
  <2>1. /\ m.kind \in {"filled", "cancelled"}
        /\ w.pc \in {"filled", "cancelled"} /\ w.o = m.o /\ w.q = m.k
    BY <1>2, <1>8 DEF OrderMessageEffect
  <2>2. Ended(m.o)
    BY <1>2, <2>1 DEF ChannelOK
  <2>3. \A u \in DOMAIN net : net[u].o = m.o => net[u].kind # "fill"
    <3> SUFFICES ASSUME NEW u \in DOMAIN net, net[u].o = m.o
                 PROVE net[u].kind # "fill"
      OBVIOUS
    <3>1. u \in Nat /\ u >= 1
      BY SequenceContext
    <3>2. CASE u = 1
      BY <2>1, <3>2
    <3>3. CASE 1 < u
      BY <1>2, <2>1, <3>1, <3>3 DEF ChannelOK
    <3> QED
      BY <3>1, <3>2, <3>3
  <2>4. \A j \in DOMAIN net' : net'[j].o = m.o => net'[j].kind # "fill"
    BY <1>2, <2>3
  <2>5. /\ w.pc \notin Filling
        /\ w.pc \notin {"update_new", "update_applied", "update_mark", "update_apply"}
    BY <2>1 DEF Filling
  <2> QED
    BY <1>1, <1>5, <2>1, <2>2, <2>4, <2>5 DEF FeedOK, Ended
<1> QED
  BY <1>2, <1>3, <1>4, <1>6, <1>7, <1>8 DEF SequenceKept

(* Between two messages the channel and the exchange stay as they are.     *)
LEMMA SequenceWithin ==
  ASSUME InSequence, UNCHANGED <<net, ex, env, reg.seen>>
  PROVE ChannelOK'
BY DEF InSequence, ChannelOK, Ended

LEMMA Sequence_Fill ==
  ASSUME LifeInv, HoldOK, Orderly, InSequence,
         FillTransitionEffect \/ FillRecordEffect \/ FillApplyEffect \/ FillMarkEffect
  PROVE SequenceKept
<1> DEFINE o == th["ws"].o
           q == th["ws"].q
           rec == th["ws"].rec
           w == th'["ws"]
<1> USE DEF InSequence
<1>1. /\ th["ws"].pc \in Filling /\ th["ws"].pc \notin Ending /\ th["ws"].pc # "idle"
      /\ UNCHANGED <<net, ex, env, reg.seen>>
  BY DEF FillTransitionEffect, FillRecordEffect, FillApplyEffect, FillMarkEffect, Local,
     Transits, Writes, Marks, Filling, Ending
<1>2. o \in Orders /\ q \in Nat /\ rec.filled \in Nat /\ o \in reg.index
  BY <1>1, LifeContext DEF CopiesOK
<1>3. /\ q <= ex[o].filled /\ <<o, q>> \in reg.seen
      /\ \A j \in DOMAIN net : net[j].kind = "fill" /\ net[j].o = o => net[j].k >= q
      /\ o \notin env.market =>
           /\ th["ws"].pc = "fill" => rec.filled < q
           /\ th["ws"].pc \in {"fill_record", "fill_apply"} => rec.filled <= q
           /\ th["ws"].pc # "fill_mark" => booked[o] < q
           /\ reg.orders[o].filled <= q /\ booked[o] <= q
  BY <1>1 DEF FeedOK
<1>4. ChannelOK'
  BY <1>1, SequenceWithin
<1>5. \A p \in Orders : /\ ex[p].filled \in Nat /\ booked[p] \in Nat
                        /\ reg.orders[p].filled \in Nat
  BY SequenceContext
(* What is left unseen of this order is beyond q.                          *)
<1>6. \A j \in DOMAIN net : net[j].kind = "fill" /\ <<net[j].o, net[j].k>> \notin reg.seen =>
        /\ net[j].o \in Orders /\ net[j].k \in Nat
        /\ net[j].o = o => q < net[j].k
  <2> SUFFICES ASSUME NEW j \in DOMAIN net, net[j].kind = "fill",
                      <<net[j].o, net[j].k>> \notin reg.seen
               PROVE /\ net[j].o \in Orders /\ net[j].k \in Nat
                     /\ net[j].o = o => q < net[j].k
    OBVIOUS
  <2>1. net[j].o \in Orders /\ net[j].k \in Nat
    BY SequenceContext
  <2>2. net[j].o = o => net[j].k >= q /\ net[j].k # q
    BY <1>3
  <2> QED
    BY <1>2, <2>1, <2>2
<1>7. ASSUME FillTransitionEffect PROVE SequenceKept
  <2>1. /\ \A p \in Orders : reg'.orders[p].filled = reg.orders[p].filled
        /\ UNCHANGED <<booked, reg.index, reg.applied>>
        /\ w.pc = "fill_record" /\ w.o = o /\ w.q = q /\ w.rec.filled = rec.filled + 1
        /\ th["ws"].pc = "fill"
    BY <1>7 DEF FillTransitionEffect, Transits
  <2>2. UnseenOK'
    BY <1>1, <1>6, <2>1 DEF UnseenOK
  <2>3. BookingsOK'
    BY <1>1, <2>1 DEF BookingsOK
  <2>4. FeedOK'
    BY <1>1, <1>2, <1>3, <1>5, <2>1 DEF FeedOK, Filling, Ending
  <2> QED
    BY <1>4, <2>2, <2>3, <2>4 DEF SequenceKept
<1>8. ASSUME FillRecordEffect PROVE SequenceKept
  <2>1. /\ reg'.orders[o].filled = rec.filled
        /\ \A p \in Orders : p # o => reg'.orders[p].filled = reg.orders[p].filled
        /\ UNCHANGED <<booked, reg.applied>> /\ reg'.index = reg.index
        /\ w.pc = "fill_apply" /\ w.o = o /\ w.q = q /\ w.rec = rec
        /\ th["ws"].pc = "fill_record"
    BY <1>2, <1>8 DEF FillRecordEffect, Writes, Jumps, Local
  <2>2. UnseenOK'
    <3> SUFFICES ASSUME NEW j \in DOMAIN net, net[j].kind = "fill", net[j].o \notin env.market,
                        <<net[j].o, net[j].k>> \notin reg.seen
                 PROVE reg'.orders[net[j].o].filled < net[j].k /\ booked[net[j].o] < net[j].k
      BY <1>1, <2>1 DEF UnseenOK
    <3>1. CASE net[j].o = o
      BY <1>2, <1>3, <1>5, <1>6, <2>1, <3>1
    <3>2. CASE net[j].o # o
      BY <1>6, <2>1, <3>2 DEF UnseenOK
    <3> QED
      BY <3>1, <3>2
  <2>3. BookingsOK'
    <3>1. o \notin env.market => rec.filled <= ex[o].filled
      BY <1>2, <1>3, <1>5, <2>1
    <3> QED
      BY <1>1, <2>1, <3>1 DEF BookingsOK
  <2>4. FeedOK'
    BY <1>1, <1>2, <1>3, <1>5, <2>1 DEF FeedOK, Filling, Ending
  <2> QED
    BY <1>4, <2>2, <2>3, <2>4 DEF SequenceKept
<1>9. ASSUME FillApplyEffect PROVE SequenceKept
  <2>1. /\ booked'[o] = booked[o] + 1
        /\ \A p \in Orders : p # o => booked'[p] = booked[p]
        /\ UNCHANGED reg
        /\ w.pc = "fill_mark" /\ w.o = o /\ w.q = q /\ w.rec = rec
        /\ th["ws"].pc = "fill_apply"
    BY <1>9 DEF FillApplyEffect, Books, Jumps
  <2>2. o \notin env.market => booked'[o] <= q /\ booked'[o] \in Nat /\ booked'[o] <= ex[o].filled
    BY <1>2, <1>3, <1>5, <2>1
  <2>3. UnseenOK'
    <3> SUFFICES ASSUME NEW j \in DOMAIN net, net[j].kind = "fill", net[j].o \notin env.market,
                        <<net[j].o, net[j].k>> \notin reg.seen
                 PROVE reg.orders[net[j].o].filled < net[j].k /\ booked'[net[j].o] < net[j].k
      BY <1>1, <2>1 DEF UnseenOK
    <3>1. CASE net[j].o = o
      BY <1>2, <1>6, <2>2, <3>1 DEF UnseenOK
    <3>2. CASE net[j].o # o
      BY <1>6, <2>1, <3>2 DEF UnseenOK
    <3> QED
      BY <3>1, <3>2
  <2>4. BookingsOK'
    BY <1>1, <2>1, <2>2 DEF BookingsOK
  <2>5. FeedOK'
    BY <1>1, <1>2, <1>3, <2>1, <2>2 DEF FeedOK, Filling, Ending
  <2> QED
    BY <1>4, <2>3, <2>4, <2>5 DEF SequenceKept
<1>10. ASSUME FillMarkEffect PROVE SequenceKept
  <2>1. /\ UNCHANGED <<booked, reg.orders, reg.index>> /\ reg'.applied = reg.applied \cup {o}
        /\ w.pc = "idle" /\ th["ws"].pc = "fill_mark"
    BY <1>10 DEF FillMarkEffect, Marks, Stops, Idle, Local
  <2>2. UnseenOK'
    BY <1>1, <2>1 DEF UnseenOK
  <2>3. BookingsOK'
    BY <1>1, <2>1 DEF BookingsOK
  <2>4. FeedOK'
    BY <2>1 DEF FeedOK, Filling, Ending
  <2> QED
    BY <1>4, <2>2, <2>3, <2>4 DEF SequenceKept
<1> QED
  BY <1>7, <1>8, <1>9, <1>10

LEMMA Sequence_Order ==
  ASSUME LifeInv, HoldOK, Orderly, InSequence,
         \/ UpdateFilledEffect \/ UpdateCancelledEffect \/ UpdateReleaseEffect \/ UpdateReadEffect
         \/ UpdateCheckEffect \/ UpdateRecordEffect \/ UpdateMarkEffect \/ UpdateApplyEffect
  PROVE SequenceKept
<1> DEFINE o == th["ws"].o
           q == th["ws"].q
           rec == th["ws"].rec
           w == th'["ws"]
           Closing == {"update_new", "update_applied", "update_mark", "update_apply"}
<1> USE DEF InSequence
<1>1. /\ th["ws"].pc \in Ending /\ th["ws"].pc \notin Filling /\ th["ws"].pc # "idle"
      /\ UNCHANGED <<net, ex, env, reg.seen>>
  BY DEF UpdateFilledEffect, UpdateCancelledEffect, UpdateReleaseEffect, UpdateReadEffect,
     UpdateCheckEffect, UpdateRecordEffect, UpdateMarkEffect, UpdateApplyEffect, Local,
     Transits, Writes, Marks, Filling, Ending
<1>2. o \in Orders /\ q \in Nat /\ rec.filled \in Nat /\ o \in reg.index
  BY <1>1, LifeContext DEF CopiesOK
<1>3. /\ Ended(o) /\ q <= ex[o].filled
      /\ \A j \in DOMAIN net : net[j].o = o => net[j].kind # "fill"
      /\ o \notin env.market =>
           /\ th["ws"].pc \in Closing => rec.filled <= ex[o].filled
           /\ th["ws"].pc \in {"update_new", "update_mark", "update_apply"} => booked[o] = 0
           /\ th["ws"].pc = "update_apply" => o \in reg.applied
  BY <1>1 DEF FeedOK
<1>4. ChannelOK'
  BY <1>1, SequenceWithin
<1>5. \A p \in Orders : /\ ex[p].filled \in Nat /\ booked[p] \in Nat
                        /\ reg.orders[p].filled \in Nat
  BY SequenceContext
(* A step that leaves the other orders and what is booked alone.           *)
<1>6. ASSUME \A p \in Orders : p # o => reg'.orders[p].filled = reg.orders[p].filled,
             UNCHANGED <<booked, reg.index>>, reg.applied \subseteq reg'.applied,
             o \notin env.market => reg'.orders[o].filled <= ex[o].filled
      PROVE UnseenOK' /\ BookingsOK'
  <2>1. UnseenOK'
    BY <1>1, <1>3, <1>6, SequenceContext DEF UnseenOK
  <2>2. BookingsOK'
    BY <1>1, <1>6 DEF BookingsOK, Ending
  <2> QED
    BY <2>1, <2>2
<1>7. o \notin env.market => reg.orders[o].filled <= ex[o].filled
  BY <1>2 DEF BookingsOK
<1>8. ASSUME w.pc \in Ending \ Closing, w.o = o, w.q = q PROVE FeedOK'
  BY <1>1, <1>3, <1>8 DEF FeedOK, Filling, Ending, Ended
<1>9. ASSUME Stops("ws") PROVE FeedOK'
  BY <1>9 DEF FeedOK, Stops, Idle, Filling, Ending
<1>10. ASSUME UpdateFilledEffect \/ UpdateCancelledEffect \/ UpdateReleaseEffect \/ UpdateReadEffect
       PROVE SequenceKept
  <2>1. /\ \A p \in Orders : reg'.orders[p].filled = reg.orders[p].filled
        /\ UNCHANGED <<booked, reg.index, reg.applied>>
    BY <1>10 DEF UpdateFilledEffect, UpdateCancelledEffect, UpdateReleaseEffect, UpdateReadEffect,
       Transits
  <2>2. (w.pc \in Ending \ Closing /\ w.o = o /\ w.q = q) \/ Stops("ws")
    BY <1>10 DEF UpdateFilledEffect, UpdateCancelledEffect, UpdateReleaseEffect, UpdateReadEffect,
       Jumps, Ending
  <2> QED
    BY <1>2, <1>4, <1>6, <1>7, <1>8, <1>9, <2>1, <2>2 DEF SequenceKept
<1>11. ASSUME UpdateCheckEffect PROVE SequenceKept
  <2>1. /\ UNCHANGED <<reg, booked>> /\ th["ws"].pc = "update_check"
        /\ w.pc = IF o \in reg.applied THEN "update_applied" ELSE "update_new"
        /\ w.o = o /\ w.q = q
        /\ w.rec.filled = IF q > rec.filled THEN q ELSE rec.filled
    BY <1>11 DEF UpdateCheckEffect
  <2>2. o \notin env.market => rec.filled = reg.orders[o].filled
    BY <2>1, LifeContext DEF CurrentOK, Current
  <2>3. o \notin env.market => w.rec.filled <= ex[o].filled
    BY <1>2, <1>3, <1>5, <1>7, <2>1, <2>2
  <2>4. o \notin env.market /\ o \notin reg.applied => booked[o] = 0
    BY <1>2, <1>5, <2>1 DEF BookingsOK
  <2>5. /\ w.pc \in {"update_applied", "update_new"}
        /\ w.pc = "update_new" => o \notin reg.applied
    BY <2>1
  <2>6. FeedOK'
    BY <1>1, <1>2, <1>3, <2>1, <2>3, <2>4, <2>5 DEF FeedOK, Filling, Ending, Ended
  <2> QED
    BY <1>2, <1>4, <1>6, <1>7, <2>1, <2>6 DEF SequenceKept
<1>12. ASSUME UpdateRecordEffect PROVE SequenceKept
  <2>1. /\ reg'.orders[o].filled = rec.filled
        /\ \A p \in Orders : p # o => reg'.orders[p].filled = reg.orders[p].filled
        /\ UNCHANGED <<booked, reg.applied>> /\ reg'.index = reg.index
        /\ th["ws"].pc \in {"update_new", "update_applied"}
    BY <1>2, <1>12 DEF UpdateRecordEffect, Writes, Local
  <2>2. \/ /\ w.pc = "update_mark" /\ w.o = o /\ w.q = q /\ w.rec = rec
           /\ th["ws"].pc = "update_new"
        \/ Stops("ws")
    BY <1>12 DEF UpdateRecordEffect, Jumps
  <2>3. FeedOK'
    BY <1>1, <1>2, <1>3, <1>9, <2>1, <2>2 DEF FeedOK, Filling, Ending, Ended
  <2> QED
    BY <1>3, <1>4, <1>6, <2>1, <2>3 DEF SequenceKept
<1>13. ASSUME UpdateMarkEffect PROVE SequenceKept
  <2>1. /\ UNCHANGED <<booked, reg.orders, reg.index>> /\ reg'.applied = reg.applied \cup {o}
        /\ w.pc = "update_apply" /\ w.o = o /\ w.q = q /\ w.rec = rec
        /\ th["ws"].pc = "update_mark"
    BY <1>13 DEF UpdateMarkEffect, Marks, Jumps
  <2>2. FeedOK'
    BY <1>1, <1>2, <1>3, <2>1 DEF FeedOK, Filling, Ending, Ended
  <2> QED
    BY <1>4, <1>6, <1>7, <2>1, <2>2 DEF SequenceKept
<1>14. ASSUME UpdateApplyEffect PROVE SequenceKept
  <2>1. /\ booked'[o] = booked[o] + rec.filled
        /\ \A p \in Orders : p # o => booked'[p] = booked[p]
        /\ UNCHANGED reg /\ Stops("ws") /\ th["ws"].pc = "update_apply"
    BY <1>2, <1>14 DEF UpdateApplyEffect, Books
  <2>2. o \notin env.market => booked'[o] <= ex[o].filled /\ o \in reg.applied
    BY <1>2, <1>3, <2>1
  <2>3. UnseenOK'
    BY <1>1, <1>3, <2>1, SequenceContext DEF UnseenOK
  <2>4. BookingsOK'
    BY <1>1, <2>1, <2>2 DEF BookingsOK, Stops
  <2> QED
    BY <1>4, <1>9, <2>1, <2>3, <2>4 DEF SequenceKept
<1> QED
  BY <1>10, <1>11, <1>12, <1>13, <1>14

LEMMA Sequence_Next == LifeInv /\ HoldOK /\ SequenceOK /\ [Next]_<<vars, env>> => SequenceOK'
<1> SUFFICES ASSUME LifeInv, HoldOK, SequenceOK, Orderly, [Next]_<<vars, env>>
             PROVE SequenceKept
  BY DEF SequenceOK, SequenceKept, Orderly, vars, Next
<1>1. InSequence
  BY DEF SequenceOK, InSequence
<1>2. CASE UNCHANGED <<vars, env>>
  BY <1>1, <1>2 DEF vars, InSequence, SequenceKept, ChannelOK, UnseenOK, BookingsOK, FeedOK, Ended
<1>3. CASE FeedEffects
  BY <1>1, <1>3, Sequence_Deliver, Sequence_Fill, Sequence_Order DEF FeedEffects
<1> QED
  BY <1>1, <1>2, <1>3, Effects, Sequence_Entry, Sequence_Market, Sequence_Cancel,
     Sequence_Periodic, Sequence_Exchange

(* Idempotent processing of the fills of limit orders: with a channel that *)
(* keeps the order of the messages, however often it repeats them and      *)
(* whichever threads run meanwhile, the portfolio never holds more of a    *)
(* limit order than the exchange has executed.                             *)
THEOREM LimitFillsBookedOnce == Spec => []LimitBookedWithinExchange
<1>1. Init => HoldOK
  BY DEF Init, NewRegistry, HoldOK, Threads, Idle, Live, Sending
<1>2. Init => SequenceOK
  BY DEF Init, NewRegistry, NoRecord, SequenceOK, ChannelOK, UnseenOK, BookingsOK, FeedOK, Threads, Idle,
     Filling, Ending
<1>3. SequenceOK => LimitBookedWithinExchange
  BY DEF SequenceOK, BookingsOK, LimitBookedWithinExchange, BookedWithinExchange
<1> QED
  BY <1>1, <1>2, <1>3, Life_Init, Life_Next, Hold_Next, Sequence_Next, PTL DEF Spec

-----------------------------------------------------------------------------
(* One entry at a time: a live order has an active record, which keeps the *)
(* gate closed, and the watchdog knows its exchange id, so that a cancel   *)
(* that was confirmed has ended it.                                        *)
Plain == Orderly /\ ~env.reconciling /\ env.market = {}

GateClosed ==
  LET tick == th["tick"]
  IN  /\ \A o \in Orders : Live(o) => is_active(reg.orders[o].state)
      /\ \A o \in Orders : is_active(reg.orders[o].state) =>
           reg.orders[o].exch \/ (tick.pc \in Entering /\ tick.o = o)
      /\ tick.pc \in {"reserve", "record", "submit", "accepted"} =>
           is_active(reg.orders[tick.o].state)
      /\ tick.pc \in Entering => \A p \in Orders : Live(p) => p = tick.o
      /\ tick.pc = "cancel" => reg.orders[tick.o].exch
      /\ tick.pc = "cancel_request" => tick.rec.exch
      /\ tick.pc \in {"cancel_confirmed", "cancel_release"} => ~Live(tick.o)
      /\ th["ws"].pc = "fill_record" /\ Live(th["ws"].o) => is_active(th["ws"].rec.state)
      /\ \A o, p \in Orders : Live(o) /\ Live(p) => o = p

GateOK == Plain => GateClosed

LEMMA GateContext ==
  ASSUME LifeInv, ReleaseOK, HoldOK, SequenceOK, Plain
  PROVE /\ th["rest"].pc = "idle" /\ th["tick"].pc \notin Polling
        /\ th["tick"].pc # "cancel_failed"
        /\ "tick" \in Threads /\ "ws" \in Threads /\ "rest" \in Threads
        /\ \A t \in Threads : th[t].pc # "idle" => th[t].o \in Orders
        /\ th["tick"].pc \in {"reject", "rejected"} => ~Live(th["tick"].o)
        /\ th["tick"].pc \in Entering => th["tick"].o \notin reg.index
        /\ th["ws"].pc # "idle" => th["ws"].o \in reg.index /\ reg.orders[th["ws"].o].exch
        /\ th["ws"].pc \in Copied => th["ws"].rec.exch
        /\ th["ws"].pc \in Ending => ~Live(th["ws"].o)
        /\ th["ws"].pc = "fill" /\ Live(th["ws"].o) => is_active(FillState(th["ws"].rec))
        /\ \A o \in Orders : o \notin issued => ~Live(o)
<1>1. /\ th["rest"].pc = "idle" /\ th["tick"].pc \notin Polling
      /\ th["tick"].pc # "cancel_failed"
      /\ "tick" \in Threads /\ "ws" \in Threads /\ "rest" \in Threads
      /\ \A t \in Threads : th[t].pc # "idle" => th[t].o \in Orders
  BY LifeContext DEF Plain, ReleaseOK, HoldOK, CopiesOK
<1>2. th["tick"].pc \in {"reject", "rejected"} => ~Live(th["tick"].o)
  BY DEF Plain, HoldOK, Live
<1>3. /\ th["tick"].pc \in Entering => th["tick"].o \notin reg.index
      /\ th["ws"].pc # "idle" => th["ws"].o \in reg.index /\ reg.orders[th["ws"].o].exch
      /\ th["ws"].pc \in Copied => th["ws"].rec.exch
  BY LifeContext DEF CopiesOK, RecordsOK
<1>4. th["ws"].pc \in Ending => ~Live(th["ws"].o)
  BY DEF Plain, SequenceOK, FeedOK, Ended, Live
<1>5. ASSUME th["ws"].pc = "fill", Live(th["ws"].o) PROVE is_active(FillState(th["ws"].rec))
  <2> DEFINE o == th["ws"].o
             q == th["ws"].q
  <2>1. /\ o \in Orders /\ q \in Nat /\ th["ws"].rec.filled \in Nat /\ o \notin env.market
        /\ ex[o].filled \in Nat
    BY <1>1, <1>5, LifeContext, SequenceContext DEF Plain
  <2>2. q <= ex[o].filled /\ th["ws"].rec.filled < q
    BY <1>5, <2>1 DEF Plain, SequenceOK, FeedOK, Filling
  <2>3. ex[o].filled < Qty /\ Qty \in Nat
    BY <1>5, <2>1, OrderExecutionAssumption DEF LifeInv, OrderInv, ExchangeOK, Live
  <2>4. ~(th["ws"].rec.filled + 1 >= Qty)
    BY <2>1, <2>2, <2>3
  <2> QED
    BY <2>4 DEF FillState, is_active
<1>6. \A o \in Orders : o \notin issued => ~Live(o)
  BY DEF LifeInv, OrderInv, ExchangeOK, Live
<1> QED
  BY <1>1, <1>2, <1>3, <1>4, <1>5, <1>6

LEMMA Gate_Entry ==
  ASSUME LifeInv, ReleaseOK, HoldOK, SequenceOK, Plain, GateClosed, EntryEffects
  PROVE GateClosed'
<1> USE DEF GateClosed, Live, Others, Local, Entering
<1>1. ASSUME NEW o \in Orders, ExecuteEffect(o) PROVE GateClosed'
  BY GateContext, EntryCopies, <1>1 DEF ExecuteEffect, is_active
<1>2. CASE ReserveEffect
  BY GateContext, <1>2 DEF ReserveEffect, Jumps
<1>3. CASE RecordEffect
  BY GateContext, EntryCopies, <1>3 DEF RecordEffect, Jumps, Writes, is_active
<1>4. CASE SubmitEffect
  BY GateContext, <1>4 DEF SubmitEffect, Jumps, Plain, Orderly
<1>5. CASE RejectEffect
  BY GateContext, <1>5 DEF RejectEffect, Jumps, Transits, is_active
<1>6. CASE RejectedEffect
  BY GateContext, EntryCopies, <1>6 DEF RejectedEffect, Stops, Writes, Idle, is_active
<1>7. CASE AcceptedEffect
  BY GateContext, EntryCopies, <1>7 DEF AcceptedEffect, Stops, Writes, Idle, Plain, is_active
<1> QED
  BY <1>1, <1>2, <1>3, <1>4, <1>5, <1>6, <1>7 DEF EntryEffects

LEMMA Gate_Market ==
  ASSUME LifeInv, ReleaseOK, HoldOK, SequenceOK, Plain, MarketEffects
  PROVE FALSE
BY GateContext DEF MarketEffects, PollEffect, GiveUpEffect, MarketReadEffect,
   MarketTransitionEffect, MarketRecordEffect, MarketApplyEffect, MarketMarkEffect, Polling

LEMMA Gate_Cancel ==
  ASSUME LifeInv, ReleaseOK, HoldOK, SequenceOK, Plain, GateClosed, CancelEffects
  PROVE GateClosed'
<1> USE DEF GateClosed, Live, Others, Local, Entering
<1>0. \A t \in {"tick", "rest"} : th[t].pc # "idle" => t = "tick"
  BY GateContext
<1>1. CASE BeginCancelEffect("tick")
  BY GateContext, <1>1 DEF BeginCancelEffect, Transits, Stops, Idle, is_active
<1>2. CASE CancelRequestEffect("tick")
  BY GateContext, <1>2 DEF CancelRequestEffect, Jumps, Cancels, Plain, Orderly
<1>3. CASE CancelConfirmedEffect("tick")
  BY GateContext, <1>3 DEF CancelConfirmedEffect, Jumps, Transits, is_active
<1>4. CASE CancelReleaseEffect("tick")
  BY GateContext, <1>4 DEF CancelReleaseEffect, Stops, Idle
<1>5. ~CancelFailedEffect("tick")
  BY GateContext DEF CancelFailedEffect
<1> QED
  BY <1>0, <1>1, <1>2, <1>3, <1>4, <1>5
  DEF CancelEffects, BeginCancelEffect, CancelRequestEffect, CancelConfirmedEffect,
      CancelReleaseEffect, CancelFailedEffect

LEMMA Gate_Periodic ==
  ASSUME LifeInv, ReleaseOK, HoldOK, SequenceOK, Plain, GateClosed, PeriodicEffects
  PROVE GateClosed'
<1> USE DEF GateClosed, Live, Others, Local, Entering
<1>1. ASSUME NEW o \in Orders, FindEffect("tick", o) PROVE GateClosed'
  BY GateContext, <1>1 DEF FindEffect
<1>2. ASSUME NEW o \in Orders PROVE ~FindEffect("rest", o)
  BY DEF FindEffect, Plain
<1>3. ASSUME NEW o \in Orders, CleanupEffect(o) PROVE GateClosed'
  BY GateContext, <1>3 DEF CleanupEffect, NoRecord, is_active
<1>4. ~QueryEffect
  BY GateContext DEF QueryEffect
<1>5. CASE ForgetEffect
  BY <1>5 DEF ForgetEffect
<1> QED
  BY <1>1, <1>2, <1>3, <1>4, <1>5 DEF PeriodicEffects

LEMMA Gate_Feed ==
  ASSUME LifeInv, ReleaseOK, HoldOK, SequenceOK, Plain, GateClosed, FeedEffects
  PROVE GateClosed'
<1> USE DEF GateClosed, Live, Others, Local, Entering
<1>1. ASSUME NEW i \in DOMAIN net, FillEventEffect(i) PROVE GateClosed'
  BY GateContext, <1>1 DEF FillEventEffect, Stops, Idle
<1>2. ASSUME NEW i \in DOMAIN net, OrderMessageEffect(i) PROVE GateClosed'
  BY GateContext, <1>2 DEF OrderMessageEffect, Stops, Idle
<1>3. CASE FillTransitionEffect
  BY GateContext, <1>3 DEF FillTransitionEffect, Transits, Copied
<1>4. CASE FillRecordEffect
  BY GateContext, <1>4 DEF FillRecordEffect, Writes, Jumps, Copied
<1>5. CASE FillApplyEffect
  BY GateContext, <1>5 DEF FillApplyEffect, Jumps
<1>6. CASE FillMarkEffect
  BY GateContext, <1>6 DEF FillMarkEffect, Marks, Stops, Idle
<1>7. CASE UpdateFilledEffect \/ UpdateCancelledEffect
  BY GateContext, <1>7 DEF UpdateFilledEffect, UpdateCancelledEffect, Transits, Stops, Idle, Jumps,
     Ending, is_active
<1>8. CASE UpdateReleaseEffect \/ UpdateReadEffect \/ UpdateCheckEffect
  BY GateContext, <1>8 DEF UpdateReleaseEffect, UpdateReadEffect, UpdateCheckEffect, Stops, Idle,
     Jumps
<1>9. CASE UpdateRecordEffect
  BY GateContext, <1>9 DEF UpdateRecordEffect, Writes, Stops, Idle, Jumps, Copied, Ending
<1>10. CASE UpdateMarkEffect \/ UpdateApplyEffect
  BY GateContext, <1>10 DEF UpdateMarkEffect, UpdateApplyEffect, Marks, Stops, Idle, Jumps
<1> QED
  BY <1>1, <1>2, <1>3, <1>4, <1>5, <1>6, <1>7, <1>8, <1>9, <1>10 DEF FeedEffects

LEMMA Gate_Exchange ==
  ASSUME LifeInv, GateClosed, Plain, ExchangeEffects
  PROVE GateClosed'
<1>1. ASSUME UNCHANGED <<reg, th>>, \A p \in Orders : ex'[p].status = "live" => Live(p),
             th["ws"].pc = "fill_record" => th["ws"].o \in Orders,
             th["tick"].pc # "idle" => th["tick"].o \in Orders
      PROVE GateClosed'
  BY <1>1 DEF GateClosed, Live
<1>2. /\ th["ws"].pc = "fill_record" => th["ws"].o \in Orders
      /\ th["tick"].pc # "idle" => th["tick"].o \in Orders
  BY LifeContext
<1>3. ASSUME NEW o \in Orders, ExchangeFillEffect(o) \/ ExchangeCancelEffect(o)
      PROVE UNCHANGED <<reg, th>> /\ \A p \in Orders : ex'[p].status = "live" => Live(p)
  BY <1>3 DEF ExchangeFillEffect, ExchangeCancelEffect, Cancels, Live
<1>4. ~LoseEffect
  BY DEF LoseEffect, Plain, Orderly
<1> QED
  BY <1>1, <1>2, <1>3, <1>4 DEF ExchangeEffects

LEMMA Gate_Next ==
  LifeInv /\ ReleaseOK /\ HoldOK /\ SequenceOK /\ GateOK /\ [Next]_<<vars, env>> => GateOK'
<1> SUFFICES ASSUME LifeInv, ReleaseOK, HoldOK, SequenceOK, GateOK, Plain, [Next]_<<vars, env>>
             PROVE GateClosed'
  BY DEF GateOK, Plain, Orderly, vars, Next
<1>1. GateClosed
  BY DEF GateOK
<1>2. CASE UNCHANGED <<vars, env>>
  BY <1>1, <1>2 DEF vars, GateClosed, Live
<1> QED
  BY <1>1, <1>2, Effects, Gate_Entry, Gate_Market, Gate_Cancel, Gate_Periodic, Gate_Feed,
     Gate_Exchange

(* The entry gate: with a channel that keeps the order of the messages,    *)
(* answered requests, limit orders and no reconciliation, two entry orders *)
(* are never live at the exchange at the same time.                        *)
THEOREM OneEntryAtATime == Spec => []AtMostOneEntryLive
<1>1. Init => ReleaseOK /\ HoldOK /\ GateOK
  BY DEF Init, NewRegistry, NoRecord, ReleaseOK, HoldOK, GateOK, GateClosed, Threads, Idle, Live,
     Sending, Entering, is_terminal, is_active
<1>2. Init => SequenceOK
  BY DEF Init, NewRegistry, NoRecord, SequenceOK, ChannelOK, UnseenOK, BookingsOK, FeedOK,
     Threads, Idle, Filling, Ending
<1>3. GateOK => AtMostOneEntryLive
  BY DEF GateOK, GateClosed, Plain, AtMostOneEntryLive
<1> QED
  BY <1>1, <1>2, <1>3, Life_Init, Life_Next, Release_Next, Hold_Next, Sequence_Next, Gate_Next,
     PTL DEF Spec
=============================================================================
