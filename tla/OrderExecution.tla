--------------------------- MODULE OrderExecution ---------------------------
(***************************************************************************)
(* The life of an order in one trading pipeline: ExecutionEngine,          *)
(* FillProcessor, CancelManager and OrderRegistry, run by three threads,   *)
(* against the exchange.                                                   *)
(*                                                                         *)
(*   tick   execute(), then between orders the order watchdog and the      *)
(*          cleanup of terminal orders (all under pipeline_mutex_)         *)
(*   ws     on_private_ws_message: "fill" and "orders" channels            *)
(*   rest   run_continuous_reconciliation on the REST worker pool          *)
(*                                                                         *)
(* The threads share the registry and the portfolio, each behind its own   *)
(* mutex.  A step of a thread is one registry or portfolio call; the calls *)
(* that no other thread can tell apart are taken in one step, and the      *)
(* comment of the action says so.                                          *)
(***************************************************************************)
EXTENDS OrderRegistry, Integers, Sequences, FiniteSets, SequencesExt

CONSTANTS Qty,          \* quantity of an order, in trades of the exchange
          IntentOf,     \* the intent each order is created for
          Scenarios,    \* what a behaviour may meet, see ScenarioKinds
          NoId

FaultKinds == {"submit_reply_lost",  \* accepted, but the HTTP call failed
               "garbled_reply",      \* order detail with a non-finite size
               "no_price",           \* fill events carry fillPx = 0
               "reorder",            \* private messages out of order
               "loss",               \* private messages lost
               "duplicate"}          \* private frames delivered again

(* A scenario: the orders the strategy asks for, which of them are market  *)
(* orders, the faults that may occur, how many cancel requests may fail,   *)
(* and whether the reconciliation job is configured.                       *)
ScenarioKinds ==
  [orders : SUBSET Orders, market : SUBSET Orders, faults : SUBSET FaultKinds,
   cancelFailures : Nat, reconciling : BOOLEAN]

ASSUME OrderExecutionAssumption ==
  /\ Qty \in Nat \ {0}
  /\ IntentOf \in [Orders -> IntentKeys]
  /\ Trades = Orders \X (1..Qty)
  /\ \A e \in Scenarios : e \in ScenarioKinds
  /\ NoId \notin Orders

VARIABLES
  reg,       \* OrderRegistry
  issued,    \* ids handed out by ClientOrderIdGenerator
  reserved,  \* orders with a reservation in the portfolio
  booked,    \* history: units of each order applied to the portfolio
  tradeBooked, \* history: how often each trade was applied by a fill event
  ex,        \* the orders at the exchange
  net,       \* private messages under way, oldest first
  failures,  \* cancel requests that failed so far
  env,       \* the scenario, which never changes
  th         \* program counter and locals of each thread

vars == <<reg, issued, reserved, booked, tradeBooked, ex, net, failures, th>>
portfolio == <<reserved, booked, tradeBooked>>
exchange == <<ex, net, failures>>

Threads == {"tick", "ws", "rest"}
Idle == [pc |-> "idle", o |-> NoId, rec |-> NoRecord, q |-> 0]

Init ==
  /\ reg = NewRegistry
  /\ issued = {}
  /\ reserved = {}
  /\ booked = [o \in Orders |-> 0]
  /\ tradeBooked = [t \in Trades |-> 0]
  /\ ex = [o \in Orders |-> [status |-> "none", filled |-> 0]]
  /\ net = <<>>
  /\ failures = 0
  /\ env \in Scenarios
  /\ th = [t \in Threads |-> Idle]

At(t, pc) == th[t].pc = pc
Goto(t, pc) == th' = [th EXCEPT ![t].pc = pc]
Return(t) == th' = [th EXCEPT ![t] = Idle]

-----------------------------------------------------------------------------
(* Portfolio effects of a fill (apply_fill_to_portfolio and                *)
(* apply_incremental_fill): the position grows by q and the reservation is *)
(* released.                                                               *)
apply_fill(o, q) ==
  /\ booked' = [booked EXCEPT ![o] = @ + q]
  /\ reserved' = reserved \ {o}

-----------------------------------------------------------------------------
(* The exchange (external).                                                *)

FillMessage(o, k) == [kind : {"fill"}, o : {o}, k : {k},
                      priced : IF "no_price" \in env.faults THEN BOOLEAN ELSE {TRUE}]
StatusMessage(o, s, q) == [kind |-> s, o |-> o, k |-> q, priced |-> TRUE]

(* One unit of a live order trades.  The last one ends the order and is    *)
(* followed by a message of the "orders" channel.                          *)
ExchangeFill(o) ==
  /\ ex[o].status = "live"
  /\ LET k == ex[o].filled + 1 IN
     /\ ex' = [ex EXCEPT ![o] = [status |-> IF k = Qty THEN "filled" ELSE "live",
                                 filled |-> k]]
     /\ \E m \in FillMessage(o, k) :
          net' = net \o (IF k = Qty THEN <<m, StatusMessage(o, "filled", k)>>
                                    ELSE <<m>>)
  /\ UNCHANGED <<reg, issued, portfolio, failures, th>>

(* The exchange ends an order: the unfilled rest of a market order, or a   *)
(* limit order it cancels by itself.                                       *)
CancelAtExchange(o) ==
  /\ ex' = [ex EXCEPT ![o].status = "cancelled"]
  /\ net' = Append(net, StatusMessage(o, "cancelled", ex[o].filled))

ExchangeCancel(o) ==
  /\ ex[o].status = "live"
  /\ CancelAtExchange(o)
  /\ UNCHANGED <<reg, issued, portfolio, failures, th>>

LoseMessage(i) ==
  /\ "loss" \in env.faults
  /\ net' = RemoveAt(net, i)
  /\ UNCHANGED <<reg, issued, portfolio, ex, failures, th>>

-----------------------------------------------------------------------------
(* ExecutionEngine::execute, on the tick thread.                           *)

(* Mutant: the entry gate only looks at orders in state Open.              *)
Execute_GateOpenOnly(o) ==
  /\ At("tick", "idle")
  /\ o \in env.orders \ issued
  /\ \A a \in Orders : reg.orders[a].state # "Open"
  /\ IntentOf[o] \notin reg.intents
  /\ issued' = issued \cup {o}
  /\ reg' = transition(register_order(reg, o), o, "PendingAck")
  /\ th' = [th EXCEPT !["tick"] =
              [Idle EXCEPT !.pc = "reserve", !.o = o,
                           !.rec = [NoRecord EXCEPT !.state = "PendingAck"]]]
  /\ UNCHANGED <<portfolio, exchange>>

(* The pipeline's gate (no entry while another entry order is active), the *)
(* duplicate check, registration and New -> PendingAck.  Nobody acts on an *)
(* order in state New, so both registry calls are one step.                *)
Execute(o) ==
  /\ At("tick", "idle")
  /\ o \in env.orders \ issued
  /\ ActiveOrders(reg) = {}
  /\ IntentOf[o] \notin reg.intents
  /\ issued' = issued \cup {o}
  /\ reg' = transition(register_order(reg, o), o, "PendingAck")
  /\ th' = [th EXCEPT !["tick"] =
              [Idle EXCEPT !.pc = "reserve", !.o = o,
                           !.rec = [NoRecord EXCEPT !.state = "PendingAck"]]]
  /\ UNCHANGED <<portfolio, exchange>>

(* try_reserve_margin, and the price and quantity checks before it.  The   *)
(* shared portfolio grants or refuses: other pipelines use the same cash.  *)
Reserve ==
  /\ At("tick", "reserve")
  /\ \/ /\ reserved' = reserved \cup {th["tick"].o}
        /\ Goto("tick", "record")
     \/ /\ reserved' = reserved
        /\ Goto("tick", "reject")
  /\ UNCHANGED <<reg, issued, booked, tradeBooked, exchange>>

Record ==
  /\ At("tick", "record")
  /\ reg' = update_order(reg, th["tick"].o, th["tick"].rec)
  /\ Goto("tick", "submit")
  /\ UNCHANGED <<issued, portfolio, exchange>>

(* submit_order: accepted; refused; or accepted with the answer lost,      *)
(* which the caller cannot tell from a refusal.                            *)
Submit ==
  /\ At("tick", "submit")
  /\ LET o == th["tick"].o IN
     \/ /\ ex' = [ex EXCEPT ![o].status = "live"]
        /\ \/ Goto("tick", "accepted")
           \/ "submit_reply_lost" \in env.faults /\ Goto("tick", "reject")
     \/ /\ ex' = ex
        /\ Goto("tick", "reject")
  /\ UNCHANGED <<reg, issued, portfolio, net, failures>>

Reject ==
  /\ At("tick", "reject")
  /\ reg' = transition(reg, th["tick"].o, "Rejected")
  /\ Goto("tick", "rejected")
  /\ UNCHANGED <<issued, portfolio, exchange>>

(* update_order with the rejected copy, and CashReservationGuard releases  *)
(* the margin at the end of the scope.                                     *)
Rejected ==
  /\ At("tick", "rejected")
  /\ LET o == th["tick"].o IN
     /\ reg' = update_order(reg, o, [th["tick"].rec EXCEPT !.state = "Rejected"])
     /\ reserved' = reserved \ {o}
  /\ Return("tick")
  /\ UNCHANGED <<issued, booked, tradeBooked, exchange>>

(* The exchange id is stored and indexed, the intent remembered.  Only     *)
(* this thread reads the intents, so both calls are one step.              *)
Accepted ==
  /\ At("tick", "accepted")
  /\ LET o == th["tick"].o
         rec == [th["tick"].rec EXCEPT !.exch = TRUE] IN
     /\ reg' = record_intent(update_order(reg, o, rec), IntentOf[o])
     /\ th' = [th EXCEPT !["tick"] =
                 IF o \in env.market THEN [@ EXCEPT !.pc = "poll", !.rec = rec]
                                 ELSE Idle]
  /\ UNCHANGED <<issued, portfolio, exchange>>

(* query_order_fill_detail, at most three times, then at most three times  *)
(* more.  A reply confirms a fill only with a positive quantity; the first *)
(* round forgets to release the margin when the quantity is not finite.    *)
Confirmed(t) == ex[th[t].o].filled > 0

Poll ==
  /\ At("tick", "poll") \/ At("tick", "retry")
  /\ \/ /\ Confirmed("tick")
        /\ th' = [th EXCEPT !["tick"].pc = "market_fill",
                            !["tick"].q = ex[th["tick"].o].filled]
        /\ UNCHANGED <<reg, reserved>>
     \/ /\ th' = [th EXCEPT !["tick"].pc =
                    IF @ = "poll" THEN "retry" ELSE "unconfirmed"]
        /\ UNCHANGED <<reg, reserved>>
     \/ /\ "garbled_reply" \in env.faults
        /\ reg' = transition(reg, th["tick"].o, "UnknownRecovery")
        /\ reserved' = IF At("tick", "retry") THEN reserved \ {th["tick"].o}
                                              ELSE reserved
        /\ Return("tick")
  /\ UNCHANGED <<issued, booked, tradeBooked, exchange>>

(* The reply carries a price but no quantity: not executed.                *)
PollNoFill ==
  /\ At("tick", "poll") \/ At("tick", "retry")
  /\ "garbled_reply" \in env.faults
  /\ reg' = transition(reg, th["tick"].o, "Cancelled")
  /\ reserved' = reserved \ {th["tick"].o}
  /\ Return("tick")
  /\ UNCHANGED <<issued, booked, tradeBooked, exchange>>

Unconfirmed ==
  /\ At("tick", "unconfirmed")
  /\ reg' = transition(reg, th["tick"].o, "Open")
  /\ Return("tick")
  /\ UNCHANGED <<issued, portfolio, exchange>>

(* FillProcessor::process_market_fill with the confirmed quantity: the     *)
(* idempotency check, the copy of the record, PendingAck -> Filled, the    *)
(* record, the portfolio, the idempotency mark - six calls.                *)
MarketFillCheck ==
  /\ At("tick", "market_fill")
  /\ IF th["tick"].o \in reg.applied THEN Return("tick")
                                     ELSE Goto("tick", "market_read")
  /\ UNCHANGED <<reg, issued, portfolio, exchange>>

MarketFillRead ==
  /\ At("tick", "market_read")
  /\ th' = [th EXCEPT !["tick"].pc = "market_transition",
                      !["tick"].rec = reg.orders[th["tick"].o]]
  /\ UNCHANGED <<reg, issued, portfolio, exchange>>

MarketFillTransition ==
  /\ At("tick", "market_transition")
  /\ LET o == th["tick"].o IN
     /\ reg' = transition(reg, o, "Filled")
     /\ IF CanTransition(reg, o, "Filled") THEN Goto("tick", "market_record")
                                           ELSE Return("tick")
  /\ UNCHANGED <<issued, portfolio, exchange>>

MarketFillRecord ==
  /\ At("tick", "market_record")
  /\ reg' = update_order(reg, th["tick"].o,
              [state |-> "Filled", filled |-> th["tick"].q, exch |-> TRUE])
  /\ Goto("tick", "market_apply")
  /\ UNCHANGED <<issued, portfolio, exchange>>

MarketFillApply ==
  /\ At("tick", "market_apply")
  /\ apply_fill(th["tick"].o, th["tick"].q)
  /\ Goto("tick", "market_mark")
  /\ UNCHANGED <<reg, issued, tradeBooked, exchange>>

MarketFillMark ==
  /\ At("tick", "market_mark")
  /\ reg' = mark_fill_applied(reg, th["tick"].o)
  /\ Return("tick")
  /\ UNCHANGED <<issued, portfolio, exchange>>

-----------------------------------------------------------------------------
(* Mutant: the margin is released before the exchange confirms.            *)
BeginCancel_ReleasesEarly(t) ==
  /\ At(t, "cancel")
  /\ LET o == th[t].o IN
     /\ reg' = transition(reg, o, "CancelPending")
     /\ reserved' = reserved \ {o}
     /\ th' = [th EXCEPT ![t] =
                 IF CanTransition(reg, o, "CancelPending")
                 THEN [@ EXCEPT !.pc = "cancel_request", !.rec = reg.orders[o]]
                 ELSE Idle]
  /\ UNCHANGED <<issued, booked, tradeBooked, exchange>>

(* CancelManager::do_cancel, on the tick thread for the watchdog and on a  *)
(* REST worker for the reconciliation.  The copy of the record is only     *)
(* used for its exchange id, so reading it and the transition are one      *)
(* step.                                                                   *)
BeginCancel(t) ==
  /\ At(t, "cancel")
  /\ LET o == th[t].o IN
     /\ reg' = transition(reg, o, "CancelPending")
     /\ th' = [th EXCEPT ![t] =
                 IF CanTransition(reg, o, "CancelPending")
                 THEN [@ EXCEPT !.pc = "cancel_request", !.rec = reg.orders[o]]
                 ELSE Idle]
  /\ UNCHANGED <<issued, portfolio, exchange>>

(* The exchange cancels a live order; it answers 43011 or 43012 for one    *)
(* that is filled, cancelled or unknown (also when the exchange id is      *)
(* still empty), which cancel_order reports as success.  A request that    *)
(* fails may have reached the exchange or not.                             *)
CancelRequest(t) ==
  /\ At(t, "cancel_request")
  /\ LET o == th[t].o
         live == th[t].rec.exch /\ ex[o].status = "live" IN
     \/ /\ IF live THEN CancelAtExchange(o) ELSE UNCHANGED <<ex, net>>
        /\ Goto(t, "cancel_confirmed")
        /\ UNCHANGED failures
     \/ /\ failures < env.cancelFailures
        /\ failures' = failures + 1
        /\ \/ live /\ CancelAtExchange(o)
           \/ UNCHANGED <<ex, net>>
        /\ Goto(t, "cancel_failed")
  /\ UNCHANGED <<reg, issued, portfolio>>

CancelConfirmed(t) ==
  /\ At(t, "cancel_confirmed")
  /\ reg' = transition(reg, th[t].o, "Cancelled")
  /\ Goto(t, "cancel_release")
  /\ UNCHANGED <<issued, portfolio, exchange>>

(* Mutant: the confirmed cancel keeps the reservation.                     *)
CancelRelease_Keeps(t) ==
  /\ At(t, "cancel_release")
  /\ Return(t)
  /\ UNCHANGED <<reg, issued, portfolio, exchange>>

CancelRelease(t) ==
  /\ At(t, "cancel_release")
  /\ reserved' = reserved \ {th[t].o}
  /\ Return(t)
  /\ UNCHANGED <<reg, issued, booked, tradeBooked, exchange>>

(* Mutant: after a failed cancel the order stays in CancelPending.         *)
CancelFailed_StaysPending(t) ==
  /\ At(t, "cancel_failed")
  /\ Return(t)
  /\ UNCHANGED <<reg, issued, portfolio, exchange>>

CancelFailed(t) ==
  /\ At(t, "cancel_failed")
  /\ reg' = force_transition(reg, th[t].o, "UnknownRecovery")
  /\ Return(t)
  /\ UNCHANGED <<issued, portfolio, exchange>>

-----------------------------------------------------------------------------
(* Periodic tasks of the tick thread.                                      *)

(* OrderWatchdog::run_check cancels an active order that is too old.  Time *)
(* is left out: an order may be found too old at any tick.                 *)
Watchdog(o) ==
  /\ At("tick", "idle")
  /\ o \in ActiveOrders(reg)
  /\ th' = [th EXCEPT !["tick"] = [Idle EXCEPT !.pc = "cancel", !.o = o]]
  /\ UNCHANGED <<reg, issued, portfolio, exchange>>

(* cleanup_terminal_orders removes a record one hour after its last        *)
(* change: no message and no thread is still concerned with the order.     *)
Cleanup(o) ==
  /\ At("tick", "idle")
  /\ is_terminal(reg.orders[o].state)
  /\ \A i \in DOMAIN net : net[i].o # o
  /\ \A t \in Threads : th[t].o # o
  /\ ex[o].status # "live"
  /\ reg' = cleanup_terminal_orders(reg, o)
  /\ UNCHANGED <<issued, portfolio, exchange, th>>

(* dedup_window_ms passes.                                                 *)
ForgetIntent(key) ==
  /\ At("tick", "idle")
  /\ key \in reg.intents
  /\ reg' = cleanup_old_intents(reg, key)
  /\ UNCHANGED <<issued, portfolio, exchange, th>>

-----------------------------------------------------------------------------
(* run_continuous_reconciliation on a REST worker: the active orders, then *)
(* the exchange's open orders; an order that is missing there is cancelled *)
(* (UpdateLocalState).  An order found only at the exchange is cancelled   *)
(* by its exchange id, which do_cancel does not find: nothing happens.     *)
ReconcileSnapshot(o) ==
  /\ env.reconciling
  /\ At("rest", "idle")
  /\ o \in ActiveOrders(reg)
  /\ th' = [th EXCEPT !["rest"] = [Idle EXCEPT !.pc = "query", !.o = o]]
  /\ UNCHANGED <<reg, issued, portfolio, exchange>>

ReconcileQuery ==
  /\ At("rest", "query")
  /\ IF ex[th["rest"].o].status = "live" THEN Return("rest")
                                         ELSE Goto("rest", "cancel")
  /\ UNCHANGED <<reg, issued, portfolio, exchange>>

-----------------------------------------------------------------------------
(* on_private_ws_message.                                                  *)

Receive(i) ==
  /\ At("ws", "idle")
  /\ i = 1 \/ "reorder" \in env.faults
  /\ \/ net' = RemoveAt(net, i)
     \/ "duplicate" \in env.faults /\ net' = net

(* Mutant: an event without a price still marks the order as applied.      *)
FillEvent_MarksUnpriced(i) ==
  /\ Receive(i)
  /\ net[i].kind = "fill"
  /\ LET m == net[i]
         t == <<m.o, m.k>> IN
     /\ reg' = check_and_mark_trade_id_seen(reg, t)
     /\ th' = [th EXCEPT !["ws"] =
                 IF t \notin reg.seen /\ m.o \in reg.index
                 THEN [pc |-> IF m.priced THEN "fill" ELSE "fill_mark",
                       o |-> m.o, q |-> m.k, rec |-> reg.orders[m.o]]
                 ELSE Idle]
  /\ UNCHANGED <<issued, portfolio, ex, failures>>

(* on_fill_event, up to the lookup by exchange id.  Only this thread uses  *)
(* the trade ids, so marking the trade and the lookup are one step.  The   *)
(* event is dropped if the trade was seen, if the order is not indexed     *)
(* yet, or if it carries no price.                                         *)
FillEvent(i) ==
  /\ Receive(i)
  /\ net[i].kind = "fill"
  /\ LET m == net[i]
         t == <<m.o, m.k>> IN
     /\ reg' = check_and_mark_trade_id_seen(reg, t)
     /\ th' = [th EXCEPT !["ws"] =
                 IF t \notin reg.seen /\ m.o \in reg.index /\ m.priced
                 THEN [pc |-> "fill", o |-> m.o, q |-> m.k,
                       rec |-> reg.orders[m.o]]
                 ELSE Idle]
  /\ UNCHANGED <<issued, portfolio, ex, failures>>

(* The transition may be refused; the event is applied all the same.       *)
FillTransition ==
  /\ At("ws", "fill")
  /\ LET filled == th["ws"].rec.filled + 1
         s == IF filled >= Qty THEN "Filled" ELSE "PartiallyFilled" IN
     /\ reg' = transition(reg, th["ws"].o, s)
     /\ th' = [th EXCEPT !["ws"].pc = "fill_record",
                         !["ws"].rec = [@ EXCEPT !.state = s, !.filled = filled]]
  /\ UNCHANGED <<issued, portfolio, exchange>>

FillRecord ==
  /\ At("ws", "fill_record")
  /\ reg' = update_order(reg, th["ws"].o, th["ws"].rec)
  /\ Goto("ws", "fill_apply")
  /\ UNCHANGED <<issued, portfolio, exchange>>

FillApply ==
  /\ At("ws", "fill_apply")
  /\ apply_fill(th["ws"].o, 1)
  /\ tradeBooked' = [tradeBooked EXCEPT ![<<th["ws"].o, th["ws"].q>>] = @ + 1]
  /\ Goto("ws", "fill_mark")
  /\ UNCHANGED <<reg, issued, exchange>>

FillMark ==
  /\ At("ws", "fill_mark")
  /\ reg' = mark_fill_applied(reg, th["ws"].o)
  /\ Return("ws")
  /\ UNCHANGED <<issued, portfolio, exchange>>

(* on_order_update for "filled" and "cancelled".                           *)
OrderUpdate(i) ==
  /\ Receive(i)
  /\ net[i].kind \in {"filled", "cancelled"}
  /\ th' = [th EXCEPT !["ws"] =
              IF net[i].o \in reg.index
              THEN [Idle EXCEPT !.pc = net[i].kind, !.o = net[i].o,
                                !.q = net[i].k]
              ELSE Idle]
  /\ UNCHANGED <<reg, issued, portfolio, ex, failures>>

UpdateFilled ==
  /\ At("ws", "filled")
  /\ LET o == th["ws"].o IN
     /\ reg' = transition(reg, o, "Filled")
     /\ IF CanTransition(reg, o, "Filled") THEN Goto("ws", "update_read")
                                           ELSE Return("ws")
  /\ UNCHANGED <<issued, portfolio, exchange>>

UpdateCancelled ==
  /\ At("ws", "cancelled")
  /\ LET o == th["ws"].o IN
     /\ reg' = transition(reg, o, "Cancelled")
     /\ IF CanTransition(reg, o, "Cancelled") THEN Goto("ws", "update_release")
                                              ELSE Return("ws")
  /\ UNCHANGED <<issued, portfolio, exchange>>

UpdateRelease ==
  /\ At("ws", "update_release")
  /\ reserved' = reserved \ {th["ws"].o}
  /\ IF th["ws"].q > 0 THEN Goto("ws", "update_read") ELSE Return("ws")
  /\ UNCHANGED <<reg, issued, booked, tradeBooked, exchange>>

(* FillProcessor::process_order_fill: the copy, the idempotency check, the *)
(* record, and for an order that is Filled and not yet applied the mark    *)
(* and the portfolio.                                                      *)
UpdateRead ==
  /\ At("ws", "update_read")
  /\ th' = [th EXCEPT !["ws"].pc = "update_check",
                      !["ws"].rec = reg.orders[th["ws"].o]]
  /\ UNCHANGED <<reg, issued, portfolio, exchange>>

(* Mutants: the idempotency check is dropped; the reported quantity        *)
(* replaces the tracked one.                                               *)
UpdateCheck_IgnoresApplied ==
  /\ At("ws", "update_check")
  /\ th' = [th EXCEPT !["ws"].pc = "update_new",
                      !["ws"].rec.filled = IF th["ws"].q > @ THEN th["ws"].q
                                                             ELSE @]
  /\ UNCHANGED <<reg, issued, portfolio, exchange>>

UpdateCheck_NoMax ==
  /\ At("ws", "update_check")
  /\ th' = [th EXCEPT !["ws"].pc = IF th["ws"].o \in reg.applied
                                   THEN "update_applied" ELSE "update_new",
                      !["ws"].rec.filled = th["ws"].q]
  /\ UNCHANGED <<reg, issued, portfolio, exchange>>

UpdateCheck ==
  /\ At("ws", "update_check")
  /\ th' = [th EXCEPT !["ws"].pc = IF th["ws"].o \in reg.applied
                                   THEN "update_applied" ELSE "update_new",
                      !["ws"].rec.filled = IF th["ws"].q > @ THEN th["ws"].q
                                                             ELSE @]
  /\ UNCHANGED <<reg, issued, portfolio, exchange>>

UpdateRecord ==
  /\ At("ws", "update_new") \/ At("ws", "update_applied")
  /\ reg' = update_order(reg, th["ws"].o, th["ws"].rec)
  /\ IF At("ws", "update_new") /\ th["ws"].rec.state = "Filled"
     THEN Goto("ws", "update_mark") ELSE Return("ws")
  /\ UNCHANGED <<issued, portfolio, exchange>>

UpdateMark ==
  /\ At("ws", "update_mark")
  /\ reg' = mark_fill_applied(reg, th["ws"].o)
  /\ Goto("ws", "update_apply")
  /\ UNCHANGED <<issued, portfolio, exchange>>

UpdateApply ==
  /\ At("ws", "update_apply")
  /\ apply_fill(th["ws"].o, th["ws"].rec.filled)
  /\ Return("ws")
  /\ UNCHANGED <<reg, issued, tradeBooked, exchange>>

-----------------------------------------------------------------------------
CancelSteps(t) ==
  BeginCancel(t) \/ CancelRequest(t) \/ CancelConfirmed(t) \/ CancelRelease(t)
    \/ CancelFailed(t)

TickSteps ==
  \/ Reserve \/ Record \/ Submit \/ Reject
  \/ Rejected \/ Accepted \/ Poll \/ PollNoFill
  \/ Unconfirmed \/ MarketFillCheck \/ MarketFillRead \/ MarketFillTransition
  \/ MarketFillRecord \/ MarketFillApply \/ MarketFillMark
  \/ CancelSteps("tick")

RestSteps == ReconcileQuery \/ CancelSteps("rest")

WsSteps ==
  \/ FillTransition \/ FillRecord \/ FillApply \/ FillMark
  \/ UpdateFilled \/ UpdateCancelled \/ UpdateRelease \/ UpdateRead
  \/ UpdateCheck \/ UpdateRecord \/ UpdateMark \/ UpdateApply

Deliver(i) == FillEvent(i) \/ OrderUpdate(i)

Step ==
  \/ \E o \in Orders : Execute(o) \/ Watchdog(o) \/ Cleanup(o)
                         \/ ReconcileSnapshot(o)
                         \/ ExchangeFill(o) \/ ExchangeCancel(o)
  \/ \E key \in IntentKeys : ForgetIntent(key)
  \/ \E i \in DOMAIN net : Deliver(i) \/ LoseMessage(i)
  \/ TickSteps \/ RestSteps \/ WsSteps

Next == Step /\ UNCHANGED env

Spec == Init /\ [][Next]_<<vars, env>>

(* Every thread keeps running; the tick thread runs the watchdog every few *)
(* seconds, and the private channel delivers what it does not lose.        *)
Fairness ==
  /\ WF_vars(TickSteps)
  /\ WF_vars(RestSteps)
  /\ WF_vars(WsSteps)
  /\ WF_vars(\E i \in DOMAIN net : i = 1 /\ Deliver(i))
  /\ \A o \in Orders : SF_vars(Watchdog(o))
  /\ \A o \in Orders : SF_vars(ReconcileSnapshot(o))

FairSpec == Spec /\ Fairness

-----------------------------------------------------------------------------
(* No thread is in the middle of an operation on the order.                *)
Quiet(o) == \A t \in Threads : th[t].o # o

(* process_fill_event: whatever the channel repeats or reorders and        *)
(* whichever threads run meanwhile, a trade changes the portfolio at most  *)
(* once through fill events (check_and_mark_trade_id_seen).                *)
TradeBookedOnce == \A t \in Trades : tradeBooked[t] <= 1

(* fill_applied_: an order marked as applied was applied.  The mark makes  *)
(* process_market_fill and process_order_fill skip the portfolio, so a     *)
(* mark without a booking would lose the fill.                             *)
AppliedIsBooked == \A o \in reg.applied : Quiet(o) => booked[o] > 0

(* The private channel delivers in order and loses nothing, and cancels    *)
(* and submits are answered.                                               *)
Orderly == env.faults \subseteq {"duplicate"} /\ env.cancelFailures = 0

(* Margin is not leaked: once an order is in a terminal state and no       *)
(* thread works on it, its reservation is released - by the guard of       *)
(* execute, the cancel, the order update or the first fill - whatever the  *)
(* channel loses, repeats or reorders and whichever request fails.  (The   *)
(* reconciliation may end an order that is still being sent, whose margin  *)
(* is then reserved afterwards.)                                           *)
NoMarginLeak ==
  ~env.reconciling =>
    \A o \in Orders : Quiet(o) /\ is_terminal(reg.fsm[o]) => o \notin reserved

(* Margin is not given back early: while the order is live at the exchange *)
(* and nothing of it is booked, a cancel that is still under way, a        *)
(* reconciliation or any other step keeps the reservation.                 *)
MarginHeldWhileWorking ==
  \A o \in Orders \ env.market :
    /\ Orderly
    /\ ex[o].status = "live"
    /\ booked[o] = 0
    /\ reg.fsm[o] \in {"PendingAck", "Open", "CancelPending"}
    => o \in reserved

(* Idempotent processing of partial and full fills: the portfolio never    *)
(* holds more of an order than the exchange has executed.                  *)
BookedWithinExchange(o) == booked[o] <= ex[o].filled

(* It holds of limit orders, whose fills are reported by both channels but *)
(* never polled, however the watchdog and the reconciliation race them and *)
(* however often a frame is repeated.                                      *)
LimitBookedWithinExchange ==
  Orderly => \A o \in Orders \ env.market : BookedWithinExchange(o)

(* update_order replaces whole records by copies that may be stale, and    *)
(* messages come out of order: the filled quantity of a limit order never  *)
(* goes back, and an exchange id that is known is not lost, so that a      *)
(* cancel that starts later reaches the exchange.  (The record of a market *)
(* order has two writers, the poll and the fill events, and can go back.)  *)
RecordNeverGoesBack ==
  [][\A o \in Orders \ env.market : reg'.fsm[o] # "none" =>
       /\ reg.orders[o].filled <= reg'.orders[o].filled
       /\ reg.orders[o].exch => reg'.orders[o].exch]_vars

Live(o) == ex[o].status = "live"

(* The entry gate of the pipeline: no two entry orders of the symbol are   *)
(* live at the exchange at the same time, whatever is under way when the   *)
(* second entry is decided.  It takes more than the gate: cancels are      *)
(* answered, no reconciliation job ends an order that is still being sent, *)
(* which it takes for one that the exchange does not have (then two        *)
(* entries can be live), and the entries are limit orders, since a market  *)
(* order counts as filled with the first quantity that is polled.          *)
AtMostOneEntryLive ==
  Orderly /\ ~env.reconciling /\ env.market = {} =>
    \A o, p \in Orders : Live(o) /\ Live(p) => o = p

(* Every order that is sent settles: its state machine does not stay in    *)
(* PendingAck, Open, PartiallyFilled or CancelPending, since the watchdog  *)
(* cancels it and every outcome of a cancel leaves these states.           *)
OrderSettles ==
  \A o \in Orders : is_active(reg.fsm[o]) ~> ~is_active(reg.fsm[o])

-----------------------------------------------------------------------------
(* A statement of the repository that the code does not meet.              *)

(* fill_processor.hpp:6: fills are processed idempotently, market orders   *)
(* included, which are confirmed by REST as well as by fill events.        *)
BookedNeverExceedsExchange == \A o \in Orders : BookedWithinExchange(o)
=============================================================================
